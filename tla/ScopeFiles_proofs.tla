-------------------------- MODULE ScopeFiles_proofs --------------------------
(***************************************************************************)
(* Proofs about the files of scopes, for any sets of sessions, names and   *)
(* archives and all bounds, with every window closed.                      *)
(*                                                                         *)
(* The invariant has two halves.  NamesInv says which directory, timer,    *)
(* write and record a name has, await by await of every operation; from it *)
(* DiskIsMemory follows.  LogsInv, which needs the first, says what every  *)
(* log reads as and what every archive holds; from it NothingLost and      *)
(* ArchivedWhole follow.                                                   *)
(***************************************************************************)
EXTENDS ScopeFiles, SequenceTheorems, FiniteSetTheorems, TLAPS

-----------------------------------------------------------------------------
(* The invariant, first half: names, timers, writes and records.             *)

LiveRec  == [name : Name \cup {"none"}, busy : BOOLEAN, seq : Records, flushed : Records]
FlushRec == [on : BOOLEAN, name : Name, from : Records, upTo : Records]
DirRec   == [there : BOOLEAN, scope : BOOLEAN, saved : Saved, log : [Session -> Log]]
FileRec  == [data : BOOLEAN, meta : BOOLEAN, kind : {"scope", "session"}, name : Name,
             saved : SUBSET Session, log : [Session -> Log]]
MoveRec  == [kind : {"idle", "delete", "rename"},
             at : {"idle", "teardown", "stopped", "removing", "branches"},
             from : Name, to : Name]
OpRec    == [kind : {"idle", "scope", "session", "restore", "return", "delete"},
             at : {"idle", "teardown", "flush", "flushing", "pack", "packed", "committed",
                   "retired", "dropped", "unpacked", "moved", "copy", "written", "returned",
                   "emptied"},
             name : Name, who : SUBSET Session, id : Id \cup {CHOOSE i \in Id : TRUE}]

Typed ==
  /\ live \in [Session -> LiveRec]
  /\ flush \in [Session -> FlushRec]
  /\ erase \subseteq Session \X Name
  /\ timers \subseteq Name
  /\ writes \in [Name -> Seq(Saved)]
  /\ disk \in [Name -> DirRec]
  /\ archive \in [Id -> FileRec]
  /\ scope \in MoveRec
  /\ op \in OpRec
  /\ fate \in [Session -> {"kept", "deleted"}]
  /\ spent \in [ops : 0..MaxOps, troubles : 0..MaxTroubles]

(* Which awaits each operation has.                                          *)
OpStage ==
  /\ op.kind = "idle" => op.at = "idle"
  /\ op.kind = "scope" => op.at \in {"teardown", "flush", "flushing", "pack", "packed",
                                     "committed", "retired"}
  /\ op.kind = "session" => op.at \in {"teardown", "flush", "flushing", "pack", "packed",
                                       "committed", "dropped"}
  /\ op.kind = "restore" => op.at \in {"unpacked", "moved", "returned", "emptied"}
  /\ op.kind = "return" => op.at \in {"flush", "flushing", "copy", "written", "returned",
                                      "emptied"}
  /\ op.kind = "delete" => op.at \in {"returned", "emptied"}
  /\ op.kind # "idle" => op.id \in Id
MoveStage ==
  /\ scope.kind = "idle" => scope.at = "idle"
  /\ scope.kind = "delete" => scope.at \in {"teardown", "stopped", "removing"}
  /\ scope.kind = "rename" => scope.at \in {"teardown", "stopped", "branches"}
                              /\ scope.from # scope.to

(* A directory on its way: a rename and an archive take it before memory     *)
(* follows.                                                                  *)
Between(n) == scope.at = "branches" /\ n = scope.from
Retired(n) == op.at = "retired" /\ n = op.name

(* Whatever names a scope has its directory.                                 *)
RootedAt(n) ==
  /\ disk[n].there = disk[n].scope
  /\ ~disk[n].scope => disk[n].saved = Nothing
  /\ n \in timers => disk[n].scope \/ Between(n)
  /\ writes[n] # <<>> => disk[n].scope
  /\ \A s \in Session :
       /\ live[s].name = n => disk[n].scope \/ Between(n) \/ Retired(n)
       /\ flush[s].on /\ flush[s].name = n => disk[n].scope
Rooted == \A n \in Name : RootedAt(n)

(* What a delete and a rename rely on, await by await.                       *)
Moving ==
  /\ scope.at \in {"teardown", "stopped", "removing"} => disk[scope.from].scope
  /\ scope.kind = "rename" /\ scope.at \in {"teardown", "stopped"} => ~disk[scope.to].scope
  /\ scope.at = "removing" => SessionsFor(scope.from) = {} /\ scope.from \notin timers
  /\ scope.at = "branches" =>
       /\ ~disk[scope.from].scope /\ disk[scope.to].scope
       /\ writes[scope.to] = <<>> /\ scope.to \notin timers
       /\ SessionsFor(scope.to) = {}

(* An archive operation and a delete or a rename have no name in common.     *)
Apart ==
  op.kind \notin {"idle", "delete"} /\ scope.kind # "idle"
    => op.name # scope.from /\ (scope.kind = "rename" => op.name # scope.to)

(* What an archive operation relies on, await by await.                      *)
Archiving ==
  /\ op.kind \in {"scope", "session", "return"} =>
       /\ op.at # "retired" => disk[op.name].scope
       /\ \A s \in SessionsFor(op.name) : ~live[s].busy
  /\ op.kind = "scope" /\ op.at \notin {"teardown", "flush"} => op.name \notin timers
  /\ op.at \in {"pack", "packed", "committed"} /\ op.kind = "scope" => writes[op.name] = <<>>
  /\ op.at = "flushing" /\ op.kind # "scope" /\ SessionsFor(op.name) = {}
       => op.name \notin timers /\ writes[op.name] = <<>>
  /\ op.at \in {"retired", "unpacked"} => ~disk[op.name].scope
  /\ op.kind = "session" /\ op.at # "dropped" => op.who \subseteq SessionsFor(op.name)
  /\ op.kind \in {"restore", "return"} /\ op.at \notin {"returned", "emptied"}
       => \A s \in op.who : live[s].name = "none"
  /\ op.at = "moved" =>
       /\ disk[op.name].scope /\ op.name \notin timers /\ writes[op.name] = <<>>
       /\ SessionsFor(op.name) = {}

(* What a sessions.json will say once all writes have landed.                *)
Final(n) == IF writes[n] = <<>> THEN disk[n].saved ELSE writes[n][Len(writes[n])]

(* The records of memory, and those of a session that is coming back.        *)
Due(n) ==
  IF op.at \in {"moved", "written"} /\ n = op.name
  THEN [s \in Session |-> IF s \in op.who THEN n ELSE RecordsFor(live, n)[s]]
  ELSE RecordsFor(live, n)

(* A sessions.json is behind only while its timer is set, or while its       *)
(* directory is moved or removed.                                            *)
Behind(n) ==
  \/ n \in timers /\ ~(n = op.name /\ op.at \in {"flushing", "copy", "written"})
  \/ scope.at = "branches" /\ n \in {scope.from, scope.to}
  \/ scope.at = "removing" /\ n = scope.from
  \/ Retired(n)
Told(n) ==
  /\ ~Behind(n) => Final(n) = Due(n)
  /\ op.at = "copy" /\ n = op.name =>
       /\ disk[n].saved = RecordsFor(live, n)
       /\ \A i \in DOMAIN writes[n] : writes[n][i] = RecordsFor(live, n)
Current == \A n \in Name : Told(n)

(* Only a session in memory works.                                           *)
Working == \A s \in Session : live[s].busy => live[s].name # "none"

(* A flush has something to append, where its session is or was deleted; one *)
(* that comes back from an archive has none.                                 *)
Flushing ==
  \A s \in Session :
    /\ flush[s].on => /\ flush[s].from < flush[s].upTo
                      /\ flush[s].name = live[s].name \/ live[s].name = "none"
    /\ op.at \in {"moved", "written"} /\ s \in op.who => ~flush[s].on

(* What waits to be written.                                                 *)
Lengths ==
  \A n \in Name :
    Len(writes[n]) <= (IF n = op.name /\ op.at \in {"flushing", "dropped", "written"}
                       THEN 3 ELSE 2)

NamesInv == /\ Typed /\ OpStage /\ MoveStage /\ Rooted /\ Moving /\ Apart /\ Archiving
            /\ Working /\ Current /\ Flushing /\ Lengths
-----------------------------------------------------------------------------
(* Types.                                                                    *)

LEMMA NothingType == Nothing \in Saved /\ NoLogs \in [Session -> Log]
BY EmptySeq DEF Nothing, NoLogs, Saved, Log

LEMMA NoDirType == NoDir \in DirRec
BY NothingType DEF NoDir, DirRec

LEMMA NoFileType == NoFile \in FileRec
BY NothingType, FilesAssumption DEF NoFile, FileRec

LEMMA NoFlushType == NoFlush \in FlushRec
BY FilesAssumption DEF NoFlush, FlushRec, Records

LEMMA NoMoveType == NoMove \in MoveRec
BY FilesAssumption DEF NoMove, MoveRec

LEMMA RecordsForType ==
  ASSUME NEW l \in [Session -> LiveRec], NEW n \in Name
  PROVE  RecordsFor(l, n) \in Saved
BY DEF RecordsFor, Saved

LEMMA ReadLogType ==
  ASSUME NEW log \in Log
  PROVE  /\ ReadLog(log) \subseteq 1..MaxRecords
         /\ Cardinality(ReadLog(log)) \in Records
<1>1. \A i \in DOMAIN log : log[i] \in 1..MaxRecords
  BY ElementOfSeq, LenProperties DEF Log
<1>2. ReadLog(log) \subseteq 1..MaxRecords
  BY <1>1 DEF ReadLog
<1>3. IsFiniteSet(1..MaxRecords) /\ Cardinality(1..MaxRecords) = MaxRecords
  BY FS_Interval, FilesAssumption
<1>4. /\ IsFiniteSet(ReadLog(log))
      /\ Cardinality(ReadLog(log)) <= MaxRecords
  BY <1>2, <1>3, FS_Subset
<1>5. Cardinality(ReadLog(log)) \in Nat
  BY <1>4, FS_CardinalityType
<1> QED BY <1>2, <1>4, <1>5, FilesAssumption DEF Records

LEMMA BatchType ==
  ASSUME NEW f \in FlushRec, f.from < f.upTo
  PROVE  /\ Batch(f) \in Log /\ Len(Batch(f)) = f.upTo - f.from
         /\ \A i \in 1..(f.upTo - f.from) : Batch(f)[i] = f.from + i
<1>1. /\ f.from \in Nat /\ f.upTo \in Nat /\ f.upTo <= MaxRecords /\ MaxRecords \in Nat
  BY FilesAssumption DEF FlushRec, Records
<1> DEFINE k == f.upTo - f.from
<1>2. k \in Nat
  BY <1>1
<1>3. \A i \in 1..k : f.from + i \in 1..MaxRecords
  BY <1>1
<1>4. Batch(f) \in [1..k -> 1..MaxRecords]
  BY <1>3 DEF Batch
<1>5. Batch(f) \in Log
  BY <1>2, <1>4, SeqDef DEF Log
<1>6. Len(Batch(f)) = k
  BY <1>2, <1>4, LenProperties, <1>5 DEF Log
<1> QED BY <1>5, <1>6 DEF Batch

LEMMA RestoredType ==
  ASSUME NEW s \in Session, NEW n \in Name, disk \in [Name -> DirRec]
  PROVE  /\ Restored(s, n) \in LiveRec
         /\ Restored(s, n).name = n /\ ~Restored(s, n).busy
<1>1. disk[n].log[s] \in Log
  BY DEF DirRec
<1> QED BY <1>1, ReadLogType DEF Restored, LiveRec

LEMMA FlushOfType ==
  ASSUME NEW l \in [Session -> LiveRec], NEW f \in FlushRec, NEW s \in Session
  PROVE  FlushOf(l, f, s) \in FlushRec
<1>1. l[s] \in LiveRec
  OBVIOUS
<1> QED BY <1>1 DEF FlushOf, LiveRec, FlushRec

LEMMA FlushAllType ==
  ASSUME NEW l \in [Session -> LiveRec], flush \in [Session -> FlushRec], NEW n \in Name
  PROVE  FlushAll(l, n) \in [Session -> FlushRec]
BY FlushOfType DEF FlushAll

LEMMA DropType ==
  ASSUME live \in [Session -> LiveRec], timers \subseteq Name, NEW n \in Name,
         DropTaskSessions(n)
  PROVE  /\ live' \in [Session -> LiveRec] /\ timers' = timers \ {n}
         /\ \A s \in Session : /\ live'[s].name = IF live[s].name = n THEN "none"
                                                  ELSE live[s].name
                               /\ live'[s].busy => live[s].busy
                               /\ live'[s].seq = live[s].seq
                               /\ live'[s].flushed = live[s].flushed
<1>1. ASSUME NEW s \in Session
      PROVE  LET b == IF live[s].name # n THEN live[s]
                      ELSE [live[s] EXCEPT !.name = "none", !.busy = FALSE]
             IN  /\ b \in LiveRec
                 /\ b.name = IF live[s].name = n THEN "none" ELSE live[s].name
                 /\ b.busy => live[s].busy
                 /\ b.seq = live[s].seq /\ b.flushed = live[s].flushed
  <2>1. live[s] \in LiveRec
    OBVIOUS
  <2> QED BY <2>1 DEF LiveRec
<1> QED BY <1>1 DEF DropTaskSessions

LEMMA SettledType ==
  ASSUME live \in [Session -> LiveRec], flush \in [Session -> FlushRec],
         NEW s \in Session, NEW k \in Records, Settled(s, k)
  PROVE  /\ live' \in [Session -> LiveRec]
         /\ \A t \in Session : /\ live'[t].name = live[t].name
                               /\ live'[t].busy = live[t].busy
                               /\ live'[t].seq = live[t].seq
                               /\ t # s => live'[t] = live[t]
                               /\ live'[t].flushed =
                                    IF t = s /\ live[t].name # "none" THEN k
                                    ELSE live[t].flushed
         /\ flush' \in [Session -> FlushRec]
         /\ \A t \in Session : t # s => flush'[t] = flush[t]
         /\ flush'[s] = IF live[s].seq > flush[s].upTo THEN FlushOf(live', NoFlush, s)
                        ELSE NoFlush
<1> DEFINE b == [live[s] EXCEPT !.flushed = k]
           l == IF live[s].name = "none" THEN live ELSE [live EXCEPT ![s] = b]
<1>1. live' = l /\ flush' = [flush EXCEPT ![s] = IF l[s].seq > flush[s].upTo
                                THEN FlushOf(l, NoFlush, s) ELSE NoFlush]
  BY DEF Settled
<1>2. live[s] \in LiveRec
  OBVIOUS
<1>3. /\ b \in LiveRec /\ b.name = live[s].name /\ b.busy = live[s].busy
      /\ b.seq = live[s].seq /\ b.flushed = k
  BY <1>2 DEF LiveRec
<1> HIDE DEF b
<1>4. l \in [Session -> LiveRec] /\ l[s].seq = live[s].seq
  BY <1>3
<1>5. FlushOf(l, NoFlush, s) \in FlushRec
  BY <1>4, FlushOfType, NoFlushType
<1>6. \A t \in Session : /\ l[t].name = live[t].name
                         /\ l[t].busy = live[t].busy
                         /\ l[t].seq = live[t].seq
                         /\ t # s => l[t] = live[t]
                         /\ l[t].flushed = IF t = s /\ live[t].name # "none" THEN k
                                           ELSE live[t].flushed
  BY <1>3
<1> HIDE DEF l
<1>7. flush' \in [Session -> FlushRec]
  BY <1>1, <1>5, NoFlushType
<1> QED BY <1>1, <1>4, <1>6, <1>7

LEMMA AppendType ==
  ASSUME writes \in [Name -> Seq(Saved)], NEW n \in Name, NEW r \in Saved
  PROVE  LET w == [writes EXCEPT ![n] = Append(@, r)]
         IN  /\ w \in [Name -> Seq(Saved)]
             /\ w[n] = Append(writes[n], r) /\ w[n] # <<>>
             /\ w[n][Len(w[n])] = r /\ Len(w[n]) = Len(writes[n]) + 1
             /\ \A i \in DOMAIN w[n] : i \notin DOMAIN writes[n] => w[n][i] = r
             /\ \A i \in DOMAIN writes[n] : w[n][i] = writes[n][i]
             /\ \A m \in Name : m # n => w[m] = writes[m]
<1>1. writes[n] \in Seq(Saved)
  OBVIOUS
<1> QED BY <1>1, AppendProperties, LenProperties

LEMMA TailType ==
  ASSUME writes \in [Name -> Seq(Saved)], NEW n \in Name, writes[n] # <<>>
  PROVE  LET w == [writes EXCEPT ![n] = Tail(@)]
         IN  /\ w \in [Name -> Seq(Saved)]
             /\ Head(writes[n]) \in Saved /\ Head(writes[n]) = writes[n][1]
             /\ Len(w[n]) = Len(writes[n]) - 1
             /\ Len(writes[n]) \in Nat \ {0}
             /\ w[n] = <<>> <=> Len(writes[n]) = 1
             /\ w[n] # <<>> => w[n][Len(w[n])] = writes[n][Len(writes[n])]
             /\ \A i \in DOMAIN w[n] : i + 1 \in DOMAIN writes[n] /\ w[n][i] = writes[n][i + 1]
             /\ \A m \in Name : m # n => w[m] = writes[m]
<1>1. writes[n] \in Seq(Saved)
  OBVIOUS
<1>2. /\ Head(writes[n]) \in Saved /\ Tail(writes[n]) \in Seq(Saved)
      /\ Len(Tail(writes[n])) = Len(writes[n]) - 1
      /\ \A i \in 1..Len(Tail(writes[n])) : Tail(writes[n])[i] = writes[n][i + 1]
  BY <1>1, HeadTailProperties
<1>3. Len(writes[n]) \in Nat \ {0} /\ Head(writes[n]) = writes[n][1]
  BY <1>1, EmptySeq, LenProperties, HeadTailProperties
<1>4. /\ DOMAIN Tail(writes[n]) = 1..Len(Tail(writes[n]))
      /\ DOMAIN writes[n] = 1..Len(writes[n])
  BY <1>1, <1>2, LenProperties
<1>5. Tail(writes[n]) = <<>> <=> Len(Tail(writes[n])) = 0
  BY <1>2, EmptySeq
<1>6. Len(writes[n]) # 1 => /\ Len(Tail(writes[n])) \in 1..Len(Tail(writes[n]))
                            /\ Len(Tail(writes[n])) + 1 = Len(writes[n])
  BY <1>2, <1>3
<1> DEFINE w == [writes EXCEPT ![n] = Tail(@)]
<1>7. w[n] = Tail(writes[n])
  OBVIOUS
<1>8. w \in [Name -> Seq(Saved)]
  BY <1>1, <1>2
<1>9. \A m \in Name : m # n => w[m] = writes[m]
  OBVIOUS
<1> HIDE DEF w
<1>10. \A i \in DOMAIN w[n] : i + 1 \in DOMAIN writes[n] /\ w[n][i] = writes[n][i + 1]
  BY <1>2, <1>3, <1>4, <1>7
<1>11. w[n] # <<>> => w[n][Len(w[n])] = writes[n][Len(writes[n])]
  BY <1>2, <1>3, <1>5, <1>6, <1>7
<1>12. Len(w[n]) = Len(writes[n]) - 1 /\ (w[n] = <<>> <=> Len(writes[n]) = 1)
  BY <1>2, <1>3, <1>5, <1>7
<1> QED BY <1>2, <1>3, <1>8, <1>9, <1>10, <1>11, <1>12 DEF w

LEMMA GoingType ==
  ASSUME writes \in [Name -> Seq(Saved)], NEW n \in Name, Windows = {}, Going(n)
  PROVE  /\ writes' \in [Name -> Seq(Saved)] /\ writes'[n] = <<>> /\ Drained(n)
         /\ \A m \in Name : m # n => writes'[m] = writes[m]
<1>1. CASE writes[n] = <<>>
  BY <1>1 DEF Going
<1>2. CASE writes[n] # <<>>
  <2>1. writes' = [writes EXCEPT ![n] = Tail(@)]
    BY <1>2 DEF Going
  <2>2. Len(writes[n]) <= 1
    BY DEF Going
  <2> QED BY <2>1, <2>2, <1>2, TailType DEF Going
<1> QED BY <1>1, <1>2

(* A directory with other contents.                                          *)
LEMMA DirType ==
  ASSUME disk \in [Name -> DirRec], NEW n \in Name, NEW d \in DirRec
  PROVE  LET e == [disk EXCEPT ![n] = d]
         IN  /\ e \in [Name -> DirRec] /\ e[n] = d
             /\ \A m \in Name : m # n => e[m] = disk[m]
OBVIOUS

LEMMA LogType ==
  ASSUME NEW d \in DirRec, NEW s \in Session, NEW log \in Log
  PROVE  LET e == [d EXCEPT !.there = TRUE, !.log[s] = log]
         IN  /\ e \in DirRec /\ e.there /\ e.scope = d.scope /\ e.saved = d.saved
             /\ e.log[s] = log /\ \A t \in Session : t # s => e.log[t] = d.log[t]
BY DEF DirRec

LEMMA BoundType ==
  ASSUME spent \in [ops : 0..MaxOps, troubles : 0..MaxTroubles], Troubles \/ Spends
  PROVE  spent' \in [ops : 0..MaxOps, troubles : 0..MaxTroubles]
<1>1. CASE Troubles
  <2>1. spent.troubles + 1 \in 0..MaxTroubles
    BY <1>1, FilesAssumption DEF Troubles
  <2> QED BY <1>1, <2>1 DEF Troubles
<1>2. CASE Spends
  <2>1. spent.ops + 1 \in 0..MaxOps
    BY <1>2, FilesAssumption DEF Spends
  <2> QED BY <1>2, <2>1 DEF Spends
<1> QED BY <1>1, <1>2

LEMMA OpType ==
  ASSUME op \in OpRec
  PROVE  /\ \A at \in {"teardown", "flush", "flushing", "pack", "packed", "committed",
                       "retired", "dropped", "unpacked", "moved", "copy", "written",
                       "returned", "emptied"} :
              Op(at) => /\ op' \in OpRec /\ op'.at = at /\ op'.kind = op.kind
                        /\ op'.name = op.name /\ op'.who = op.who /\ op'.id = op.id
         /\ OpEnds => /\ op' \in OpRec /\ op'.at = "idle" /\ op'.kind = "idle"
                      /\ op'.name = op.name /\ op'.who = {} /\ op'.id = op.id
BY DEF OpRec, Op, OpEnds

LEMMA BeginsType ==
  ASSUME NEW kind \in {"scope", "session", "restore", "return", "delete"},
         NEW n \in Name, NEW who \in SUBSET Session, NEW i \in Id,
         NEW at \in {"teardown", "flush", "unpacked", "returned"},
         Begins(kind, n, who, i, at)
  PROVE  /\ op' \in OpRec /\ op'.kind = kind /\ op'.name = n /\ op'.who = who
         /\ op'.id = i /\ op'.at = at /\ op.kind = "idle"
BY DEF OpRec, Begins

LEMMA FlushTaskType ==
  ASSUME NEW l \in [Session -> LiveRec], flush \in [Session -> FlushRec],
         timers \subseteq Name, writes \in [Name -> Seq(Saved)],
         NEW n \in Name, NEW empty, FlushTask(l, n, empty)
  PROVE  /\ flush' \in [Session -> FlushRec]
         /\ timers' = timers \ {n} /\ timers' \subseteq Name
         /\ writes' = [writes EXCEPT ![n] = Append(@, RecordsFor(l, n))] \/ writes' = writes
         /\ writes' \in [Name -> Seq(Saved)]
<1>1. RecordsFor(l, n) \in Saved
  BY RecordsForType
<1>2. writes' = [writes EXCEPT ![n] = Append(@, RecordsFor(l, n))] \/ writes' = writes
  BY DEF FlushTask
<1> QED BY <1>1, <1>2, FlushAllType, AppendType DEF FlushTask

LEMMA BringsBackType ==
  ASSUME live \in [Session -> LiveRec], archive \in [Id -> FileRec], op.id \in Id,
         fate \in [Session -> {"kept", "deleted"}], BringsBack
  PROVE  /\ fate' \in [Session -> {"kept", "deleted"}]
         /\ \A s \in Session : fate'[s] = IF s \in op.who THEN "kept" ELSE fate[s]
         /\ live' \in [Session -> LiveRec]
         /\ \A s \in Session : /\ live'[s].name = live[s].name
                               /\ live'[s].busy = live[s].busy
                               /\ ~(s \in op.who /\ fate[s] = "deleted") => live'[s] = live[s]
                               /\ s \in op.who /\ fate[s] = "deleted" =>
                                    LET k == Cardinality(ReadLog(archive[op.id].log[s]))
                                    IN  live'[s].seq = k /\ live'[s].flushed = k
<1> DEFINE k(s) == Cardinality(ReadLog(archive[op.id].log[s]))
           b(s) == [live[s] EXCEPT !.seq = k(s), !.flushed = k(s)]
<1>1. ASSUME NEW s \in Session PROVE k(s) \in Records
  BY ReadLogType DEF FileRec
<1> HIDE DEF k
<1>2. ASSUME NEW s \in Session
      PROVE  /\ b(s) \in LiveRec /\ b(s).name = live[s].name /\ b(s).busy = live[s].busy
             /\ b(s).seq = k(s) /\ b(s).flushed = k(s)
  <2>1. live[s] \in LiveRec
    OBVIOUS
  <2> QED BY <1>1, <2>1 DEF LiveRec
<1>3. /\ live' = [s \in Session |-> IF s \in op.who /\ fate[s] = "deleted" THEN b(s) ELSE live[s]]
      /\ fate' = [s \in Session |-> IF s \in op.who THEN "kept" ELSE fate[s]]
  BY DEF BringsBack, k
<1> HIDE DEF b
<1> QED BY <1>2, <1>3 DEF k

LEMMA CrashLive ==
  ASSUME Typed, Crash
  PROVE  /\ live' \in [Session -> LiveRec]
         /\ \A s \in Session : IF Homes(s) = {} THEN live'[s].name = "none"
                               ELSE \E n \in Homes(s) :
                                      /\ live'[s].name = disk[n].saved[s]
                                      /\ live'[s].seq = Restored(s, n).seq
                                      /\ live'[s].flushed = Restored(s, n).flushed
         /\ \A s \in Session : ~live'[s].busy
         /\ \A s \in Session : Homes(s) = {} => /\ live'[s].seq = live[s].seq
                                                /\ live'[s].flushed = live[s].flushed
<1>1. PICK from \in [Session -> Name] :
        /\ \A s \in Session : Homes(s) # {} => from[s] \in Homes(s)
        /\ live' = [s \in Session |->
             IF Homes(s) = {} THEN [live[s] EXCEPT !.name = "none", !.busy = FALSE]
             ELSE [Restored(s, from[s]) EXCEPT !.name = disk[from[s]].saved[s]]]
  BY DEF Crash
<1> DEFINE b(s) == IF Homes(s) = {} THEN [live[s] EXCEPT !.name = "none", !.busy = FALSE]
                   ELSE [Restored(s, from[s]) EXCEPT !.name = disk[from[s]].saved[s]]
<1>2. ASSUME NEW s \in Session
      PROVE  /\ b(s) \in LiveRec /\ ~b(s).busy
             /\ Homes(s) = {} => /\ b(s).name = "none" /\ b(s).seq = live[s].seq
                                 /\ b(s).flushed = live[s].flushed
             /\ Homes(s) # {} => /\ b(s).name = disk[from[s]].saved[s]
                                 /\ b(s).seq = Restored(s, from[s]).seq
                                 /\ b(s).flushed = Restored(s, from[s]).flushed
  <2>1. live[s] \in LiveRec
    BY DEF Typed
  <2>2. disk[from[s]].saved[s] \in Name \cup {"none"}
    BY DEF Typed, DirRec, Saved
  <2>3. Restored(s, from[s]) \in LiveRec /\ ~Restored(s, from[s]).busy
    BY RestoredType DEF Typed
  <2>4. CASE Homes(s) = {}
    BY <2>1, <2>4 DEF LiveRec
  <2>5. CASE Homes(s) # {}
    BY <2>2, <2>3, <2>5 DEF LiveRec
  <2> QED BY <2>4, <2>5
<1>3. live' = [s \in Session |-> b(s)]
  BY <1>1
<1> HIDE DEF b
<1>4. live' \in [Session -> LiveRec]
  BY <1>2, <1>3
<1> QED BY <1>1, <1>2, <1>3, <1>4, ZenonT(40)

LEMMA TypedInit == Init => Typed
<1> SUFFICES ASSUME Init PROVE Typed
  OBVIOUS
<1>1. live \in [Session -> LiveRec]
  BY FilesAssumption DEF Init, LiveRec, Records
<1>2. flush \in [Session -> FlushRec]
  BY NoFlushType DEF Init
<1>3. writes \in [Name -> Seq(Saved)]
  BY EmptySeq DEF Init
<1>4. disk \in [Name -> DirRec]
  <2>1. [NoDir EXCEPT !.there = TRUE, !.scope = TRUE, !.saved = [s \in Session |-> Home]] \in DirRec
    BY NoDirType, FilesAssumption DEF DirRec, Saved
  <2> QED BY <2>1, NoDirType DEF Init
<1>5. archive \in [Id -> FileRec] /\ scope \in MoveRec
  BY NoFileType, NoMoveType DEF Init
<1>6. op \in OpRec
  BY FilesAssumption DEF Init, OpRec
<1>7. spent \in [ops : 0..MaxOps, troubles : 0..MaxTroubles]
  BY FilesAssumption DEF Init
<1> QED BY <1>1, <1>2, <1>3, <1>4, <1>5, <1>6, <1>7 DEF Init, Typed

LEMMA TypedNext ==
  ASSUME Typed, OpStage, Working, Flushing, Windows = {}, Next
  PROVE  Typed'
<1> USE DEF Typed
<1>1. ASSUME NEW s \in Session, Prompt(s) PROVE Typed'
  <2> DEFINE n == live[s].name
  <2>1. n \in Name /\ live[s] \in LiveRec
    BY <1>1 DEF Prompt, LiveRec
  <2>2. live' \in [Session -> LiveRec]
    <3>1. [live[s] EXCEPT !.busy = TRUE] \in LiveRec
      BY <2>1 DEF LiveRec
    <3> QED BY <1>1, <3>1 DEF Prompt
  <2>3. writes' \in [Name -> Seq(Saved)]
    <3>1. RecordsFor(live, n) \in Saved
      BY <2>1, RecordsForType
    <3>2. writes' = [writes EXCEPT ![n] = Append(@, RecordsFor(live, n))]
      BY <1>1 DEF Prompt
    <3> HIDE DEF n
    <3> QED BY <2>1, <3>1, <3>2, AppendType
  <2> QED BY <1>1, <2>2, <2>3 DEF Prompt
<1>2. ASSUME NEW s \in Session, Record(s) PROVE Typed'
  <2>1. live[s] \in LiveRec
    OBVIOUS
  <2>2. live' \in [Session -> LiveRec]
    <3>1. live[s].seq + 1 \in Records
      BY <2>1, <1>2, FilesAssumption DEF Record, LiveRec, Records
    <3>2. [live[s] EXCEPT !.seq = @ + 1] \in LiveRec
      BY <2>1, <3>1 DEF LiveRec
    <3> QED BY <1>2, <3>2 DEF Record
  <2>3. timers' \subseteq Name
    BY <1>2, <2>1 DEF Record, LiveRec
  <2> QED BY <1>2, <2>2, <2>3 DEF Record
<1>3. ASSUME NEW s \in Session, TurnEnds(s) PROVE Typed'
  <2>1. live[s] \in LiveRec
    OBVIOUS
  <2>2. live' \in [Session -> LiveRec]
    <3>1. [live[s] EXCEPT !.busy = FALSE] \in LiveRec
      BY <2>1 DEF LiveRec
    <3> QED BY <1>3, <3>1 DEF TurnEnds
  <2>3. timers' \subseteq Name
    BY <1>3, <2>1 DEF TurnEnds, LiveRec, Working
  <2> QED BY <1>3, <2>2, <2>3 DEF TurnEnds
<1>4. ASSUME NEW n \in Name, StatusChanges(n) PROVE Typed'
  BY <1>4 DEF StatusChanges
<1>5. ASSUME NEW s \in Session, DeleteSession(s) PROVE Typed'
  <2>1. live[s] \in LiveRec /\ live[s].name \in Name
    BY <1>5 DEF DeleteSession, LiveRec
  <2>2. live' \in [Session -> LiveRec]
    <3>1. [live[s] EXCEPT !.name = "none", !.busy = FALSE] \in LiveRec
      BY <2>1 DEF LiveRec
    <3> QED BY <1>5, <3>1 DEF DeleteSession
  <2> QED BY <1>5, <2>1, <2>2 DEF DeleteSession
<1>6. ASSUME NEW n \in Name, TimerFires(n) PROVE Typed'
  BY <1>6, AppendType, RecordsForType, FlushAllType DEF TimerFires
<1>7. ASSUME NEW n \in Name, WriteLands(n) PROVE Typed'
  <2>1. Head(writes[n]) \in Saved /\ writes' \in [Name -> Seq(Saved)]
    BY <1>7, TailType DEF WriteLands
  <2> DEFINE d == [disk[n] EXCEPT !.there = TRUE, !.saved = Head(writes[n])]
  <2>2. d \in DirRec
    BY <2>1, ZenonT(40) DEF DirRec
  <2>3. disk' = [disk EXCEPT ![n] = d]
    BY <1>7 DEF WriteLands, DirRec
  <2> HIDE DEF d
  <2> QED BY <1>7, <2>1, <2>2, <2>3, ZenonT(40) DEF WriteLands
<1>8. ASSUME NEW s \in Session, AppendLands(s) PROVE Typed'
  <2> DEFINE n == flush[s].name
             log == disk[n].log[s] \o Batch(flush[s])
             d == [disk[n] EXCEPT !.there = TRUE, !.log[s] = log]
  <2>1. n \in Name /\ flush[s] \in FlushRec /\ flush[s].from < flush[s].upTo
    BY <1>8 DEF AppendLands, Flushing, FlushRec
  <2>2. disk[n].log[s] \in Log /\ Batch(flush[s]) \in Log
    BY <2>1, BatchType DEF DirRec
  <2>3. log \in Log
    BY <2>2, ConcatProperties DEF Log
  <2>4. disk' = [disk EXCEPT ![n] = d]
    BY <1>8, <2>1, ZenonT(40) DEF AppendLands, DirRec
  <2> HIDE DEF log
  <2>5. d \in DirRec
    BY <2>1, <2>3, LogType
  <2> HIDE DEF d
  <2>6. disk' \in [Name -> DirRec]
    BY <2>1, <2>4, <2>5
  <2>7. live' \in [Session -> LiveRec] /\ flush' \in [Session -> FlushRec]
    <3>1. flush[s].upTo \in Records
      BY <2>1 DEF FlushRec
    <3> QED BY <3>1, <1>8, SettledType DEF AppendLands
  <2> QED BY <1>8, <2>6, <2>7 DEF AppendLands
<1>9. ASSUME NEW s \in Session, AppendFails(s) PROVE Typed'
  <2> DEFINE n == flush[s].name
  <2>1. n \in Name /\ flush[s] \in FlushRec /\ flush[s].from < flush[s].upTo
    BY <1>9 DEF AppendFails, Flushing, FlushRec
  <2>2. PICK k \in 0..(flush[s].upTo - flush[s].from - 1) :
          disk' = [disk EXCEPT ![n].there = TRUE,
                               ![n].log[s] = @ \o SubSeq(Batch(flush[s]), 1, k)]
    BY <1>9 DEF AppendFails
  <2> DEFINE log == disk[n].log[s] \o SubSeq(Batch(flush[s]), 1, k)
             d == [disk[n] EXCEPT !.there = TRUE, !.log[s] = log]
  <2>3. disk[n].log[s] \in Log /\ SubSeq(Batch(flush[s]), 1, k) \in Log
    <3>1. flush[s].from \in Nat /\ flush[s].upTo \in Nat
      BY <2>1, FilesAssumption DEF FlushRec, Records
    <3>2. Batch(flush[s]) \in Seq(1..MaxRecords) /\ Len(Batch(flush[s])) = flush[s].upTo - flush[s].from
      BY <2>1, BatchType DEF Log
    <3>3. k \in Nat /\ k <= Len(Batch(flush[s]))
      BY <3>1, <3>2
    <3> HIDE DEF n
    <3>4. SubSeq(Batch(flush[s]), 1, k) \in Seq(1..MaxRecords)
      <4>1. \A i \in 1..k : i \in 1..Len(Batch(flush[s]))
        BY <3>2, <3>3
      <4>2. \A i \in 1..k : Batch(flush[s])[i] \in 1..MaxRecords
        BY <3>2, <4>1, ElementOfSeq
      <4> QED BY <3>3, <4>2, SubSeqProperties
    <3> QED BY <2>1, <3>4 DEF DirRec, Log
  <2>4. log \in Log
    BY <2>3, ConcatProperties DEF Log
  <2>5. disk' = [disk EXCEPT ![n] = d]
    BY <2>1, <2>2, ZenonT(40) DEF DirRec
  <2> HIDE DEF log
  <2>6. d \in DirRec
    BY <2>1, <2>4, LogType
  <2> HIDE DEF d
  <2>7. disk' \in [Name -> DirRec]
    BY <2>1, <2>5, <2>6
  <2>8. live' \in [Session -> LiveRec] /\ flush' \in [Session -> FlushRec]
    <3>1. live[s].flushed \in Records
      BY DEF LiveRec
    <3> QED BY <3>1, <1>9, SettledType DEF AppendFails
  <2> QED BY <1>9, <2>7, <2>8, BoundType DEF AppendFails
<1>10. ASSUME NEW s \in Session, NEW n \in Name, EraseLog(s, n) PROVE Typed'
  <2> DEFINE d == [disk[n] EXCEPT !.log[s] = <<>>]
  <2>1. d \in DirRec
    <3>1. <<>> \in Log
      BY EmptySeq DEF Log
    <3> QED BY <3>1 DEF DirRec
  <2>2. disk' = [disk EXCEPT ![n] = d]
    BY <1>10 DEF EraseLog, DirRec
  <2> HIDE DEF d
  <2>3. disk' \in [Name -> DirRec]
    BY <2>1, <2>2
  <2>4. erase' \subseteq Session \X Name
    BY <1>10 DEF EraseLog
  <2> QED BY <1>10, <2>3, <2>4 DEF EraseLog
<1>11. ASSUME NEW n \in Name, CreateTask(n) PROVE Typed'
  <2> DEFINE d == [disk[n] EXCEPT !.there = TRUE, !.scope = TRUE]
  <2>1. d \in DirRec
    BY DEF DirRec
  <2>2. disk' = [disk EXCEPT ![n] = d]
    BY <1>11 DEF CreateTask, DirRec
  <2> HIDE DEF d
  <2> QED BY <1>11, <2>1, <2>2, BoundType DEF CreateTask
<1>12. ASSUME NEW n \in Name, NEW m \in Name, DeleteTask(n) \/ RenameTask(n, m) PROVE Typed'
  <2>1. scope' \in MoveRec
    BY <1>12 DEF DeleteTask, RenameTask, MoveRec
  <2> QED BY <1>12, <2>1, BoundType DEF DeleteTask, RenameTask
<1>13. CASE ScopeStops
  <2>1. scope' \in MoveRec /\ timers' \subseteq Name
    BY <1>13 DEF ScopeStops, MoveRec
  <2> QED BY <1>13, <2>1 DEF ScopeStops
<1>14. CASE DeleteDrops
  <2>1. scope' \in MoveRec /\ scope.from \in Name
    BY <1>14 DEF DeleteDrops, MoveRec
  <2>2. live' \in [Session -> LiveRec] /\ timers' \subseteq Name
    BY <1>14, <2>1, DropType DEF DeleteDrops
  <2> QED BY <1>14, <2>1, <2>2 DEF DeleteDrops
<1>15. CASE DeleteRemoves
  <2>1. scope.from \in Name
    BY DEF MoveRec
  <2> QED BY <1>15, <2>1, GoingType, NoDirType, NoMoveType DEF DeleteRemoves
<1>16. CASE RenameMoves
  <2>1. scope.from \in Name /\ scope.to \in Name /\ scope' \in MoveRec
    <3>1. [scope EXCEPT !.at = "branches"] \in MoveRec
      BY DEF MoveRec
    <3>2. scope' = NoMove \/ scope' = [scope EXCEPT !.at = "branches"]
      BY <1>16 DEF RenameMoves
    <3>3. scope.from \in Name /\ scope.to \in Name
      BY DEF MoveRec
    <3> QED BY <3>1, <3>2, <3>3, NoMoveType
  <2>2. disk' \in [Name -> DirRec]
    BY <1>16, <2>1, NoDirType DEF RenameMoves
  <2>3. writes' \in [Name -> Seq(Saved)]
    BY <1>16, <2>1, GoingType DEF RenameMoves
  <2> QED BY <1>16, <2>1, <2>2, <2>3 DEF RenameMoves
<1>17. CASE RenameEnds
  <2> DEFINE n == scope.from  m == scope.to
             l == [s \in Session |-> IF live[s].name = n THEN [live[s] EXCEPT !.name = m] ELSE live[s]]
  <2>1. n \in Name /\ m \in Name
    BY DEF MoveRec
  <2>2. l \in [Session -> LiveRec]
    BY <2>1, ZenonT(40) DEF LiveRec
  <2>3. /\ live' = l /\ timers' = timers \ {n} /\ scope' = NoMove
        /\ writes' = [writes EXCEPT ![m] = Append(@, RecordsFor(l, m))]
        /\ UNCHANGED <<flush, erase, disk, archive, op, fate, spent>>
    BY <1>17 DEF RenameEnds
  <2> HIDE DEF l
  <2>4. writes' \in [Name -> Seq(Saved)]
    BY <2>1, <2>2, <2>3, RecordsForType, AppendType
  <2> QED BY <2>2, <2>3, <2>4, NoMoveType
<1>18. ASSUME NEW n \in Name, NEW i \in Id, ArchiveScope(n, i) PROVE Typed'
  <2>1. op' \in OpRec
    BY <1>18, BeginsType DEF ArchiveScope
  <2> QED BY <1>18, <2>1, BoundType DEF ArchiveScope, Begins
<1>19. ASSUME NEW s \in Session, NEW i \in Id, ArchiveSession(s, i) PROVE Typed'
  <2>1. live[s].name \in Name
    BY <1>19 DEF ArchiveSession, LiveRec
  <2>2. op' \in OpRec
    BY <1>19, <2>1, BeginsType DEF ArchiveSession
  <2> QED BY <1>19, <2>2, BoundType DEF ArchiveSession, Begins
<1>20. ASSUME NEW i \in Id, Restore(i) \/ ReturnSession(i) PROVE Typed'
  <2>1. archive[i].name \in Name /\ archive[i].saved \in SUBSET Session
    BY DEF FileRec
  <2>2. op' \in OpRec
    BY <1>20, <2>1, BeginsType DEF Restore, ReturnSession
  <2> QED BY <1>20, <2>2, BoundType DEF Restore, ReturnSession, Begins
<1>21. ASSUME NEW i \in Id, DeleteArchive(i) PROVE Typed'
  <2>1. archive[i].name \in Name /\ archive[i].saved \in SUBSET Session
    BY DEF FileRec
  <2> DEFINE who == {s \in archive[i].saved : live[s].name = "none"}
  <2>2. who \in SUBSET Session
    BY <2>1
  <2>3. Begins("delete", archive[i].name, who, i, "returned")
    BY <1>21 DEF DeleteArchive
  <2>4. op' \in OpRec
    <3> HIDE DEF who
    <3> QED BY <2>1, <2>2, <2>3, BeginsType
  <2>5. fate' \in [Session -> {"kept", "deleted"}]
    BY <1>21 DEF DeleteArchive
  <2>6. spent' \in [ops : 0..MaxOps, troubles : 0..MaxTroubles]
    BY <2>3, BoundType DEF Begins
  <2> QED BY <1>21, <2>4, <2>5, <2>6 DEF DeleteArchive
<1>22. CASE OpTeardown
  <2>1. op.name \in Name
    BY DEF OpRec
  <2>2. op' \in OpRec
    BY <1>22, OpType DEF OpTeardown
  <2> QED BY <1>22, <2>1, <2>2 DEF OpTeardown
<1>23. CASE OpFlushes
  <2>1. op.name \in Name
    BY DEF OpRec
  <2>2. op' \in OpRec
    BY <1>23, OpType DEF OpFlushes
  <2>3. FlushTask(live, op.name, op.kind = "scope")
    BY <1>23 DEF OpFlushes
  <2>4. /\ flush' \in [Session -> FlushRec]
        /\ timers' \subseteq Name /\ writes' \in [Name -> Seq(Saved)]
    BY <2>1, <2>3, FlushTaskType
  <2> QED BY <1>23, <2>2, <2>4 DEF OpFlushes
<1>24. CASE OpFlushed
  <2>1. op' \in OpRec
    BY <1>24, OpType DEF OpFlushed
  <2> QED BY <1>24, <2>1 DEF OpFlushed
<1>25. CASE OpPacks
  <2> DEFINE who == IF op.kind = "session" THEN op.who
                    ELSE {s \in Session : disk[op.name].saved[s] # "none"}
             f == [data |-> TRUE, meta |-> FALSE, kind |-> op.kind, name |-> op.name, saved |-> who,
                   log |-> [s \in Session |-> IF s \in who THEN disk[op.name].log[s] ELSE <<>>]]
  <2>1. op.name \in Name /\ op.id \in Id /\ op.kind \in {"scope", "session"} /\ who \in SUBSET Session
    BY <1>25 DEF OpPacks, OpRec, OpStage
  <2>2. archive' = [archive EXCEPT ![op.id] = f]
    BY <1>25 DEF OpPacks
  <2>3. [s \in Session |-> IF s \in who THEN disk[op.name].log[s] ELSE <<>>] \in [Session -> Log]
    <3>1. <<>> \in Log
      BY EmptySeq DEF Log
    <3> HIDE DEF who
    <3> QED BY <2>1, <3>1 DEF DirRec
  <2>4. f \in FileRec
    <3> HIDE DEF who
    <3> QED BY <2>1, <2>3 DEF FileRec
  <2>5. op' \in OpRec
    BY <1>25, OpType DEF OpPacks
  <2> HIDE DEF f
  <2> QED BY <1>25, <2>1, <2>2, <2>4, <2>5 DEF OpPacks
<1>26. CASE OpCommits
  <2>1. op.id \in Id
    BY <1>26 DEF OpCommits, OpStage
  <2> DEFINE f == [archive[op.id] EXCEPT !.meta = TRUE]
  <2>2. f \in FileRec
    <3>1. archive[op.id] \in FileRec
      BY <2>1
    <3> QED BY <3>1 DEF FileRec
  <2>3. archive' = [archive EXCEPT ![op.id] = f]
    BY <1>26 DEF OpCommits
  <2>4. op' \in OpRec
    BY <1>26, OpType DEF OpCommits
  <2> HIDE DEF f
  <2> QED BY <1>26, <2>2, <2>3, <2>4 DEF OpCommits
<1>27. CASE ScopeRetires
  <2>1. op.name \in Name
    BY DEF OpRec
  <2>2. op' \in OpRec
    BY <1>27, OpType DEF ScopeRetires
  <2> QED BY <1>27, <2>1, <2>2, GoingType, NoDirType DEF ScopeRetires
<1>28. CASE ScopeDrops
  <2>1. op.name \in Name
    BY DEF OpRec
  <2>2. op' \in OpRec
    BY <1>28, OpType DEF ScopeDrops
  <2> QED BY <1>28, <2>1, <2>2, DropType DEF ScopeDrops
<1>29. CASE SessionDrops
  <2> DEFINE l == [s \in Session |-> IF s \in op.who THEN [live[s] EXCEPT !.name = "none"] ELSE live[s]]
  <2>1. op.name \in Name
    BY DEF OpRec
  <2>2. l \in [Session -> LiveRec]
    BY ZenonT(40) DEF LiveRec
  <2>3. live' = l /\ FlushTask(l, op.name, TRUE)
    BY <1>29 DEF SessionDrops
  <2>4. op' \in OpRec
    BY <1>29, OpType DEF SessionDrops
  <2> HIDE DEF l
  <2>5. /\ flush' \in [Session -> FlushRec]
        /\ timers' \subseteq Name /\ writes' \in [Name -> Seq(Saved)]
    BY <2>1, <2>2, <2>3, FlushTaskType
  <2> QED BY <1>29, <2>2, <2>3, <2>4, <2>5 DEF SessionDrops
<1>30. CASE SessionErases
  <2> DEFINE log == [s \in Session |-> IF s \in op.who THEN <<>> ELSE disk[op.name].log[s]]
             d == [disk[op.name] EXCEPT !.log = log]
  <2>1. op.name \in Name
    BY DEF OpRec
  <2>2. log \in [Session -> Log]
    <3>1. <<>> \in Log
      BY EmptySeq DEF Log
    <3> QED BY <2>1, <3>1 DEF DirRec
  <2>3. disk' = [disk EXCEPT ![op.name] = d]
    BY <1>30, <2>1 DEF SessionErases, DirRec
  <2> HIDE DEF log
  <2>4. d \in DirRec
    BY <2>1, <2>2, ZenonT(40) DEF DirRec
  <2>5. op' \in OpRec
    BY <1>30, OpType DEF SessionErases
  <2> HIDE DEF d
  <2> QED BY <1>30, <2>3, <2>4, <2>5 DEF SessionErases
<1>31. CASE OpFails
  <2>1. op' \in OpRec
    BY <1>31, OpType DEF OpFails
  <2>2. archive' \in [Id -> FileRec]
    BY <1>31, NoFileType DEF OpFails
  <2>3. spent' \in [ops : 0..MaxOps, troubles : 0..MaxTroubles]
    BY <1>31, BoundType DEF OpFails
  <2> QED BY <1>31, <2>1, <2>2, <2>3 DEF OpFails
<1>32. CASE RestoreMoves
  <2>1. op.name \in Name /\ op.id \in Id
    BY <1>32 DEF RestoreMoves, OpRec, OpStage
  <2> DEFINE d == [there |-> TRUE, scope |-> TRUE, log |-> archive[op.id].log,
                   saved |-> [s \in Session |-> IF s \in op.who THEN op.name ELSE "none"]]
  <2>2. d \in DirRec
    BY <2>1 DEF DirRec, FileRec, Saved
  <2>3. disk' = [disk EXCEPT ![op.name] = d]
    BY <1>32 DEF RestoreMoves
  <2>4. BringsBack
    BY <1>32 DEF RestoreMoves
  <2>5. op' \in OpRec
    BY <1>32, OpType DEF RestoreMoves
  <2>6. fate' \in [Session -> {"kept", "deleted"}] /\ live' \in [Session -> LiveRec]
    BY <2>1, <2>4, BringsBackType
  <2> HIDE DEF d
  <2> QED BY <1>32, <2>2, <2>3, <2>5, <2>6 DEF RestoreMoves
<1>33. CASE RestoreReturns
  <2>1. op.name \in Name
    BY DEF OpRec
  <2>2. live' \in [Session -> LiveRec]
    BY <1>33, <2>1, RestoredType DEF RestoreReturns
  <2>3. op' \in OpRec
    BY <1>33, OpType DEF RestoreReturns
  <2> QED BY <1>33, <2>2, <2>3 DEF RestoreReturns
<1>34. CASE ReturnWrites
  <2>1. op.name \in Name /\ op.id \in Id
    BY <1>34 DEF ReturnWrites, OpRec, OpStage
  <2> DEFINE log == [s \in Session |-> IF s \in op.who THEN archive[op.id].log[s]
                                       ELSE disk[op.name].log[s]]
             d == [disk[op.name] EXCEPT !.there = TRUE, !.log = log]
             r == [s \in Session |-> IF s \in op.who THEN op.name ELSE disk[op.name].saved[s]]
  <2>2. log \in [Session -> Log] /\ r \in Saved
    <3>1. archive[op.id] \in FileRec /\ disk[op.name] \in DirRec
      BY <2>1
    <3> QED BY <2>1, <3>1 DEF DirRec, FileRec, Saved
  <2>3. disk' = [disk EXCEPT ![op.name] = d]
    BY <1>34, <2>1 DEF ReturnWrites, DirRec
  <2>4. writes' = [writes EXCEPT ![op.name] = Append(@, r)] /\ BringsBack
    BY <1>34 DEF ReturnWrites
  <2> HIDE DEF log, r
  <2>5. d \in DirRec
    BY <2>1, <2>2, ZenonT(40) DEF DirRec
  <2>6. writes' \in [Name -> Seq(Saved)]
    BY <2>1, <2>2, <2>4, AppendType
  <2>7. fate' \in [Session -> {"kept", "deleted"}] /\ live' \in [Session -> LiveRec]
    BY <2>1, <2>4, BringsBackType
  <2>8. op' \in OpRec
    BY <1>34, OpType DEF ReturnWrites
  <2> HIDE DEF d
  <2> QED BY <1>34, <2>3, <2>5, <2>6, <2>7, <2>8 DEF ReturnWrites
<1>35. CASE OpRemovesData
  <2>1. op.id \in Id
    BY <1>35 DEF OpRemovesData, OpStage
  <2> DEFINE f == [archive[op.id] EXCEPT !.data = FALSE]
  <2>2. f \in FileRec
    <3>1. archive[op.id] \in FileRec
      BY <2>1
    <3> QED BY <3>1 DEF FileRec
  <2>3. archive' = [archive EXCEPT ![op.id] = f]
    BY <1>35 DEF OpRemovesData
  <2>4. op' \in OpRec
    BY <1>35, OpType DEF OpRemovesData
  <2> HIDE DEF f
  <2> QED BY <1>35, <2>2, <2>3, <2>4 DEF OpRemovesData
<1>36. CASE OpRemovesMeta
  <2>1. op' \in OpRec
    BY <1>36, OpType DEF OpRemovesMeta
  <2> QED BY <1>36, <2>1, NoFileType DEF OpRemovesMeta
<1>37. CASE Crash
  <2>1. live' \in [Session -> LiveRec]
    BY <1>37, CrashLive
  <2>2. op' \in OpRec
    BY <1>37, OpType DEF Crash
  <2>3. writes' \in [Name -> Seq(Saved)]
    BY <1>37, EmptySeq DEF Crash
  <2>4. fate' \in [Session -> {"kept", "deleted"}]
    BY <1>37 DEF Crash
  <2>5. spent' \in [ops : 0..MaxOps, troubles : 0..MaxTroubles]
    BY <1>37, BoundType DEF Crash
  <2> QED BY <1>37, <2>1, <2>2, <2>3, <2>4, <2>5, NoFlushType, NoMoveType DEF Crash
<1> QED
  BY <1>1, <1>2, <1>3, <1>4, <1>5, <1>6, <1>7, <1>8, <1>9, <1>10, <1>11, <1>12, <1>13, <1>14,
     <1>15, <1>16, <1>17, <1>18, <1>19, <1>20, <1>21, <1>22, <1>23, <1>24, <1>25, <1>26, <1>27,
     <1>28, <1>29, <1>30, <1>31, <1>32, <1>33, <1>34, <1>35, <1>36, <1>37 DEF Next
-----------------------------------------------------------------------------
(* Stages.                                                                   *)

LEMMA OpStageNext ==
  ASSUME Typed, OpStage, Next
  PROVE  OpStage'
<1>1. ASSUME op' = op PROVE OpStage'
  BY <1>1 DEF OpStage
<1>2. ASSUME OpEnds PROVE OpStage'
  BY <1>2, OpType DEF OpStage, Typed
<1>3. /\ \A s \in Session :
           (\/ Prompt(s) \/ Record(s) \/ TurnEnds(s) \/ DeleteSession(s) \/ AppendLands(s)
            \/ AppendFails(s))
             => op' = op
      /\ \A n \in Name :
           (\/ StatusChanges(n) \/ TimerFires(n) \/ WriteLands(n) \/ CreateTask(n)
            \/ DeleteTask(n))
             => op' = op
      /\ \A n, m \in Name : RenameTask(n, m) => op' = op
      /\ \A s \in Session, n \in Name : EraseLog(s, n) => op' = op
  BY DEF Prompt, Record, TurnEnds, DeleteSession, AppendLands, AppendFails, StatusChanges,
     TimerFires, WriteLands, CreateTask, DeleteTask, RenameTask, EraseLog
<1>4. ASSUME ScopeStops \/ DeleteDrops \/ DeleteRemoves \/ RenameMoves \/ RenameEnds
      PROVE  op' = op
  BY <1>4 DEF ScopeStops, DeleteDrops, DeleteRemoves, RenameMoves, RenameEnds
<1>5. ASSUME NEW i \in Id, NEW n \in Name, ArchiveScope(n, i) PROVE OpStage'
  BY <1>5, BeginsType DEF ArchiveScope, OpStage, Typed
<1>6. ASSUME NEW i \in Id, NEW s \in Session, ArchiveSession(s, i) PROVE OpStage'
  <2>1. live[s].name \in Name
    BY <1>6 DEF ArchiveSession, LiveRec, Typed
  <2> QED BY <1>6, <2>1, BeginsType DEF ArchiveSession, OpStage, Typed
<1>7. ASSUME NEW i \in Id, Restore(i) \/ ReturnSession(i) PROVE OpStage'
  <2>1. archive[i].name \in Name /\ archive[i].saved \in SUBSET Session
    BY DEF FileRec, Typed
  <2> QED BY <1>7, <2>1, BeginsType DEF Restore, ReturnSession, OpStage, Typed
<1>8. ASSUME NEW i \in Id, DeleteArchive(i) PROVE OpStage'
  <2>1. archive[i].name \in Name /\ archive[i].saved \in SUBSET Session
    BY DEF FileRec, Typed
  <2> DEFINE who == {s \in archive[i].saved : live[s].name = "none"}
  <2>2. who \in SUBSET Session /\ Begins("delete", archive[i].name, who, i, "returned")
    BY <1>8, <2>1 DEF DeleteArchive
  <2> HIDE DEF who
  <2>3. op'.kind = "delete" /\ op'.at = "returned" /\ op'.id = i
    BY <2>1, <2>2, BeginsType DEF Typed
  <2> QED BY <2>3 DEF OpStage
<1>9. ASSUME OpTeardown \/ OpFlushes \/ OpPacks \/ OpCommits \/ ScopeRetires \/ SessionDrops
      PROVE  OpStage'
  BY <1>9, OpType DEF OpTeardown, OpFlushes, OpPacks, OpCommits, ScopeRetires, SessionDrops,
     OpStage, Typed
<1>10. ASSUME OpFlushed PROVE OpStage'
  BY <1>10, <1>2, OpType DEF OpFlushed, OpStage, Typed
<1>11. ASSUME RestoreMoves \/ RestoreReturns \/ ReturnWrites \/ OpRemovesData
       PROVE  OpStage'
  BY <1>11, OpType DEF RestoreMoves, RestoreReturns, ReturnWrites, OpRemovesData, OpStage, Typed
<1>12. ASSUME ScopeDrops \/ SessionErases \/ OpFails \/ OpRemovesMeta \/ Crash PROVE OpEnds
  BY <1>12 DEF ScopeDrops, SessionErases, OpFails, OpRemovesMeta, Crash
<1> QED
  BY <1>1, <1>2, <1>3, <1>4, <1>5, <1>6, <1>7, <1>8, <1>9, <1>10, <1>11, <1>12 DEF Next

LEMMA MoveStageNext ==
  ASSUME Typed, MoveStage, Next
  PROVE  MoveStage'
<1>1. ASSUME scope' = scope PROVE MoveStage'
  BY <1>1 DEF MoveStage
<1>2. ASSUME scope' = NoMove PROVE MoveStage'
  BY <1>2 DEF MoveStage, NoMove
<1>3. /\ \A s \in Session :
           (\/ Prompt(s) \/ Record(s) \/ TurnEnds(s) \/ DeleteSession(s) \/ AppendLands(s)
            \/ AppendFails(s))
             => scope' = scope
      /\ \A n \in Name :
           StatusChanges(n) \/ TimerFires(n) \/ WriteLands(n) \/ CreateTask(n)
             => scope' = scope
      /\ \A s \in Session, n \in Name : EraseLog(s, n) => scope' = scope
  BY DEF Prompt, Record, TurnEnds, DeleteSession, AppendLands, AppendFails, StatusChanges,
     TimerFires, WriteLands, CreateTask, EraseLog
<1>4. \A i \in Id :
        /\ \A n \in Name : ArchiveScope(n, i) => scope' = scope
        /\ \A s \in Session : ArchiveSession(s, i) => scope' = scope
        /\ Restore(i) \/ ReturnSession(i) \/ DeleteArchive(i) => scope' = scope
  BY DEF ArchiveScope, ArchiveSession, Restore, ReturnSession, DeleteArchive
<1>5. ASSUME \/ OpTeardown \/ OpFlushes \/ OpFlushed \/ OpPacks \/ OpCommits \/ ScopeRetires
             \/ ScopeDrops \/ SessionDrops \/ SessionErases \/ OpFails \/ RestoreMoves
             \/ RestoreReturns \/ ReturnWrites \/ OpRemovesData \/ OpRemovesMeta
      PROVE  scope' = scope
  BY <1>5 DEF OpTeardown, OpFlushes, OpFlushed, OpPacks, OpCommits, ScopeRetires, ScopeDrops,
     SessionDrops, SessionErases, OpFails, RestoreMoves, RestoreReturns, ReturnWrites,
     OpRemovesData, OpRemovesMeta
<1>6. ASSUME (\E n \in Name : DeleteTask(n)) \/ (\E n, m \in Name : RenameTask(n, m))
      PROVE  MoveStage'
  <2>1. /\ \A n \in Name : DeleteTask(n) => scope'.kind = "delete" /\ scope'.at = "teardown"
        /\ \A n, m \in Name :
             RenameTask(n, m) => /\ scope'.kind = "rename" /\ scope'.at = "teardown"
                                 /\ scope'.from = n /\ scope'.to = m /\ n # m
    BY DEF DeleteTask, RenameTask
  <2> QED BY <1>6, <2>1 DEF MoveStage
<1>7. ASSUME ScopeStops \/ DeleteDrops PROVE MoveStage'
  BY <1>7 DEF ScopeStops, DeleteDrops, MoveStage, MoveRec, Typed
<1>9. ASSUME RenameMoves PROVE MoveStage'
  <2>1. scope' = NoMove \/ scope' = [scope EXCEPT !.at = "branches"]
    BY <1>9 DEF RenameMoves
  <2>2. scope' = [scope EXCEPT !.at = "branches"] => MoveStage'
    BY <1>9 DEF RenameMoves, MoveStage, MoveRec, Typed
  <2> QED BY <1>2, <2>1, <2>2
<1>8. ASSUME DeleteRemoves \/ RenameEnds \/ Crash PROVE scope' = NoMove
  BY <1>8 DEF DeleteRemoves, RenameEnds, Crash
<1> QED BY <1>1, <1>2, <1>3, <1>4, <1>5, <1>6, <1>7, <1>8, <1>9 DEF Next

LEMMA WorkingNext ==
  ASSUME Typed, OpStage, Working, Archiving, Next
  PROVE  Working'
<1> SUFFICES ASSUME NEW t \in Session, live'[t].busy PROVE live'[t].name # "none"
  BY DEF Working
<1>1. ASSUME live' = live PROVE live'[t].name # "none"
  BY <1>1 DEF Working
<1>2. ASSUME NEW s \in Session,
             Prompt(s) \/ Record(s) \/ TurnEnds(s) \/ DeleteSession(s)
      PROVE  live'[t].name # "none"
  <2>1. live \in [Session -> LiveRec] /\ live[t] \in LiveRec
    BY DEF Typed
  <2>2. t # s => live'[t] = live[t]
    BY <2>1, <1>2 DEF Prompt, Record, TurnEnds, DeleteSession
  <2>3. TurnEnds(s) \/ DeleteSession(s) => ~live'[s].busy
    BY <2>1 DEF TurnEnds, DeleteSession, LiveRec
  <2>4. Prompt(s) \/ Record(s) => live'[s].name # "none"
    BY <2>1 DEF Prompt, Record, LiveRec
  <2> QED BY <1>2, <2>2, <2>3, <2>4 DEF Working
<1>3. ASSUME NEW s \in Session, AppendLands(s) \/ AppendFails(s) PROVE live'[t].name # "none"
  <2>1. flush[s].upTo \in Records /\ live[s].flushed \in Records
    BY DEF Typed, FlushRec, LiveRec
  <2> QED BY <2>1, <1>3, SettledType DEF AppendLands, AppendFails, Typed, Working
<1>4. /\ \A n \in Name :
           (\/ StatusChanges(n) \/ TimerFires(n) \/ WriteLands(n) \/ CreateTask(n)
            \/ DeleteTask(n))
             => live' = live
      /\ \A n, m \in Name : RenameTask(n, m) => live' = live
      /\ \A s \in Session, n \in Name : EraseLog(s, n) => live' = live
  BY DEF StatusChanges, TimerFires, WriteLands, CreateTask, DeleteTask, RenameTask, EraseLog
<1>5. ASSUME ScopeStops \/ DeleteRemoves \/ RenameMoves PROVE live' = live
  BY <1>5 DEF ScopeStops, DeleteRemoves, RenameMoves
<1>6. ASSUME DeleteDrops \/ ScopeDrops PROVE live'[t].name # "none"
  <2>1. PICK n \in Name : DropTaskSessions(n)
    BY <1>6 DEF DeleteDrops, ScopeDrops, Typed, MoveRec, OpRec
  <2>2. live[t] \in LiveRec
    BY DEF Typed
  <2>3. live'[t] = IF live[t].name # n THEN live[t]
                   ELSE [live[t] EXCEPT !.name = "none", !.busy = FALSE]
    BY <2>1 DEF DropTaskSessions
  <2> QED BY <2>2, <2>3 DEF Working, LiveRec
<1>7. ASSUME RenameEnds PROVE live'[t].name # "none"
  <2>1. live[t] \in LiveRec /\ scope.to # "none"
    BY FilesAssumption DEF Typed, MoveRec
  <2>2. live'[t] = IF live[t].name = scope.from THEN [live[t] EXCEPT !.name = scope.to] ELSE live[t]
    BY <1>7 DEF RenameEnds
  <2> QED BY <2>1, <2>2 DEF Working, LiveRec
<1>8. \A i \in Id :
        /\ \A n \in Name : ArchiveScope(n, i) => live' = live
        /\ \A s \in Session : ArchiveSession(s, i) => live' = live
        /\ Restore(i) \/ ReturnSession(i) \/ DeleteArchive(i) => live' = live
  BY DEF ArchiveScope, ArchiveSession, Restore, ReturnSession, DeleteArchive
<1>9. ASSUME \/ OpTeardown \/ OpFlushes \/ OpFlushed \/ OpPacks \/ OpCommits \/ ScopeRetires
             \/ SessionErases \/ OpFails \/ OpRemovesData \/ OpRemovesMeta
      PROVE  live' = live
  BY <1>9 DEF OpTeardown, OpFlushes, OpFlushed, OpPacks, OpCommits, ScopeRetires,
     SessionErases, OpFails, OpRemovesData, OpRemovesMeta
<1>10. ASSUME SessionDrops PROVE live'[t].name # "none"
  <2>1. live[t] \in LiveRec
    BY DEF Typed
  <2>2. live'[t] = IF t \in op.who THEN [live[t] EXCEPT !.name = "none"] ELSE live[t]
    BY <1>10 DEF SessionDrops
  <2>3. t \in op.who => ~live[t].busy
    BY <1>10 DEF SessionDrops, Archiving
  <2> QED BY <2>1, <2>2, <2>3 DEF Working, LiveRec
<1>11. ASSUME RestoreMoves \/ ReturnWrites PROVE live'[t].name # "none"
  <2>1. BringsBack /\ op.id \in Id
    BY <1>11 DEF RestoreMoves, ReturnWrites, OpStage
  <2> QED BY <2>1, BringsBackType DEF Typed, Working
<1>12. ASSUME RestoreReturns PROVE live'[t].name # "none"
  <2>1. op.name \in Name /\ disk \in [Name -> DirRec]
    BY DEF Typed, OpRec
  <2>2. live'[t] = IF t \in op.who THEN Restored(t, op.name) ELSE live[t]
    BY <1>12 DEF RestoreReturns
  <2> QED BY <2>1, <2>2, RestoredType DEF Working
<1>13. ASSUME Crash PROVE live'[t].name # "none"
  BY <1>13, CrashLive
<1> QED
  BY <1>1, <1>2, <1>3, <1>4, <1>5, <1>6, <1>7, <1>8, <1>9, <1>10, <1>11, <1>12, <1>13 DEF Next

-----------------------------------------------------------------------------
(* Steps.                                                                    *)

(* What a step can tell from an await.                                       *)
Stages ==
  /\ op.name \in Name /\ op.who \subseteq Session
  /\ op.kind = "idle" <=> op.at = "idle"
  /\ op.at = "retired" => op.kind = "scope"
  /\ op.at = "dropped" => op.kind = "session"
  /\ op.at \in {"pack", "packed", "committed", "teardown"} => op.kind \in {"scope", "session"}
  /\ op.at \in {"flush", "flushing"} => op.kind \in {"scope", "session", "return"}
  /\ op.at \in {"unpacked", "moved"} => op.kind = "restore"
  /\ op.at \in {"copy", "written"} => op.kind = "return"
  /\ op.at \in {"returned", "emptied"} => op.kind \in {"restore", "return", "delete"}
  /\ scope.from \in Name /\ scope.to \in Name
  /\ scope.kind = "idle" <=> scope.at = "idle"
  /\ scope.at = "removing" => scope.kind = "delete"
  /\ scope.at = "branches" => scope.kind = "rename"
  /\ scope.kind = "rename" => scope.from # scope.to
  /\ scope.kind = "delete" => scope.at # "branches"

LEMMA StagesHold == Typed /\ OpStage /\ MoveStage => Stages
<1> SUFFICES ASSUME Typed, OpStage, MoveStage PROVE Stages
  OBVIOUS
<1>1. /\ op.kind \in {"idle", "scope", "session", "restore", "return", "delete"}
      /\ op.name \in Name /\ op.who \subseteq Session
  BY DEF Typed, OpRec
<1>2. scope.kind \in {"idle", "delete", "rename"} /\ scope.from \in Name /\ scope.to \in Name
  BY DEF Typed, MoveRec
<1> QED BY <1>1, <1>2 DEF Stages, OpStage, MoveStage

Rest == Rooted /\ Moving /\ Apart /\ Archiving /\ Current /\ Flushing /\ Lengths

LEMMA SameRecords ==
  ASSUME NEW n \in Name,
         \A s \in Session : live'[s].name = n <=> live[s].name = n
  PROVE  RecordsFor(live, n)' = RecordsFor(live, n)
BY DEF RecordsFor

(* Nothing happens to a name.                                                *)
LEMMA ToldKept ==
  ASSUME NEW n \in Name, Told(n),
         \A s \in Session : live'[s].name = n <=> live[s].name = n,
         writes'[n] = writes[n], disk'[n].saved = disk[n].saved,
         Behind(n) => Behind(n)',
         n # op'.name \/ op'.at \notin {"copy", "moved", "written"} \/ op' = op,
         n = op.name /\ op.at \in {"moved", "written"} => op' = op
  PROVE  Told(n)'
<1>1. RecordsFor(live, n)' = RecordsFor(live, n)
  BY SameRecords
<1>2. Due(n)' = Due(n)
  <2>1. CASE op' = op
    BY <2>1, <1>1 DEF Due
  <2>2. CASE op' # op
    BY <2>2, <1>1 DEF Due
  <2> QED BY <2>1, <2>2
<1>3. Final(n)' = Final(n)
  BY DEF Final
<1> QED BY <1>1, <1>2, <1>3 DEF Told

LEMMA PromptStep ==
  ASSUME NamesInv, Windows = {}, NEW x \in Session, Prompt(x)
  PROVE  Rest'
<1>a. "none" \notin Name /\ Stages
  BY FilesAssumption, StagesHold DEF NamesInv
<1>b. Rooted /\ Moving /\ Apart /\ Archiving /\ Current /\ Flushing /\ Lengths
  BY DEF NamesInv
<1>1. PICK c \in Name : c = live[x].name /\ live \in [Session -> LiveRec] /\ live[x] \in LiveRec
  BY DEF Prompt, NamesInv, Typed, LiveRec
<1> DEFINE r == RecordsFor(live, c)
<1>2. /\ \A t \in Session : live'[t].name = live[t].name
      /\ \A t \in Session : t # x => live'[t].busy = live[t].busy
      /\ ~Protected(c) /\ (scope.at = "branches" => c # scope.from /\ c # scope.to)
      /\ writes' = [writes EXCEPT ![c] = Append(@, r)] /\ writes[c] = <<>>
      /\ flush' = flush /\ timers' = timers /\ disk' = disk /\ scope' = scope /\ op' = op
  BY <1>1 DEF Prompt, LiveRec, Aside, Branches
<1>3. r = RecordsFor(live, c)
  OBVIOUS
<1> HIDE DEF r
<1>4. r \in Saved
  BY <1>1, <1>3, RecordsForType
<1>5. /\ writes'[c] = Append(writes[c], r) /\ writes'[c] # <<>>
      /\ writes'[c][Len(writes'[c])] = r /\ Len(writes'[c]) = Len(writes[c]) + 1
      /\ \A m \in Name : m # c => writes'[m] = writes[m]
  BY <1>1, <1>2, <1>4, AppendType DEF NamesInv, Typed
<1>6. Rooted'
  <2> SUFFICES ASSUME NEW n \in Name PROVE RootedAt(n)'
    BY DEF Rooted
  <2>1. RootedAt(n)
    BY <1>b DEF Rooted
  <2> QED BY <1>a, <1>b, <1>1, <1>2, <1>3, <1>4, <1>5, <2>1 DEF Rooted, RootedAt, Between, Retired, Stages, Protected
<1>7. Moving'
  BY <1>a, <1>b, <1>1, <1>2, <1>3, <1>4, <1>5 DEF Moving, SessionsFor, Stages
<1>8. Apart'
  BY <1>a, <1>b, <1>1, <1>2, <1>3, <1>4, <1>5 DEF Apart, Stages
<1>9. Archiving'
  BY <1>a, <1>b, <1>1, <1>2, <1>3, <1>4, <1>5 DEF Archiving, SessionsFor, Stages, Protected
<1>10. Current'
  <2> SUFFICES ASSUME NEW n \in Name PROVE Told(n)'
    BY DEF Current
  <2>1. CASE n = c
    <3>1. RecordsFor(live, c)' = r
      BY <1>1, <1>2, <1>3, SameRecords
    <3> QED BY <1>a, <1>2, <1>5, <2>1, <3>1 DEF Told, Final, Due, Protected, Stages
  <2>2. CASE ~(n = c)
    <3>1. Behind(n) => Behind(n)'
      BY <1>a, <1>b, <1>1, <1>2, <1>3, <1>4, <1>5, <2>2 DEF Behind, Retired, Stages
    <3>2. Told(n) /\ \A s \in Session : live'[s].name = n <=> live[s].name = n
      BY <1>a, <1>b, <1>1, <1>2, <1>3, <1>4, <1>5, <2>2 DEF Current
    <3> QED BY <1>a, <1>b, <1>1, <1>2, <1>3, <1>4, <1>5, <2>2, <3>1, <3>2, ToldKept DEF Stages
  <2> QED BY <2>1, <2>2
<1>11. Flushing'
  BY <1>a, <1>b, <1>1, <1>2, <1>3, <1>4, <1>5 DEF Flushing, Stages
<1>12. Lengths'
  BY <1>a, <1>b, <1>1, <1>2, <1>3, <1>4, <1>5 DEF Lengths, Stages
<1> QED BY <1>6, <1>7, <1>8, <1>9, <1>10, <1>11, <1>12 DEF Rest

LEMMA WorkStep ==
  ASSUME NamesInv, Windows = {}, NEW x \in Session, Record(x) \/ TurnEnds(x)
  PROVE  Rest'
<1>a. "none" \notin Name /\ Stages
  BY FilesAssumption, StagesHold DEF NamesInv
<1>b. Rooted /\ Moving /\ Apart /\ Archiving /\ Current /\ Flushing /\ Lengths
  BY DEF NamesInv
<1> DEFINE c == live[x].name
<1>1. c \in Name /\ live \in [Session -> LiveRec] /\ live[x] \in LiveRec /\ live[x].busy
  BY DEF Record, TurnEnds, NamesInv, Typed, LiveRec, Working
<1>2. /\ \A t \in Session : live'[t].name = live[t].name
      /\ \A t \in Session : live'[t].busy => live[t].busy
      /\ timers' = timers \cup {c}
      /\ (scope.at = "branches" => c # scope.from /\ c # scope.to)
      /\ flush' = flush /\ writes' = writes /\ disk' = disk /\ scope' = scope /\ op' = op
  BY <1>1 DEF Record, TurnEnds, LiveRec, Aside, Branches
<1>3. c = live[x].name
  OBVIOUS
<1> HIDE DEF c
<1>4. /\ op.kind \in {"scope", "session", "return"} => c # op.name
      /\ op.at = "moved" => c # op.name
  BY <1>b, <1>1, <1>3 DEF Archiving, SessionsFor
<1>5. Rooted'
  <2> SUFFICES ASSUME NEW n \in Name PROVE RootedAt(n)'
    BY DEF Rooted
  <2>1. RootedAt(n)
    BY <1>b DEF Rooted
  <2> QED BY <1>a, <1>b, <1>1, <1>2, <1>3, <1>4, <2>1 DEF Rooted, RootedAt, Between, Retired, Stages
<1>6. Moving'
  BY <1>a, <1>b, <1>1, <1>2, <1>3, <1>4 DEF Moving, SessionsFor, Stages
<1>7. Apart'
  BY <1>a, <1>b, <1>1, <1>2, <1>3, <1>4 DEF Apart, Stages
<1>8. Archiving'
  BY <1>a, <1>b, <1>1, <1>2, <1>3, <1>4 DEF Archiving, SessionsFor, Stages
<1>9. Current'
  <2> SUFFICES ASSUME NEW n \in Name PROVE Told(n)'
    BY DEF Current
  <2>1. Behind(n) => Behind(n)'
    BY <1>a, <1>b, <1>1, <1>2, <1>3, <1>4 DEF Behind, Retired, Stages
  <2>2. Told(n) /\ \A s \in Session : live'[s].name = n <=> live[s].name = n
    BY <1>a, <1>b, <1>1, <1>2, <1>3, <1>4 DEF Current
  <2> QED BY <1>a, <1>b, <1>1, <1>2, <1>3, <1>4, <2>1, <2>2, ToldKept DEF Stages
<1>10. Flushing'
  BY <1>a, <1>b, <1>1, <1>2, <1>3, <1>4 DEF Flushing, Stages
<1>11. Lengths'
  BY <1>a, <1>b, <1>1, <1>2, <1>3, <1>4 DEF Lengths, Stages
<1> QED BY <1>5, <1>6, <1>7, <1>8, <1>9, <1>10, <1>11 DEF Rest

LEMMA StatusStep ==
  ASSUME NamesInv, Windows = {}, NEW c \in Name, StatusChanges(c)
  PROVE  Rest'
<1>a. "none" \notin Name /\ Stages
  BY FilesAssumption, StagesHold DEF NamesInv
<1>b. Rooted /\ Moving /\ Apart /\ Archiving /\ Current /\ Flushing /\ Lengths
  BY DEF NamesInv
<1>1. /\ live' = live /\ timers' = timers \cup {c}
      /\ ~(op.kind = "scope" /\ op.name = c /\ op.at # "teardown")
      /\ (scope.at = "branches" => c # scope.from /\ c # scope.to)
      /\ flush' = flush /\ writes' = writes /\ disk' = disk /\ scope' = scope /\ op' = op
  BY DEF StatusChanges, Aside, Branches
<1>2. \E x \in Session : live[x].name = c
  BY DEF StatusChanges, SessionsFor
<1>3. Rooted'
  <2> SUFFICES ASSUME NEW n \in Name PROVE RootedAt(n)'
    BY DEF Rooted
  <2>1. RootedAt(n)
    BY <1>b DEF Rooted
  <2> QED BY <1>a, <1>b, <1>1, <1>2, <2>1 DEF Rooted, RootedAt, Between, Retired, Stages
<1>4. Moving'
  BY <1>a, <1>b, <1>1, <1>2 DEF Moving, SessionsFor, Stages
<1>5. Apart'
  BY <1>a, <1>b, <1>1, <1>2 DEF Apart, Stages
<1>6. Archiving'
  BY <1>a, <1>b, <1>1, <1>2 DEF Archiving, SessionsFor, Stages
<1>7. Current'
  <2> SUFFICES ASSUME NEW n \in Name PROVE Told(n)'
    BY DEF Current
  <2>1. Behind(n) => Behind(n)'
    BY <1>a, <1>b, <1>1, <1>2 DEF Behind, Retired, Stages
  <2>2. Told(n) /\ \A s \in Session : live'[s].name = n <=> live[s].name = n
    BY <1>a, <1>b, <1>1, <1>2 DEF Current
  <2> QED BY <1>a, <1>b, <1>1, <1>2, <2>1, <2>2, ToldKept DEF Stages
<1>8. Flushing'
  BY <1>a, <1>b, <1>1, <1>2 DEF Flushing, Stages
<1>9. Lengths'
  BY <1>a, <1>b, <1>1, <1>2 DEF Lengths, Stages
<1> QED BY <1>3, <1>4, <1>5, <1>6, <1>7, <1>8, <1>9 DEF Rest

LEMMA DeleteSessionStep ==
  ASSUME NamesInv, Windows = {}, NEW x \in Session, DeleteSession(x)
  PROVE  Rest'
<1>a. "none" \notin Name /\ Stages
  BY FilesAssumption, StagesHold DEF NamesInv
<1>b. Rooted /\ Moving /\ Apart /\ Archiving /\ Current /\ Flushing /\ Lengths
  BY DEF NamesInv
<1> DEFINE c == live[x].name
<1>1. c \in Name /\ live \in [Session -> LiveRec] /\ live[x] \in LiveRec
  BY DEF DeleteSession, NamesInv, Typed, LiveRec
<1>2. /\ \A t \in Session : live'[t].name = IF t = x THEN "none" ELSE live[t].name
      /\ \A t \in Session : live'[t].busy => live[t].busy
      /\ timers' = timers \cup {c}
      /\ ~Protected(c) /\ (scope.at = "branches" => c # scope.from /\ c # scope.to)
      /\ flush' = flush /\ writes' = writes /\ disk' = disk /\ scope' = scope /\ op' = op
  BY <1>1 DEF DeleteSession, LiveRec, Aside, Branches
<1>3. c = live[x].name
  OBVIOUS
<1> HIDE DEF c
<1>4. Rooted'
  <2> SUFFICES ASSUME NEW n \in Name PROVE RootedAt(n)'
    BY DEF Rooted
  <2>1. RootedAt(n)
    BY <1>b DEF Rooted
  <2> QED BY <1>a, <1>b, <1>1, <1>2, <1>3, <2>1 DEF Rooted, RootedAt, Between, Retired, Stages, Protected
<1>5. Moving'
  BY <1>a, <1>b, <1>1, <1>2, <1>3 DEF Moving, SessionsFor, Stages
<1>6. Apart'
  BY <1>a, <1>b, <1>1, <1>2, <1>3 DEF Apart, Stages
<1>7. Archiving'
  BY <1>a, <1>b, <1>1, <1>2, <1>3 DEF Archiving, SessionsFor, Stages, Protected
<1>8. Current'
  <2> SUFFICES ASSUME NEW n \in Name PROVE Told(n)'
    BY DEF Current
  <2>1. CASE n = c
    BY <1>a, <1>2, <2>1 DEF Told, Behind, Protected, Stages
  <2>2. CASE ~(n = c)
    <3>1. Behind(n) => Behind(n)'
      BY <1>a, <1>b, <1>1, <1>2, <1>3, <2>2 DEF Behind, Retired, Stages
    <3>2. Told(n) /\ \A s \in Session : live'[s].name = n <=> live[s].name = n
      BY <1>a, <1>b, <1>1, <1>2, <1>3, <2>2 DEF Current
    <3> QED BY <1>a, <1>b, <1>1, <1>2, <1>3, <2>2, <3>1, <3>2, ToldKept DEF Stages
  <2> QED BY <2>1, <2>2
<1>9. Flushing'
  BY <1>a, <1>b, <1>1, <1>2, <1>3 DEF Flushing, Stages
<1>10. Lengths'
  BY <1>a, <1>b, <1>1, <1>2, <1>3 DEF Lengths, Stages
<1> QED BY <1>4, <1>5, <1>6, <1>7, <1>8, <1>9, <1>10 DEF Rest

(* A flush goes to the scope the session is in, and has something to append. *)
LEMMA FlushAllFacts ==
  ASSUME NEW l \in [Session -> LiveRec], NEW c \in Name, NEW s \in Session,
         flush' = FlushAll(l, c)
  PROVE  \/ flush'[s] = flush[s]
         \/ /\ l[s].name = c /\ ~flush[s].on /\ flush'[s].on /\ flush'[s].name = c
            /\ flush'[s].from = l[s].flushed /\ flush'[s].upTo = l[s].seq
            /\ l[s].flushed < l[s].seq
<1>1. l[s].seq \in Nat /\ l[s].flushed \in Nat
  BY FilesAssumption DEF LiveRec, Records
<1>2. flush'[s] = IF l[s].name = c THEN FlushOf(l, flush[s], s) ELSE flush[s]
  BY DEF FlushAll
<1>3. CASE l[s].name = c /\ ~flush[s].on /\ ~(l[s].seq <= l[s].flushed)
  <2>1. flush'[s] = [on |-> TRUE, name |-> l[s].name, from |-> l[s].flushed, upTo |-> l[s].seq]
    BY <1>2, <1>3, FilesAssumption DEF FlushOf
  <2> QED BY <1>1, <1>3, <2>1
<1>4. CASE ~(l[s].name = c /\ ~flush[s].on /\ ~(l[s].seq <= l[s].flushed))
  BY <1>2, <1>4 DEF FlushOf
<1> QED BY <1>3, <1>4

LEMMA TimerStep ==
  ASSUME NamesInv, Windows = {}, NEW c \in Name, TimerFires(c)
  PROVE  Rest'
<1>a. "none" \notin Name /\ Stages
  BY FilesAssumption, StagesHold DEF NamesInv
<1>b. Rooted /\ Moving /\ Apart /\ Archiving /\ Current /\ Flushing /\ Lengths
  BY DEF NamesInv
<1> DEFINE r == RecordsFor(live, c)
<1>1. /\ live' = live /\ timers' = timers \ {c} /\ c \in timers /\ Len(writes[c]) < 2
      /\ writes' = [writes EXCEPT ![c] = Append(@, r)] /\ flush' = FlushAll(live, c)
      /\ ~(op.kind = "return" /\ op.name = c /\ op.at = "written")
      /\ (scope.at = "branches" => c # scope.from /\ c # scope.to)
      /\ disk' = disk /\ scope' = scope /\ op' = op
  BY DEF TimerFires, Aside, Branches
<1>2. r \in Saved
  BY RecordsForType DEF NamesInv, Typed
<1>3. r = RecordsFor(live, c)
  OBVIOUS
<1> HIDE DEF r
<1>4. /\ writes'[c] = Append(writes[c], r) /\ writes'[c] # <<>>
      /\ writes'[c][Len(writes'[c])] = r /\ Len(writes'[c]) = Len(writes[c]) + 1
      /\ \A i \in DOMAIN writes'[c] : i \notin DOMAIN writes[c] => writes'[c][i] = r
      /\ \A i \in DOMAIN writes[c] : writes'[c][i] = writes[c][i]
      /\ \A m \in Name : m # c => writes'[m] = writes[m]
  BY <1>1, <1>2, AppendType DEF NamesInv, Typed
<1>5. \A s \in Session :
        \/ flush'[s] = flush[s]
        \/ flush'[s].name = c /\ live[s].name = c /\ flush'[s].from < flush'[s].upTo
  <2>1. live \in [Session -> LiveRec] /\ flush' = FlushAll(live, c)
    BY <1>1 DEF NamesInv, Typed
  <2> QED BY <2>1, FlushAllFacts
<1>6. Len(writes[c]) \in Nat
  BY LenProperties DEF NamesInv, Typed
<1>7. Rooted'
  <2> SUFFICES ASSUME NEW n \in Name PROVE RootedAt(n)'
    BY DEF Rooted
  <2>1. RootedAt(n)
    BY <1>b DEF Rooted
  <2> QED BY <1>a, <1>b, <1>1, <1>2, <1>3, <1>4, <1>5, <1>6, <2>1 DEF Rooted, RootedAt, Between, Retired, Stages
<1>8. Moving'
  BY <1>a, <1>b, <1>1, <1>2, <1>3, <1>4, <1>5, <1>6 DEF Moving, SessionsFor, Stages
<1>9. Apart'
  BY <1>a, <1>b, <1>1, <1>2, <1>3, <1>4, <1>5, <1>6 DEF Apart, Stages
<1>10. Archiving'
  BY <1>a, <1>b, <1>1, <1>2, <1>3, <1>4, <1>5, <1>6 DEF Archiving, SessionsFor, Stages
<1>11. Current'
  <2> SUFFICES ASSUME NEW n \in Name PROVE Told(n)'
    BY DEF Current
  <2>1. CASE n = c
    <3>1. RecordsFor(live, c)' = r
      BY <1>1, <1>3, SameRecords
    <3>2. Final(c)' = r
      BY <1>4 DEF Final
    <3>3. ~(c = op.name /\ op.at \in {"moved", "written"})
      BY <1>a, <1>b, <1>1 DEF Stages, Archiving
    <3>4. Due(c)' = r
      BY <1>1, <3>1, <3>3 DEF Due
    <3>5. Told(c)
      BY <1>b DEF Current
    <3> QED BY <1>1, <1>3, <1>4, <2>1, <3>1, <3>2, <3>4, <3>5 DEF Told
  <2>2. CASE ~(n = c)
    <3>1. Behind(n) => Behind(n)'
      BY <1>a, <1>b, <1>1, <1>2, <1>3, <1>4, <1>5, <1>6, <2>2 DEF Behind, Retired, Stages
    <3>2. Told(n) /\ \A s \in Session : live'[s].name = n <=> live[s].name = n
      BY <1>a, <1>b, <1>1, <1>2, <1>3, <1>4, <1>5, <1>6, <2>2 DEF Current
    <3> QED BY <1>a, <1>b, <1>1, <1>2, <1>3, <1>4, <1>5, <1>6, <2>2, <3>1, <3>2, ToldKept DEF Stages
  <2> QED BY <2>1, <2>2
<1>12. Flushing'
  BY <1>a, <1>b, <1>1, <1>2, <1>3, <1>4, <1>5, <1>6 DEF Flushing, Stages, Archiving
<1>13. Lengths'
  BY <1>a, <1>b, <1>1, <1>2, <1>3, <1>4, <1>5, <1>6 DEF Lengths, Stages
<1> QED BY <1>7, <1>8, <1>9, <1>10, <1>11, <1>12, <1>13 DEF Rest

LEMMA WriteStep ==
  ASSUME NamesInv, Windows = {}, NEW c \in Name, WriteLands(c)
  PROVE  Rest'
<1>a. "none" \notin Name /\ Stages
  BY FilesAssumption, StagesHold DEF NamesInv
<1>b. Rooted /\ Moving /\ Apart /\ Archiving /\ Current /\ Flushing /\ Lengths
  BY DEF NamesInv
<1>1. live' = live /\ timers' = timers /\ flush' = flush /\ scope' = scope /\ op' = op
  BY DEF WriteLands
<1>2. /\ writes[c] # <<>> /\ writes' = [writes EXCEPT ![c] = Tail(@)]
      /\ disk' = [disk EXCEPT ![c].there = TRUE, ![c].saved = Head(writes[c])]
  BY DEF WriteLands
<1>3. /\ Head(writes[c]) = writes[c][1] /\ Len(writes[c]) \in Nat \ {0}
      /\ Len(writes'[c]) = Len(writes[c]) - 1
      /\ writes'[c] = <<>> <=> Len(writes[c]) = 1
      /\ writes'[c] # <<>> => writes'[c][Len(writes'[c])] = writes[c][Len(writes[c])]
      /\ \A i \in DOMAIN writes'[c] : i + 1 \in DOMAIN writes[c] /\ writes'[c][i] = writes[c][i + 1]
      /\ \A m \in Name : m # c => writes'[m] = writes[m]
  BY <1>2, TailType DEF NamesInv, Typed
<1>4. /\ disk'[c].there /\ disk'[c].scope = disk[c].scope /\ disk'[c].saved = Head(writes[c])
      /\ \A m \in Name : m # c => disk'[m] = disk[m]
  <2>1. disk[c] \in DirRec /\ disk \in [Name -> DirRec]
    BY DEF NamesInv, Typed
  <2>2. disk'[c] = [disk[c] EXCEPT !.there = TRUE, !.saved = Head(writes[c])]
    BY <1>2, <2>1
  <2>3. \A m \in Name : m # c => disk'[m] = disk[m]
    BY <1>2, <2>1
  <2> QED BY <2>1, <2>2, <2>3 DEF DirRec
<1>5. 1 \in DOMAIN writes[c]
  <2>1. DOMAIN writes[c] = 1..Len(writes[c])
    BY LenProperties DEF NamesInv, Typed
  <2> QED BY <1>3, <2>1
<1>6. /\ disk[c].scope
      /\ \A m \in Name :
           /\ disk'[m].scope = disk[m].scope /\ disk'[m].there = disk'[m].scope
           /\ ~disk'[m].scope => disk'[m].saved = Nothing
           /\ writes'[m] # <<>> => writes[m] # <<>>
  <2>1. \A m \in Name : RootedAt(m)
    BY <1>b DEF Rooted
  <2>2. disk[c].scope
    BY <1>2, <2>1 DEF RootedAt
  <2>3. ASSUME NEW m \in Name
        PROVE  /\ disk'[m].scope = disk[m].scope /\ disk'[m].there = disk'[m].scope
               /\ ~disk'[m].scope => disk'[m].saved = Nothing
               /\ writes'[m] # <<>> => writes[m] # <<>>
    <3>1. CASE m = c
      BY <1>2, <1>4, <2>1, <2>2, <3>1 DEF RootedAt
    <3>2. CASE m # c
      BY <1>3, <1>4, <2>1, <3>2 DEF RootedAt
    <3> QED BY <3>1, <3>2
  <2> QED BY <2>2, <2>3
<1>7. Rooted'
  <2> SUFFICES ASSUME NEW n \in Name PROVE RootedAt(n)'
    BY DEF Rooted
  <2>1. RootedAt(n)
    BY <1>b DEF Rooted
  <2> QED BY <1>a, <1>b, <1>1, <1>3, <1>4, <1>5, <1>6, <2>1 DEF Rooted, RootedAt, Between, Retired, Stages
<1>8. Moving'
  BY <1>a, <1>b, <1>1, <1>3, <1>4, <1>5, <1>6 DEF Moving, SessionsFor, Stages
<1>9. Apart'
  BY <1>a, <1>b, <1>1, <1>3, <1>4, <1>5, <1>6 DEF Apart, Stages
<1>10. Archiving'
  BY <1>a, <1>b, <1>1, <1>3, <1>4, <1>5, <1>6 DEF Archiving, SessionsFor, Stages
<1>11. Current'
  <2> SUFFICES ASSUME NEW n \in Name PROVE Told(n)'
    BY DEF Current
  <2>1. CASE n = c
    <3>1. RecordsFor(live, c)' = RecordsFor(live, c)
      BY <1>1, SameRecords
    <3>2. Final(c)' = Final(c)
      BY <1>1, <1>3, <1>4 DEF Final
    <3>3. Due(c)' = Due(c) /\ (Behind(c)' <=> Behind(c))
      BY <1>1, <3>1 DEF Due, Behind, Retired
    <3>4. Told(c)
      BY <1>b DEF Current
    <3> QED BY <1>1, <1>3, <1>4, <1>5, <2>1, <3>1, <3>2, <3>3, <3>4 DEF Told
  <2>2. CASE ~(n = c)
    <3>1. Behind(n) => Behind(n)'
      BY <1>a, <1>b, <1>1, <1>3, <1>4, <1>5, <1>6, <2>2 DEF Behind, Retired, Stages
    <3>2. Told(n) /\ \A s \in Session : live'[s].name = n <=> live[s].name = n
      BY <1>a, <1>b, <1>1, <1>3, <1>4, <1>5, <1>6, <2>2 DEF Current
    <3> QED BY <1>a, <1>b, <1>1, <1>3, <1>4, <1>5, <1>6, <2>2, <3>1, <3>2, ToldKept DEF Stages
  <2> QED BY <2>1, <2>2
<1>12. Flushing'
  BY <1>a, <1>b, <1>1, <1>3, <1>4, <1>5, <1>6 DEF Flushing, Stages
<1>13. Lengths'
  BY <1>a, <1>b, <1>1, <1>3, <1>4, <1>5, <1>6 DEF Lengths, Stages
<1> QED BY <1>7, <1>8, <1>9, <1>10, <1>11, <1>12, <1>13 DEF Rest

(* Only logs change, and the flushes that append to them.                   *)
LEMMA AppendStep ==
  ASSUME NamesInv, Windows = {}, NEW x \in Session,
         AppendLands(x) \/ AppendFails(x)
  PROVE  Rest'
<1>a. "none" \notin Name /\ Stages
  BY FilesAssumption, StagesHold DEF NamesInv
<1>b. Rooted /\ Moving /\ Apart /\ Archiving /\ Current /\ Flushing /\ Lengths
  BY DEF NamesInv
<1>1. timers' = timers /\ writes' = writes /\ scope' = scope /\ op' = op /\ flush[x].on
  BY DEF AppendLands, AppendFails
<1>2. PICK k \in Records : Settled(x, k)
  <2>1. flush[x].upTo \in Records /\ live[x].flushed \in Records
    BY DEF NamesInv, Typed, FlushRec, LiveRec
  <2> QED BY <2>1 DEF AppendLands, AppendFails
<1>3. /\ \A t \in Session : live'[t].name = live[t].name /\ live'[t].busy = live[t].busy
      /\ \A t \in Session : t # x => flush'[t] = flush[t]
      /\ flush'[x] = IF live[x].seq > flush[x].upTo THEN FlushOf(live', NoFlush, x) ELSE NoFlush
      /\ live' \in [Session -> LiveRec]
  BY <1>2, SettledType DEF NamesInv, Typed
<1>4. flush'[x].on => /\ flush'[x].name = live[x].name /\ flush'[x].from < flush'[x].upTo
                      /\ live[x].name \in Name
  <2>1. live'[x] \in LiveRec
    BY <1>3
  <2>2. live'[x].seq \in Nat /\ live'[x].flushed \in Nat /\ live'[x].name \in Name \cup {"none"}
    BY <2>1, FilesAssumption DEF LiveRec, Records
  <2> QED BY <1>3, <2>2 DEF FlushOf, NoFlush
<1>5. flush'[x].on => disk[live[x].name].scope
  <2>1. flush[x].name \in Name
    BY DEF NamesInv, Typed, FlushRec
  <2>2. disk[flush[x].name].scope
    BY <1>b, <1>1, <2>1 DEF Rooted, RootedAt
  <2>3. live[x].name # "none" => live[x].name = flush[x].name
    BY <1>b, <1>1 DEF Flushing
  <2> QED BY <1>a, <1>4, <2>2, <2>3
<1>6. \A n \in Name : /\ disk'[n].scope = disk[n].scope /\ disk'[n].saved = disk[n].saved
                      /\ disk'[n].there = disk'[n].scope
  <2> DEFINE c == flush[x].name
  <2>1. c \in Name /\ disk \in [Name -> DirRec]
    BY DEF NamesInv, Typed, FlushRec
  <2>2. PICK log : disk' = [disk EXCEPT ![c].there = TRUE, ![c].log[x] = log]
    BY DEF AppendLands, AppendFails
  <2> HIDE DEF c
  <2>3. \A n \in Name : n # c => disk'[n] = disk[n]
    BY <2>1, <2>2
  <2>4. /\ disk'[c].scope = disk[c].scope /\ disk'[c].saved = disk[c].saved /\ disk'[c].there
    BY <2>1, <2>2 DEF DirRec
  <2>5. disk[c].scope
    BY <1>1, <1>b, <2>1 DEF Rooted, RootedAt, c
  <2> QED BY <1>b, <2>3, <2>4, <2>5 DEF Rooted, RootedAt
<1>7. Rooted'
  BY <1>a, <1>b, <1>1, <1>3, <1>4, <1>5, <1>6 DEF Rooted, RootedAt, Between, Retired, Stages
<1>8. Moving'
  BY <1>a, <1>b, <1>1, <1>3, <1>6 DEF Moving, SessionsFor, Stages
<1>9. Apart'
  BY <1>b, <1>1 DEF Apart
<1>10. Archiving'
  BY <1>a, <1>b, <1>1, <1>3, <1>6 DEF Archiving, SessionsFor, Stages
<1>11. Current'
  <2> SUFFICES ASSUME NEW n \in Name PROVE Told(n)'
    BY DEF Current
  <2>1. Behind(n) => Behind(n)'
    BY <1>1 DEF Behind, Retired
  <2>2. Told(n) /\ \A s \in Session : live'[s].name = n <=> live[s].name = n
    BY <1>b, <1>3 DEF Current
  <2> QED BY <1>1, <1>6, <2>1, <2>2, ToldKept
<1>12. Flushing'
  BY <1>b, <1>1, <1>3, <1>4 DEF Flushing
<1>13. Lengths'
  BY <1>b, <1>1 DEF Lengths
<1> QED BY <1>7, <1>8, <1>9, <1>10, <1>11, <1>12, <1>13 DEF Rest

LEMMA EraseStep ==
  ASSUME NamesInv, Windows = {}, NEW x \in Session, NEW c \in Name, EraseLog(x, c)
  PROVE  Rest'
<1>a. "none" \notin Name /\ Stages
  BY FilesAssumption, StagesHold DEF NamesInv
<1>b. Rooted /\ Moving /\ Apart /\ Archiving /\ Current /\ Flushing /\ Lengths
  BY DEF NamesInv
<1>1. /\ live' = live /\ timers' = timers /\ flush' = flush /\ writes' = writes
      /\ scope' = scope /\ op' = op
  BY DEF EraseLog
<1>2. \A m \in Name : /\ disk'[m].scope = disk[m].scope /\ disk'[m].saved = disk[m].saved
                      /\ disk'[m].there = disk[m].there
  <2>1. disk \in [Name -> DirRec]
    BY DEF NamesInv, Typed
  <2>2. disk' = [disk EXCEPT ![c].log[x] = <<>>]
    BY DEF EraseLog
  <2> QED BY <2>1, <2>2 DEF DirRec
<1>3. Rooted'
  <2> SUFFICES ASSUME NEW n \in Name PROVE RootedAt(n)'
    BY DEF Rooted
  <2>1. RootedAt(n)
    BY <1>b DEF Rooted
  <2> QED BY <1>a, <1>b, <1>1, <1>2, <2>1 DEF Rooted, RootedAt, Between, Retired, Stages
<1>4. Moving'
  BY <1>a, <1>b, <1>1, <1>2 DEF Moving, SessionsFor, Stages
<1>5. Apart'
  BY <1>a, <1>b, <1>1, <1>2 DEF Apart, Stages
<1>6. Archiving'
  BY <1>a, <1>b, <1>1, <1>2 DEF Archiving, SessionsFor, Stages
<1>7. Current'
  <2> SUFFICES ASSUME NEW n \in Name PROVE Told(n)'
    BY DEF Current
  <2>1. Behind(n) => Behind(n)'
    BY <1>a, <1>b, <1>1, <1>2 DEF Behind, Retired, Stages
  <2>2. Told(n) /\ \A s \in Session : live'[s].name = n <=> live[s].name = n
    BY <1>a, <1>b, <1>1, <1>2 DEF Current
  <2> QED BY <1>a, <1>b, <1>1, <1>2, <2>1, <2>2, ToldKept DEF Stages
<1>8. Flushing'
  BY <1>a, <1>b, <1>1, <1>2 DEF Flushing, Stages
<1>9. Lengths'
  BY <1>a, <1>b, <1>1, <1>2 DEF Lengths, Stages
<1> QED BY <1>3, <1>4, <1>5, <1>6, <1>7, <1>8, <1>9 DEF Rest

LEMMA CreateStep ==
  ASSUME NamesInv, Windows = {}, NEW c \in Name, CreateTask(c)
  PROVE  Rest'
<1>a. "none" \notin Name /\ Stages
  BY FilesAssumption, StagesHold DEF NamesInv
<1>b. Rooted /\ Moving /\ Apart /\ Archiving /\ Current /\ Flushing /\ Lengths
  BY DEF NamesInv
<1>1. /\ live' = live /\ timers' = timers /\ flush' = flush /\ writes' = writes
      /\ scope' = scope /\ op' = op
  BY DEF CreateTask
<1>2. /\ ~disk[c].scope /\ ~Protected(c) /\ ~(scope.kind = "rename" /\ scope.to = c)
      /\ ~(scope.kind # "idle" /\ scope.from = c)
  BY DEF CreateTask, Steady, Named
<1>3. /\ disk'[c].scope = TRUE /\ disk'[c].there = TRUE /\ disk'[c].saved = disk[c].saved
      /\ \A m \in Name : m # c => disk'[m] = disk[m]
  <2>1. disk \in [Name -> DirRec]
    BY DEF NamesInv, Typed
  <2>2. disk' = [disk EXCEPT ![c].there = TRUE, ![c].scope = TRUE]
    BY DEF CreateTask
  <2> QED BY <2>1, <2>2 DEF DirRec
<1>4. Rooted'
  <2> SUFFICES ASSUME NEW n \in Name PROVE RootedAt(n)'
    BY DEF Rooted
  <2>1. RootedAt(n)
    BY <1>b DEF Rooted
  <2> QED BY <1>a, <1>b, <1>1, <1>2, <1>3, <2>1 DEF Rooted, RootedAt, Between, Retired, Stages
<1>5. Moving'
  BY <1>a, <1>b, <1>1, <1>2, <1>3 DEF Moving, SessionsFor, Stages
<1>6. Apart'
  BY <1>a, <1>b, <1>1, <1>2, <1>3 DEF Apart, Stages
<1>7. Archiving'
  BY <1>a, <1>b, <1>1, <1>2, <1>3 DEF Archiving, SessionsFor, Stages, Protected
<1>8. Current'
  <2> SUFFICES ASSUME NEW n \in Name PROVE Told(n)'
    BY DEF Current
  <2>1. Behind(n) => Behind(n)'
    BY <1>a, <1>b, <1>1, <1>2, <1>3 DEF Behind, Retired, Stages
  <2>2. Told(n) /\ \A s \in Session : live'[s].name = n <=> live[s].name = n
    BY <1>a, <1>b, <1>1, <1>2, <1>3 DEF Current
  <2> QED BY <1>a, <1>b, <1>1, <1>2, <1>3, <2>1, <2>2, ToldKept DEF Stages
<1>9. Flushing'
  BY <1>a, <1>b, <1>1, <1>2, <1>3 DEF Flushing, Stages
<1>10. Lengths'
  BY <1>a, <1>b, <1>1, <1>2, <1>3 DEF Lengths, Stages
<1> QED BY <1>4, <1>5, <1>6, <1>7, <1>8, <1>9, <1>10 DEF Rest

LEMMA DeleteTaskStep ==
  ASSUME NamesInv, Windows = {}, NEW c \in Name, DeleteTask(c)
  PROVE  Rest'
<1>a. "none" \notin Name /\ Stages
  BY FilesAssumption, StagesHold DEF NamesInv
<1>b. Rooted /\ Moving /\ Apart /\ Archiving /\ Current /\ Flushing /\ Lengths
  BY DEF NamesInv
<1>1. /\ live' = live /\ timers' = timers /\ flush' = flush /\ writes' = writes
      /\ disk' = disk /\ op' = op
  BY DEF DeleteTask
<1>2. /\ scope.kind = "idle" /\ ~Protected(c) /\ disk[c].scope
      /\ scope' = [kind |-> "delete", at |-> "teardown", from |-> c, to |-> c]
  BY DEF DeleteTask
<1>3. Rooted'
  <2> SUFFICES ASSUME NEW n \in Name PROVE RootedAt(n)'
    BY DEF Rooted
  <2>1. RootedAt(n)
    BY <1>b DEF Rooted
  <2> QED BY <1>a, <1>b, <1>1, <1>2, <2>1 DEF Rooted, RootedAt, Between, Retired, Stages
<1>4. Moving'
  BY <1>a, <1>b, <1>1, <1>2 DEF Moving, SessionsFor, Stages
<1>5. Apart'
  BY <1>a, <1>b, <1>1, <1>2 DEF Apart, Stages, Protected
<1>6. Archiving'
  BY <1>a, <1>b, <1>1, <1>2 DEF Archiving, SessionsFor, Stages
<1>7. Current'
  <2> SUFFICES ASSUME NEW n \in Name PROVE Told(n)'
    BY DEF Current
  <2>1. Behind(n) => Behind(n)'
    BY <1>a, <1>b, <1>1, <1>2 DEF Behind, Retired, Stages
  <2>2. Told(n) /\ \A s \in Session : live'[s].name = n <=> live[s].name = n
    BY <1>a, <1>b, <1>1, <1>2 DEF Current
  <2> QED BY <1>a, <1>b, <1>1, <1>2, <2>1, <2>2, ToldKept DEF Stages
<1>8. Flushing'
  BY <1>a, <1>b, <1>1, <1>2 DEF Flushing, Stages
<1>9. Lengths'
  BY <1>a, <1>b, <1>1, <1>2 DEF Lengths, Stages
<1> QED BY <1>3, <1>4, <1>5, <1>6, <1>7, <1>8, <1>9 DEF Rest

LEMMA RenameTaskStep ==
  ASSUME NamesInv, Windows = {}, NEW c \in Name, NEW e \in Name, RenameTask(c, e)
  PROVE  Rest'
<1>a. "none" \notin Name /\ Stages
  BY FilesAssumption, StagesHold DEF NamesInv
<1>b. Rooted /\ Moving /\ Apart /\ Archiving /\ Current /\ Flushing /\ Lengths
  BY DEF NamesInv
<1>1. /\ live' = live /\ timers' = timers /\ flush' = flush /\ writes' = writes
      /\ disk' = disk /\ op' = op
  BY DEF RenameTask
<1>2. /\ scope.kind = "idle" /\ ~Protected(c) /\ ~Protected(e) /\ disk[c].scope /\ ~disk[e].there
      /\ scope' = [kind |-> "rename", at |-> "teardown", from |-> c, to |-> e]
  BY DEF RenameTask
<1>3. Rooted'
  <2> SUFFICES ASSUME NEW n \in Name PROVE RootedAt(n)'
    BY DEF Rooted
  <2>1. RootedAt(n)
    BY <1>b DEF Rooted
  <2> QED BY <1>a, <1>b, <1>1, <1>2, <2>1 DEF Rooted, RootedAt, Between, Retired, Stages
<1>4. Moving'
  BY <1>a, <1>b, <1>1, <1>2 DEF Moving, SessionsFor, Stages, Rooted, RootedAt
<1>5. Apart'
  BY <1>a, <1>b, <1>1, <1>2 DEF Apart, Stages, Protected
<1>6. Archiving'
  BY <1>a, <1>b, <1>1, <1>2 DEF Archiving, SessionsFor, Stages
<1>7. Current'
  <2> SUFFICES ASSUME NEW n \in Name PROVE Told(n)'
    BY DEF Current
  <2>1. Behind(n) => Behind(n)'
    BY <1>a, <1>b, <1>1, <1>2 DEF Behind, Retired, Stages
  <2>2. Told(n) /\ \A s \in Session : live'[s].name = n <=> live[s].name = n
    BY <1>a, <1>b, <1>1, <1>2 DEF Current
  <2> QED BY <1>a, <1>b, <1>1, <1>2, <2>1, <2>2, ToldKept DEF Stages
<1>8. Flushing'
  BY <1>a, <1>b, <1>1, <1>2 DEF Flushing, Stages
<1>9. Lengths'
  BY <1>a, <1>b, <1>1, <1>2 DEF Lengths, Stages
<1> QED BY <1>3, <1>4, <1>5, <1>6, <1>7, <1>8, <1>9 DEF Rest

LEMMA StopsStep ==
  ASSUME NamesInv, Windows = {}, ScopeStops
  PROVE  Rest'
<1>a. "none" \notin Name /\ Stages
  BY FilesAssumption, StagesHold DEF NamesInv
<1>b. Rooted /\ Moving /\ Apart /\ Archiving /\ Current /\ Flushing /\ Lengths
  BY DEF NamesInv
<1>1. /\ live' = live /\ flush' = flush /\ writes' = writes
      /\ disk' = disk /\ op' = op
  BY DEF ScopeStops
<1>2. /\ scope.at = "teardown" /\ scope'.at = "stopped" /\ scope'.kind = scope.kind
      /\ scope'.from = scope.from /\ scope'.to = scope.to
  <2>1. scope \in MoveRec
    BY DEF NamesInv, Typed
  <2> QED BY <2>1 DEF ScopeStops, MoveRec
<1>3. timers' = timers \/ timers' = timers \cup {scope.from}
  BY DEF ScopeStops
<1>4. /\ disk[scope.from].scope
      /\ op.kind \notin {"idle", "delete"} => op.name # scope.from
  BY <1>a, <1>b, <1>2 DEF Moving, Apart, Stages
<1>5. Rooted'
  <2> SUFFICES ASSUME NEW n \in Name PROVE RootedAt(n)'
    BY DEF Rooted
  <2>1. RootedAt(n)
    BY <1>b DEF Rooted
  <2> QED BY <1>a, <1>b, <1>1, <1>2, <1>3, <1>4, <2>1 DEF Rooted, RootedAt, Between, Retired, Stages
<1>6. Moving'
  BY <1>a, <1>b, <1>1, <1>2, <1>3, <1>4 DEF Moving, SessionsFor, Stages
<1>7. Apart'
  BY <1>a, <1>b, <1>1, <1>2, <1>3, <1>4 DEF Apart, Stages
<1>8. Archiving'
  BY <1>a, <1>b, <1>1, <1>2, <1>3, <1>4 DEF Archiving, SessionsFor, Stages
<1>9. Current'
  <2> SUFFICES ASSUME NEW n \in Name PROVE Told(n)'
    BY DEF Current
  <2>1. Behind(n) => Behind(n)'
    BY <1>a, <1>b, <1>1, <1>2, <1>3, <1>4 DEF Behind, Retired, Stages
  <2>2. Told(n) /\ \A s \in Session : live'[s].name = n <=> live[s].name = n
    BY <1>a, <1>b, <1>1, <1>2, <1>3, <1>4 DEF Current
  <2> QED BY <1>a, <1>b, <1>1, <1>2, <1>3, <1>4, <2>1, <2>2, ToldKept DEF Stages
<1>10. Flushing'
  BY <1>a, <1>b, <1>1, <1>2, <1>3, <1>4 DEF Flushing, Stages
<1>11. Lengths'
  BY <1>a, <1>b, <1>1, <1>2, <1>3, <1>4 DEF Lengths, Stages
<1> QED BY <1>5, <1>6, <1>7, <1>8, <1>9, <1>10, <1>11 DEF Rest

LEMMA DropsStep ==
  ASSUME NamesInv, Windows = {}, DeleteDrops
  PROVE  Rest'
<1>a. "none" \notin Name /\ Stages
  BY FilesAssumption, StagesHold DEF NamesInv
<1>b. Rooted /\ Moving /\ Apart /\ Archiving /\ Current /\ Flushing /\ Lengths
  BY DEF NamesInv
<1>1. /\ flush' = flush /\ writes' = writes /\ disk' = disk /\ op' = op
  BY DEF DeleteDrops
<1>2. /\ scope.at = "stopped" /\ scope.kind = "delete" /\ scope'.at = "removing"
      /\ scope'.kind = scope.kind /\ scope'.from = scope.from /\ scope'.to = scope.to
  <2>1. scope \in MoveRec
    BY DEF NamesInv, Typed
  <2> QED BY <2>1 DEF DeleteDrops, MoveRec
<1>3. /\ timers' = timers \ {scope.from}
      /\ \A s \in Session : /\ live'[s].name = IF live[s].name = scope.from THEN "none"
                                               ELSE live[s].name
                            /\ live'[s].busy => live[s].busy
  BY <1>a, DropType DEF DeleteDrops, NamesInv, Typed, Stages
<1>4. \A n \in Name, s \in Session :
        /\ live'[s].name = n => live[s].name = n /\ n # scope.from
        /\ live[s].name = n /\ n # scope.from => live'[s].name = n
        /\ live[s].name = "none" => live'[s].name = "none"
        /\ live'[s].name = live[s].name \/ live'[s].name = "none"
        /\ live'[s].busy => live[s].busy
  BY <1>a, <1>3
<1>5. timers' = timers \ {scope.from}
  BY <1>3
<1>6. /\ disk[scope.from].scope
      /\ op.kind \notin {"idle", "delete"} => op.name # scope.from
  BY <1>a, <1>b, <1>2 DEF Moving, Apart, Stages
<1>7. /\ disk[scope.from].scope
      /\ op.kind \notin {"idle", "delete"} => op.name # scope.from
  BY <1>a, <1>b, <1>2 DEF Moving, Apart, Stages
<1>8. Rooted'
  <2> SUFFICES ASSUME NEW n \in Name PROVE RootedAt(n)'
    BY DEF Rooted
  <2>1. RootedAt(n)
    BY <1>b DEF Rooted
  <2> QED BY <1>a, <1>b, <1>1, <1>2, <1>4, <1>5, <1>6, <1>7, <2>1 DEF Rooted, RootedAt, Between, Retired, Stages
<1>9. Moving'
  BY <1>a, <1>b, <1>1, <1>2, <1>4, <1>5, <1>6, <1>7 DEF Moving, SessionsFor, Stages
<1>10. Apart'
  BY <1>a, <1>b, <1>1, <1>2, <1>4, <1>5, <1>6, <1>7 DEF Apart, Stages
<1>11. Archiving'
  BY <1>a, <1>b, <1>1, <1>2, <1>4, <1>5, <1>6, <1>7 DEF Archiving, SessionsFor, Stages
<1>12. Current'
  <2> SUFFICES ASSUME NEW n \in Name PROVE Told(n)'
    BY DEF Current
  <2>1. CASE n = scope.from
    BY <1>a, <1>b, <1>1, <1>2, <1>4, <1>5, <1>6, <1>7, <2>1 DEF Told, Behind, Apart, Stages
  <2>2. CASE ~(n = scope.from)
    <3>1. Behind(n) => Behind(n)'
      BY <1>a, <1>b, <1>1, <1>2, <1>4, <1>5, <1>6, <1>7, <2>2 DEF Behind, Retired, Stages
    <3>2. Told(n) /\ \A s \in Session : live'[s].name = n <=> live[s].name = n
      BY <1>a, <1>b, <1>1, <1>2, <1>4, <1>5, <1>6, <1>7, <2>2 DEF Current
    <3> QED BY <1>a, <1>b, <1>1, <1>2, <1>4, <1>5, <1>6, <1>7, <2>2, <3>1, <3>2, ToldKept DEF Stages
  <2> QED BY <2>1, <2>2
<1>13. Flushing'
  BY <1>a, <1>b, <1>1, <1>2, <1>4, <1>5, <1>6, <1>7 DEF Flushing, Stages
<1>14. Lengths'
  BY <1>a, <1>b, <1>1, <1>2, <1>4, <1>5, <1>6, <1>7 DEF Lengths, Stages
<1> QED BY <1>8, <1>9, <1>10, <1>11, <1>12, <1>13, <1>14 DEF Rest

LEMMA RemovesStep ==
  ASSUME NamesInv, Windows = {}, DeleteRemoves
  PROVE  Rest'
<1>a. "none" \notin Name /\ Stages
  BY FilesAssumption, StagesHold DEF NamesInv
<1>b. Rooted /\ Moving /\ Apart /\ Archiving /\ Current /\ Flushing /\ Lengths
  BY DEF NamesInv
<1>1. PICK c \in Name : c = scope.from
  BY <1>a DEF Stages
<1>2. /\ live' = live /\ timers' = timers /\ flush' = flush /\ op' = op /\ scope' = NoMove
      /\ scope.at = "removing"
  BY DEF DeleteRemoves
<1>3. /\ writes'[c] = <<>> /\ \A m \in Name : m # c => writes'[m] = writes[m]
      /\ Drained(c)
  BY <1>1, GoingType DEF DeleteRemoves, NamesInv, Typed
<1>4. disk'[c] = NoDir /\ \A m \in Name : m # c => disk'[m] = disk[m]
  BY <1>1 DEF DeleteRemoves, NamesInv, Typed
<1>5. /\ c \notin timers
      /\ \A s \in Session : live[s].name # c /\ (flush[s].on => flush[s].name # c)
  BY <1>a, <1>b, <1>1, <1>2, <1>3 DEF Moving, Stages, SessionsFor, Drained
<1>6. op.kind \notin {"idle", "delete"} => op.name # c
  BY <1>a, <1>b, <1>1, <1>2 DEF Apart, Stages
<1>7. /\ disk'[c].scope = FALSE /\ disk'[c].there = FALSE /\ disk'[c].saved = Nothing
      /\ scope'.kind = "idle" /\ scope'.at = "idle"
  BY <1>2, <1>4 DEF NoDir, NoMove
<1>8. Rooted'
  <2> SUFFICES ASSUME NEW n \in Name PROVE RootedAt(n)'
    BY DEF Rooted
  <2>1. RootedAt(n)
    BY <1>b DEF Rooted
  <2>2. CASE n = c
    BY <1>a, <1>b, <1>1, <1>2, <1>3, <1>4, <1>5, <1>6, <1>7, <2>1, <2>2 DEF Rooted, RootedAt, Between, Retired, Stages
  <2>3. CASE ~(n = c)
    BY <1>a, <1>b, <1>1, <1>2, <1>3, <1>4, <1>5, <1>6, <1>7, <2>1, <2>3 DEF Rooted, RootedAt, Between, Retired, Stages
  <2> QED BY <2>2, <2>3
<1>9. Moving'
  BY <1>a, <1>b, <1>1, <1>2, <1>3, <1>4, <1>5, <1>6, <1>7 DEF Moving, SessionsFor, Stages
<1>10. Apart'
  BY <1>a, <1>b, <1>1, <1>2, <1>3, <1>4, <1>5, <1>6, <1>7 DEF Apart, Stages
<1>11. Archiving'
  BY <1>a, <1>b, <1>1, <1>2, <1>3, <1>4, <1>5, <1>6, <1>7 DEF Archiving, SessionsFor, Stages
<1>12. Current'
  <2> SUFFICES ASSUME NEW n \in Name PROVE Told(n)'
    BY DEF Current
  <2>1. CASE n = c
    <3>1. RecordsFor(live, c)' = Nothing
      BY <1>2, <1>5, SameRecords DEF RecordsFor, SessionsFor, Nothing
    <3>2. Due(c)' = Nothing
      BY <1>a, <1>2, <1>6, <3>1 DEF Due, Stages
    <3>3. Final(c)' = Nothing
      BY <1>3, <1>7 DEF Final
    <3> QED BY <1>a, <1>2, <1>6, <2>1, <3>2, <3>3 DEF Told, Stages
  <2>2. CASE ~(n = c)
    <3>1. Behind(n) => Behind(n)'
      BY <1>a, <1>b, <1>1, <1>2, <1>3, <1>4, <1>5, <1>6, <1>7, <2>2 DEF Behind, Retired, Stages
    <3>2. Told(n) /\ \A s \in Session : live'[s].name = n <=> live[s].name = n
      BY <1>a, <1>b, <1>1, <1>2, <1>3, <1>4, <1>5, <1>6, <1>7, <2>2 DEF Current
    <3> QED BY <1>a, <1>b, <1>1, <1>2, <1>3, <1>4, <1>5, <1>6, <1>7, <2>2, <3>1, <3>2, ToldKept DEF Stages
  <2> QED BY <2>1, <2>2
<1>13. Flushing'
  BY <1>a, <1>b, <1>1, <1>2, <1>3, <1>4, <1>5, <1>6, <1>7 DEF Flushing, Stages
<1>14. Lengths'
  BY <1>a, <1>b, <1>1, <1>2, <1>3, <1>4, <1>5, <1>6, <1>7 DEF Lengths, Stages
<1> QED BY <1>8, <1>9, <1>10, <1>11, <1>12, <1>13, <1>14 DEF Rest

(* The name a rename goes to is still free when its directory moves.         *)
LEMMA RenameGoesOn ==
  ASSUME NamesInv, RenameMoves
  PROVE  /\ Drained(scope.from) /\ Going(scope.from)
         /\ disk' = [disk EXCEPT ![scope.from] = NoDir, ![scope.to] = disk[scope.from]]
         /\ scope' = [scope EXCEPT !.at = "branches"]
<1>1. /\ scope.kind = "rename" /\ scope.at = "stopped" /\ scope.to \in Name
  BY StagesHold DEF RenameMoves, NamesInv, Stages
<1>2. ~disk[scope.to].there
  BY <1>1 DEF NamesInv, Moving, Rooted, RootedAt
<1> QED BY <1>2 DEF RenameMoves

LEMMA MovesStep ==
  ASSUME NamesInv, Windows = {}, RenameMoves
  PROVE  Rest'
<1>a. "none" \notin Name /\ Stages
  BY FilesAssumption, StagesHold DEF NamesInv
<1>b. Rooted /\ Moving /\ Apart /\ Archiving /\ Current /\ Flushing /\ Lengths
  BY DEF NamesInv
<1>1. PICK c \in Name, e \in Name : c = scope.from /\ e = scope.to
  BY <1>a DEF Stages
<1>2. /\ live' = live /\ timers' = timers /\ flush' = flush /\ op' = op
      /\ scope.kind = "rename" /\ scope.at = "stopped" /\ c # e
  BY <1>a, <1>1 DEF RenameMoves, Stages
<1>3. /\ scope'.kind = "rename" /\ scope'.at = "branches" /\ scope'.from = c /\ scope'.to = e
  <2>1. scope \in MoveRec
    BY DEF NamesInv, Typed
  <2> QED BY <1>1, <1>2, <2>1, RenameGoesOn DEF MoveRec
<1>4. /\ writes'[c] = <<>> /\ \A m \in Name : m # c => writes'[m] = writes[m]
      /\ Drained(c)
  BY <1>1, GoingType, RenameGoesOn DEF NamesInv, Typed
<1>5. /\ disk'[c] = NoDir /\ disk'[e] = disk[c]
      /\ \A m \in Name : m \notin {c, e} => disk'[m] = disk[m]
  <2>1. disk \in [Name -> DirRec]
    BY DEF NamesInv, Typed
  <2> QED BY <1>1, <1>2, <2>1, RenameGoesOn
<1>6. /\ disk[c].scope = TRUE /\ disk[c].there = TRUE /\ disk[e].scope = FALSE
      /\ disk'[c].scope = FALSE /\ disk'[c].there = FALSE /\ disk'[c].saved = Nothing
      /\ disk'[e].scope = TRUE /\ disk'[e].there = TRUE
  <2>1. disk[c].scope /\ ~disk[e].scope
    BY <1>a, <1>b, <1>1, <1>2 DEF Moving, Stages
  <2>2. disk[c] \in DirRec /\ disk[e] \in DirRec
    BY DEF NamesInv, Typed
  <2> QED BY <1>b, <1>5, <2>1, <2>2 DEF Rooted, RootedAt, NoDir, DirRec
<1>7. op.kind \notin {"idle", "delete"} => op.name \notin {c, e}
  BY <1>a, <1>b, <1>1, <1>2 DEF Apart, Stages
<1>8. /\ writes[e] = <<>> /\ e \notin timers
      /\ \A s \in Session : live[s].name # e /\ (flush[s].on => flush[s].name \notin {c, e})
  <2>1. RootedAt(e)
    BY <1>b DEF Rooted
  <2> QED BY <1>a, <1>1, <1>2, <1>4, <1>6, <1>7, <2>1 DEF RootedAt, Between, Retired, Stages, Drained
<1>9. Rooted'
  <2> SUFFICES ASSUME NEW n \in Name PROVE RootedAt(n)'
    BY DEF Rooted
  <2>1. RootedAt(n)
    BY <1>b DEF Rooted
  <2>2. CASE n = c
    BY <1>a, <1>b, <1>1, <1>2, <1>3, <1>4, <1>5, <1>6, <1>7, <1>8, <2>1, <2>2 DEF Rooted, RootedAt, Between, Retired, Stages
  <2>3. CASE ~(n = c)
    BY <1>a, <1>b, <1>1, <1>2, <1>3, <1>4, <1>5, <1>6, <1>7, <1>8, <2>1, <2>3 DEF Rooted, RootedAt, Between, Retired, Stages
  <2> QED BY <2>2, <2>3
<1>10. Moving'
  BY <1>a, <1>b, <1>1, <1>2, <1>3, <1>4, <1>5, <1>6, <1>7, <1>8 DEF Moving, SessionsFor, Stages
<1>11. Apart'
  BY <1>a, <1>b, <1>1, <1>2, <1>3, <1>4, <1>5, <1>6, <1>7, <1>8 DEF Apart, Stages
<1>12. Archiving'
  BY <1>a, <1>b, <1>1, <1>2, <1>3, <1>4, <1>5, <1>6, <1>7, <1>8 DEF Archiving, SessionsFor, Stages
<1>13. Current'
  <2> SUFFICES ASSUME NEW n \in Name PROVE Told(n)'
    BY DEF Current
  <2>1. CASE n \in {c, e}
    <3>1. Behind(n)'
      BY <1>3, <2>1 DEF Behind
    <3> QED BY <1>a, <1>2, <1>7, <2>1, <3>1 DEF Told, Stages
  <2>2. CASE ~(n \in {c, e})
    <3>1. Behind(n) => Behind(n)'
      BY <1>a, <1>b, <1>1, <1>2, <1>3, <1>4, <1>5, <1>6, <1>7, <1>8, <2>2 DEF Behind, Retired, Stages
    <3>2. Told(n) /\ \A s \in Session : live'[s].name = n <=> live[s].name = n
      BY <1>a, <1>b, <1>1, <1>2, <1>3, <1>4, <1>5, <1>6, <1>7, <1>8, <2>2 DEF Current
    <3> QED BY <1>a, <1>b, <1>1, <1>2, <1>3, <1>4, <1>5, <1>6, <1>7, <1>8, <2>2, <3>1, <3>2, ToldKept DEF Stages
  <2> QED BY <2>1, <2>2
<1>14. Flushing'
  BY <1>a, <1>b, <1>1, <1>2, <1>3, <1>4, <1>5, <1>6, <1>7, <1>8 DEF Flushing, Stages
<1>15. Lengths'
  BY <1>a, <1>b, <1>1, <1>2, <1>3, <1>4, <1>5, <1>6, <1>7, <1>8 DEF Lengths, Stages
<1> QED BY <1>9, <1>10, <1>11, <1>12, <1>13, <1>14, <1>15 DEF Rest

LEMMA EndsStep ==
  ASSUME NamesInv, Windows = {}, RenameEnds
  PROVE  Rest'
<1>a. "none" \notin Name /\ Stages
  BY FilesAssumption, StagesHold DEF NamesInv
<1>b. Rooted /\ Moving /\ Apart /\ Archiving /\ Current /\ Flushing /\ Lengths
  BY DEF NamesInv
<1>1. PICK c \in Name, e \in Name : c = scope.from /\ e = scope.to
  BY <1>a DEF Stages
<1> DEFINE l == [s \in Session |-> IF live[s].name = c THEN [live[s] EXCEPT !.name = e] ELSE live[s]]
             r == RecordsFor(l, e)
<1>2. /\ live' = l /\ timers' = timers \ {c} /\ writes' = [writes EXCEPT ![e] = Append(@, r)]
      /\ scope' = NoMove /\ scope.at = "branches"
  BY <1>1 DEF RenameEnds
<1>3. /\ timers' = timers \ {c} /\ flush' = flush /\ disk' = disk /\ op' = op
      /\ scope.kind = "rename" /\ scope.at = "branches" /\ c # e
      /\ scope'.kind = "idle" /\ scope'.at = "idle"
  BY <1>a, <1>1 DEF RenameEnds, Stages, NoMove
<1>4. /\ l \in [Session -> LiveRec]
      /\ \A s \in Session : /\ live'[s].name = IF live[s].name = c THEN e ELSE live[s].name
                            /\ live'[s].busy = live[s].busy
  <2>1. live \in [Session -> LiveRec]
    BY DEF NamesInv, Typed
  <2> QED BY <1>2, <2>1 DEF LiveRec
<1>5. r = RecordsFor(live, e)'
  BY <1>2 DEF RecordsFor
<1>6. r \in Saved
  BY <1>4, RecordsForType
<1> HIDE DEF l, r
<1>7. /\ writes'[e] = Append(writes[e], r) /\ writes'[e] # <<>>
      /\ writes'[e][Len(writes'[e])] = r /\ Len(writes'[e]) = Len(writes[e]) + 1
      /\ \A m \in Name : m # e => writes'[m] = writes[m]
  BY <1>2, <1>6, AppendType DEF NamesInv, Typed
<1>8. op.kind \notin {"idle", "delete"} => op.name \notin {c, e}
  BY <1>a, <1>b, <1>1, <1>3 DEF Apart, Stages
<1>9. /\ disk[e].scope /\ ~disk[c].scope /\ writes[e] = <<>> /\ e \notin timers
      /\ \A s \in Session : live[s].name # e
  BY <1>b, <1>1, <1>3 DEF Moving, SessionsFor
<1>10. Len(writes[e]) = 0
  BY <1>9
<1>11. /\ disk[c].saved = Nothing /\ writes[c] = <<>>
      /\ \A s \in Session : flush[s].on => flush[s].name # c
  BY <1>b, <1>9 DEF Rooted, RootedAt
<1>12. Rooted'
  <2> SUFFICES ASSUME NEW n \in Name PROVE RootedAt(n)'
    BY DEF Rooted
  <2>1. RootedAt(n)
    BY <1>b DEF Rooted
  <2>2. CASE n = e
    BY <1>a, <1>b, <1>1, <1>3, <1>4, <1>5, <1>7, <1>8, <1>9, <1>10, <1>11, <2>1, <2>2 DEF Rooted, RootedAt, Between, Retired, Stages
  <2>3. CASE ~(n = e)
    BY <1>a, <1>b, <1>1, <1>3, <1>4, <1>5, <1>7, <1>8, <1>9, <1>10, <1>11, <2>1, <2>3 DEF Rooted, RootedAt, Between, Retired, Stages
  <2> QED BY <2>2, <2>3
<1>13. Moving'
  BY <1>a, <1>b, <1>1, <1>3, <1>4, <1>5, <1>7, <1>8, <1>9, <1>10, <1>11 DEF Moving, SessionsFor, Stages
<1>14. Apart'
  BY <1>a, <1>b, <1>1, <1>3, <1>4, <1>5, <1>7, <1>8, <1>9, <1>10, <1>11 DEF Apart, Stages
<1>15. Archiving'
  BY <1>a, <1>b, <1>1, <1>3, <1>4, <1>5, <1>7, <1>8, <1>9, <1>10, <1>11 DEF Archiving, SessionsFor, Stages
<1>16. Current'
  <2> SUFFICES ASSUME NEW n \in Name PROVE Told(n)'
    BY DEF Current
  <2>1. CASE n \in {c, e}
    <3>1. CASE n = e
      <4>1. Final(e)' = r
        BY <1>7 DEF Final
      <4>2. Due(e)' = r
        BY <1>a, <1>3, <1>5, <1>8 DEF Due, Stages
      <4> QED BY <1>a, <1>3, <1>8, <3>1, <4>1, <4>2 DEF Told, Stages
    <3>2. CASE n = c
      <4>1. RecordsFor(live, c)' = Nothing
        BY <1>3, <1>4 DEF RecordsFor, Nothing
      <4>2. Final(c)' = Nothing
        BY <1>3, <1>7, <1>11 DEF Final
      <4>3. Due(c)' = Nothing
        BY <1>a, <1>3, <1>8, <4>1 DEF Due, Stages
      <4> QED BY <1>a, <1>3, <1>8, <3>2, <4>2, <4>3 DEF Told, Stages
    <3> QED BY <2>1, <3>1, <3>2
  <2>2. CASE ~(n \in {c, e})
    <3>1. Behind(n) => Behind(n)'
      BY <1>a, <1>b, <1>1, <1>3, <1>4, <1>5, <1>7, <1>8, <1>9, <1>10, <1>11, <2>2 DEF Behind, Retired, Stages
    <3>2. Told(n) /\ \A s \in Session : live'[s].name = n <=> live[s].name = n
      BY <1>a, <1>b, <1>1, <1>3, <1>4, <1>5, <1>7, <1>8, <1>9, <1>10, <1>11, <2>2 DEF Current
    <3> QED BY <1>a, <1>b, <1>1, <1>3, <1>4, <1>5, <1>7, <1>8, <1>9, <1>10, <1>11, <2>2, <3>1, <3>2, ToldKept DEF Stages
  <2> QED BY <2>1, <2>2
<1>17. Flushing'
  BY <1>a, <1>b, <1>1, <1>3, <1>4, <1>5, <1>7, <1>8, <1>9, <1>10, <1>11 DEF Flushing, Stages
<1>18. Lengths'
  <2> SUFFICES ASSUME NEW n \in Name
               PROVE  Len(writes'[n]) <= (IF n = op'.name /\ op'.at \in {"flushing", "dropped", "written"}
                                          THEN 3 ELSE 2)
    BY DEF Lengths
  <2>1. CASE n = e
    BY <1>7, <1>10, <2>1
  <2>2. CASE n # e
    BY <1>b, <1>3, <1>7, <2>2 DEF Lengths
  <2> QED BY <2>1, <2>2
<1> QED BY <1>12, <1>13, <1>14, <1>15, <1>16, <1>17, <1>18 DEF Rest

(* Only the operation moves on.                                              *)
LEMMA OnlyOpStep ==
  ASSUME NamesInv, Windows = {},
         live' = live, timers' = timers, flush' = flush, writes' = writes, disk' = disk,
         scope' = scope,
         op.at \notin {"retired", "flushing", "dropped", "moved", "written"},
         op'.at \notin {"retired", "copy", "dropped", "moved", "written"},
         op'.at = "flushing" => op'.name \notin timers,
         Apart', Archiving'
  PROVE  Rest'
<1>b. Rooted /\ Moving /\ Apart /\ Archiving /\ Current /\ Flushing /\ Lengths
  BY DEF NamesInv
<1>1. Rooted'
  BY <1>b DEF Rooted, RootedAt, Between, Retired
<1>2. Moving'
  BY <1>b DEF Moving, SessionsFor
<1>3. Current'
  <2> SUFFICES ASSUME NEW n \in Name PROVE Told(n)'
    BY DEF Current
  <2>1. Behind(n) => Behind(n)'
    BY DEF Behind, Retired
  <2>2. Told(n)
    BY <1>b DEF Current
  <2> QED BY <2>1, <2>2, ToldKept
<1>4. Flushing'
  BY <1>b DEF Flushing
<1>5. Lengths'
  BY <1>b DEF Lengths
<1> QED BY <1>1, <1>2, <1>3, <1>4, <1>5 DEF Rest

LEMMA ArchiveScopeStep ==
  ASSUME NamesInv, Windows = {}, NEW c \in Name, NEW i \in Id, ArchiveScope(c, i)
  PROVE  Rest'
<1>a. "none" \notin Name /\ Stages
  BY FilesAssumption, StagesHold DEF NamesInv
<1>b. Rooted /\ Moving /\ Apart /\ Archiving
  BY DEF NamesInv
<1>1. /\ live' = live /\ timers' = timers /\ flush' = flush /\ writes' = writes
      /\ disk' = disk /\ scope' = scope
  BY DEF ArchiveScope
<1>2. /\ op'.kind = "scope" /\ op'.at = "teardown" /\ op'.name = c /\ op'.who = {}
      /\ op.kind = "idle"
  BY BeginsType DEF ArchiveScope, NamesInv, Typed
<1>3. /\ disk[c].scope /\ \A s \in SessionsFor(c) : ~live[s].busy
      /\ ~(scope.kind # "idle" /\ scope.from = c)
      /\ (scope.at = "branches" => c # scope.from /\ c # scope.to)
  BY DEF ArchiveScope, PendingWork, Changing, Aside, Branches
<1>4. Apart'
  BY <1>a, <1>b, <1>1, <1>2, <1>3 DEF Apart, Stages, Moving, NamesInv, MoveStage
<1>5. Archiving'
  BY <1>a, <1>b, <1>1, <1>2, <1>3 DEF Archiving, SessionsFor, Stages
<1> QED BY <1>a, <1>1, <1>2, <1>3, <1>4, <1>5, OnlyOpStep DEF Stages

LEMMA ArchiveSessionStep ==
  ASSUME NamesInv, Windows = {}, NEW x \in Session, NEW i \in Id, ArchiveSession(x, i)
  PROVE  Rest'
<1>a. "none" \notin Name /\ Stages
  BY FilesAssumption, StagesHold DEF NamesInv
<1>b. Rooted /\ Moving /\ Apart /\ Archiving
  BY DEF NamesInv
<1>1. PICK c \in Name : c = live[x].name
  BY DEF ArchiveSession, NamesInv, Typed, LiveRec
<1>2. /\ live' = live /\ timers' = timers /\ flush' = flush /\ writes' = writes
      /\ disk' = disk /\ scope' = scope
  BY DEF ArchiveSession
<1>3. /\ op'.kind = "session" /\ op'.at = "teardown" /\ op'.name = c /\ op'.who = {x}
      /\ op.kind = "idle"
  BY <1>1, BeginsType DEF ArchiveSession, NamesInv, Typed
<1>4. /\ \A s \in SessionsFor(c) : ~live[s].busy
      /\ ~(scope.kind # "idle" /\ scope.from = c)
      /\ (scope.at = "branches" => c # scope.from /\ c # scope.to)
  BY <1>1 DEF ArchiveSession, PendingWork, Steady, Named, Aside, Branches
<1>5. disk[c].scope
  <2>1. RootedAt(c)
    BY <1>b DEF Rooted
  <2> QED BY <1>a, <1>1, <1>3, <1>4, <2>1 DEF RootedAt, Between, Retired, Stages
<1>6. Apart'
  BY <1>a, <1>b, <1>1, <1>2, <1>3, <1>4, <1>5 DEF Apart, Stages, Moving, NamesInv, MoveStage
<1>7. Archiving'
  BY <1>a, <1>b, <1>1, <1>2, <1>3, <1>4, <1>5 DEF Archiving, SessionsFor, Stages
<1> QED BY <1>a, <1>1, <1>2, <1>3, <1>4, <1>5, <1>6, <1>7, OnlyOpStep DEF Stages

LEMMA RestoreStep ==
  ASSUME NamesInv, Windows = {}, NEW i \in Id, Restore(i)
  PROVE  Rest'
<1>a. "none" \notin Name /\ Stages
  BY FilesAssumption, StagesHold DEF NamesInv
<1>b. Rooted /\ Moving /\ Apart /\ Archiving
  BY DEF NamesInv
<1>1. PICK c \in Name, who \in SUBSET Session : c = archive[i].name /\ who = archive[i].saved
  BY DEF NamesInv, Typed, FileRec
<1>2. /\ live' = live /\ timers' = timers /\ flush' = flush /\ writes' = writes
      /\ disk' = disk /\ scope' = scope
  BY DEF Restore
<1>3. /\ op'.kind = "restore" /\ op'.at = "unpacked" /\ op'.name = c /\ op'.who = who
      /\ op.kind = "idle"
  BY <1>1, BeginsType DEF Restore, NamesInv, Typed
<1>4. /\ ~disk[c].scope /\ \A s \in who : live[s].name = "none"
      /\ scope.kind # "idle" => c # scope.from /\ c # scope.to
  BY <1>1, <1>b DEF Restore, NoneLive, Rooted, RootedAt, Steady, Named
<1>5. Apart'
  BY <1>a, <1>b, <1>1, <1>2, <1>3, <1>4 DEF Apart, Stages
<1>6. Archiving'
  BY <1>a, <1>b, <1>1, <1>2, <1>3, <1>4 DEF Archiving, SessionsFor, Stages
<1> QED BY <1>a, <1>1, <1>2, <1>3, <1>4, <1>5, <1>6, OnlyOpStep DEF Stages

LEMMA ReturnSessionStep ==
  ASSUME NamesInv, Windows = {}, NEW i \in Id, ReturnSession(i)
  PROVE  Rest'
<1>a. "none" \notin Name /\ Stages
  BY FilesAssumption, StagesHold DEF NamesInv
<1>b. Rooted /\ Moving /\ Apart /\ Archiving
  BY DEF NamesInv
<1>1. PICK c \in Name, who \in SUBSET Session : c = archive[i].name /\ who = archive[i].saved
  BY DEF NamesInv, Typed, FileRec
<1>2. /\ live' = live /\ timers' = timers /\ flush' = flush /\ writes' = writes
      /\ disk' = disk /\ scope' = scope
  BY DEF ReturnSession
<1>3. /\ op'.kind = "return" /\ op'.at = "flush" /\ op'.name = c /\ op'.who = who
      /\ op.kind = "idle"
  BY <1>1, BeginsType DEF ReturnSession, NamesInv, Typed
<1>4. /\ disk[c].scope /\ \A s \in who : live[s].name = "none"
      /\ \A s \in SessionsFor(c) : ~live[s].busy
      /\ ~(scope.kind # "idle" /\ scope.from = c)
      /\ (scope.at = "branches" => c # scope.from /\ c # scope.to)
  BY <1>1 DEF ReturnSession, NoneLive, PendingWork, Steady, Named, Aside, Branches
<1>5. Apart'
  BY <1>a, <1>b, <1>1, <1>2, <1>3, <1>4 DEF Apart, Stages, Moving, NamesInv, MoveStage
<1>6. Archiving'
  BY <1>a, <1>b, <1>1, <1>2, <1>3, <1>4 DEF Archiving, SessionsFor, Stages
<1> QED BY <1>a, <1>1, <1>2, <1>3, <1>4, <1>5, <1>6, OnlyOpStep DEF Stages

LEMMA DeleteArchiveStep ==
  ASSUME NamesInv, Windows = {}, NEW i \in Id, DeleteArchive(i)
  PROVE  Rest'
<1>a. "none" \notin Name /\ Stages
  BY FilesAssumption, StagesHold DEF NamesInv
<1>b. Rooted /\ Moving /\ Apart /\ Archiving
  BY DEF NamesInv
<1>1. PICK c \in Name, who \in SUBSET Session :
        c = archive[i].name /\ who = {s \in archive[i].saved : live[s].name = "none"}
  BY DEF NamesInv, Typed, FileRec
<1>2. /\ live' = live /\ timers' = timers /\ flush' = flush /\ writes' = writes
      /\ disk' = disk /\ scope' = scope
  BY DEF DeleteArchive
<1>3. /\ op'.kind = "delete" /\ op'.at = "returned" /\ op'.name = c /\ op'.who = who
      /\ op.kind = "idle"
  <2>1. Begins("delete", c, who, i, "returned")
    BY <1>1 DEF DeleteArchive
  <2> QED BY <2>1, BeginsType DEF NamesInv, Typed
<1>4. Apart'
  BY <1>a, <1>b, <1>1, <1>2, <1>3 DEF Apart, Stages
<1>5. Archiving'
  BY <1>a, <1>b, <1>1, <1>2, <1>3 DEF Archiving, SessionsFor, Stages
<1> QED BY <1>a, <1>1, <1>2, <1>3, <1>4, <1>5, OnlyOpStep DEF Stages

LEMMA GoesOnStep ==
  ASSUME NamesInv, Windows = {}, OpPacks \/ OpCommits \/ OpRemovesData
  PROVE  Rest'
<1>a. "none" \notin Name /\ Stages
  BY FilesAssumption, StagesHold DEF NamesInv
<1>b. Rooted /\ Moving /\ Apart /\ Archiving
  BY DEF NamesInv
<1>1. /\ live' = live /\ timers' = timers /\ flush' = flush /\ writes' = writes
      /\ disk' = disk /\ scope' = scope
  BY DEF OpPacks, OpCommits, OpRemovesData
<1>2. /\ op'.kind = op.kind /\ op'.name = op.name /\ op'.who = op.who
  BY OpType DEF OpPacks, OpCommits, OpRemovesData, NamesInv, Typed
<1>3. \/ (op.at = "pack" /\ op'.at = "packed") \/ (op.at = "packed" /\ op'.at = "committed")
      \/ (op.at = "returned" /\ op'.at = "emptied")
  BY OpType DEF OpPacks, OpCommits, OpRemovesData, NamesInv, Typed
<1>4. Apart'
  BY <1>a, <1>b, <1>1, <1>2, <1>3 DEF Apart, Stages
<1>5. Archiving'
  BY <1>a, <1>b, <1>1, <1>2, <1>3 DEF Archiving, SessionsFor, Stages
<1> QED BY <1>a, <1>1, <1>2, <1>3, <1>4, <1>5, OnlyOpStep DEF Stages

LEMMA OpEndsStep ==
  ASSUME NamesInv, Windows = {}, OpFails \/ OpRemovesMeta
  PROVE  Rest'
<1>a. "none" \notin Name /\ Stages
  BY FilesAssumption, StagesHold DEF NamesInv
<1>b. Rooted /\ Moving /\ Apart /\ Archiving
  BY DEF NamesInv
<1>1. /\ live' = live /\ timers' = timers /\ flush' = flush /\ writes' = writes
      /\ disk' = disk /\ scope' = scope
  BY DEF OpFails, OpRemovesMeta
<1>2. /\ op'.kind = "idle" /\ op'.at = "idle" /\ op'.name = op.name /\ op'.who = {}
  BY OpType DEF OpFails, OpRemovesMeta, NamesInv, Typed
<1>3. op.at \in {"flush", "pack", "packed", "committed", "unpacked", "copy", "emptied"}
  BY DEF OpFails, OpRemovesMeta
<1>4. Apart'
  BY <1>a, <1>b, <1>1, <1>2, <1>3 DEF Apart, Stages
<1>5. Archiving'
  BY <1>a, <1>b, <1>1, <1>2, <1>3 DEF Archiving, SessionsFor, Stages
<1> QED BY <1>a, <1>1, <1>2, <1>3, <1>4, <1>5, OnlyOpStep DEF Stages

LEMMA OpTeardownStep ==
  ASSUME NamesInv, Windows = {}, OpTeardown
  PROVE  Rest'
<1>a. "none" \notin Name /\ Stages
  BY FilesAssumption, StagesHold DEF NamesInv
<1>b. Rooted /\ Moving /\ Apart /\ Archiving /\ Current /\ Flushing /\ Lengths
  BY DEF NamesInv
<1>1. PICK c \in Name : c = op.name
  BY <1>a DEF Stages
<1>2. /\ live' = live /\ flush' = flush /\ writes' = writes /\ disk' = disk /\ scope' = scope
  BY DEF OpTeardown
<1>3. /\ op.at = "teardown" /\ op'.at = "flush" /\ op'.kind = op.kind /\ op'.name = c /\ op.name = c
      /\ op'.who = op.who
  BY <1>1, OpType DEF OpTeardown, NamesInv, Typed
<1>4. timers' = timers \/ timers' = timers \cup {c}
  BY <1>1 DEF OpTeardown
<1>5. /\ op.kind \notin {"idle", "delete"} /\ scope.kind # "idle" => c # scope.from
      /\ op.kind \notin {"idle", "delete"} /\ scope.kind = "rename" => c # scope.to
  BY <1>a, <1>b, <1>1 DEF Apart, Stages
<1>6. /\ disk[c].scope /\ op.kind \in {"scope", "session"}
  BY <1>a, <1>b, <1>1, <1>3 DEF Archiving, Stages
<1>7. Rooted'
  <2> SUFFICES ASSUME NEW n \in Name PROVE RootedAt(n)'
    BY DEF Rooted
  <2>1. RootedAt(n)
    BY <1>b DEF Rooted
  <2> QED BY <1>a, <1>b, <1>1, <1>2, <1>3, <1>4, <1>5, <1>6, <2>1 DEF Rooted, RootedAt, Between, Retired, Stages
<1>8. Moving'
  BY <1>a, <1>b, <1>1, <1>2, <1>3, <1>4, <1>5, <1>6 DEF Moving, SessionsFor, Stages
<1>9. Apart'
  BY <1>a, <1>b, <1>1, <1>2, <1>3, <1>4, <1>5, <1>6 DEF Apart, Stages
<1>10. Archiving'
  BY <1>a, <1>b, <1>1, <1>2, <1>3, <1>4, <1>5, <1>6 DEF Archiving, SessionsFor, Stages
<1>11. Current'
  <2> SUFFICES ASSUME NEW n \in Name PROVE Told(n)'
    BY DEF Current
  <2>1. Behind(n) => Behind(n)'
    BY <1>a, <1>b, <1>1, <1>2, <1>3, <1>4, <1>5, <1>6 DEF Behind, Retired, Stages
  <2>2. Told(n) /\ \A s \in Session : live'[s].name = n <=> live[s].name = n
    BY <1>a, <1>b, <1>1, <1>2, <1>3, <1>4, <1>5, <1>6 DEF Current
  <2> QED BY <1>a, <1>b, <1>1, <1>2, <1>3, <1>4, <1>5, <1>6, <2>1, <2>2, ToldKept DEF Stages
<1>12. Flushing'
  BY <1>a, <1>b, <1>1, <1>2, <1>3, <1>4, <1>5, <1>6 DEF Flushing, Stages
<1>13. Lengths'
  BY <1>a, <1>b, <1>1, <1>2, <1>3, <1>4, <1>5, <1>6 DEF Lengths, Stages
<1> QED BY <1>7, <1>8, <1>9, <1>10, <1>11, <1>12, <1>13 DEF Rest

(* A session comes back to a scope without any: nothing is written, and      *)
(* nothing waits to be.                                                      *)
LEMMA FlushesNothing ==
  ASSUME NamesInv, Windows = {}, OpFlushes, ~Written(op.name)
  PROVE  /\ timers' = timers /\ writes' = writes /\ flush' = flush
         /\ op.name \notin timers /\ writes[op.name] = <<>> /\ SessionsFor(op.name) = {}
         /\ op.kind # "scope"
<1>1. op.name \notin timers /\ writes[op.name] = <<>>
  BY DEF OpFlushes
<1>2. op.kind # "scope" /\ SessionsFor(op.name) = {} /\ FlushTask(live, op.name, op.kind = "scope")
  BY DEF OpFlushes, Written
<1>3. \A s \in Session : live[s].name # op.name
  BY <1>2 DEF SessionsFor
<1>4. flush \in [Session -> FlushRec]
  BY DEF NamesInv, Typed
<1>5. FlushAll(live, op.name) = flush
  BY <1>3, <1>4 DEF FlushAll
<1> QED BY <1>1, <1>2, <1>3, <1>5 DEF FlushTask

LEMMA OpFlushesNothingStep ==
  ASSUME NamesInv, Windows = {}, OpFlushes, ~Written(op.name)
  PROVE  Rest'
<1>a. "none" \notin Name /\ Stages
  BY FilesAssumption, StagesHold DEF NamesInv
<1>b. Rooted /\ Moving /\ Apart /\ Archiving
  BY DEF NamesInv
<1>1. /\ live' = live /\ disk' = disk /\ scope' = scope
  BY DEF OpFlushes
<1>2. /\ op.at = "flush" /\ op'.at = "flushing" /\ op'.kind = op.kind /\ op'.name = op.name
      /\ op'.who = op.who
  BY OpType DEF OpFlushes, NamesInv, Typed
<1>3. Apart'
  BY <1>a, <1>b, <1>1, <1>2 DEF Apart, Stages
<1>4. Archiving'
  BY <1>a, <1>b, <1>1, <1>2, FlushesNothing DEF Archiving, SessionsFor, Stages
<1> QED BY <1>1, <1>2, <1>3, <1>4, FlushesNothing, OnlyOpStep

LEMMA OpFlushesStep ==
  ASSUME NamesInv, Windows = {}, OpFlushes, Written(op.name)
  PROVE  Rest'
<1>a. "none" \notin Name /\ Stages
  BY FilesAssumption, StagesHold DEF NamesInv
<1>b. Rooted /\ Moving /\ Apart /\ Archiving /\ Current /\ Flushing /\ Lengths
  BY DEF NamesInv
<1>1. PICK c \in Name : c = op.name
  BY <1>a DEF Stages
<1> DEFINE r == RecordsFor(live, c)
<1>2. /\ live' = live /\ disk' = disk /\ scope' = scope
  BY DEF OpFlushes
<1>3. /\ op.at = "flush" /\ op'.at = "flushing" /\ op'.kind = op.kind /\ op'.name = c /\ op.name = c
      /\ op'.who = op.who
  BY <1>1, OpType DEF OpFlushes, NamesInv, Typed
<1>4. /\ op.kind \notin {"idle", "delete"} /\ scope.kind # "idle" => c # scope.from
      /\ op.kind \notin {"idle", "delete"} /\ scope.kind = "rename" => c # scope.to
  BY <1>a, <1>b, <1>1 DEF Apart, Stages
<1>5. /\ disk[c].scope /\ op.kind \in {"scope", "session", "return"}
  BY <1>a, <1>b, <1>1, <1>3 DEF Archiving, Stages
<1>6. /\ timers' = timers \ {c} /\ writes' = [writes EXCEPT ![c] = Append(@, r)]
      /\ flush' = FlushAll(live, c)
      /\ op.kind # "scope" => SessionsFor(c) # {}
  BY <1>1 DEF OpFlushes, FlushTask, Written, SessionsFor
<1>7. timers' = timers \ {c}
  BY <1>6
<1>8. r \in Saved /\ r = RecordsFor(live, c)
  BY RecordsForType DEF NamesInv, Typed
<1> HIDE DEF r
<1>9. /\ writes'[c] = Append(writes[c], r) /\ writes'[c] # <<>>
      /\ writes'[c][Len(writes'[c])] = r /\ Len(writes'[c]) = Len(writes[c]) + 1
      /\ \A m \in Name : m # c => writes'[m] = writes[m]
  BY <1>6, <1>8, AppendType DEF NamesInv, Typed
<1>10. \A s \in Session :
        \/ flush'[s] = flush[s]
        \/ flush'[s].name = c /\ live[s].name = c /\ flush'[s].from < flush'[s].upTo
  <2>1. live \in [Session -> LiveRec] /\ flush' = FlushAll(live, c)
    BY <1>6 DEF NamesInv, Typed
  <2> QED BY <2>1, FlushAllFacts
<1>11. Len(writes[c]) \in Nat
  BY LenProperties DEF NamesInv, Typed
<1>12. Rooted'
  <2> SUFFICES ASSUME NEW n \in Name PROVE RootedAt(n)'
    BY DEF Rooted
  <2>1. RootedAt(n)
    BY <1>b DEF Rooted
  <2> QED BY <1>a, <1>b, <1>1, <1>2, <1>3, <1>4, <1>5, <1>7, <1>8, <1>9, <1>10, <1>11, <2>1 DEF Rooted, RootedAt, Between, Retired, Stages
<1>13. Moving'
  BY <1>a, <1>b, <1>1, <1>2, <1>3, <1>4, <1>5, <1>7, <1>8, <1>9, <1>10, <1>11 DEF Moving, SessionsFor, Stages
<1>14. Apart'
  BY <1>a, <1>b, <1>1, <1>2, <1>3, <1>4, <1>5, <1>7, <1>8, <1>9, <1>10, <1>11 DEF Apart, Stages
<1>15. Archiving'
  BY <1>a, <1>b, <1>1, <1>2, <1>3, <1>4, <1>5, <1>6, <1>7, <1>8, <1>9, <1>10, <1>11 DEF Archiving, SessionsFor, Stages
<1>16. Current'
  <2> SUFFICES ASSUME NEW n \in Name PROVE Told(n)'
    BY DEF Current
  <2>1. CASE n = c
    <3>1. RecordsFor(live, c)' = r
      BY <1>2, <1>8, SameRecords
    <3>2. Final(c)' = r /\ Due(c)' = r
      BY <1>3, <1>9, <3>1 DEF Final, Due
    <3> QED BY <1>3, <2>1, <3>1, <3>2 DEF Told
  <2>2. CASE ~(n = c)
    <3>1. Behind(n) => Behind(n)'
      BY <1>a, <1>b, <1>1, <1>2, <1>3, <1>4, <1>5, <1>7, <1>8, <1>9, <1>10, <1>11, <2>2 DEF Behind, Retired, Stages
    <3>2. Told(n) /\ \A s \in Session : live'[s].name = n <=> live[s].name = n
      BY <1>a, <1>b, <1>1, <1>2, <1>3, <1>4, <1>5, <1>7, <1>8, <1>9, <1>10, <1>11, <2>2 DEF Current
    <3> QED BY <1>a, <1>b, <1>1, <1>2, <1>3, <1>4, <1>5, <1>7, <1>8, <1>9, <1>10, <1>11, <2>2, <3>1, <3>2, ToldKept DEF Stages
  <2> QED BY <2>1, <2>2
<1>17. Flushing'
  BY <1>a, <1>b, <1>1, <1>2, <1>3, <1>4, <1>5, <1>7, <1>8, <1>9, <1>10, <1>11 DEF Flushing, Stages
<1>18. Lengths'
  <2> SUFFICES ASSUME NEW n \in Name
               PROVE  Len(writes'[n]) <= (IF n = op'.name /\ op'.at \in {"flushing", "dropped", "written"}
                                          THEN 3 ELSE 2)
    BY DEF Lengths
  <2>1. CASE n = c
    BY <1>a, <1>b, <1>1, <1>2, <1>3, <1>4, <1>5, <1>7, <1>8, <1>9, <1>10, <1>11, <2>1 DEF Lengths
  <2>2. CASE n # c
    BY <1>a, <1>b, <1>1, <1>2, <1>3, <1>4, <1>5, <1>7, <1>8, <1>9, <1>10, <1>11, <2>2 DEF Lengths
  <2> QED BY <2>1, <2>2
<1> QED BY <1>12, <1>13, <1>14, <1>15, <1>16, <1>17, <1>18 DEF Rest

LEMMA OpFlushedStep ==
  ASSUME NamesInv, Windows = {}, OpFlushed
  PROVE  Rest'
<1>a. "none" \notin Name /\ Stages
  BY FilesAssumption, StagesHold DEF NamesInv
<1>b. Rooted /\ Moving /\ Apart /\ Archiving /\ Current /\ Flushing /\ Lengths
  BY DEF NamesInv
<1>1. PICK c \in Name : c = op.name
  BY <1>a DEF Stages
<1>2. /\ live' = live /\ disk' = disk /\ scope' = scope /\ timers' = timers /\ flush' = flush
      /\ writes' = writes
  BY DEF OpFlushed
<1>3. /\ op.at = "flushing" /\ op'.name = c /\ op.name = c /\ op.kind \in {"scope", "session", "return"}
      /\ \/ op'.at = "copy" /\ op'.kind = "return" /\ op.kind = "return" /\ op'.who = op.who
         \/ op'.at = "pack" /\ op.kind # "return" /\ op'.kind = op.kind /\ op'.who = op.who
         \/ op'.at = "idle" /\ op'.kind = "idle" /\ op'.who = {}
  <2>1. op \in OpRec
    BY DEF NamesInv, Typed
  <2>2. Op("copy") \/ Op("pack") \/ OpEnds
    BY DEF OpFlushed
  <2>3. Op("copy") => op.kind = "return"
    BY <2>1 DEF OpFlushed, Op, OpEnds, OpRec
  <2>4. Op("pack") => op.kind # "return"
    BY <2>1 DEF OpFlushed, Op, OpEnds, OpRec
  <2> QED BY <1>a, <1>1, <2>1, <2>2, <2>3, <2>4, OpType DEF OpFlushed, Stages
<1>4. /\ op.kind \notin {"idle", "delete"} /\ scope.kind # "idle" => c # scope.from
      /\ op.kind \notin {"idle", "delete"} /\ scope.kind = "rename" => c # scope.to
  BY <1>a, <1>b, <1>1 DEF Apart, Stages
<1>5. disk[c].scope
  BY <1>a, <1>b, <1>1, <1>3 DEF Archiving, Stages
<1>6. writes[c] = <<>> /\ Len(writes[c]) = 0
  <2>1. CASE Written(c)
    BY <1>1, <2>1 DEF OpFlushed, Flushed
  <2>2. CASE ~Written(c)
    BY <1>b, <1>1, <1>3, <2>2 DEF Archiving, Written
  <2> QED BY <2>1, <2>2
<1>7. Rooted'
  <2> SUFFICES ASSUME NEW n \in Name PROVE RootedAt(n)'
    BY DEF Rooted
  <2>1. RootedAt(n)
    BY <1>b DEF Rooted
  <2> QED BY <1>a, <1>b, <1>1, <1>2, <1>3, <1>4, <1>5, <1>6, <2>1 DEF Rooted, RootedAt, Between, Retired, Stages
<1>8. Moving'
  BY <1>a, <1>b, <1>1, <1>2, <1>3, <1>4, <1>5, <1>6 DEF Moving, SessionsFor, Stages
<1>9. Apart'
  BY <1>a, <1>b, <1>1, <1>2, <1>3, <1>4, <1>5, <1>6 DEF Apart, Stages
<1>10. Archiving'
  BY <1>a, <1>b, <1>1, <1>2, <1>3, <1>4, <1>5, <1>6 DEF Archiving, SessionsFor, Stages
<1>11. Current'
  <2> SUFFICES ASSUME NEW n \in Name PROVE Told(n)'
    BY DEF Current
  <2>1. CASE n = c
    <3>1. RecordsFor(live, c)' = RecordsFor(live, c)
      BY <1>2, SameRecords
    <3>2. ~Behind(c)
      BY <1>a, <1>3, <1>4 DEF Behind, Retired, Stages
    <3>3. Told(c)
      BY <1>b DEF Current
    <3>4. disk[c].saved = RecordsFor(live, c)
      BY <1>3, <1>6, <3>2, <3>3 DEF Told, Final, Due
    <3>5. Final(c)' = disk[c].saved
      BY <1>2, <1>6 DEF Final
    <3>6. Due(c)' = RecordsFor(live, c)
      BY <1>3, <3>1 DEF Due
    <3> QED BY <1>2, <1>6, <2>1, <3>1, <3>4, <3>5, <3>6 DEF Told
  <2>2. CASE ~(n = c)
    <3>1. Behind(n) => Behind(n)'
      BY <1>a, <1>b, <1>1, <1>2, <1>3, <1>4, <1>5, <1>6, <2>2 DEF Behind, Retired, Stages
    <3>2. Told(n) /\ \A s \in Session : live'[s].name = n <=> live[s].name = n
      BY <1>a, <1>b, <1>1, <1>2, <1>3, <1>4, <1>5, <1>6, <2>2 DEF Current
    <3> QED BY <1>a, <1>b, <1>1, <1>2, <1>3, <1>4, <1>5, <1>6, <2>2, <3>1, <3>2, ToldKept DEF Stages
  <2> QED BY <2>1, <2>2
<1>12. Flushing'
  BY <1>a, <1>b, <1>1, <1>2, <1>3, <1>4, <1>5, <1>6 DEF Flushing, Stages
<1>13. Lengths'
  <2> SUFFICES ASSUME NEW n \in Name
               PROVE  Len(writes'[n]) <= (IF n = op'.name /\ op'.at \in {"flushing", "dropped", "written"}
                                          THEN 3 ELSE 2)
    BY DEF Lengths
  <2>1. CASE n = c
    BY <1>a, <1>b, <1>1, <1>2, <1>3, <1>4, <1>5, <1>6, <2>1 DEF Lengths
  <2>2. CASE n # c
    BY <1>a, <1>b, <1>1, <1>2, <1>3, <1>4, <1>5, <1>6, <2>2 DEF Lengths
  <2> QED BY <2>1, <2>2
<1> QED BY <1>7, <1>8, <1>9, <1>10, <1>11, <1>12, <1>13 DEF Rest

LEMMA RetiresStep ==
  ASSUME NamesInv, Windows = {}, ScopeRetires
  PROVE  Rest'
<1>a. "none" \notin Name /\ Stages
  BY FilesAssumption, StagesHold DEF NamesInv
<1>b. Rooted /\ Moving /\ Apart /\ Archiving /\ Current /\ Flushing /\ Lengths
  BY DEF NamesInv
<1>1. PICK c \in Name : c = op.name
  BY <1>a DEF Stages
<1>2. /\ live' = live /\ timers' = timers /\ flush' = flush /\ scope' = scope
  BY DEF ScopeRetires
<1>3. /\ op.at = "committed" /\ op'.at = "retired" /\ op'.kind = op.kind /\ op'.name = c /\ op.name = c
      /\ op'.who = op.who /\ op.kind = "scope"
  BY <1>1, OpType DEF ScopeRetires, NamesInv, Typed
<1>4. /\ op.kind \notin {"idle", "delete"} /\ scope.kind # "idle" => c # scope.from
      /\ op.kind \notin {"idle", "delete"} /\ scope.kind = "rename" => c # scope.to
  BY <1>a, <1>b, <1>1 DEF Apart, Stages
<1>5. /\ writes'[c] = <<>> /\ \A m \in Name : m # c => writes'[m] = writes[m]
      /\ \A s \in Session : flush[s].on => flush[s].name # c
  BY <1>1, GoingType DEF ScopeRetires, NamesInv, Typed, Drained
<1>6. /\ disk'[c].scope = FALSE /\ disk'[c].there = FALSE /\ disk'[c].saved = Nothing
      /\ \A m \in Name : m # c => disk'[m] = disk[m]
  <2>1. disk \in [Name -> DirRec]
    BY DEF NamesInv, Typed
  <2> QED BY <1>1, <2>1 DEF ScopeRetires, NoDir
<1>7. c \notin timers
  BY <1>b, <1>3 DEF Archiving
<1>8. Rooted'
  <2> SUFFICES ASSUME NEW n \in Name PROVE RootedAt(n)'
    BY DEF Rooted
  <2>1. RootedAt(n)
    BY <1>b DEF Rooted
  <2>2. CASE n = c
    BY <1>a, <1>b, <1>1, <1>2, <1>3, <1>4, <1>5, <1>6, <1>7, <2>1, <2>2 DEF Rooted, RootedAt, Between, Retired, Stages
  <2>3. CASE ~(n = c)
    BY <1>a, <1>b, <1>1, <1>2, <1>3, <1>4, <1>5, <1>6, <1>7, <2>1, <2>3 DEF Rooted, RootedAt, Between, Retired, Stages
  <2> QED BY <2>2, <2>3
<1>9. Moving'
  BY <1>a, <1>b, <1>1, <1>2, <1>3, <1>4, <1>5, <1>6, <1>7 DEF Moving, SessionsFor, Stages
<1>10. Apart'
  BY <1>a, <1>b, <1>1, <1>2, <1>3, <1>4, <1>5, <1>6, <1>7 DEF Apart, Stages
<1>11. Archiving'
  BY <1>a, <1>b, <1>1, <1>2, <1>3, <1>4, <1>5, <1>6, <1>7 DEF Archiving, SessionsFor, Stages
<1>12. Current'
  <2> SUFFICES ASSUME NEW n \in Name PROVE Told(n)'
    BY DEF Current
  <2>1. CASE n = c
    BY <1>3, <2>1 DEF Told, Behind, Retired
  <2>2. CASE ~(n = c)
    <3>1. Behind(n) => Behind(n)'
      BY <1>a, <1>b, <1>1, <1>2, <1>3, <1>4, <1>5, <1>6, <1>7, <2>2 DEF Behind, Retired, Stages
    <3>2. Told(n) /\ \A s \in Session : live'[s].name = n <=> live[s].name = n
      BY <1>a, <1>b, <1>1, <1>2, <1>3, <1>4, <1>5, <1>6, <1>7, <2>2 DEF Current
    <3> QED BY <1>a, <1>b, <1>1, <1>2, <1>3, <1>4, <1>5, <1>6, <1>7, <2>2, <3>1, <3>2, ToldKept DEF Stages
  <2> QED BY <2>1, <2>2
<1>13. Flushing'
  BY <1>a, <1>b, <1>1, <1>2, <1>3, <1>4, <1>5, <1>6, <1>7 DEF Flushing, Stages
<1>14. Lengths'
  BY <1>a, <1>b, <1>1, <1>2, <1>3, <1>4, <1>5, <1>6, <1>7 DEF Lengths, Stages
<1> QED BY <1>8, <1>9, <1>10, <1>11, <1>12, <1>13, <1>14 DEF Rest

LEMMA ScopeDropsStep ==
  ASSUME NamesInv, Windows = {}, ScopeDrops
  PROVE  Rest'
<1>a. "none" \notin Name /\ Stages
  BY FilesAssumption, StagesHold DEF NamesInv
<1>b. Rooted /\ Moving /\ Apart /\ Archiving /\ Current /\ Flushing /\ Lengths
  BY DEF NamesInv
<1>1. PICK c \in Name : c = op.name
  BY <1>a DEF Stages
<1>2. /\ flush' = flush /\ writes' = writes /\ disk' = disk /\ scope' = scope
  BY DEF ScopeDrops
<1>3. /\ op.at = "retired" /\ op'.at = "idle" /\ op'.kind = "idle" /\ op'.name = c /\ op.name = c
      /\ op'.who = {}
  BY <1>1, OpType DEF ScopeDrops, NamesInv, Typed
<1>4. /\ op.kind \notin {"idle", "delete"} /\ scope.kind # "idle" => c # scope.from
      /\ op.kind \notin {"idle", "delete"} /\ scope.kind = "rename" => c # scope.to
  BY <1>a, <1>b, <1>1 DEF Apart, Stages
<1>5. op.kind = "scope"
  BY <1>a, <1>3 DEF Stages
<1>6. /\ timers' = timers \ {c}
      /\ \A s \in Session : /\ live'[s].name = IF live[s].name = c THEN "none" ELSE live[s].name
                            /\ live'[s].busy => live[s].busy
  BY <1>1, DropType DEF ScopeDrops, NamesInv, Typed
<1>7. \A n \in Name, s \in Session :
        /\ live'[s].name = n => live[s].name = n /\ n # c
        /\ live[s].name = n /\ n # c => live'[s].name = n
        /\ live[s].name = "none" => live'[s].name = "none"
        /\ live'[s].name = live[s].name \/ live'[s].name = "none"
        /\ live'[s].busy => live[s].busy
  BY <1>a, <1>6
<1>8. timers' = timers \ {c}
  BY <1>6
<1>9. /\ disk[c].saved = Nothing /\ ~disk[c].scope /\ writes[c] = <<>>
      /\ \A s \in Session : flush[s].on => flush[s].name # c
  <2>1. RootedAt(c) /\ ~disk[c].scope
    BY <1>b, <1>3 DEF Rooted, Archiving
  <2> QED BY <2>1 DEF RootedAt
<1>10. Rooted'
  <2> SUFFICES ASSUME NEW n \in Name PROVE RootedAt(n)'
    BY DEF Rooted
  <2>1. RootedAt(n)
    BY <1>b DEF Rooted
  <2>2. CASE n = c
    BY <1>a, <1>b, <1>1, <1>2, <1>3, <1>4, <1>5, <1>7, <1>8, <1>9, <2>1, <2>2 DEF Rooted, RootedAt, Between, Retired, Stages
  <2>3. CASE ~(n = c)
    BY <1>a, <1>b, <1>1, <1>2, <1>3, <1>4, <1>5, <1>7, <1>8, <1>9, <2>1, <2>3 DEF Rooted, RootedAt, Between, Retired, Stages
  <2> QED BY <2>2, <2>3
<1>11. Moving'
  BY <1>a, <1>b, <1>1, <1>2, <1>3, <1>4, <1>5, <1>7, <1>8, <1>9 DEF Moving, SessionsFor, Stages
<1>12. Apart'
  BY <1>a, <1>b, <1>1, <1>2, <1>3, <1>4, <1>5, <1>7, <1>8, <1>9 DEF Apart, Stages
<1>13. Archiving'
  BY <1>a, <1>b, <1>1, <1>2, <1>3, <1>4, <1>5, <1>7, <1>8, <1>9 DEF Archiving, SessionsFor, Stages
<1>14. Current'
  <2> SUFFICES ASSUME NEW n \in Name PROVE Told(n)'
    BY DEF Current
  <2>1. CASE n = c
    <3>1. RecordsFor(live, c)' = Nothing
      BY <1>7 DEF RecordsFor, Nothing
    <3> QED BY <1>2, <1>3, <1>9, <2>1, <3>1 DEF Told, Final, Due
  <2>2. CASE ~(n = c)
    <3>1. Behind(n) => Behind(n)'
      BY <1>a, <1>b, <1>1, <1>2, <1>3, <1>4, <1>5, <1>7, <1>8, <1>9, <2>2 DEF Behind, Retired, Stages
    <3>2. Told(n) /\ \A s \in Session : live'[s].name = n <=> live[s].name = n
      BY <1>a, <1>b, <1>1, <1>2, <1>3, <1>4, <1>5, <1>7, <1>8, <1>9, <2>2 DEF Current
    <3> QED BY <1>a, <1>b, <1>1, <1>2, <1>3, <1>4, <1>5, <1>7, <1>8, <1>9, <2>2, <3>1, <3>2, ToldKept DEF Stages
  <2> QED BY <2>1, <2>2
<1>15. Flushing'
  BY <1>a, <1>b, <1>1, <1>2, <1>3, <1>4, <1>5, <1>7, <1>8, <1>9 DEF Flushing, Stages
<1>16. Lengths'
  BY <1>a, <1>b, <1>1, <1>2, <1>3, <1>4, <1>5, <1>7, <1>8, <1>9 DEF Lengths, Stages
<1> QED BY <1>10, <1>11, <1>12, <1>13, <1>14, <1>15, <1>16 DEF Rest

LEMMA SessionDropsStep ==
  ASSUME NamesInv, Windows = {}, SessionDrops
  PROVE  Rest'
<1>a. "none" \notin Name /\ Stages
  BY FilesAssumption, StagesHold DEF NamesInv
<1>b. Rooted /\ Moving /\ Apart /\ Archiving /\ Current /\ Flushing /\ Lengths
  BY DEF NamesInv
<1>1. PICK c \in Name : c = op.name
  BY <1>a DEF Stages
<1> DEFINE l == [s \in Session |-> IF s \in op.who THEN [live[s] EXCEPT !.name = "none"] ELSE live[s]]
             r == RecordsFor(l, c)
<1>2. /\ live' = l /\ FlushTask(l, c, TRUE)
  BY <1>1 DEF SessionDrops
<1>3. /\ disk' = disk /\ scope' = scope
  BY DEF SessionDrops
<1>4. /\ op.at = "committed" /\ op'.at = "dropped" /\ op'.kind = op.kind /\ op'.name = c /\ op.name = c
      /\ op'.who = op.who /\ op.kind = "session"
  BY <1>1, OpType DEF SessionDrops, NamesInv, Typed
<1>5. /\ op.kind \notin {"idle", "delete"} /\ scope.kind # "idle" => c # scope.from
      /\ op.kind \notin {"idle", "delete"} /\ scope.kind = "rename" => c # scope.to
  BY <1>a, <1>b, <1>1 DEF Apart, Stages
<1>6. /\ disk[c].scope /\ \A s \in op.who : live[s].name = c
  BY <1>a, <1>b, <1>1, <1>4 DEF Archiving, SessionsFor, Stages
<1>7. /\ l \in [Session -> LiveRec]
      /\ \A s \in Session : /\ live'[s].name = IF s \in op.who THEN "none" ELSE live[s].name
                            /\ live'[s].busy = live[s].busy
                            /\ l[s].name = live'[s].name
  <2>1. live \in [Session -> LiveRec]
    BY DEF NamesInv, Typed
  <2> QED BY <1>2, <2>1 DEF LiveRec
<1>8. \A n \in Name, s \in Session :
        /\ live'[s].name = n => live[s].name = n
        /\ live[s].name = n /\ n # c => live'[s].name = n
        /\ live[s].name = "none" => live'[s].name = "none"
        /\ live'[s].name = live[s].name \/ live'[s].name = "none"
        /\ live'[s].busy => live[s].busy
  BY <1>a, <1>6, <1>7
<1>9. /\ r = RecordsFor(live, c)' /\ r \in Saved
  BY <1>2, <1>7, RecordsForType DEF RecordsFor
<1>10. /\ timers' = timers \ {c} /\ writes' = [writes EXCEPT ![c] = Append(@, r)]
      /\ flush' = FlushAll(l, c)
  BY <1>2 DEF FlushTask
<1> HIDE DEF l
<1>11. \A s \in Session :
        \/ flush'[s] = flush[s]
        \/ flush'[s].name = c /\ live'[s].name = c /\ flush'[s].from < flush'[s].upTo
  BY <1>7, <1>10, FlushAllFacts
<1>12. timers' = timers \ {c}
  BY <1>10
<1> HIDE DEF l, r
<1>13. /\ writes'[c] = Append(writes[c], r) /\ writes'[c] # <<>>
      /\ writes'[c][Len(writes'[c])] = r /\ Len(writes'[c]) = Len(writes[c]) + 1
      /\ \A m \in Name : m # c => writes'[m] = writes[m]
  BY <1>9, <1>10, AppendType DEF NamesInv, Typed
<1>14. Len(writes[c]) \in Nat
  BY LenProperties DEF NamesInv, Typed
<1>15. Rooted'
  <2> SUFFICES ASSUME NEW n \in Name PROVE RootedAt(n)'
    BY DEF Rooted
  <2>1. RootedAt(n)
    BY <1>b DEF Rooted
  <2> QED BY <1>a, <1>b, <1>1, <1>3, <1>4, <1>5, <1>6, <1>8, <1>9, <1>11, <1>12, <1>13, <1>14, <2>1 DEF Rooted, RootedAt, Between, Retired, Stages
<1>16. Moving'
  BY <1>a, <1>b, <1>1, <1>3, <1>4, <1>5, <1>6, <1>8, <1>9, <1>11, <1>12, <1>13, <1>14 DEF Moving, SessionsFor, Stages
<1>17. Apart'
  BY <1>a, <1>b, <1>1, <1>3, <1>4, <1>5, <1>6, <1>8, <1>9, <1>11, <1>12, <1>13, <1>14 DEF Apart, Stages
<1>18. Archiving'
  BY <1>a, <1>b, <1>1, <1>3, <1>4, <1>5, <1>6, <1>8, <1>9, <1>11, <1>12, <1>13, <1>14 DEF Archiving, SessionsFor, Stages
<1>19. Current'
  <2> SUFFICES ASSUME NEW n \in Name PROVE Told(n)'
    BY DEF Current
  <2>1. CASE n = c
    <3>1. Final(c)' = r /\ Due(c)' = r
      BY <1>4, <1>9, <1>13 DEF Final, Due
    <3> QED BY <1>4, <2>1, <3>1 DEF Told
  <2>2. CASE ~(n = c)
    <3>1. Behind(n) => Behind(n)'
      BY <1>a, <1>b, <1>1, <1>3, <1>4, <1>5, <1>6, <1>8, <1>9, <1>11, <1>12, <1>13, <1>14, <2>2 DEF Behind, Retired, Stages
    <3>2. Told(n) /\ \A s \in Session : live'[s].name = n <=> live[s].name = n
      BY <1>a, <1>b, <1>1, <1>3, <1>4, <1>5, <1>6, <1>8, <1>9, <1>11, <1>12, <1>13, <1>14, <2>2 DEF Current
    <3> QED BY <1>a, <1>b, <1>1, <1>3, <1>4, <1>5, <1>6, <1>8, <1>9, <1>11, <1>12, <1>13, <1>14, <2>2, <3>1, <3>2, ToldKept DEF Stages
  <2> QED BY <2>1, <2>2
<1>20. Flushing'
  BY <1>a, <1>b, <1>1, <1>3, <1>4, <1>5, <1>6, <1>8, <1>9, <1>11, <1>12, <1>13, <1>14 DEF Flushing, Stages
<1>21. Lengths'
  <2> SUFFICES ASSUME NEW n \in Name
               PROVE  Len(writes'[n]) <= (IF n = op'.name /\ op'.at \in {"flushing", "dropped", "written"}
                                          THEN 3 ELSE 2)
    BY DEF Lengths
  <2>1. CASE n = c
    BY <1>a, <1>b, <1>1, <1>3, <1>4, <1>5, <1>6, <1>8, <1>9, <1>11, <1>12, <1>13, <1>14, <2>1 DEF Lengths
  <2>2. CASE n # c
    BY <1>a, <1>b, <1>1, <1>3, <1>4, <1>5, <1>6, <1>8, <1>9, <1>11, <1>12, <1>13, <1>14, <2>2 DEF Lengths
  <2> QED BY <2>1, <2>2
<1> QED BY <1>15, <1>16, <1>17, <1>18, <1>19, <1>20, <1>21 DEF Rest

LEMMA SessionErasesStep ==
  ASSUME NamesInv, Windows = {}, SessionErases
  PROVE  Rest'
<1>a. "none" \notin Name /\ Stages
  BY FilesAssumption, StagesHold DEF NamesInv
<1>b. Rooted /\ Moving /\ Apart /\ Archiving /\ Current /\ Flushing /\ Lengths
  BY DEF NamesInv
<1>1. PICK c \in Name : c = op.name
  BY <1>a DEF Stages
<1>2. /\ live' = live /\ timers' = timers /\ flush' = flush /\ writes' = writes /\ scope' = scope
  BY DEF SessionErases
<1>3. /\ op.at = "dropped" /\ op'.at = "idle" /\ op'.kind = "idle" /\ op'.name = c /\ op.name = c
      /\ op'.who = {}
  BY <1>1, OpType DEF SessionErases, NamesInv, Typed
<1>4. \A m \in Name : /\ disk'[m].scope = disk[m].scope /\ disk'[m].saved = disk[m].saved
                      /\ disk'[m].there = disk[m].there
  <2>1. disk \in [Name -> DirRec]
    BY DEF NamesInv, Typed
  <2>2. PICK log : disk' = [disk EXCEPT ![c].log = log]
    BY <1>1 DEF SessionErases
  <2> QED BY <2>1, <2>2 DEF DirRec
<1>5. writes[c] = <<>> /\ Len(writes[c]) = 0
  BY <1>1 DEF SessionErases, Flushed
<1>6. Rooted'
  <2> SUFFICES ASSUME NEW n \in Name PROVE RootedAt(n)'
    BY DEF Rooted
  <2>1. RootedAt(n)
    BY <1>b DEF Rooted
  <2> QED BY <1>a, <1>b, <1>1, <1>2, <1>3, <1>4, <1>5, <2>1 DEF Rooted, RootedAt, Between, Retired, Stages
<1>7. Moving'
  BY <1>a, <1>b, <1>1, <1>2, <1>3, <1>4, <1>5 DEF Moving, SessionsFor, Stages
<1>8. Apart'
  BY <1>a, <1>b, <1>1, <1>2, <1>3, <1>4, <1>5 DEF Apart, Stages
<1>9. Archiving'
  BY <1>a, <1>b, <1>1, <1>2, <1>3, <1>4, <1>5 DEF Archiving, SessionsFor, Stages
<1>10. Current'
  <2> SUFFICES ASSUME NEW n \in Name PROVE Told(n)'
    BY DEF Current
  <2>1. Behind(n) => Behind(n)'
    BY <1>a, <1>b, <1>1, <1>2, <1>3, <1>4, <1>5 DEF Behind, Retired, Stages
  <2>2. Told(n) /\ \A s \in Session : live'[s].name = n <=> live[s].name = n
    BY <1>a, <1>b, <1>1, <1>2, <1>3, <1>4, <1>5 DEF Current
  <2> QED BY <1>a, <1>b, <1>1, <1>2, <1>3, <1>4, <1>5, <2>1, <2>2, ToldKept DEF Stages
<1>11. Flushing'
  BY <1>a, <1>b, <1>1, <1>2, <1>3, <1>4, <1>5 DEF Flushing, Stages
<1>12. Lengths'
  <2> SUFFICES ASSUME NEW n \in Name
               PROVE  Len(writes'[n]) <= (IF n = op'.name /\ op'.at \in {"flushing", "dropped", "written"}
                                          THEN 3 ELSE 2)
    BY DEF Lengths
  <2>1. CASE n = c
    BY <1>a, <1>b, <1>1, <1>2, <1>3, <1>4, <1>5, <2>1 DEF Lengths
  <2>2. CASE n # c
    BY <1>a, <1>b, <1>1, <1>2, <1>3, <1>4, <1>5, <2>2 DEF Lengths
  <2> QED BY <2>1, <2>2
<1> QED BY <1>6, <1>7, <1>8, <1>9, <1>10, <1>11, <1>12 DEF Rest

LEMMA RestoreMovesStep ==
  ASSUME NamesInv, Windows = {}, RestoreMoves
  PROVE  Rest'
<1>a. "none" \notin Name /\ Stages
  BY FilesAssumption, StagesHold DEF NamesInv
<1>b. Rooted /\ Moving /\ Apart /\ Archiving /\ Current /\ Flushing /\ Lengths
  BY DEF NamesInv
<1>1. PICK c \in Name : c = op.name
  BY <1>a DEF Stages
<1>2. /\ timers' = timers /\ flush' = flush /\ writes' = writes /\ scope' = scope
  BY DEF RestoreMoves
<1>3. /\ op.at = "unpacked" /\ op'.at = "moved" /\ op'.kind = op.kind /\ op'.name = c /\ op.name = c
      /\ op'.who = op.who
  BY <1>1, OpType DEF RestoreMoves, NamesInv, Typed
<1>4. \A s \in Session : live'[s].name = live[s].name /\ live'[s].busy = live[s].busy
  <2>1. op.id \in Id
    BY <1>a DEF NamesInv, OpStage, RestoreMoves, Stages
  <2> QED BY <2>1, BringsBackType DEF RestoreMoves, NamesInv, Typed
<1>5. /\ op.kind \notin {"idle", "delete"} /\ scope.kind # "idle" => c # scope.from
      /\ op.kind \notin {"idle", "delete"} /\ scope.kind = "rename" => c # scope.to
  BY <1>a, <1>b, <1>1 DEF Apart, Stages
<1>6. op.kind = "restore" /\ \A s \in op.who : live[s].name = "none"
  BY <1>a, <1>b, <1>3 DEF Archiving, Stages
<1>7. \A s \in op.who : ~flush[s].on
  BY DEF RestoreMoves, Erased
<1>8. /\ disk'[c].scope = TRUE /\ disk'[c].there = TRUE
      /\ disk'[c].saved = [s \in Session |-> IF s \in op.who THEN c ELSE "none"]
      /\ \A m \in Name : m # c => disk'[m] = disk[m]
  <2>1. disk \in [Name -> DirRec]
    BY DEF NamesInv, Typed
  <2> QED BY <1>1, <2>1 DEF RestoreMoves
<1>9. /\ c \notin timers /\ writes[c] = <<>> /\ ~disk[c].scope
      /\ \A s \in Session : live[s].name # c /\ (flush[s].on => flush[s].name # c)
  <2>1. RootedAt(c) /\ ~disk[c].scope
    BY <1>b, <1>1, <1>3 DEF Rooted, Archiving
  <2> QED BY <1>a, <1>3, <1>5, <1>6, <2>1 DEF RootedAt, Between, Retired, Stages
<1>10. Rooted'
  <2> SUFFICES ASSUME NEW n \in Name PROVE RootedAt(n)'
    BY DEF Rooted
  <2>1. RootedAt(n)
    BY <1>b DEF Rooted
  <2>2. CASE n = c
    BY <1>a, <1>b, <1>1, <1>2, <1>3, <1>4, <1>5, <1>6, <1>7, <1>8, <1>9, <2>1, <2>2 DEF Rooted, RootedAt, Between, Retired, Stages
  <2>3. CASE ~(n = c)
    BY <1>a, <1>b, <1>1, <1>2, <1>3, <1>4, <1>5, <1>6, <1>7, <1>8, <1>9, <2>1, <2>3 DEF Rooted, RootedAt, Between, Retired, Stages
  <2> QED BY <2>2, <2>3
<1>11. Moving'
  BY <1>a, <1>b, <1>1, <1>2, <1>3, <1>4, <1>5, <1>6, <1>7, <1>8, <1>9 DEF Moving, SessionsFor, Stages
<1>12. Apart'
  BY <1>a, <1>b, <1>1, <1>2, <1>3, <1>4, <1>5, <1>6, <1>7, <1>8, <1>9 DEF Apart, Stages
<1>13. Archiving'
  BY <1>a, <1>b, <1>1, <1>2, <1>3, <1>4, <1>5, <1>6, <1>7, <1>8, <1>9 DEF Archiving, SessionsFor, Stages
<1>14. Current'
  <2> SUFFICES ASSUME NEW n \in Name PROVE Told(n)'
    BY DEF Current
  <2>1. CASE n = c
    <3>1. Final(c)' = [s \in Session |-> IF s \in op.who THEN c ELSE "none"]
      BY <1>2, <1>8, <1>9 DEF Final
    <3>2. RecordsFor(live, c)' = Nothing
      BY <1>4, <1>9 DEF RecordsFor, Nothing
    <3>3. Due(c)' = [s \in Session |-> IF s \in op.who THEN c ELSE "none"]
      BY <1>3, <3>2 DEF Due, Nothing
    <3> QED BY <1>3, <2>1, <3>1, <3>3 DEF Told
  <2>2. CASE ~(n = c)
    <3>1. Behind(n) => Behind(n)'
      BY <1>a, <1>b, <1>1, <1>2, <1>3, <1>4, <1>5, <1>6, <1>7, <1>8, <1>9, <2>2 DEF Behind, Retired, Stages
    <3>2. Told(n) /\ \A s \in Session : live'[s].name = n <=> live[s].name = n
      BY <1>a, <1>b, <1>1, <1>2, <1>3, <1>4, <1>5, <1>6, <1>7, <1>8, <1>9, <2>2 DEF Current
    <3> QED BY <1>a, <1>b, <1>1, <1>2, <1>3, <1>4, <1>5, <1>6, <1>7, <1>8, <1>9, <2>2, <3>1, <3>2, ToldKept DEF Stages
  <2> QED BY <2>1, <2>2
<1>15. Flushing'
  BY <1>a, <1>b, <1>1, <1>2, <1>3, <1>4, <1>5, <1>6, <1>7, <1>8, <1>9 DEF Flushing, Stages
<1>16. Lengths'
  BY <1>a, <1>b, <1>1, <1>2, <1>3, <1>4, <1>5, <1>6, <1>7, <1>8, <1>9 DEF Lengths, Stages
<1> QED BY <1>10, <1>11, <1>12, <1>13, <1>14, <1>15, <1>16 DEF Rest

LEMMA RestoreReturnsStep ==
  ASSUME NamesInv, Windows = {}, RestoreReturns
  PROVE  Rest'
<1>a. "none" \notin Name /\ Stages
  BY FilesAssumption, StagesHold DEF NamesInv
<1>b. Rooted /\ Moving /\ Apart /\ Archiving /\ Current /\ Flushing /\ Lengths
  BY DEF NamesInv
<1>1. PICK c \in Name : c = op.name
  BY <1>a DEF Stages
<1>2. /\ timers' = timers /\ flush' = flush /\ writes' = writes /\ scope' = scope /\ disk' = disk
  BY DEF RestoreReturns
<1>3. /\ op.at \in {"moved", "written"} /\ op'.at = "returned" /\ op'.kind = op.kind /\ op'.name = c
      /\ op.name = c /\ op'.who = op.who
  BY <1>1, OpType DEF RestoreReturns, NamesInv, Typed
<1>4. /\ op.kind \notin {"idle", "delete"} /\ scope.kind # "idle" => c # scope.from
      /\ op.kind \notin {"idle", "delete"} /\ scope.kind = "rename" => c # scope.to
  BY <1>a, <1>b, <1>1 DEF Apart, Stages
<1>5. /\ \A s \in Session : /\ live'[s].name = IF s \in op.who THEN c ELSE live[s].name
                            /\ live'[s].busy => (live[s].busy /\ s \notin op.who)
  BY <1>1 DEF RestoreReturns, Restored
<1>6. /\ \A s \in op.who : live[s].name = "none" /\ ~flush[s].on
      /\ op.kind \in {"restore", "return"}
  BY <1>a, <1>b, <1>3 DEF Archiving, Flushing, Stages
<1>7. \A n \in Name, s \in Session :
        /\ n # c => (live'[s].name = n <=> live[s].name = n)
        /\ live'[s].name = c => live[s].name = c \/ s \in op.who
        /\ s \in op.who => live'[s].name = c /\ live[s].name = "none"
        /\ live'[s].name = live[s].name \/ s \in op.who
        /\ live'[s].busy => live[s].busy /\ s \notin op.who
  BY <1>a, <1>5, <1>6
<1>8. /\ disk[c].scope /\ writes[c] = <<>> /\ Len(writes[c]) = 0
  BY <1>a, <1>b, <1>1, <1>3 DEF Archiving, RestoreReturns, Stages
<1>9. Rooted'
  <2> SUFFICES ASSUME NEW n \in Name PROVE RootedAt(n)'
    BY DEF Rooted
  <2>1. RootedAt(n)
    BY <1>b DEF Rooted
  <2>2. CASE n = c
    BY <1>a, <1>b, <1>1, <1>2, <1>3, <1>4, <1>6, <1>7, <1>8, <2>1, <2>2 DEF Rooted, RootedAt, Between, Retired, Stages
  <2>3. CASE ~(n = c)
    BY <1>a, <1>b, <1>1, <1>2, <1>3, <1>4, <1>6, <1>7, <1>8, <2>1, <2>3 DEF Rooted, RootedAt, Between, Retired, Stages
  <2> QED BY <2>2, <2>3
<1>10. Moving'
  BY <1>a, <1>b, <1>1, <1>2, <1>3, <1>4, <1>6, <1>7, <1>8 DEF Moving, SessionsFor, Stages
<1>11. Apart'
  BY <1>a, <1>b, <1>1, <1>2, <1>3, <1>4, <1>6, <1>7, <1>8 DEF Apart, Stages
<1>12. Archiving'
  BY <1>a, <1>b, <1>1, <1>2, <1>3, <1>4, <1>6, <1>7, <1>8 DEF Archiving, SessionsFor, Stages
<1>13. Current'
  <2> SUFFICES ASSUME NEW n \in Name PROVE Told(n)'
    BY DEF Current
  <2>1. CASE n = c
    <3>1. RecordsFor(live, c)' = Due(c)
      BY <1>3, <1>5 DEF RecordsFor, Due
    <3>2. Due(c)' = RecordsFor(live, c)'
      BY <1>3 DEF Due
    <3>3. Final(c)' = Final(c)
      BY <1>2 DEF Final
    <3>4. ~Behind(c)' => ~Behind(c)
      BY <1>2, <1>3 DEF Behind, Retired
    <3>5. Told(c)
      BY <1>b DEF Current
    <3> QED BY <1>3, <2>1, <3>1, <3>2, <3>3, <3>4, <3>5 DEF Told
  <2>2. CASE ~(n = c)
    <3>1. Behind(n) => Behind(n)'
      BY <1>a, <1>b, <1>1, <1>2, <1>3, <1>4, <1>6, <1>7, <1>8, <2>2 DEF Behind, Retired, Stages
    <3>2. Told(n) /\ \A s \in Session : live'[s].name = n <=> live[s].name = n
      BY <1>a, <1>b, <1>1, <1>2, <1>3, <1>4, <1>6, <1>7, <1>8, <2>2 DEF Current
    <3> QED BY <1>a, <1>b, <1>1, <1>2, <1>3, <1>4, <1>6, <1>7, <1>8, <2>2, <3>1, <3>2, ToldKept DEF Stages
  <2> QED BY <2>1, <2>2
<1>14. Flushing'
  BY <1>a, <1>b, <1>1, <1>2, <1>3, <1>4, <1>6, <1>7, <1>8 DEF Flushing, Stages
<1>15. Lengths'
  <2> SUFFICES ASSUME NEW n \in Name
               PROVE  Len(writes'[n]) <= (IF n = op'.name /\ op'.at \in {"flushing", "dropped", "written"}
                                          THEN 3 ELSE 2)
    BY DEF Lengths
  <2>1. CASE n = c
    BY <1>a, <1>b, <1>1, <1>2, <1>3, <1>4, <1>6, <1>7, <1>8, <2>1 DEF Lengths
  <2>2. CASE n # c
    BY <1>a, <1>b, <1>1, <1>2, <1>3, <1>4, <1>6, <1>7, <1>8, <2>2 DEF Lengths
  <2> QED BY <2>1, <2>2
<1> QED BY <1>9, <1>10, <1>11, <1>12, <1>13, <1>14, <1>15 DEF Rest

LEMMA ReturnWritesStep ==
  ASSUME NamesInv, Windows = {}, ReturnWrites
  PROVE  Rest'
<1>a. "none" \notin Name /\ Stages
  BY FilesAssumption, StagesHold DEF NamesInv
<1>b. Rooted /\ Moving /\ Apart /\ Archiving /\ Current /\ Flushing /\ Lengths
  BY DEF NamesInv
<1>1. PICK c \in Name : c = op.name
  BY <1>a DEF Stages
<1> DEFINE r == [s \in Session |-> IF s \in op.who THEN c ELSE disk[c].saved[s]]
<1>2. /\ timers' = timers /\ flush' = flush /\ scope' = scope
  BY DEF ReturnWrites
<1>3. /\ op.at = "copy" /\ op'.at = "written" /\ op'.kind = op.kind /\ op'.name = c /\ op.name = c
      /\ op'.who = op.who
  BY <1>1, OpType DEF ReturnWrites, NamesInv, Typed
<1>4. \A s \in Session : live'[s].name = live[s].name /\ live'[s].busy = live[s].busy
  <2>1. op.id \in Id
    BY <1>a DEF NamesInv, OpStage, ReturnWrites, Stages
  <2> QED BY <2>1, BringsBackType DEF ReturnWrites, NamesInv, Typed
<1>5. /\ op.kind \notin {"idle", "delete"} /\ scope.kind # "idle" => c # scope.from
      /\ op.kind \notin {"idle", "delete"} /\ scope.kind = "rename" => c # scope.to
  BY <1>a, <1>b, <1>1 DEF Apart, Stages
<1>6. /\ op.kind = "return" /\ disk[c].scope /\ \A s \in op.who : live[s].name = "none"
  BY <1>a, <1>b, <1>1, <1>3 DEF Archiving, Stages
<1>7. \A s \in op.who : ~flush[s].on
  BY DEF ReturnWrites, Erased
<1>8. \A m \in Name : /\ disk'[m].scope = disk[m].scope /\ disk'[m].saved = disk[m].saved
                      /\ disk'[m].there = disk[m].there
  <2>1. disk \in [Name -> DirRec]
    BY DEF NamesInv, Typed
  <2>2. PICK log : disk' = [disk EXCEPT ![c].there = TRUE, ![c].log = log]
    BY <1>1 DEF ReturnWrites
  <2>3. disk[c].there = TRUE
    BY <1>b, <1>6, <2>1 DEF Rooted, RootedAt, DirRec
  <2> QED BY <2>1, <2>2, <2>3 DEF DirRec
<1>9. writes' = [writes EXCEPT ![c] = Append(@, r)]
  BY <1>1 DEF ReturnWrites
<1>10. r \in Saved
  <2>1. disk[c] \in DirRec
    BY DEF NamesInv, Typed
  <2> QED BY <2>1 DEF DirRec, Saved
<1>11. r = [s \in Session |-> IF s \in op.who THEN c ELSE disk[c].saved[s]]
  OBVIOUS
<1> HIDE DEF r
<1>12. /\ writes'[c] = Append(writes[c], r) /\ writes'[c] # <<>>
      /\ writes'[c][Len(writes'[c])] = r /\ Len(writes'[c]) = Len(writes[c]) + 1
      /\ \A m \in Name : m # c => writes'[m] = writes[m]
  BY <1>9, <1>10, AppendType, ZenonT(40) DEF NamesInv, Typed
<1>13. Len(writes[c]) \in Nat
  BY LenProperties DEF NamesInv, Typed
<1>14. Rooted'
  <2> SUFFICES ASSUME NEW n \in Name PROVE RootedAt(n)'
    BY DEF Rooted
  <2>1. RootedAt(n)
    BY <1>b DEF Rooted
  <2> QED BY <1>a, <1>b, <1>1, <1>2, <1>3, <1>4, <1>5, <1>6, <1>7, <1>8, <1>10, <1>12, <1>13, <2>1 DEF Rooted, RootedAt, Between, Retired, Stages
<1>15. Moving'
  BY <1>a, <1>b, <1>1, <1>2, <1>3, <1>4, <1>5, <1>6, <1>7, <1>8, <1>10, <1>12, <1>13 DEF Moving, SessionsFor, Stages
<1>16. Apart'
  BY <1>a, <1>b, <1>1, <1>2, <1>3, <1>4, <1>5, <1>6, <1>7, <1>8, <1>10, <1>12, <1>13 DEF Apart, Stages
<1>17. Archiving'
  BY <1>a, <1>b, <1>1, <1>2, <1>3, <1>4, <1>5, <1>6, <1>7, <1>8, <1>10, <1>12, <1>13 DEF Archiving, SessionsFor, Stages
<1>18. Current'
  <2> SUFFICES ASSUME NEW n \in Name PROVE Told(n)'
    BY DEF Current
  <2>1. CASE n = c
    <3>1. RecordsFor(live, c)' = RecordsFor(live, c)
      BY <1>4, SameRecords
    <3>2. disk[c].saved = RecordsFor(live, c)
      BY <1>b, <1>3 DEF Current, Told
    <3>3. Final(c)' = r
      BY <1>12 DEF Final
    <3>4. Due(c)' = r
      BY <1>3, <1>11, <3>1, <3>2 DEF Due
    <3> QED BY <1>3, <2>1, <3>3, <3>4 DEF Told
  <2>2. CASE ~(n = c)
    <3>1. Behind(n) => Behind(n)'
      BY <1>a, <1>b, <1>1, <1>2, <1>3, <1>4, <1>5, <1>6, <1>7, <1>8, <1>10, <1>12, <1>13, <2>2 DEF Behind, Retired, Stages
    <3>2. Told(n) /\ \A s \in Session : live'[s].name = n <=> live[s].name = n
      BY <1>a, <1>b, <1>1, <1>2, <1>3, <1>4, <1>5, <1>6, <1>7, <1>8, <1>10, <1>12, <1>13, <2>2 DEF Current
    <3> QED BY <1>a, <1>b, <1>1, <1>2, <1>3, <1>4, <1>5, <1>6, <1>7, <1>8, <1>10, <1>12, <1>13, <2>2, <3>1, <3>2, ToldKept DEF Stages
  <2> QED BY <2>1, <2>2
<1>19. Flushing'
  BY <1>a, <1>b, <1>1, <1>2, <1>3, <1>4, <1>5, <1>6, <1>7, <1>8, <1>10, <1>12, <1>13 DEF Flushing, Stages
<1>20. Lengths'
  <2> SUFFICES ASSUME NEW n \in Name
               PROVE  Len(writes'[n]) <= (IF n = op'.name /\ op'.at \in {"flushing", "dropped", "written"}
                                          THEN 3 ELSE 2)
    BY DEF Lengths
  <2>1. CASE n = c
    BY <1>a, <1>b, <1>1, <1>2, <1>3, <1>4, <1>5, <1>6, <1>7, <1>8, <1>10, <1>12, <1>13, <2>1 DEF Lengths
  <2>2. CASE n # c
    BY <1>a, <1>b, <1>1, <1>2, <1>3, <1>4, <1>5, <1>6, <1>7, <1>8, <1>10, <1>12, <1>13, <2>2 DEF Lengths
  <2> QED BY <2>1, <2>2
<1> QED BY <1>14, <1>15, <1>16, <1>17, <1>18, <1>19, <1>20 DEF Rest

LEMMA CrashStep ==
  ASSUME NamesInv, Windows = {}, Crash
  PROVE  Rest'
<1>a. "none" \notin Name /\ Stages
  BY FilesAssumption, StagesHold DEF NamesInv
<1>b. Rooted
  BY DEF NamesInv
<1>1. /\ disk' = disk /\ timers' = {} /\ scope' = NoMove /\ op'.kind = "idle" /\ op'.at = "idle"
      /\ op'.who = {}
      /\ \A n \in Name : writes'[n] = <<>> /\ Len(writes'[n]) = 0
      /\ \A s \in Session : ~flush'[s].on
  BY OpType DEF Crash, NoFlush, NamesInv, Typed
<1>2. /\ scope'.kind = "idle" /\ scope'.at = "idle"
  BY <1>1 DEF NoMove
<1>3. ASSUME NEW s \in Session, NEW n \in Name
      PROVE  live'[s].name = n <=> disk[n].saved[s] = n
  <2>1. \A e, m \in Homes(s) : disk[e].saved[s] = e /\ e = m
    BY DEF Crash
  <2>2. /\ Homes(s) = {} => live'[s].name = "none"
        /\ Homes(s) # {} => \E m \in Homes(s) : live'[s].name = disk[m].saved[s]
    BY CrashLive DEF NamesInv
  <2>3. disk[n].saved[s] = n => n \in Homes(s)
    BY <1>a, <1>b DEF Homes, Rooted, RootedAt, Nothing
  <2>4. Homes(s) \subseteq Name
    BY DEF Homes
  <2> QED BY <1>a, <2>1, <2>2, <2>3, <2>4
<1>4. ASSUME NEW s \in Session, NEW n \in Name
      PROVE  disk[n].saved[s] \in {n, "none"}
  <2>1. \A e, m \in Homes(s) : disk[e].saved[s] = e /\ e = m
    BY DEF Crash
  <2>2. ~disk[n].scope => disk[n].saved[s] = "none"
    BY <1>b DEF Rooted, RootedAt, Nothing
  <2>3. disk[n].scope /\ disk[n].saved[s] # "none" => n \in Homes(s)
    BY DEF Homes
  <2> QED BY <2>1, <2>2, <2>3
<1>5. ASSUME NEW s \in Session, NEW n \in Name
      PROVE  live'[s].name = n => disk[n].scope
  BY <1>a, <1>b, <1>3 DEF Rooted, RootedAt, Nothing
<1>6. Rooted'
  BY <1>b, <1>1, <1>5 DEF Rooted, RootedAt
<1>7. Moving'
  BY <1>2 DEF Moving
<1>8. Apart'
  BY <1>1 DEF Apart
<1>9. Archiving'
  BY <1>1 DEF Archiving
<1>10. Current'
  <2> SUFFICES ASSUME NEW n \in Name PROVE Told(n)'
    BY DEF Current
  <2>1. disk[n].saved = RecordsFor(live, n)'
    <3>1. disk[n].saved \in Saved
      BY DEF NamesInv, Typed, DirRec
    <3>2. \A s \in Session : disk[n].saved[s] = RecordsFor(live, n)'[s]
      BY <1>a, <1>3, <1>4 DEF RecordsFor
    <3>3. RecordsFor(live, n)' = [s \in Session |-> IF live'[s].name = n THEN n ELSE "none"]
      BY DEF RecordsFor
    <3> QED BY <3>1, <3>2, <3>3 DEF Saved
  <2> QED BY <1>1, <2>1 DEF Told, Final, Due
<1>11. Flushing'
  BY <1>1 DEF Flushing
<1>12. Lengths'
  BY <1>1 DEF Lengths
<1> QED BY <1>6, <1>7, <1>8, <1>9, <1>10, <1>11, <1>12 DEF Rest

LEMMA NamesInit == Init => NamesInv
<1> SUFFICES ASSUME Init PROVE NamesInv
  OBVIOUS
<1>a. "none" \notin Name /\ Home \in Name
  BY FilesAssumption
<1>1. Typed
  BY TypedInit
<1>2. /\ op.kind = "idle" /\ op.at = "idle" /\ scope.kind = "idle" /\ scope.at = "idle"
      /\ timers = {} /\ writes = [n \in Name |-> <<>>] /\ flush = [s \in Session |-> NoFlush]
      /\ live = [s \in Session |-> [name |-> Home, busy |-> FALSE, seq |-> 0, flushed |-> 0]]
  BY DEF Init, NoMove
<1>3. disk = [n \in Name |-> IF n # Home THEN NoDir
                ELSE [NoDir EXCEPT !.there = TRUE, !.scope = TRUE,
                                   !.saved = [s \in Session |-> Home]]]
  BY DEF Init
<1>4. /\ \A n \in Name : n # Home => /\ disk[n].there = FALSE /\ disk[n].scope = FALSE
                                     /\ disk[n].saved = Nothing
      /\ disk[Home].there = TRUE /\ disk[Home].scope = TRUE
      /\ disk[Home].saved = [s \in Session |-> Home]
  BY <1>a, <1>3 DEF NoDir
<1>5. /\ \A n \in Name : writes[n] = <<>> /\ Len(writes[n]) = 0
      /\ \A s \in Session : ~flush[s].on /\ live[s].name = Home /\ ~live[s].busy
  BY <1>2 DEF NoFlush
<1>6. OpStage /\ MoveStage /\ Moving /\ Apart /\ Archiving /\ Working /\ Flushing /\ Lengths
  BY <1>2, <1>5 DEF OpStage, MoveStage, Moving, Apart, Archiving, Working, Flushing, Lengths
<1>7. Rooted
  BY <1>a, <1>2, <1>4, <1>5 DEF Rooted, RootedAt
<1>8. Current
  <2> SUFFICES ASSUME NEW n \in Name PROVE Told(n)
    BY DEF Current
  <2>1. RecordsFor(live, n) = disk[n].saved
    BY <1>a, <1>4, <1>5 DEF RecordsFor, Nothing
  <2> QED BY <1>2, <1>5, <2>1 DEF Told, Final, Due
<1> QED BY <1>1, <1>6, <1>7, <1>8 DEF NamesInv

LEMMA RestNext ==
  ASSUME NamesInv, Windows = {}, Next
  PROVE  Rest'
<1>1. ASSUME NEW s \in Session, \/ Prompt(s) \/ Record(s) \/ TurnEnds(s) \/ DeleteSession(s)
                                \/ AppendLands(s) \/ AppendFails(s)
      PROVE  Rest'
  BY <1>1, PromptStep, WorkStep, DeleteSessionStep, AppendStep
<1>2. ASSUME NEW n \in Name, \/ StatusChanges(n) \/ TimerFires(n) \/ WriteLands(n)
                             \/ CreateTask(n) \/ DeleteTask(n)
      PROVE  Rest'
  BY <1>2, StatusStep, TimerStep, WriteStep, CreateStep, DeleteTaskStep
<1>3. ASSUME NEW n \in Name, NEW m \in Name, RenameTask(n, m) PROVE Rest'
  BY <1>3, RenameTaskStep
<1>4. ASSUME NEW s \in Session, NEW n \in Name, EraseLog(s, n) PROVE Rest'
  BY <1>4, EraseStep
<1>5. ASSUME ScopeStops \/ DeleteDrops \/ DeleteRemoves \/ RenameMoves \/ RenameEnds PROVE Rest'
  BY <1>5, StopsStep, DropsStep, RemovesStep, MovesStep, EndsStep
<1>6. ASSUME NEW i \in Id, NEW n \in Name, ArchiveScope(n, i) PROVE Rest'
  BY <1>6, ArchiveScopeStep
<1>7. ASSUME NEW i \in Id, NEW s \in Session, ArchiveSession(s, i) PROVE Rest'
  BY <1>7, ArchiveSessionStep
<1>8. ASSUME NEW i \in Id, Restore(i) \/ ReturnSession(i) \/ DeleteArchive(i) PROVE Rest'
  BY <1>8, RestoreStep, ReturnSessionStep, DeleteArchiveStep
<1>9. ASSUME \/ OpTeardown \/ OpFlushes \/ OpFlushed \/ OpPacks \/ OpCommits \/ ScopeRetires
             \/ ScopeDrops \/ SessionDrops
      PROVE  Rest'
  BY <1>9, OpTeardownStep, OpFlushesStep, OpFlushesNothingStep, OpFlushedStep, GoesOnStep, RetiresStep, ScopeDropsStep,
     SessionDropsStep
<1>10. ASSUME \/ SessionErases \/ OpFails \/ RestoreMoves \/ RestoreReturns \/ ReturnWrites
              \/ OpRemovesData \/ OpRemovesMeta \/ Crash
       PROVE  Rest'
  BY <1>10, SessionErasesStep, OpEndsStep, RestoreMovesStep, RestoreReturnsStep, ReturnWritesStep,
     GoesOnStep, CrashStep
<1> QED BY <1>1, <1>2, <1>3, <1>4, <1>5, <1>6, <1>7, <1>8, <1>9, <1>10 DEF Next

LEMMA NamesNext ==
  ASSUME NamesInv, Windows = {}, [Next]_vars
  PROVE  NamesInv'
<1>1. CASE Next
  <2>1. Typed' /\ OpStage' /\ MoveStage' /\ Working'
    BY <1>1, TypedNext, OpStageNext, MoveStageNext, WorkingNext DEF NamesInv
  <2>2. Rest'
    BY <1>1, RestNext
  <2> QED BY <2>1, <2>2 DEF NamesInv, Rest
<1>2. CASE UNCHANGED vars
  <2> USE <1>2 DEF vars
  <2>1. Typed' /\ OpStage' /\ MoveStage' /\ Working' /\ Flushing' /\ Lengths'
    BY DEF NamesInv, Typed, OpStage, MoveStage, Working, Flushing, Lengths
  <2>2. Rooted' /\ Moving' /\ Apart' /\ Archiving'
    BY DEF NamesInv, Rooted, RootedAt, Between, Retired, Moving, Apart, Archiving, SessionsFor
  <2>3. Current'
    BY DEF NamesInv, Current, Told, Behind, Retired, Final, Due, RecordsFor
  <2> QED BY <2>1, <2>2, <2>3 DEF NamesInv
<1> QED BY <1>1, <1>2

LEMMA NamesHold ==
  ASSUME Windows = {}
  PROVE  Spec => []NamesInv
<1>1. NamesInv /\ [Next]_vars => NamesInv'
  BY NamesNext
<1> QED BY NamesInit, <1>1, PTL DEF Spec

LEMMA NamesSuffice == NamesInv => DiskIsMemory /\ TypeOK
<1> SUFFICES ASSUME NamesInv PROVE DiskIsMemory /\ TypeOK
  OBVIOUS
<1>a. Stages
  BY StagesHold DEF NamesInv
<1>1. DiskIsMemory
  <2> SUFFICES ASSUME NEW n \in Name, AtRest(n)
               PROVE  disk[n].saved = RecordsFor(live, n) /\ (disk[n].there => disk[n].scope)
    BY DEF DiskIsMemory
  <2>1. Told(n) /\ RootedAt(n)
    BY DEF NamesInv, Current, Rooted
  <2>2. ~Behind(n)
    BY <1>a DEF AtRest, Behind, Retired, Stages
  <2>3. Due(n) = RecordsFor(live, n) /\ Final(n) = disk[n].saved
    BY <1>a DEF AtRest, Due, Final, Stages
  <2> QED BY <2>1, <2>2, <2>3 DEF Told, RootedAt
<1>2. TypeOK
  <2>1. /\ \A n \in Name : Len(writes[n]) <= 4
        /\ \A n \in Name : \A i \in DOMAIN writes[n] : writes[n][i] \in Saved
    <3> SUFFICES ASSUME NEW n \in Name
                 PROVE  Len(writes[n]) <= 4 /\ \A i \in DOMAIN writes[n] : writes[n][i] \in Saved
      OBVIOUS
    <3>1. writes[n] \in Seq(Saved)
      BY DEF NamesInv, Typed
    <3>2. Len(writes[n]) \in Nat /\ Len(writes[n]) <= 3
      BY <3>1, LenProperties DEF NamesInv, Lengths
    <3> QED BY <3>1, <3>2, LenProperties, ElementOfSeq
  <2>2. \A n \in Name :
          /\ disk[n].there \in BOOLEAN /\ disk[n].scope \in BOOLEAN /\ disk[n].saved \in Saved
          /\ disk[n].scope => disk[n].there
          /\ \A s \in Session : disk[n].log[s] \in Log
    <3> SUFFICES ASSUME NEW n \in Name
                 PROVE  /\ disk[n].there \in BOOLEAN /\ disk[n].scope \in BOOLEAN
                        /\ disk[n].saved \in Saved
                        /\ disk[n].scope => disk[n].there
                        /\ \A s \in Session : disk[n].log[s] \in Log
      OBVIOUS
    <3>1. disk[n] \in DirRec
      BY DEF NamesInv, Typed
    <3>2. disk[n].there = disk[n].scope
      BY DEF NamesInv, Rooted, RootedAt
    <3> QED BY <3>1, <3>2 DEF DirRec
  <2>3. \A i \in Id : /\ archive[i].meta => archive[i].kind \in {"scope", "session"}
                      /\ archive[i].saved \subseteq Session /\ archive[i].name \in Name
    BY DEF NamesInv, Typed, FileRec
  <2>4. /\ scope.kind \in {"idle", "delete", "rename"}
        /\ op.kind \in {"idle", "scope", "session", "restore", "return", "delete"}
    BY DEF NamesInv, Typed, MoveRec, OpRec
  <2> QED BY <2>1, <2>2, <2>3, <2>4 DEF TypeOK, NamesInv, Typed, LiveRec, FlushRec
<1> QED BY <1>1, <1>2

(* When nothing is on its way to a directory, its sessions.json names the    *)
(* sessions in memory, and no directory is there that is no scope, if no      *)
(* archive operation begins under a name that is being deleted or renamed.   *)
THEOREM DiskFollowsMemory ==
  ASSUME Windows = {}
  PROVE  Spec => []DiskIsMemory
BY NamesHold, NamesSuffice, PTL

(* Memory, the queues to the disk, the disk and the archives keep their      *)
(* shapes, and no chain of writes grows beyond what one operation and one    *)
(* timer add to it.                                                          *)
THEOREM FilesTypeCorrect ==
  ASSUME Windows = {}
  PROVE  Spec => []TypeOK
BY NamesHold, NamesSuffice, PTL

-----------------------------------------------------------------------------
(* The invariant, second half: what the logs and the archives hold.          *)

(* A log that reads as the records up to one.                                *)
Reads(log, m) == ReadLog(log) = 1..m /\ \A i \in DOMAIN log : log[i] <= m

Readable ==
  /\ \A n \in Name, s \in Session : \E m \in Records : Reads(disk[n].log[s], m)
  /\ \A i \in Id, s \in Session : \E m \in Records : Reads(archive[i].log[s], m)

(* A flush appends right where its log ends, or before: never past a gap.    *)
Appending ==
  \A s \in Session :
    /\ live[s].flushed <= live[s].seq
    /\ flush[s].on =>
         /\ flush[s].from = live[s].flushed /\ flush[s].upTo <= live[s].seq
         /\ \A m \in Records : Reads(disk[flush[s].name].log[s], m) => flush[s].from <= m

(* The directory of a scope in memory.                                       *)
Place(n) == IF Between(n) THEN scope.to ELSE n

(* A session in memory has its record in its directory, in every write on    *)
(* its way there, and its log at least as far as was confirmed.              *)
Housed(s) ==
  LET n == live[s].name IN
    n # "none" =>
      /\ ~Retired(n) => /\ disk[Place(n)].saved[s] # "none"
                        /\ \E m \in live[s].flushed..live[s].seq : Reads(disk[Place(n)].log[s], m)
      /\ \A i \in DOMAIN writes[n] : writes[n][i][s] # "none"
AtHome == \A s \in Session : Housed(s)

(* Nobody waits to delete the log of a session in memory, or of one that is  *)
(* on its way back; neither is deleted.                                      *)
Wanted(s) == live[s].name # "none" \/ (op.at \in {"moved", "written"} /\ s \in op.who)
Fated == \A s \in Session : Wanted(s) => fate[s] = "kept" /\ \A n \in Name : <<s, n>> \notin erase

(* A session out of memory is in an archive, and not in the one that goes.   *)
Shelved ==
  \A s \in Session : fate[s] = "kept" /\ live[s].name = "none" =>
    \E i \in Id : Holds(i, s) /\ (op.at = "returned" => i # op.id)

(* What an archive operation has put away, await by await.                   *)
Packing ==
  /\ op.at \in {"teardown", "flush", "flushing", "pack"} /\ op.kind \in {"scope", "session"} =>
       ~archive[op.id].data /\ ~archive[op.id].meta
  /\ op.at \in {"pack", "packed", "committed"} =>
       \A s \in SessionsFor(op.name) : live[s].flushed = live[s].seq /\ ~flush[s].on
  /\ op.at \in {"packed", "committed", "retired"} =>
       /\ archive[op.id].data /\ archive[op.id].meta = (op.at # "packed")
       /\ archive[op.id].saved = IF op.kind = "scope" THEN SessionsFor(op.name) ELSE op.who
       /\ \A s \in archive[op.id].saved : Reads(archive[op.id].log[s], live[s].seq)
  /\ op.at = "dropped" => \A s \in op.who : live[s].name = "none" /\ ~flush[s].on
  /\ op.at \in {"unpacked", "moved", "copy", "written"}
       \/ (op.kind = "return" /\ op.at \in {"flush", "flushing"}) =>
       Complete(op.id) /\ archive[op.id].saved = op.who
  /\ op.at = "emptied" => ~archive[op.id].data

LogsInv == Readable /\ Appending /\ AtHome /\ Fated /\ Shelved /\ Packing
-----------------------------------------------------------------------------
(* Logs.                                                                     *)

LEMMA LogFacts ==
  ASSUME NEW log \in Log
  PROVE  /\ Len(log) \in Nat /\ DOMAIN log = 1..Len(log)
         /\ \A i \in DOMAIN log : log[i] \in 1..MaxRecords
         /\ \A i \in DOMAIN log : log[i] \in Nat \ {0}
<1>1. log \in Seq(1..MaxRecords)
  BY DEF Log
<1>2. \A i \in DOMAIN log : log[i] \in 1..MaxRecords
  BY <1>1, ElementOfSeq, LenProperties
<1> QED BY <1>1, <1>2, LenProperties, FilesAssumption

LEMMA EmptyReads == Reads(<<>>, 0)
<1>1. DOMAIN (<<>>) = {}
  OBVIOUS
<1> QED BY <1>1 DEF Reads, ReadLog

(* A log reads as one number of records.                                     *)
LEMMA ReadsCount ==
  ASSUME NEW log, NEW m \in Nat, Reads(log, m)
  PROVE  Cardinality(ReadLog(log)) = m
<1>1. Cardinality(1..m) = m
  BY FS_Interval
<1> QED BY <1>1 DEF Reads

LEMMA ReadsOnce ==
  ASSUME NEW log, NEW m \in Nat, NEW k \in Nat, Reads(log, m), Reads(log, k)
  PROVE  m = k
BY ReadsCount

(* A tail appended at the end of a log, or again, goes on from there.        *)
LEMMA ReadsOn ==
  ASSUME NEW log \in Log, NEW b \in Log, NEW m \in Nat, NEW from \in Nat, NEW k \in Nat,
         Reads(log, m), from <= m, Len(b) = k, \A i \in 1..k : b[i] = from + i
  PROVE  Reads(log \o b, IF from + k > m THEN from + k ELSE m)
<1> DEFINE c == log \o b
           N == Len(log)
           top == IF from + k > m THEN from + k ELSE m
<1>1. /\ N \in Nat /\ DOMAIN log = 1..N
      /\ \A i \in 1..N : log[i] \in Nat \ {0}
  BY LogFacts
<1>2. /\ DOMAIN c = 1..(N + k)
      /\ \A i \in 1..N : c[i] = log[i]
      /\ \A i \in (N + 1)..(N + k) : c[i] = from + (i - N)
  <2>1. /\ c \in Seq(1..MaxRecords) /\ Len(c) = N + k
        /\ \A i \in 1..(N + k) : c[i] = IF i <= N THEN log[i] ELSE b[i - N]
    BY ConcatProperties DEF Log
  <2>2. DOMAIN c = 1..(N + k)
    BY <2>1, LenProperties
  <2>3. \A i \in (N + 1)..(N + k) : i - N \in 1..k /\ ~(i <= N) /\ i \in 1..(N + k)
    BY <1>1
  <2>4. \A i \in 1..N : i <= N /\ i \in 1..(N + k)
    BY <1>1
  <2> QED BY <2>1, <2>2, <2>3, <2>4
<1>3. /\ 1..m = {log[i] : i \in {i \in 1..N : \A j \in 1..(i - 1) : log[j] < log[i]}}
      /\ \A i \in 1..N : log[i] <= m
  BY <1>1 DEF Reads, ReadLog, Advances
<1>4. ReadLog(c) = {c[i] : i \in {i \in 1..(N + k) : \A j \in 1..(i - 1) : c[j] < c[i]}}
  BY <1>2 DEF ReadLog, Advances
<1> HIDE DEF c, N
<1>5. \A i \in 1..(N + k) : c[i] \in 1..top
  <2> SUFFICES ASSUME NEW i \in 1..(N + k) PROVE c[i] \in 1..top
    OBVIOUS
  <2>1. CASE i \in 1..N
    BY <1>1, <1>2, <1>3, <2>1
  <2>2. CASE i \in (N + 1)..(N + k)
    BY <1>1, <1>2, <2>2
  <2> QED BY <1>1, <2>1, <2>2
<1>6. ASSUME NEW v \in 1..top PROVE v \in ReadLog(c)
  <2>1. CASE v <= m
    <3>1. PICK i \in 1..N : log[i] = v /\ \A j \in 1..(i - 1) : log[j] < log[i]
      <4>1. v \in 1..m
        BY <2>1
      <4>2. v \in {log[i] : i \in {i \in 1..N : \A j \in 1..(i - 1) : log[j] < log[i]}}
        BY <1>3, <4>1
      <4> QED BY <4>2
    <3>2. i \in 1..(N + k) /\ c[i] = v /\ \A j \in 1..(i - 1) : j \in 1..N
      BY <1>1, <1>2, <3>1
    <3>3. \A j \in 1..(i - 1) : c[j] < c[i]
      BY <1>2, <3>1, <3>2
    <3> QED BY <1>4, <3>2, <3>3
  <2>2. CASE v > m
    <3> DEFINE i == N + (v - from)
    <3>1. i \in (N + 1)..(N + k) /\ i \in 1..(N + k) /\ i - N = v - from
      BY <1>1, <2>2
    <3>2. c[i] = v
      BY <1>2, <3>1
    <3>3. ASSUME NEW j \in 1..(i - 1) PROVE c[j] < c[i]
      <4>1. CASE j \in 1..N
        BY <1>1, <1>2, <1>3, <2>2, <3>2, <4>1
      <4>2. CASE j \in (N + 1)..(N + k)
        <5>1. c[j] = from + (j - N)
          BY <1>2, <4>2
        <5> QED BY <1>1, <3>1, <3>2, <5>1
      <4> QED BY <1>1, <3>1, <4>1, <4>2
    <3> HIDE DEF i
    <3> QED BY <1>4, <3>1, <3>2, <3>3
  <2> QED BY <2>1, <2>2
<1>7. ReadLog(c) = 1..top
  BY <1>4, <1>5, <1>6
<1>8. \A i \in DOMAIN c : c[i] <= top
  BY <1>2, <1>5
<1>9. Reads(c, top)
  BY <1>7, <1>8 DEF Reads
<1> QED BY <1>9 DEF c

-----------------------------------------------------------------------------
(* The second half, step by step.                                            *)

(* What a step can tell from a session.                                      *)
LEMMA SessionFacts ==
  ASSUME NamesInv, NEW s \in Session
  PROVE  /\ live[s].name \in Name \cup {"none"}
         /\ live[s].seq \in Nat /\ live[s].flushed \in Nat
         /\ live[s].seq \in Records /\ live[s].flushed \in Records
         /\ flush[s].on \in BOOLEAN /\ flush[s].name \in Name
         /\ flush[s].from \in Nat /\ flush[s].upTo \in Nat /\ flush[s].upTo \in Records
         /\ Records \subseteq Nat
<1>1. live[s] \in LiveRec /\ flush[s] \in FlushRec
  BY DEF NamesInv, Typed
<1>2. Records \subseteq Nat
  BY FilesAssumption DEF Records
<1> QED BY <1>1, <1>2 DEF LiveRec, FlushRec

LEMMA FileFacts ==
  ASSUME NamesInv
  PROVE  /\ \A n \in Name, s \in Session : disk[n].log[s] \in Log
         /\ \A i \in Id, s \in Session : archive[i].log[s] \in Log
         /\ \A i \in Id : archive[i].saved \subseteq Session
BY DEF NamesInv, Typed, DirRec, FileRec

(* A log in its place has what was confirmed and no more than there is.      *)
LEMMA LogBounds ==
  ASSUME NamesInv, AtHome, NEW s \in Session, NEW n \in Name, live[s].name = n,
         ~Retired(n), NEW m \in Records, Reads(disk[Place(n)].log[s], m)
  PROVE  live[s].flushed <= m /\ m <= live[s].seq
<1>a. "none" \notin Name
  BY FilesAssumption
<1>1. PICK k \in live[s].flushed..live[s].seq : Reads(disk[Place(n)].log[s], k)
  BY <1>a DEF AtHome, Housed
<1>2. k \in Nat /\ m \in Nat
  BY <1>1, SessionFacts
<1>3. k = m
  BY <1>1, <1>2, ReadsOnce
<1> QED BY <1>1, <1>3, SessionFacts

(* The sessions a flush of a scope starts with have a log that ends where it *)
(* begins.                                                                   *)
LEMMA FlushesFit ==
  ASSUME NamesInv, Appending, AtHome, NEW l \in [Session -> LiveRec], NEW c \in Name,
         flush' = FlushAll(l, c), Place(c) = c, ~Retired(c),
         \A s \in Session : l[s].flushed = live[s].flushed /\ l[s].seq = live[s].seq
                            /\ (l[s].name = c => live[s].name = c),
         NEW s \in Session, flush'[s].on
  PROVE  /\ flush'[s].from = live[s].flushed /\ flush'[s].upTo <= live[s].seq
         /\ \A m \in Records : Reads(disk[flush'[s].name].log[s], m) => flush'[s].from <= m
         /\ flush'[s] = flush[s] \/ (l[s].name = c /\ live[s].flushed < live[s].seq)
<1>1. \/ flush'[s] = flush[s]
      \/ /\ l[s].name = c /\ flush'[s].name = c
         /\ flush'[s].from = l[s].flushed /\ flush'[s].upTo = l[s].seq
         /\ l[s].flushed < l[s].seq
  BY FlushAllFacts
<1>2. CASE flush'[s] = flush[s]
  BY <1>2 DEF Appending
<1>3. CASE flush'[s] # flush[s]
  <2>1. \A m \in Records : Reads(disk[c].log[s], m) => live[s].flushed <= m
    BY <1>1, <1>3, LogBounds
  <2> QED BY <1>1, <1>3, <2>1, SessionFacts
<1> QED BY <1>2, <1>3

(* Nothing happens to a session.                                             *)
LEMMA HousedKept ==
  ASSUME NEW s \in Session, Housed(s), NEW n \in Name, live[s].name = n, live'[s].name = n,
         n # "none", live'[s].flushed = live[s].flushed,
         live[s].seq \in Nat, live'[s].seq \in Nat, live[s].flushed \in Nat,
         live[s].seq <= live'[s].seq,
         ~Retired(n)' => /\ ~Retired(n)
                         /\ disk[Place(n)].saved[s] # "none" => disk'[Place(n)'].saved[s] # "none"
                         /\ disk'[Place(n)'].log[s] = disk[Place(n)].log[s],
         \A i \in DOMAIN writes'[n] : writes'[n][i][s] # "none"
  PROVE  Housed(s)'
<1>1. ASSUME ~Retired(n)'
      PROVE  /\ disk'[Place(n)'].saved[s] # "none"
             /\ \E m \in live'[s].flushed..live'[s].seq : Reads(disk'[Place(n)'].log[s], m)
  <2>1. disk[Place(n)].saved[s] # "none"
    BY <1>1 DEF Housed
  <2>2. PICK m \in live[s].flushed..live[s].seq : Reads(disk[Place(n)].log[s], m)
    BY <1>1 DEF Housed
  <2>3. m \in live'[s].flushed..live'[s].seq
    BY <2>2
  <2> QED BY <1>1, <2>1, <2>2, <2>3
<1>2. Place(live[s].name)' = Place(n)' /\ Retired(live[s].name)' = Retired(n)'
  BY DEF Place, Between, Retired
<1> QED BY <1>1, <1>2 DEF Housed

(* Nothing happens to what an archive operation has put away.                *)
LEMMA PackingKept ==
  ASSUME NamesInv, Packing, op' = op, archive' = archive,
         op.at \in {"pack", "packed", "committed", "retired"} =>
           \A s \in Session :
             /\ live'[s].name = op.name <=> live[s].name = op.name
             /\ live[s].name = op.name => live'[s].seq = live[s].seq,
         op.at \in {"pack", "packed", "committed"} =>
           \A s \in Session : live[s].name = op.name /\ live[s].flushed = live[s].seq /\ ~flush[s].on
             => live'[s].flushed = live[s].flushed /\ ~flush'[s].on,
         op.at = "dropped" =>
           \A s \in op.who : live[s].name = "none" /\ ~flush[s].on
             => live'[s].name = "none" /\ ~flush'[s].on
  PROVE  Packing'
<1>a. Stages
  BY StagesHold DEF NamesInv
<1>1. op.at \in {"pack", "packed", "committed"} =>
        \A s \in SessionsFor(op.name)' : live'[s].flushed = live'[s].seq /\ ~flush'[s].on
  BY DEF Packing, SessionsFor
<1>2. op.at \in {"packed", "committed", "retired"} =>
        /\ SessionsFor(op.name)' = SessionsFor(op.name)
        /\ archive[op.id].saved \subseteq SessionsFor(op.name)
        /\ \A s \in SessionsFor(op.name) : live'[s].seq = live[s].seq
  <2>1. op.kind = "session" /\ op.at # "dropped" => op.who \subseteq SessionsFor(op.name)
    BY DEF NamesInv, Archiving
  <2>2. op.at \in {"packed", "committed", "retired"} => op.kind \in {"scope", "session"}
    BY <1>a DEF Stages
  <2>3. op.at \in {"packed", "committed", "retired"} =>
          archive[op.id].saved = IF op.kind = "scope" THEN SessionsFor(op.name) ELSE op.who
    BY DEF Packing
  <2>4. op.at \in {"packed", "committed", "retired"} =>
          \A s \in Session : live'[s].name = op.name <=> live[s].name = op.name
    OBVIOUS
  <2>5. op.at \in {"packed", "committed", "retired"} => SessionsFor(op.name)' = SessionsFor(op.name)
    BY <2>4 DEF SessionsFor
  <2>6. op.at \in {"packed", "committed", "retired"} =>
          archive[op.id].saved \subseteq SessionsFor(op.name)
    BY <2>1, <2>2, <2>3
  <2> QED BY <2>5, <2>6 DEF SessionsFor
<1>3. op.at \in {"packed", "committed", "retired"} =>
        \A s \in archive[op.id].saved : Reads(archive[op.id].log[s], live'[s].seq)
  BY <1>2 DEF Packing
<1>4. op.at = "dropped" => \A s \in op.who : live'[s].name = "none" /\ ~flush'[s].on
  BY DEF Packing
<1> QED BY <1>1, <1>2, <1>3, <1>4 DEF Packing, Complete

(* Nothing that matters to a log happens.                                    *)
LEMMA QuietStep ==
  ASSUME LogsInv, NamesInv,
         \A s \in Session : /\ live'[s].name = live[s].name /\ live'[s].seq = live[s].seq
                            /\ live'[s].flushed = live[s].flushed,
         flush' = flush, erase' = erase, writes' = writes, archive' = archive, fate' = fate,
         op' = op,
         \A n \in Name : disk'[n].saved = disk[n].saved /\ disk'[n].log = disk[n].log,
         scope.at = "branches" \/ scope'.at = "branches" => scope' = scope
  PROVE  LogsInv'
<1>b. Readable /\ Appending /\ AtHome /\ Fated /\ Shelved /\ Packing
  BY DEF LogsInv
<1>1. Readable'
  BY <1>b DEF Readable
<1>2. Appending'
  BY <1>b, SessionFacts DEF Appending
<1>3. AtHome'
  <2> SUFFICES ASSUME NEW s \in Session, live'[s].name # "none" PROVE Housed(s)'
    BY DEF AtHome, Housed
  <2>1. PICK n \in Name : live[s].name = n /\ live'[s].name = n /\ Housed(s)
    BY <1>b, SessionFacts DEF AtHome
  <2>2. /\ Retired(n)' = Retired(n) /\ Place(n)' = Place(n) /\ Place(n) \in Name
    <3>1. scope.to \in Name
      BY DEF NamesInv, Typed, MoveRec
    <3> QED BY <3>1 DEF Retired, Place, Between
  <2>3. \A i \in DOMAIN writes'[n] : writes'[n][i][s] # "none"
    BY <2>1 DEF Housed
  <2> QED BY <2>1, <2>2, <2>3, SessionFacts, HousedKept
<1>4. Fated'
  BY <1>b DEF Fated, Wanted
<1>5. Shelved'
  <2> SUFFICES ASSUME NEW s \in Session, fate'[s] = "kept", live'[s].name = "none"
               PROVE  \E i \in Id : Holds(i, s)' /\ (op'.at = "returned" => i # op'.id)
    BY DEF Shelved
  <2>1. PICK i \in Id : Holds(i, s) /\ (op.at = "returned" => i # op.id)
    BY <1>b DEF Shelved
  <2> QED BY <2>1 DEF Holds, Complete
<1>6. Packing'
  <2>1. SessionsFor(op.name)' = SessionsFor(op.name)
    BY DEF SessionsFor
  <2>2. \A i \in Id : archive[i].saved \subseteq Session
    BY FileFacts
  <2>3. op.at \in {"packed", "committed", "retired"} => op.id \in Id
    BY StagesHold DEF NamesInv, OpStage, Stages
  <2>4. op.who \subseteq Session
    BY StagesHold DEF NamesInv, Stages
  <2> QED BY <1>b, <2>1, <2>2, <2>3, <2>4 DEF Packing, Complete, SessionsFor
<1> QED BY <1>1, <1>2, <1>3, <1>4, <1>5, <1>6 DEF LogsInv

LEMMA QuietSteps ==
  ASSUME NamesInv, LogsInv, Windows = {},
         \/ \E s \in Session : TurnEnds(s)
         \/ \E n \in Name : \/ StatusChanges(n) \/ CreateTask(n) \/ DeleteTask(n)
                            \/ \E m \in Name : RenameTask(n, m)
         \/ ScopeStops
  PROVE  LogsInv'
<1>1. ASSUME NEW s \in Session, TurnEnds(s) PROVE LogsInv'
  <2>1. live \in [Session -> LiveRec]
    BY DEF NamesInv, Typed
  <2>2. \A t \in Session : /\ live'[t].name = live[t].name /\ live'[t].seq = live[t].seq
                           /\ live'[t].flushed = live[t].flushed
    BY <1>1, <2>1 DEF TurnEnds, LiveRec
  <2> QED BY <1>1, <2>2, QuietStep DEF TurnEnds
<1>2. ASSUME NEW n \in Name, CreateTask(n) PROVE LogsInv'
  <2>1. disk \in [Name -> DirRec]
    BY DEF NamesInv, Typed
  <2>2. \A m \in Name : disk'[m].saved = disk[m].saved /\ disk'[m].log = disk[m].log
    BY <1>2, <2>1 DEF CreateTask, DirRec
  <2> QED BY <1>2, <2>2, QuietStep DEF CreateTask
<1>3. ASSUME NEW n \in Name, StatusChanges(n) PROVE LogsInv'
  BY <1>3, QuietStep DEF StatusChanges
<1>4. ASSUME NEW n \in Name, DeleteTask(n) PROVE LogsInv'
  BY <1>4, QuietStep DEF DeleteTask, NamesInv, MoveStage
<1>5. ASSUME NEW n \in Name, NEW m \in Name, RenameTask(n, m) PROVE LogsInv'
  BY <1>5, QuietStep DEF RenameTask, NamesInv, MoveStage
<1>6. ASSUME ScopeStops PROVE LogsInv'
  <2>1. scope.at = "teardown" /\ scope'.at = "stopped"
    BY <1>6 DEF ScopeStops, NamesInv, Typed, MoveRec
  <2> QED BY <1>6, <2>1, QuietStep DEF ScopeStops
<1> QED BY <1>1, <1>2, <1>3, <1>4, <1>5, <1>6

LEMMA PromptKeeps ==
  ASSUME NamesInv, LogsInv, Windows = {}, NEW x \in Session, Prompt(x)
  PROVE  LogsInv'
<1>a. "none" \notin Name /\ Stages
  BY FilesAssumption, StagesHold DEF NamesInv
<1>b. Readable /\ Appending /\ AtHome /\ Fated /\ Shelved /\ Packing
  BY DEF LogsInv
<1>c. Rooted /\ Moving /\ Apart /\ Archiving /\ Current /\ Flushing
  BY DEF NamesInv
<1>1. PICK c \in Name : c = live[x].name /\ live \in [Session -> LiveRec]
  BY DEF Prompt, NamesInv, Typed, LiveRec
<1> DEFINE r == RecordsFor(live, c)
<1>2. /\ \A t \in Session : /\ live'[t].name = live[t].name /\ live'[t].seq = live[t].seq
                            /\ live'[t].flushed = live[t].flushed
      /\ flush' = flush /\ erase' = erase /\ disk' = disk /\ archive' = archive /\ fate' = fate
      /\ scope' = scope /\ op' = op
  BY <1>1 DEF Prompt, LiveRec
<1>3. writes' = [writes EXCEPT ![c] = Append(@, r)]
  BY <1>1 DEF Prompt
<1>4. r \in Saved
  BY <1>1, RecordsForType
<1>5. \A t \in Session : live[t].name = c => r[t] # "none"
  BY <1>a DEF RecordsFor
<1> HIDE DEF r
<1>6. /\ \A i \in DOMAIN writes'[c] : writes'[c][i] = r \/ (i \in DOMAIN writes[c] /\ writes'[c][i] = writes[c][i])
      /\ \A m \in Name : m # c => writes'[m] = writes[m]
  BY <1>3, <1>4, AppendType DEF NamesInv, Typed
<1>7. Readable'
  BY <1>a, <1>b, <1>1, <1>2, <1>5, <1>6 DEF Readable
<1>8. Appending'
  BY <1>a, <1>b, <1>1, <1>2, <1>5, <1>6 DEF Appending
<1>9. AtHome'
  <2> SUFFICES ASSUME NEW s \in Session, live'[s].name # "none" PROVE Housed(s)'
    BY DEF AtHome, Housed
  <2>a. PICK n \in Name : live'[s].name = n
    BY <1>a, <1>b, <1>1, <1>2, <1>5, <1>6, SessionFacts
  <2>1. live[s].name = n /\ Housed(s)
    BY <1>a, <1>b, <1>1, <1>2, <1>5, <1>6, <2>a DEF AtHome
  <2>2. ~Retired(n)' =>
          /\ ~Retired(n)
          /\ disk[Place(n)].saved[s] # "none" => disk'[Place(n)'].saved[s] # "none"
          /\ disk'[Place(n)'].log[s] = disk[Place(n)].log[s]
    BY <1>a, <1>b, <1>1, <1>2, <1>5, <1>6, <2>1 DEF Place, Between, Retired, Stages
  <2>3. \A i \in DOMAIN writes'[n] : writes'[n][i][s] # "none"
    BY <1>a, <1>b, <1>1, <1>2, <1>5, <1>6, <2>1 DEF Housed
  <2> QED BY <1>a, <1>b, <1>1, <1>2, <1>5, <1>6, <2>a, <2>1, <2>2, <2>3, SessionFacts, HousedKept
<1>10. Fated'
  BY <1>a, <1>b, <1>1, <1>2, <1>5, <1>6 DEF Fated, Wanted
<1>11. Shelved'
  <2> SUFFICES ASSUME NEW s \in Session, fate'[s] = "kept", live'[s].name = "none"
               PROVE  \E i \in Id : Holds(i, s)' /\ (op'.at = "returned" => i # op'.id)
    BY DEF Shelved
  <2>1. PICK i \in Id : Holds(i, s) /\ (op.at = "returned" => i # op.id)
    BY <1>a, <1>b, <1>1, <1>2, <1>5, <1>6 DEF Shelved
  <2> QED BY <1>a, <1>b, <1>1, <1>2, <1>5, <1>6, <2>1 DEF Holds, Complete, Stages
<1>12. Packing'
  <2> QED BY <1>a, <1>b, <1>1, <1>2, <1>5, <1>6, PackingKept DEF SessionsFor, Stages
<1> QED BY <1>7, <1>8, <1>9, <1>10, <1>11, <1>12 DEF LogsInv

LEMMA RecordKeeps ==
  ASSUME NamesInv, LogsInv, Windows = {}, NEW x \in Session, Record(x)
  PROVE  LogsInv'
<1>a. "none" \notin Name /\ Stages
  BY FilesAssumption, StagesHold DEF NamesInv
<1>b. Readable /\ Appending /\ AtHome /\ Fated /\ Shelved /\ Packing
  BY DEF LogsInv
<1>c. Rooted /\ Moving /\ Apart /\ Archiving /\ Current /\ Flushing
  BY DEF NamesInv
<1>1. PICK c \in Name : c = live[x].name /\ live \in [Session -> LiveRec]
  BY DEF Record, NamesInv, Typed, LiveRec
<1>2. /\ \A t \in Session : /\ live'[t].name = live[t].name
                            /\ live'[t].seq = IF t = x THEN live[t].seq + 1 ELSE live[t].seq
                            /\ live'[t].flushed = live[t].flushed
      /\ live[x].busy /\ live'[x].seq \in Nat
      /\ flush' = flush /\ erase' = erase /\ writes' = writes /\ disk' = disk /\ archive' = archive
      /\ scope' = scope /\ op' = op /\ fate' = fate
  BY <1>1, SessionFacts DEF Record, LiveRec
<1>3. op.kind \in {"scope", "session", "return"} => c # op.name
  BY <1>1, <1>2, <1>c DEF Archiving, SessionsFor
<1>4. \A t \in Session : live[t].seq \in Nat /\ live[t].flushed \in Nat /\ flush[t].upTo \in Nat
  BY SessionFacts
<1>5. op.kind = "session" /\ op.at # "dropped" => op.who \subseteq SessionsFor(op.name)
  BY <1>c DEF Archiving
<1>6. Readable'
  BY <1>a, <1>b, <1>1, <1>2, <1>3, <1>4, <1>5 DEF Readable
<1>7. Appending'
  BY <1>a, <1>b, <1>1, <1>2, <1>3, <1>4, <1>5 DEF Appending
<1>8. AtHome'
  <2> SUFFICES ASSUME NEW s \in Session, live'[s].name # "none" PROVE Housed(s)'
    BY DEF AtHome, Housed
  <2>a. PICK n \in Name : live'[s].name = n
    BY <1>a, <1>b, <1>1, <1>2, <1>3, <1>4, <1>5, SessionFacts
  <2>1. live[s].name = n /\ Housed(s)
    BY <1>a, <1>b, <1>1, <1>2, <1>3, <1>4, <1>5, <2>a DEF AtHome
  <2>2. ~Retired(n)' =>
          /\ ~Retired(n)
          /\ disk[Place(n)].saved[s] # "none" => disk'[Place(n)'].saved[s] # "none"
          /\ disk'[Place(n)'].log[s] = disk[Place(n)].log[s]
    BY <1>a, <1>b, <1>1, <1>2, <1>3, <1>4, <1>5, <2>1 DEF Place, Between, Retired, Stages
  <2>3. \A i \in DOMAIN writes'[n] : writes'[n][i][s] # "none"
    BY <1>a, <1>b, <1>1, <1>2, <1>3, <1>4, <1>5, <2>1 DEF Housed
  <2> QED BY <1>a, <1>b, <1>1, <1>2, <1>3, <1>4, <1>5, <2>a, <2>1, <2>2, <2>3, SessionFacts, HousedKept
<1>9. Fated'
  BY <1>a, <1>b, <1>1, <1>2, <1>3, <1>4, <1>5 DEF Fated, Wanted
<1>10. Shelved'
  <2> SUFFICES ASSUME NEW s \in Session, fate'[s] = "kept", live'[s].name = "none"
               PROVE  \E i \in Id : Holds(i, s)' /\ (op'.at = "returned" => i # op'.id)
    BY DEF Shelved
  <2>1. PICK i \in Id : Holds(i, s) /\ (op.at = "returned" => i # op.id)
    BY <1>a, <1>b, <1>1, <1>2, <1>3, <1>4, <1>5 DEF Shelved
  <2> QED BY <1>a, <1>b, <1>1, <1>2, <1>3, <1>4, <1>5, <2>1 DEF Holds, Complete, Stages
<1>11. Packing'
  <2> QED BY <1>a, <1>b, <1>1, <1>2, <1>3, <1>4, <1>5, PackingKept DEF SessionsFor, Stages
<1> QED BY <1>6, <1>7, <1>8, <1>9, <1>10, <1>11 DEF LogsInv

LEMMA DeleteSessionKeeps ==
  ASSUME NamesInv, LogsInv, Windows = {}, NEW x \in Session, DeleteSession(x)
  PROVE  LogsInv'
<1>a. "none" \notin Name /\ Stages
  BY FilesAssumption, StagesHold DEF NamesInv
<1>b. Readable /\ Appending /\ AtHome /\ Fated /\ Shelved /\ Packing
  BY DEF LogsInv
<1>c. Rooted /\ Moving /\ Apart /\ Archiving /\ Current /\ Flushing
  BY DEF NamesInv
<1>1. PICK c \in Name : c = live[x].name /\ live \in [Session -> LiveRec]
  BY DEF DeleteSession, NamesInv, Typed, LiveRec
<1>2. /\ \A t \in Session : /\ live'[t].name = IF t = x THEN "none" ELSE live[t].name
                            /\ live'[t].seq = live[t].seq /\ live'[t].flushed = live[t].flushed
      /\ \A t \in Session : fate'[t] = IF t = x THEN "deleted" ELSE fate[t]
      /\ erase' = erase \cup {<<x, c>>}
      /\ flush' = flush /\ writes' = writes /\ disk' = disk /\ archive' = archive
      /\ scope' = scope /\ op' = op
  BY <1>1 DEF DeleteSession, LiveRec, NamesInv, Typed
<1>3. op.kind \in {"scope", "session", "return", "restore"} => c # op.name
  BY <1>1 DEF DeleteSession, Protected
<1>4. op.kind = "session" /\ op.at # "dropped" => op.who \subseteq SessionsFor(op.name)
  BY <1>c DEF Archiving
<1>5. op.at \in {"moved", "written"} => \A s \in op.who : live[s].name = "none"
  BY <1>a, <1>c DEF Archiving, Stages
<1>6. Readable'
  BY <1>a, <1>b, <1>1, <1>2, <1>3, <1>4, <1>5 DEF Readable
<1>7. Appending'
  BY <1>a, <1>b, <1>1, <1>2, <1>3, <1>4, <1>5 DEF Appending
<1>8. AtHome'
  <2> SUFFICES ASSUME NEW s \in Session, live'[s].name # "none" PROVE Housed(s)'
    BY DEF AtHome, Housed
  <2>a. PICK n \in Name : live'[s].name = n
    BY <1>a, <1>b, <1>1, <1>2, <1>3, <1>4, <1>5, SessionFacts
  <2>1. live[s].name = n /\ Housed(s)
    BY <1>a, <1>b, <1>1, <1>2, <1>3, <1>4, <1>5, <2>a DEF AtHome
  <2>2. ~Retired(n)' =>
          /\ ~Retired(n)
          /\ disk[Place(n)].saved[s] # "none" => disk'[Place(n)'].saved[s] # "none"
          /\ disk'[Place(n)'].log[s] = disk[Place(n)].log[s]
    BY <1>a, <1>b, <1>1, <1>2, <1>3, <1>4, <1>5, <2>1 DEF Place, Between, Retired, Stages
  <2>3. \A i \in DOMAIN writes'[n] : writes'[n][i][s] # "none"
    BY <1>a, <1>b, <1>1, <1>2, <1>3, <1>4, <1>5, <2>1 DEF Housed
  <2> QED BY <1>a, <1>b, <1>1, <1>2, <1>3, <1>4, <1>5, <2>a, <2>1, <2>2, <2>3, SessionFacts, HousedKept
<1>9. Fated'
  BY <1>a, <1>b, <1>1, <1>2, <1>3, <1>4, <1>5 DEF Fated, Wanted
<1>10. Shelved'
  <2> SUFFICES ASSUME NEW s \in Session, fate'[s] = "kept", live'[s].name = "none"
               PROVE  \E i \in Id : Holds(i, s)' /\ (op'.at = "returned" => i # op'.id)
    BY DEF Shelved
  <2>1. PICK i \in Id : Holds(i, s) /\ (op.at = "returned" => i # op.id)
    BY <1>a, <1>b, <1>1, <1>2, <1>3, <1>4, <1>5 DEF Shelved
  <2> QED BY <1>a, <1>b, <1>1, <1>2, <1>3, <1>4, <1>5, <2>1 DEF Holds, Complete, Stages
<1>11. Packing'
  <2> QED BY <1>a, <1>b, <1>1, <1>2, <1>3, <1>4, <1>5, PackingKept DEF SessionsFor, Stages
<1> QED BY <1>6, <1>7, <1>8, <1>9, <1>10, <1>11 DEF LogsInv

LEMMA TimerKeeps ==
  ASSUME NamesInv, LogsInv, Windows = {}, NEW c \in Name, TimerFires(c)
  PROVE  LogsInv'
<1>a. "none" \notin Name /\ Stages
  BY FilesAssumption, StagesHold DEF NamesInv
<1>b. Readable /\ Appending /\ AtHome /\ Fated /\ Shelved /\ Packing
  BY DEF LogsInv
<1>c. Rooted /\ Moving /\ Apart /\ Archiving /\ Current /\ Flushing
  BY DEF NamesInv
<1> DEFINE r == RecordsFor(live, c)
<1>1. /\ live' = live /\ erase' = erase /\ disk' = disk /\ archive' = archive /\ fate' = fate
      /\ scope' = scope /\ op' = op /\ c \in timers
      /\ (scope.at = "branches" => c # scope.from /\ c # scope.to)
  BY DEF TimerFires, Aside, Branches
<1>2. writes' = [writes EXCEPT ![c] = Append(@, r)] /\ flush' = FlushAll(live, c)
  BY DEF TimerFires
<1>3. r \in Saved
  BY RecordsForType DEF NamesInv, Typed
<1>4. \A t \in Session : live[t].name = c => r[t] # "none"
  BY <1>a DEF RecordsFor
<1> HIDE DEF r
<1>5. /\ \A i \in DOMAIN writes'[c] : writes'[c][i] = r \/ (i \in DOMAIN writes[c] /\ writes'[c][i] = writes[c][i])
      /\ \A m \in Name : m # c => writes'[m] = writes[m]
  BY <1>2, <1>3, AppendType DEF NamesInv, Typed
<1>6. Place(c) = c /\ ~Retired(c)
  BY <1>a, <1>c, <1>1 DEF Place, Between, Retired, Archiving, Stages
<1>7. \A s \in Session : flush'[s].on =>
        /\ flush'[s].from = live[s].flushed /\ flush'[s].upTo <= live[s].seq
        /\ \A m \in Records : Reads(disk[flush'[s].name].log[s], m) => flush'[s].from <= m
        /\ flush'[s] = flush[s] \/ (live[s].name = c /\ live[s].flushed < live[s].seq)
  <2>1. live \in [Session -> LiveRec]
    BY DEF NamesInv, Typed
  <2> QED BY <1>b, <1>2, <1>6, <2>1, FlushesFit
<1>8. \A s \in Session : live[s].seq \in Nat /\ live[s].flushed \in Nat
  BY SessionFacts
<1>9. Readable'
  BY <1>a, <1>b, <1>1, <1>4, <1>5, <1>6, <1>7, <1>8 DEF Readable
<1>10. Appending'
  <2> SUFFICES ASSUME NEW s \in Session
               PROVE  /\ live'[s].flushed <= live'[s].seq
                      /\ flush'[s].on =>
                           /\ flush'[s].from = live'[s].flushed /\ flush'[s].upTo <= live'[s].seq
                           /\ \A j \in Records : Reads(disk'[flush'[s].name].log[s], j)
                                => flush'[s].from <= j
    BY DEF Appending
  <2>1. /\ live[s].flushed <= live[s].seq
        /\ flush[s].on =>
             /\ flush[s].from = live[s].flushed /\ flush[s].upTo <= live[s].seq
             /\ \A j \in Records : Reads(disk[flush[s].name].log[s], j) => flush[s].from <= j
    BY <1>b DEF Appending
  <2> QED BY <1>a, <1>1, <1>4, <1>5, <1>6, <1>7, <1>8, <2>1, SessionFacts
<1>11. AtHome'
  <2> SUFFICES ASSUME NEW s \in Session, live'[s].name # "none" PROVE Housed(s)'
    BY DEF AtHome, Housed
  <2>a. PICK n \in Name : live'[s].name = n
    BY <1>a, <1>b, <1>1, <1>4, <1>5, <1>6, <1>7, <1>8, SessionFacts
  <2>1. live[s].name = n /\ Housed(s)
    BY <1>a, <1>b, <1>1, <1>4, <1>5, <1>6, <1>7, <1>8, <2>a DEF AtHome
  <2>2. ~Retired(n)' =>
          /\ ~Retired(n)
          /\ disk[Place(n)].saved[s] # "none" => disk'[Place(n)'].saved[s] # "none"
          /\ disk'[Place(n)'].log[s] = disk[Place(n)].log[s]
    BY <1>a, <1>b, <1>1, <1>4, <1>5, <1>6, <1>7, <1>8, <2>1 DEF Place, Between, Retired, Stages
  <2>3. \A i \in DOMAIN writes'[n] : writes'[n][i][s] # "none"
    BY <1>a, <1>b, <1>1, <1>4, <1>5, <1>6, <1>7, <1>8, <2>1 DEF Housed
  <2> QED BY <1>a, <1>b, <1>1, <1>4, <1>5, <1>6, <1>7, <1>8, <2>a, <2>1, <2>2, <2>3, SessionFacts, HousedKept
<1>12. Fated'
  BY <1>a, <1>b, <1>1, <1>4, <1>5, <1>6, <1>7, <1>8 DEF Fated, Wanted
<1>13. Shelved'
  <2> SUFFICES ASSUME NEW s \in Session, fate'[s] = "kept", live'[s].name = "none"
               PROVE  \E i \in Id : Holds(i, s)' /\ (op'.at = "returned" => i # op'.id)
    BY DEF Shelved
  <2>1. PICK i \in Id : Holds(i, s) /\ (op.at = "returned" => i # op.id)
    BY <1>a, <1>b, <1>1, <1>4, <1>5, <1>6, <1>7, <1>8 DEF Shelved
  <2> QED BY <1>a, <1>b, <1>1, <1>4, <1>5, <1>6, <1>7, <1>8, <2>1 DEF Holds, Complete, Stages
<1>14. Packing'
  <2> QED BY <1>a, <1>b, <1>1, <1>4, <1>5, <1>6, <1>7, <1>8, PackingKept DEF SessionsFor, Stages
<1> QED BY <1>9, <1>10, <1>11, <1>12, <1>13, <1>14 DEF LogsInv

LEMMA WriteKeeps ==
  ASSUME NamesInv, LogsInv, Windows = {}, NEW c \in Name, WriteLands(c)
  PROVE  LogsInv'
<1>a. "none" \notin Name /\ Stages
  BY FilesAssumption, StagesHold DEF NamesInv
<1>b. Readable /\ Appending /\ AtHome /\ Fated /\ Shelved /\ Packing
  BY DEF LogsInv
<1>c. Rooted /\ Moving /\ Apart /\ Archiving /\ Current /\ Flushing
  BY DEF NamesInv
<1>1. /\ live' = live /\ flush' = flush /\ erase' = erase /\ archive' = archive /\ fate' = fate
      /\ scope' = scope /\ op' = op /\ writes[c] # <<>>
      /\ writes' = [writes EXCEPT ![c] = Tail(@)]
  BY DEF WriteLands
<1>2. /\ Head(writes[c]) = writes[c][1] /\ 1 \in DOMAIN writes[c]
      /\ \A i \in DOMAIN writes'[c] : i + 1 \in DOMAIN writes[c] /\ writes'[c][i] = writes[c][i + 1]
      /\ \A m \in Name : m # c => writes'[m] = writes[m]
  <2>1. writes \in [Name -> Seq(Saved)] /\ writes[c] \in Seq(Saved)
    BY DEF NamesInv, Typed
  <2>2. DOMAIN writes[c] = 1..Len(writes[c])
    BY <2>1, LenProperties
  <2>3. Len(writes[c]) \in Nat \ {0}
    BY <1>1, <2>1, TailType
  <2>4. 1 \in DOMAIN writes[c]
    BY <2>2, <2>3
  <2> QED BY <1>1, <2>1, <2>4, TailType
<1>3. /\ \A m \in Name : m # c => disk'[m] = disk[m]
      /\ disk'[c].log = disk[c].log /\ disk'[c].saved = writes[c][1]
  <2>1. disk \in [Name -> DirRec]
    BY DEF NamesInv, Typed
  <2> QED BY <1>2, <2>1 DEF WriteLands, DirRec
<1>4. \A m \in Name : Place(m)' = Place(m) /\ Retired(m)' = Retired(m) /\ Place(m) \in Name
                     /\ (Place(m) = c => m = c)
  BY <1>a, <1>c, <1>1 DEF Place, Between, Retired, Moving, Stages
<1>5. \A s \in Session : live[s].name = c => writes[c][1][s] # "none"
  BY <1>a, <1>b, <1>2 DEF AtHome, Housed
<1>6. Readable'
  BY <1>a, <1>b, <1>1, <1>2, <1>3, <1>4, <1>5 DEF Readable
<1>7. Appending'
  <2> SUFFICES ASSUME NEW s \in Session
               PROVE  /\ live'[s].flushed <= live'[s].seq
                      /\ flush'[s].on =>
                           /\ flush'[s].from = live'[s].flushed /\ flush'[s].upTo <= live'[s].seq
                           /\ \A j \in Records : Reads(disk'[flush'[s].name].log[s], j)
                                => flush'[s].from <= j
    BY DEF Appending
  <2>1. /\ live[s].flushed <= live[s].seq
        /\ flush[s].on =>
             /\ flush[s].from = live[s].flushed /\ flush[s].upTo <= live[s].seq
             /\ \A j \in Records : Reads(disk[flush[s].name].log[s], j) => flush[s].from <= j
    BY <1>b DEF Appending
  <2> QED BY <1>a, <1>1, <1>2, <1>3, <1>4, <1>5, <2>1, SessionFacts
<1>8. AtHome'
  <2> SUFFICES ASSUME NEW s \in Session, live'[s].name # "none" PROVE Housed(s)'
    BY DEF AtHome, Housed
  <2>a. PICK n \in Name : live'[s].name = n
    BY <1>a, <1>b, <1>1, <1>2, <1>3, <1>4, <1>5, SessionFacts
  <2>1. live[s].name = n /\ Housed(s)
    BY <1>a, <1>b, <1>1, <1>2, <1>3, <1>4, <1>5, <2>a DEF AtHome
  <2>2. ~Retired(n)' =>
          /\ ~Retired(n)
          /\ disk[Place(n)].saved[s] # "none" => disk'[Place(n)'].saved[s] # "none"
          /\ disk'[Place(n)'].log[s] = disk[Place(n)].log[s]
    BY <1>a, <1>b, <1>1, <1>2, <1>3, <1>4, <1>5, <2>1 DEF Place, Between, Retired, Stages
  <2>3. \A i \in DOMAIN writes'[n] : writes'[n][i][s] # "none"
    BY <1>a, <1>b, <1>1, <1>2, <1>3, <1>4, <1>5, <2>1 DEF Housed
  <2> QED BY <1>a, <1>b, <1>1, <1>2, <1>3, <1>4, <1>5, <2>a, <2>1, <2>2, <2>3, SessionFacts, HousedKept
<1>9. Fated'
  BY <1>a, <1>b, <1>1, <1>2, <1>3, <1>4, <1>5 DEF Fated, Wanted
<1>10. Shelved'
  <2> SUFFICES ASSUME NEW s \in Session, fate'[s] = "kept", live'[s].name = "none"
               PROVE  \E i \in Id : Holds(i, s)' /\ (op'.at = "returned" => i # op'.id)
    BY DEF Shelved
  <2>1. PICK i \in Id : Holds(i, s) /\ (op.at = "returned" => i # op.id)
    BY <1>a, <1>b, <1>1, <1>2, <1>3, <1>4, <1>5 DEF Shelved
  <2> QED BY <1>a, <1>b, <1>1, <1>2, <1>3, <1>4, <1>5, <2>1 DEF Holds, Complete, Stages
<1>11. Packing'
  <2> QED BY <1>a, <1>b, <1>1, <1>2, <1>3, <1>4, <1>5, PackingKept DEF SessionsFor, Stages
<1> QED BY <1>6, <1>7, <1>8, <1>9, <1>10, <1>11 DEF LogsInv

LEMMA AppendKeeps ==
  ASSUME NamesInv, LogsInv, Windows = {}, NEW x \in Session, AppendLands(x) \/ AppendFails(x)
  PROVE  LogsInv'
<1>a. "none" \notin Name /\ Stages
  BY FilesAssumption, StagesHold DEF NamesInv
<1>b. Readable /\ Appending /\ AtHome /\ Fated /\ Shelved /\ Packing
  BY DEF LogsInv
<1>c. Rooted /\ Moving /\ Apart /\ Archiving /\ Current /\ Flushing
  BY DEF NamesInv
<1>1. /\ flush[x].on /\ writes' = writes /\ scope' = scope /\ op' = op /\ erase' = erase
      /\ archive' = archive /\ fate' = fate
  BY DEF AppendLands, AppendFails
<1>f. PICK f \in FlushRec, c \in Name, log \in Log :
        f = flush[x] /\ c = f.name /\ log = disk[c].log[x]
  <2>1. flush[x] \in FlushRec /\ flush[x].name \in Name
    BY DEF NamesInv, Typed, FlushRec
  <2> QED BY <2>1, FileFacts
<1>2. /\ c \in Name /\ f \in FlushRec /\ f.from < f.upTo /\ f.from \in Nat /\ f.upTo \in Nat
      /\ f.from = live[x].flushed /\ f.upTo <= live[x].seq /\ log \in Log /\ disk[c].scope
      /\ f.upTo \in Records /\ f.upTo <= MaxRecords
  <2>1. f \in FlushRec
    OBVIOUS
  <2>2. f.upTo <= MaxRecords
    BY <2>1, FilesAssumption DEF FlushRec, Records
  <2> QED BY <1>1, <1>b, <1>c, <1>f, <2>1, <2>2, SessionFacts, FileFacts DEF Flushing, Appending, Rooted,
             RootedAt
<1>3. PICK b \in Log, k \in 0..(f.upTo - f.from), v \in Nat :
        /\ v \in {f.from, f.from + k}
        /\ Len(b) = k /\ \A i \in 1..k : b[i] = f.from + i
        /\ disk' = [disk EXCEPT ![c].there = TRUE, ![c].log[x] = @ \o b]
        /\ Settled(x, v)
  <2>1. /\ Batch(f) \in Log /\ Len(Batch(f)) = f.upTo - f.from
        /\ \A i \in 1..(f.upTo - f.from) : Batch(f)[i] = f.from + i
    BY <1>2, BatchType
  <2>2. CASE AppendLands(x)
    <3>1. f.upTo - f.from \in 0..(f.upTo - f.from) /\ f.from + (f.upTo - f.from) = f.upTo
      BY <1>2
    <3> QED BY <1>2, <1>f, <2>1, <2>2, <3>1 DEF AppendLands
  <2>3. CASE AppendFails(x)
    <3>1. PICK k \in 0..(f.upTo - f.from - 1) :
            disk' = [disk EXCEPT ![c].there = TRUE, ![c].log[x] = @ \o SubSeq(Batch(f), 1, k)]
      BY <1>f, <2>3 DEF AppendFails
    <3> DEFINE b == SubSeq(Batch(f), 1, k)
    <3>2. k \in 0..(f.upTo - f.from) /\ k \in Nat /\ \A i \in 1..k : i \in 1..(f.upTo - f.from)
      BY <1>2
    <3>3. \A i \in 1..k : Batch(f)[i] \in 1..MaxRecords
      <4>1. DOMAIN Batch(f) = 1..(f.upTo - f.from)
        BY <2>1, LogFacts
      <4> QED BY <2>1, <3>2, <4>1, LogFacts
    <3>4. /\ b \in Seq(1..MaxRecords) /\ Len(b) = IF 1 <= k THEN k - 1 + 1 ELSE 0
          /\ \A i \in 1..(k - 1 + 1) : b[i] = Batch(f)[1 + i - 1]
      BY <3>2, <3>3, SubSeqProperties
    <3>5. Len(b) = k /\ \A i \in 1..k : b[i] = f.from + i
      BY <2>1, <3>2, <3>4
    <3>6. disk' = [disk EXCEPT ![c].there = TRUE, ![c].log[x] = @ \o b]
      BY <3>1
    <3>7. b \in Log
      BY <3>4 DEF Log
    <3>8. Settled(x, f.from)
      BY <1>2, <1>f, <2>3 DEF AppendFails
    <3> HIDE DEF b
    <3> QED BY <1>2, <3>2, <3>5, <3>6, <3>7, <3>8
  <2> QED BY <2>2, <2>3
<1>4. /\ \A n \in Name, s \in Session : n # c \/ s # x => disk'[n].log[s] = disk[n].log[s]
      /\ disk'[c].log[x] = log \o b
      /\ \A n \in Name : disk'[n].saved = disk[n].saved /\ disk'[n].scope = disk[n].scope
  <2>1. disk \in [Name -> DirRec]
    BY DEF NamesInv, Typed
  <2> QED BY <1>2, <1>3, <1>f, <2>1, ZenonT(40) DEF DirRec
<1>5. k \in Nat /\ v \in Nat /\ v \in Records /\ f.from <= v /\ v <= f.from + k /\ f.from + k <= f.upTo
  BY <1>2, <1>3, FilesAssumption DEF Records
<1>6. /\ \A t \in Session : /\ live'[t].name = live[t].name /\ live'[t].seq = live[t].seq
                            /\ t # x => live'[t].flushed = live[t].flushed
      /\ live'[x].flushed = IF live[x].name # "none" THEN v ELSE live[x].flushed
      /\ \A t \in Session : t # x => flush'[t] = flush[t]
      /\ flush'[x] = IF live[x].seq > f.upTo THEN FlushOf(live', NoFlush, x) ELSE NoFlush
  <2>1. live \in [Session -> LiveRec] /\ flush \in [Session -> FlushRec]
    BY DEF NamesInv, Typed
  <2>2. Settled(x, v) /\ v \in Records /\ f = flush[x]
    BY <1>3, <1>5, <1>f
  <2> QED BY <2>1, <2>2, SettledType
<1>7. PICK m \in Records : m \in Nat /\ Reads(log, m) /\ f.from <= m
  BY <1>1, <1>2, <1>b, <1>f, SessionFacts DEF Readable, Appending
<1> DEFINE top == IF f.from + k > m THEN f.from + k ELSE m
<1>8. Reads(disk'[c].log[x], top)
  <2>1. Len(b) = k /\ \A i \in 1..k : b[i] = f.from + i
    BY <1>3
  <2>2. Reads(log \o b, top)
    BY <1>2, <1>5, <1>7, <2>1, ReadsOn
  <2> QED BY <1>4, <2>2
<1>9. top \in Records /\ top \in Nat /\ v <= top /\ m <= top /\ (m <= live[x].seq => top <= live[x].seq)
  BY <1>2, <1>5, <1>7, SessionFacts, FilesAssumption DEF Records
<1> HIDE DEF top
<1>10. live[x].name # "none" => /\ live[x].name = c /\ Place(c) = c /\ Place(c)' = c /\ ~Retired(c)
                                /\ m <= live[x].seq
  <2>1. live[x].name # "none" => live[x].name = c
    BY <1>1, <1>c, <1>f DEF Flushing
  <2>2. Place(c) = c /\ Place(c)' = c /\ ~Retired(c)
    BY <1>a, <1>1, <1>2, <1>c DEF Place, Between, Retired, Moving, Archiving, Stages
  <2>3. live[x].name # "none" => m <= live[x].seq
    BY <1>b, <1>2, <1>7, <1>f, <2>1, <2>2, LogBounds
  <2> QED BY <2>1, <2>2, <2>3
<1>11. flush'[x].on => /\ live[x].name = c /\ flush'[x].name = c /\ flush'[x].from = v
                       /\ flush'[x].upTo = live[x].seq /\ live'[x].flushed = v
  <2>1. NoFlush.on = FALSE
    BY DEF NoFlush
  <2>2. flush'[x].on => /\ live'[x].name # "none"
                        /\ flush'[x] = [on |-> TRUE, name |-> live'[x].name,
                                        from |-> live'[x].flushed, upTo |-> live'[x].seq]
    BY <1>6, <2>1 DEF FlushOf
  <2> QED BY <1>6, <1>10, <2>2
<1>12. Readable'
  BY <1>1, <1>4, <1>8, <1>9, <1>b DEF Readable
<1>13. Appending'
  <2> SUFFICES ASSUME NEW s \in Session
               PROVE  /\ live'[s].flushed <= live'[s].seq
                      /\ flush'[s].on =>
                           /\ flush'[s].from = live'[s].flushed /\ flush'[s].upTo <= live'[s].seq
                           /\ \A j \in Records : Reads(disk'[flush'[s].name].log[s], j)
                                => flush'[s].from <= j
    BY DEF Appending
  <2>1. CASE s # x
    <3>1. flush'[s] = flush[s] /\ live'[s].flushed = live[s].flushed /\ live'[s].seq = live[s].seq
      BY <1>6, <2>1
    <3>2. flush[s].name \in Name /\ disk'[flush[s].name].log[s] = disk[flush[s].name].log[s]
      BY <1>4, <2>1, SessionFacts
    <3> QED BY <1>b, <3>1, <3>2 DEF Appending
  <2>2. CASE s = x
    <3>1. live'[x].flushed <= live'[x].seq
      BY <1>2, <1>5, <1>6, SessionFacts
    <3>2. \A j \in Records : Reads(disk'[c].log[x], j) => j = top
      BY <1>8, <1>9, ReadsOnce, SessionFacts
    <3> QED BY <1>5, <1>6, <1>9, <1>11, <2>2, <3>1, <3>2, SessionFacts
  <2> QED BY <2>1, <2>2
<1>14. AtHome'
  <2> SUFFICES ASSUME NEW s \in Session, live'[s].name # "none" PROVE Housed(s)'
    BY DEF AtHome, Housed
  <2>1. PICK n \in Name : live[s].name = n /\ live'[s].name = n /\ Housed(s)
    BY <1>6, <1>b, SessionFacts DEF AtHome
  <2>2. /\ Place(n)' = Place(n) /\ Retired(n)' = Retired(n) /\ Place(n) \in Name
    BY <1>a, <1>1 DEF Place, Between, Retired, Stages
  <2>3. \A i \in DOMAIN writes'[n] : writes'[n][i][s] # "none"
    BY <1>1, <2>1, <1>a DEF Housed
  <2>4. CASE s # x
    BY <1>4, <1>6, <2>1, <2>2, <2>3, <2>4, <1>a, SessionFacts, HousedKept, SMTT(30)
  <2>5. CASE s = x
    <3>1. n = c /\ live'[x].flushed = v /\ Place(n)' = c
      BY <1>6, <1>10, <1>a, <2>1, <2>5
    <3>2. top \in live'[x].flushed..live'[x].seq
      BY <1>6, <1>9, <1>10, <1>a, <2>1, <2>5, <3>1, SessionFacts
    <3>3. disk'[c].saved[x] # "none"
      BY <1>4, <1>10, <1>a, <2>1, <2>5, <3>1 DEF Housed
    <3>4. Retired(live[x].name)' = Retired(n)' /\ Place(live[x].name)' = c
      BY <1>6, <2>1, <2>5, <3>1 DEF Retired, Place, Between
    <3> QED BY <1>8, <2>1, <2>3, <2>5, <3>1, <3>2, <3>3, <3>4 DEF Housed
  <2> QED BY <2>4, <2>5
<1>15. Fated'
  BY <1>1, <1>6, <1>b DEF Fated, Wanted
<1>16. Shelved'
  BY <1>1, <1>6, <1>b DEF Shelved, Holds, Complete
<1>17. Packing'
  <2>1. \A s \in Session : ~flush[s].on => live'[s].flushed = live[s].flushed /\ ~flush'[s].on
    BY <1>1, <1>6
  <2>2. \A s \in Session : live'[s].name = live[s].name /\ live'[s].seq = live[s].seq
    BY <1>6
  <2>3. op.who \subseteq Session /\ op' = op /\ archive' = archive
    BY <1>a, <1>1 DEF Stages
  <2> QED BY <1>b, <2>1, <2>2, <2>3, PackingKept
<1> QED BY <1>12, <1>13, <1>14, <1>15, <1>16, <1>17 DEF LogsInv

LEMMA EraseKeeps ==
  ASSUME NamesInv, LogsInv, Windows = {}, NEW x \in Session, NEW c \in Name, EraseLog(x, c)
  PROVE  LogsInv'
<1>a. "none" \notin Name /\ Stages
  BY FilesAssumption, StagesHold DEF NamesInv
<1>b. Readable /\ Appending /\ AtHome /\ Fated /\ Shelved /\ Packing
  BY DEF LogsInv
<1>c. Rooted /\ Moving /\ Apart /\ Archiving /\ Current /\ Flushing
  BY DEF NamesInv
<1>1. /\ live' = live /\ flush' = flush /\ writes' = writes /\ archive' = archive /\ fate' = fate
      /\ scope' = scope /\ op' = op /\ erase' \subseteq erase /\ <<x, c>> \in erase
      /\ ~flush[x].on
  BY DEF EraseLog
<1>2. /\ \A n \in Name, s \in Session : n # c \/ s # x => disk'[n].log[s] = disk[n].log[s]
      /\ disk'[c].log[x] = <<>>
      /\ \A n \in Name : disk'[n].saved = disk[n].saved
  <2>1. disk \in [Name -> DirRec]
    BY DEF NamesInv, Typed
  <2> QED BY <2>1 DEF EraseLog, DirRec
<1>3. \A s \in Session : flush[s].name \in Name
  BY SessionFacts
<1>4. Reads(<<>>, 0) /\ 0 \in Records
  BY EmptyReads, FilesAssumption DEF Records
<1>5. live[x].name = "none"
  BY <1>1, <1>b DEF Fated, Wanted
<1>6. \A m \in Name : Place(m)' = Place(m) /\ Retired(m)' = Retired(m) /\ Place(m) \in Name
  BY <1>a, <1>1 DEF Place, Between, Retired, Stages
<1>7. Readable'
  BY <1>a, <1>b, <1>1, <1>2, <1>3, <1>4, <1>5, <1>6 DEF Readable
<1>8. Appending'
  <2> SUFFICES ASSUME NEW s \in Session
               PROVE  /\ live'[s].flushed <= live'[s].seq
                      /\ flush'[s].on =>
                           /\ flush'[s].from = live'[s].flushed /\ flush'[s].upTo <= live'[s].seq
                           /\ \A j \in Records : Reads(disk'[flush'[s].name].log[s], j)
                                => flush'[s].from <= j
    BY DEF Appending
  <2>1. /\ live[s].flushed <= live[s].seq
        /\ flush[s].on =>
             /\ flush[s].from = live[s].flushed /\ flush[s].upTo <= live[s].seq
             /\ \A j \in Records : Reads(disk[flush[s].name].log[s], j) => flush[s].from <= j
    BY <1>b DEF Appending
  <2> QED BY <1>a, <1>1, <1>2, <1>3, <1>4, <1>5, <1>6, <2>1, SessionFacts
<1>9. AtHome'
  <2> SUFFICES ASSUME NEW s \in Session, live'[s].name # "none" PROVE Housed(s)'
    BY DEF AtHome, Housed
  <2>a. PICK n \in Name : live'[s].name = n
    BY <1>a, <1>b, <1>1, <1>2, <1>3, <1>4, <1>5, <1>6, SessionFacts
  <2>1. live[s].name = n /\ Housed(s)
    BY <1>a, <1>b, <1>1, <1>2, <1>3, <1>4, <1>5, <1>6, <2>a DEF AtHome
  <2>2. ~Retired(n)' =>
          /\ ~Retired(n)
          /\ disk[Place(n)].saved[s] # "none" => disk'[Place(n)'].saved[s] # "none"
          /\ disk'[Place(n)'].log[s] = disk[Place(n)].log[s]
    BY <1>a, <1>b, <1>1, <1>2, <1>3, <1>4, <1>5, <1>6, <2>1 DEF Stages
  <2>3. \A i \in DOMAIN writes'[n] : writes'[n][i][s] # "none"
    BY <1>a, <1>b, <1>1, <1>2, <1>3, <1>4, <1>5, <1>6, <2>1 DEF Housed
  <2> QED BY <1>a, <1>b, <1>1, <1>2, <1>3, <1>4, <1>5, <1>6, <2>a, <2>1, <2>2, <2>3, SessionFacts, HousedKept
<1>10. Fated'
  BY <1>a, <1>b, <1>1, <1>2, <1>3, <1>4, <1>5, <1>6 DEF Fated, Wanted
<1>11. Shelved'
  <2> SUFFICES ASSUME NEW s \in Session, fate'[s] = "kept", live'[s].name = "none"
               PROVE  \E i \in Id : Holds(i, s)' /\ (op'.at = "returned" => i # op'.id)
    BY DEF Shelved
  <2>1. PICK i \in Id : Holds(i, s) /\ (op.at = "returned" => i # op.id)
    BY <1>a, <1>b, <1>1, <1>2, <1>3, <1>4, <1>5, <1>6 DEF Shelved
  <2> QED BY <1>a, <1>b, <1>1, <1>2, <1>3, <1>4, <1>5, <1>6, <2>1 DEF Holds, Complete, Stages
<1>12. Packing'
  <2> QED BY <1>a, <1>b, <1>1, <1>2, <1>3, <1>4, <1>5, <1>6, PackingKept DEF SessionsFor, Stages
<1> QED BY <1>7, <1>8, <1>9, <1>10, <1>11, <1>12 DEF LogsInv

LEMMA DropsKeep ==
  ASSUME NamesInv, LogsInv, Windows = {}, DeleteDrops
  PROVE  LogsInv'
<1>a. "none" \notin Name /\ Stages
  BY FilesAssumption, StagesHold DEF NamesInv
<1>b. Readable /\ Appending /\ AtHome /\ Fated /\ Shelved /\ Packing
  BY DEF LogsInv
<1>c. Rooted /\ Moving /\ Apart /\ Archiving /\ Current /\ Flushing
  BY DEF NamesInv
<1>1. PICK c \in Name : c = scope.from
  BY <1>a DEF Stages
<1>2. /\ flush' = flush /\ erase' = erase /\ writes' = writes /\ disk' = disk /\ archive' = archive
      /\ op' = op
      /\ \A s \in Session : fate'[s] = IF live[s].name = c THEN "deleted" ELSE fate[s]
  BY <1>1 DEF DeleteDrops
<1>3. /\ scope.at = "stopped" /\ scope.kind = "delete" /\ scope'.at = "removing"
  <2>1. scope \in MoveRec
    BY DEF NamesInv, Typed
  <2> QED BY <2>1 DEF DeleteDrops, MoveRec
<1>4. \A s \in Session : /\ live'[s].name = IF live[s].name = c THEN "none" ELSE live[s].name
                         /\ live'[s].seq = live[s].seq /\ live'[s].flushed = live[s].flushed
  BY <1>1, DropType DEF DeleteDrops, NamesInv, Typed
<1>5. op.kind \notin {"idle", "delete"} => op.name # c
  BY <1>a, <1>c, <1>1, <1>3 DEF Apart, Stages
<1>6. \A m \in Name : Place(m)' = Place(m) /\ Retired(m)' = Retired(m) /\ Place(m) \in Name
  BY <1>a, <1>2, <1>3 DEF Place, Between, Retired, Stages
<1>7. op.at \in {"moved", "written"} => \A s \in op.who : live[s].name = "none"
  BY <1>a, <1>c DEF Archiving, Stages
<1>8. Readable'
  BY <1>a, <1>b, <1>1, <1>2, <1>3, <1>4, <1>5, <1>6, <1>7 DEF Readable
<1>9. Appending'
  <2> SUFFICES ASSUME NEW s \in Session
               PROVE  /\ live'[s].flushed <= live'[s].seq
                      /\ flush'[s].on =>
                           /\ flush'[s].from = live'[s].flushed /\ flush'[s].upTo <= live'[s].seq
                           /\ \A j \in Records : Reads(disk'[flush'[s].name].log[s], j)
                                => flush'[s].from <= j
    BY DEF Appending
  <2>1. /\ live[s].flushed <= live[s].seq
        /\ flush[s].on =>
             /\ flush[s].from = live[s].flushed /\ flush[s].upTo <= live[s].seq
             /\ \A j \in Records : Reads(disk[flush[s].name].log[s], j) => flush[s].from <= j
    BY <1>b DEF Appending
  <2> QED BY <1>a, <1>1, <1>2, <1>3, <1>4, <1>5, <1>6, <1>7, <2>1, SessionFacts
<1>10. AtHome'
  <2> SUFFICES ASSUME NEW s \in Session, live'[s].name # "none" PROVE Housed(s)'
    BY DEF AtHome, Housed
  <2>a. PICK n \in Name : live'[s].name = n
    BY <1>a, <1>b, <1>1, <1>2, <1>3, <1>4, <1>5, <1>6, <1>7, SessionFacts
  <2>1. live[s].name = n /\ Housed(s)
    BY <1>a, <1>b, <1>1, <1>2, <1>3, <1>4, <1>5, <1>6, <1>7, <2>a DEF AtHome
  <2>2. ~Retired(n)' =>
          /\ ~Retired(n)
          /\ disk[Place(n)].saved[s] # "none" => disk'[Place(n)'].saved[s] # "none"
          /\ disk'[Place(n)'].log[s] = disk[Place(n)].log[s]
    BY <1>a, <1>b, <1>1, <1>2, <1>3, <1>4, <1>5, <1>6, <1>7, <2>1 DEF Place, Between, Retired, Stages
  <2>3. \A i \in DOMAIN writes'[n] : writes'[n][i][s] # "none"
    BY <1>a, <1>b, <1>1, <1>2, <1>3, <1>4, <1>5, <1>6, <1>7, <2>1 DEF Housed
  <2> QED BY <1>a, <1>b, <1>1, <1>2, <1>3, <1>4, <1>5, <1>6, <1>7, <2>a, <2>1, <2>2, <2>3, SessionFacts, HousedKept
<1>11. Fated'
  BY <1>a, <1>b, <1>1, <1>2, <1>3, <1>4, <1>5, <1>6, <1>7 DEF Fated, Wanted
<1>12. Shelved'
  <2> SUFFICES ASSUME NEW s \in Session, fate'[s] = "kept", live'[s].name = "none"
               PROVE  \E i \in Id : Holds(i, s)' /\ (op'.at = "returned" => i # op'.id)
    BY DEF Shelved
  <2>1. PICK i \in Id : Holds(i, s) /\ (op.at = "returned" => i # op.id)
    BY <1>a, <1>b, <1>1, <1>2, <1>3, <1>4, <1>5, <1>6, <1>7 DEF Shelved
  <2> QED BY <1>a, <1>b, <1>1, <1>2, <1>3, <1>4, <1>5, <1>6, <1>7, <2>1 DEF Holds, Complete, Stages
<1>13. Packing'
  <2> QED BY <1>a, <1>b, <1>1, <1>2, <1>3, <1>4, <1>5, <1>6, <1>7, PackingKept DEF SessionsFor, Stages
<1> QED BY <1>8, <1>9, <1>10, <1>11, <1>12, <1>13 DEF LogsInv

LEMMA RemovesKeep ==
  ASSUME NamesInv, LogsInv, Windows = {}, DeleteRemoves
  PROVE  LogsInv'
<1>a. "none" \notin Name /\ Stages
  BY FilesAssumption, StagesHold DEF NamesInv
<1>b. Readable /\ Appending /\ AtHome /\ Fated /\ Shelved /\ Packing
  BY DEF LogsInv
<1>c. Rooted /\ Moving /\ Apart /\ Archiving /\ Current /\ Flushing
  BY DEF NamesInv
<1>1. PICK c \in Name : c = scope.from
  BY <1>a DEF Stages
<1>2. /\ live' = live /\ flush' = flush /\ erase' = erase /\ archive' = archive /\ fate' = fate
      /\ op' = op /\ scope' = NoMove /\ scope.at = "removing"
  BY DEF DeleteRemoves
<1>3. /\ writes'[c] = <<>> /\ \A m \in Name : m # c => writes'[m] = writes[m]
      /\ \A s \in Session : flush[s].on => flush[s].name # c
  BY <1>1, GoingType DEF DeleteRemoves, NamesInv, Typed, Drained
<1>4. /\ \A s \in Session : disk'[c].log[s] = <<>>
      /\ \A m \in Name : m # c => disk'[m] = disk[m]
  <2>1. disk \in [Name -> DirRec]
    BY DEF NamesInv, Typed
  <2> QED BY <1>1, <2>1 DEF DeleteRemoves, NoDir, NoLogs
<1>5. Reads(<<>>, 0) /\ 0 \in Records
  BY EmptyReads, FilesAssumption DEF Records
<1>6. \A s \in Session : live[s].name # c
  BY <1>c, <1>1, <1>2 DEF Moving, SessionsFor
<1>7. \A m \in Name : Place(m)' = m /\ Place(m) = m /\ Retired(m)' = Retired(m)
  BY <1>a, <1>2 DEF Place, Between, Retired, Stages, NoMove
<1>8. \A s \in Session : flush[s].name \in Name
  BY SessionFacts
<1>9. Readable'
  BY <1>a, <1>b, <1>1, <1>2, <1>3, <1>4, <1>5, <1>6, <1>7, <1>8 DEF Readable
<1>10. Appending'
  <2> SUFFICES ASSUME NEW s \in Session
               PROVE  /\ live'[s].flushed <= live'[s].seq
                      /\ flush'[s].on =>
                           /\ flush'[s].from = live'[s].flushed /\ flush'[s].upTo <= live'[s].seq
                           /\ \A j \in Records : Reads(disk'[flush'[s].name].log[s], j)
                                => flush'[s].from <= j
    BY DEF Appending
  <2>1. /\ live[s].flushed <= live[s].seq
        /\ flush[s].on =>
             /\ flush[s].from = live[s].flushed /\ flush[s].upTo <= live[s].seq
             /\ \A j \in Records : Reads(disk[flush[s].name].log[s], j) => flush[s].from <= j
    BY <1>b DEF Appending
  <2> QED BY <1>a, <1>1, <1>2, <1>3, <1>4, <1>5, <1>6, <1>7, <1>8, <2>1, SessionFacts
<1>11. AtHome'
  <2> SUFFICES ASSUME NEW s \in Session, live'[s].name # "none" PROVE Housed(s)'
    BY DEF AtHome, Housed
  <2>a. PICK n \in Name : live'[s].name = n
    BY <1>a, <1>b, <1>1, <1>2, <1>3, <1>4, <1>5, <1>6, <1>7, <1>8, SessionFacts
  <2>1. live[s].name = n /\ Housed(s)
    BY <1>a, <1>b, <1>1, <1>2, <1>3, <1>4, <1>5, <1>6, <1>7, <1>8, <2>a DEF AtHome
  <2>2. ~Retired(n)' =>
          /\ ~Retired(n)
          /\ disk[Place(n)].saved[s] # "none" => disk'[Place(n)'].saved[s] # "none"
          /\ disk'[Place(n)'].log[s] = disk[Place(n)].log[s]
    BY <1>a, <1>b, <1>1, <1>2, <1>3, <1>4, <1>5, <1>6, <1>7, <1>8, <2>1 DEF Stages
  <2>3. \A i \in DOMAIN writes'[n] : writes'[n][i][s] # "none"
    BY <1>a, <1>b, <1>1, <1>2, <1>3, <1>4, <1>5, <1>6, <1>7, <1>8, <2>1 DEF Housed
  <2> QED BY <1>a, <1>b, <1>1, <1>2, <1>3, <1>4, <1>5, <1>6, <1>7, <1>8, <2>a, <2>1, <2>2, <2>3, SessionFacts, HousedKept
<1>12. Fated'
  BY <1>a, <1>b, <1>1, <1>2, <1>3, <1>4, <1>5, <1>6, <1>7, <1>8 DEF Fated, Wanted
<1>13. Shelved'
  <2> SUFFICES ASSUME NEW s \in Session, fate'[s] = "kept", live'[s].name = "none"
               PROVE  \E i \in Id : Holds(i, s)' /\ (op'.at = "returned" => i # op'.id)
    BY DEF Shelved
  <2>1. PICK i \in Id : Holds(i, s) /\ (op.at = "returned" => i # op.id)
    BY <1>a, <1>b, <1>1, <1>2, <1>3, <1>4, <1>5, <1>6, <1>7, <1>8 DEF Shelved
  <2> QED BY <1>a, <1>b, <1>1, <1>2, <1>3, <1>4, <1>5, <1>6, <1>7, <1>8, <2>1 DEF Holds, Complete, Stages
<1>14. Packing'
  <2> QED BY <1>a, <1>b, <1>1, <1>2, <1>3, <1>4, <1>5, <1>6, <1>7, <1>8, PackingKept DEF SessionsFor, Stages
<1> QED BY <1>9, <1>10, <1>11, <1>12, <1>13, <1>14 DEF LogsInv

LEMMA MovesKeep ==
  ASSUME NamesInv, LogsInv, Windows = {}, RenameMoves
  PROVE  LogsInv'
<1>a. "none" \notin Name /\ Stages
  BY FilesAssumption, StagesHold DEF NamesInv
<1>b. Readable /\ Appending /\ AtHome /\ Fated /\ Shelved /\ Packing
  BY DEF LogsInv
<1>c. Rooted /\ Moving /\ Apart /\ Archiving /\ Current /\ Flushing
  BY DEF NamesInv
<1>1. PICK c \in Name, e \in Name : c = scope.from /\ e = scope.to
  BY <1>a DEF Stages
<1>2. /\ live' = live /\ flush' = flush /\ op' = op /\ erase' = erase /\ archive' = archive
      /\ fate' = fate /\ scope.kind = "rename" /\ scope.at = "stopped" /\ c # e
  BY <1>a, <1>1 DEF RenameMoves, Stages
<1>3. /\ scope'.kind = "rename" /\ scope'.at = "branches" /\ scope'.from = c /\ scope'.to = e
  <2>1. scope \in MoveRec
    BY DEF NamesInv, Typed
  <2> QED BY <1>1, <1>2, <2>1, RenameGoesOn DEF MoveRec
<1>4. /\ writes'[c] = <<>> /\ \A m \in Name : m # c => writes'[m] = writes[m]
      /\ \A s \in Session : flush[s].on => flush[s].name # c
  BY <1>1, GoingType, RenameGoesOn DEF NamesInv, Typed, Drained
<1>5. /\ \A s \in Session : disk'[c].log[s] = <<>>
      /\ disk'[e] = disk[c] /\ \A m \in Name : m \notin {c, e} => disk'[m] = disk[m]
  <2>1. disk \in [Name -> DirRec]
    BY DEF NamesInv, Typed
  <2> QED BY <1>1, <1>2, <2>1, RenameGoesOn DEF NoDir, NoLogs
<1>6. Reads(<<>>, 0) /\ 0 \in Records
  BY EmptyReads, FilesAssumption DEF Records
<1>7. op.kind \notin {"idle", "delete"} => op.name \notin {c, e}
  BY <1>a, <1>c, <1>1, <1>2 DEF Apart, Stages
<1>8. \A s \in Session : live[s].name # e /\ (flush[s].on => flush[s].name # e)
  <2>1. RootedAt(e) /\ ~disk[e].scope
    BY <1>a, <1>c, <1>1, <1>2 DEF Rooted, Moving, Stages
  <2> QED BY <1>a, <1>2, <1>7, <2>1 DEF RootedAt, Between, Retired, Stages
<1>9. \A m \in Name : Place(m)' = (IF m = c THEN e ELSE m) /\ Place(m) = m /\ Retired(m)' = Retired(m)
  BY <1>a, <1>2, <1>3 DEF Place, Between, Retired, Stages
<1>10. \A s \in Session : flush[s].name \in Name
  BY SessionFacts
<1>11. Readable'
  BY <1>a, <1>b, <1>1, <1>2, <1>3, <1>4, <1>5, <1>6, <1>7, <1>8, <1>9, <1>10 DEF Readable
<1>12. Appending'
  <2> SUFFICES ASSUME NEW s \in Session
               PROVE  /\ live'[s].flushed <= live'[s].seq
                      /\ flush'[s].on =>
                           /\ flush'[s].from = live'[s].flushed /\ flush'[s].upTo <= live'[s].seq
                           /\ \A j \in Records : Reads(disk'[flush'[s].name].log[s], j)
                                => flush'[s].from <= j
    BY DEF Appending
  <2>1. /\ live[s].flushed <= live[s].seq
        /\ flush[s].on =>
             /\ flush[s].from = live[s].flushed /\ flush[s].upTo <= live[s].seq
             /\ \A j \in Records : Reads(disk[flush[s].name].log[s], j) => flush[s].from <= j
    BY <1>b DEF Appending
  <2> QED BY <1>a, <1>1, <1>2, <1>3, <1>4, <1>5, <1>6, <1>7, <1>8, <1>9, <1>10, <2>1, SessionFacts
<1>13. AtHome'
  <2> SUFFICES ASSUME NEW s \in Session, live'[s].name # "none" PROVE Housed(s)'
    BY DEF AtHome, Housed
  <2>a. PICK n \in Name : live'[s].name = n
    BY <1>a, <1>b, <1>1, <1>2, <1>3, <1>4, <1>5, <1>6, <1>7, <1>8, <1>9, <1>10, SessionFacts
  <2>1. live[s].name = n /\ Housed(s)
    BY <1>a, <1>b, <1>1, <1>2, <1>3, <1>4, <1>5, <1>6, <1>7, <1>8, <1>9, <1>10, <2>a DEF AtHome
  <2>2. ~Retired(n)' =>
          /\ ~Retired(n)
          /\ disk[Place(n)].saved[s] # "none" => disk'[Place(n)'].saved[s] # "none"
          /\ disk'[Place(n)'].log[s] = disk[Place(n)].log[s]
    BY <1>a, <1>b, <1>1, <1>2, <1>3, <1>4, <1>5, <1>6, <1>7, <1>8, <1>9, <1>10, <2>1 DEF Stages
  <2>3. \A i \in DOMAIN writes'[n] : writes'[n][i][s] # "none"
    BY <1>a, <1>b, <1>1, <1>2, <1>3, <1>4, <1>5, <1>6, <1>7, <1>8, <1>9, <1>10, <2>1 DEF Housed
  <2> QED BY <1>a, <1>b, <1>1, <1>2, <1>3, <1>4, <1>5, <1>6, <1>7, <1>8, <1>9, <1>10, <2>a, <2>1, <2>2, <2>3, SessionFacts, HousedKept
<1>14. Fated'
  BY <1>a, <1>b, <1>1, <1>2, <1>3, <1>4, <1>5, <1>6, <1>7, <1>8, <1>9, <1>10 DEF Fated, Wanted
<1>15. Shelved'
  <2> SUFFICES ASSUME NEW s \in Session, fate'[s] = "kept", live'[s].name = "none"
               PROVE  \E i \in Id : Holds(i, s)' /\ (op'.at = "returned" => i # op'.id)
    BY DEF Shelved
  <2>1. PICK i \in Id : Holds(i, s) /\ (op.at = "returned" => i # op.id)
    BY <1>a, <1>b, <1>1, <1>2, <1>3, <1>4, <1>5, <1>6, <1>7, <1>8, <1>9, <1>10 DEF Shelved
  <2> QED BY <1>a, <1>b, <1>1, <1>2, <1>3, <1>4, <1>5, <1>6, <1>7, <1>8, <1>9, <1>10, <2>1 DEF Holds, Complete, Stages
<1>16. Packing'
  <2> QED BY <1>a, <1>b, <1>1, <1>2, <1>3, <1>4, <1>5, <1>6, <1>7, <1>8, <1>9, <1>10, PackingKept DEF SessionsFor, Stages
<1> QED BY <1>11, <1>12, <1>13, <1>14, <1>15, <1>16 DEF LogsInv

LEMMA EndsKeep ==
  ASSUME NamesInv, LogsInv, Windows = {}, RenameEnds
  PROVE  LogsInv'
<1>a. "none" \notin Name /\ Stages
  BY FilesAssumption, StagesHold DEF NamesInv
<1>b. Readable /\ Appending /\ AtHome /\ Fated /\ Shelved /\ Packing
  BY DEF LogsInv
<1>c. Rooted /\ Moving /\ Apart /\ Archiving /\ Current /\ Flushing
  BY DEF NamesInv
<1>1. PICK c \in Name, e \in Name : c = scope.from /\ e = scope.to
  BY <1>a DEF Stages
<1> DEFINE l == [s \in Session |-> IF live[s].name = c THEN [live[s] EXCEPT !.name = e] ELSE live[s]]
             r == RecordsFor(l, e)
<1>2. /\ live' = l /\ writes' = [writes EXCEPT ![e] = Append(@, r)] /\ scope' = NoMove
      /\ scope.at = "branches"
  BY <1>1 DEF RenameEnds
<1>3. /\ flush' = flush /\ disk' = disk /\ op' = op /\ erase' = erase /\ archive' = archive
      /\ fate' = fate /\ scope.kind = "rename" /\ scope.at = "branches" /\ c # e
      /\ scope'.kind = "idle" /\ scope'.at = "idle"
  BY <1>a, <1>1 DEF RenameEnds, Stages, NoMove
<1>4. /\ l \in [Session -> LiveRec]
      /\ \A s \in Session : /\ live'[s].name = IF live[s].name = c THEN e ELSE live[s].name
                            /\ live'[s].seq = live[s].seq /\ live'[s].flushed = live[s].flushed
  <2>1. live \in [Session -> LiveRec]
    BY DEF NamesInv, Typed
  <2> QED BY <1>2, <2>1 DEF LiveRec
<1>5. \A s \in Session : /\ live'[s].name = IF live[s].name = c THEN e ELSE live[s].name
                         /\ live'[s].seq = live[s].seq /\ live'[s].flushed = live[s].flushed
  BY <1>4
<1>6. \A s \in Session : live'[s].name = e => r[s] # "none"
  BY <1>a, <1>2 DEF RecordsFor
<1>7. r \in Saved
  BY <1>4, RecordsForType
<1> HIDE DEF l, r
<1>8. /\ \A m \in Name : m # e => writes'[m] = writes[m]
      /\ \A i \in DOMAIN writes'[e] : i \notin DOMAIN writes[e] => writes'[e][i] = r
  BY <1>2, <1>7, AppendType DEF NamesInv, Typed
<1>9. op.kind \notin {"idle", "delete"} => op.name \notin {c, e}
  BY <1>a, <1>c, <1>1, <1>3 DEF Apart, Stages
<1>10. writes[e] = <<>> /\ \A s \in Session : live[s].name # e
  BY <1>c, <1>1, <1>3 DEF Moving, SessionsFor
<1>11. \A i \in DOMAIN writes'[e] : writes'[e][i] = r
  <2>1. DOMAIN writes[e] = {}
    BY <1>10
  <2> QED BY <1>8, <2>1
<1>12. \A m \in Name : /\ Place(m)' = m /\ Place(m) = (IF m = c THEN e ELSE m)
                       /\ Retired(m)' = Retired(m) /\ (m \in {c, e} => ~Retired(m))
  BY <1>a, <1>1, <1>3, <1>9 DEF Place, Between, Retired, Stages
<1>13. \A s \in Session : flush[s].name \in Name
  BY SessionFacts
<1>14. op.at \in {"moved", "written"} => \A s \in op.who : live[s].name = "none"
  BY <1>a, <1>c DEF Archiving, Stages
<1>15. Readable'
  BY <1>a, <1>b, <1>1, <1>3, <1>5, <1>6, <1>8, <1>9, <1>10, <1>11, <1>12, <1>13, <1>14 DEF Readable
<1>16. Appending'
  <2> SUFFICES ASSUME NEW s \in Session
               PROVE  /\ live'[s].flushed <= live'[s].seq
                      /\ flush'[s].on =>
                           /\ flush'[s].from = live'[s].flushed /\ flush'[s].upTo <= live'[s].seq
                           /\ \A j \in Records : Reads(disk'[flush'[s].name].log[s], j)
                                => flush'[s].from <= j
    BY DEF Appending
  <2>1. /\ live[s].flushed <= live[s].seq
        /\ flush[s].on =>
             /\ flush[s].from = live[s].flushed /\ flush[s].upTo <= live[s].seq
             /\ \A j \in Records : Reads(disk[flush[s].name].log[s], j) => flush[s].from <= j
    BY <1>b DEF Appending
  <2> QED BY <1>a, <1>1, <1>3, <1>5, <1>6, <1>8, <1>9, <1>10, <1>11, <1>12, <1>13, <1>14, <2>1, SessionFacts
<1>17. AtHome'
  <2> SUFFICES ASSUME NEW s \in Session, live'[s].name # "none" PROVE Housed(s)'
    BY DEF AtHome, Housed
  <2>a. PICK n \in Name : live'[s].name = n
    BY <1>a, <1>b, <1>1, <1>3, <1>5, <1>6, <1>8, <1>9, <1>10, <1>11, <1>12, <1>13, <1>14, SessionFacts
  <2>1. CASE n = e
    <3>1. live[s].name = c /\ Housed(s) /\ c # "none"
      BY <1>5, <1>10, <1>a, <1>b, <2>a, <2>1 DEF AtHome
    <3>2. /\ disk[e].saved[s] # "none"
          /\ \E m \in live[s].flushed..live[s].seq : Reads(disk[e].log[s], m)
      BY <1>a, <1>12, <3>1 DEF Housed
    <3>3. Place(live[s].name)' = e
      BY <1>12, <2>a, <2>1 DEF Place, Between
    <3> QED BY <1>3, <1>5, <1>6, <1>11, <2>a, <2>1, <3>2, <3>3 DEF Housed
  <2>2. CASE n # e
    <3>1. live[s].name = n /\ Housed(s) /\ n # c
      BY <1>5, <1>a, <1>b, <2>a, <2>2 DEF AtHome
    <3>2. ~Retired(n)' =>
            /\ ~Retired(n)
            /\ disk[Place(n)].saved[s] # "none" => disk'[Place(n)'].saved[s] # "none"
            /\ disk'[Place(n)'].log[s] = disk[Place(n)].log[s]
      BY <1>3, <1>12, <2>2, <3>1
    <3>3. \A i \in DOMAIN writes'[n] : writes'[n][i][s] # "none"
      BY <1>8, <1>a, <2>2, <3>1 DEF Housed
    <3> QED BY <1>a, <1>5, <2>a, <3>1, <3>2, <3>3, SessionFacts, HousedKept
  <2> QED BY <2>1, <2>2
<1>18. Fated'
  BY <1>a, <1>b, <1>1, <1>3, <1>5, <1>6, <1>8, <1>9, <1>10, <1>11, <1>12, <1>13, <1>14 DEF Fated, Wanted
<1>19. Shelved'
  <2> SUFFICES ASSUME NEW s \in Session, fate'[s] = "kept", live'[s].name = "none"
               PROVE  \E i \in Id : Holds(i, s)' /\ (op'.at = "returned" => i # op'.id)
    BY DEF Shelved
  <2>1. PICK i \in Id : Holds(i, s) /\ (op.at = "returned" => i # op.id)
    BY <1>a, <1>b, <1>1, <1>3, <1>5, <1>6, <1>8, <1>9, <1>10, <1>11, <1>12, <1>13, <1>14 DEF Shelved
  <2> QED BY <1>a, <1>b, <1>1, <1>3, <1>5, <1>6, <1>8, <1>9, <1>10, <1>11, <1>12, <1>13, <1>14, <2>1 DEF Holds, Complete, Stages
<1>20. Packing'
  <2> QED BY <1>a, <1>b, <1>1, <1>3, <1>5, <1>6, <1>8, <1>9, <1>10, <1>11, <1>12, <1>13, <1>14, PackingKept DEF SessionsFor, Stages
<1> QED BY <1>15, <1>16, <1>17, <1>18, <1>19, <1>20 DEF LogsInv

(* Only an archive operation moves on, and an archive may change.            *)
LEMMA OnlyOpKeeps ==
  ASSUME NamesInv, LogsInv, live' = live, flush' = flush, erase' = erase, writes' = writes,
         disk' = disk, scope' = scope, op.at # "retired",
         op'.at \notin {"retired", "moved", "written"},
         \A s \in Session : live[s].name # "none" => fate'[s] = fate[s],
         Readable', Shelved', Packing'
  PROVE  LogsInv'
<1>b. Readable /\ Appending /\ AtHome /\ Fated /\ Shelved /\ Packing
  BY DEF LogsInv
<1>1. Appending'
  BY <1>b DEF Appending
<1>2. AtHome'
  BY <1>b DEF AtHome, Housed, Retired, Place, Between
<1>3. Fated'
  BY <1>b DEF Fated, Wanted
<1> QED BY <1>1, <1>2, <1>3 DEF LogsInv

(* No archive changes, and none is chosen to go.                             *)
LEMMA ShelvedKept ==
  ASSUME Shelved, live' = live, archive' = archive, fate' = fate, op'.at # "returned"
  PROVE  Shelved'
<1> SUFFICES ASSUME NEW s \in Session, fate'[s] = "kept", live'[s].name = "none"
             PROVE  \E i \in Id : Holds(i, s)' /\ (op'.at = "returned" => i # op'.id)
  BY DEF Shelved
<1>1. PICK i \in Id : Holds(i, s)
  BY DEF Shelved
<1> QED BY <1>1 DEF Holds, Complete

LEMMA ArchiveScopeKeeps ==
  ASSUME NamesInv, LogsInv, NEW c \in Name, NEW i \in Id, ArchiveScope(c, i)
  PROVE  LogsInv'
<1>a. "none" \notin Name /\ Stages
  BY FilesAssumption, StagesHold DEF NamesInv
<1>b. Readable /\ Shelved
  BY DEF LogsInv
<1>1. /\ live' = live /\ flush' = flush /\ erase' = erase /\ writes' = writes /\ disk' = disk
      /\ scope' = scope /\ archive' = archive /\ fate' = fate
      /\ ~archive[i].data /\ ~archive[i].meta
  BY DEF ArchiveScope
<1>2. /\ op'.kind = "scope" /\ op'.at = "teardown" /\ op'.id = i /\ op.kind = "idle"
      /\ op.at = "idle"
  BY <1>a, BeginsType DEF ArchiveScope, Stages
<1>3. Packing'
  BY <1>1, <1>2 DEF Packing
<1>4. Readable'
  BY <1>b, <1>1 DEF Readable
<1>5. Shelved'
  BY <1>b, <1>1, <1>2, ShelvedKept
<1> QED BY <1>1, <1>2, <1>3, <1>4, <1>5, OnlyOpKeeps

LEMMA ArchiveSessionKeeps ==
  ASSUME NamesInv, LogsInv, NEW x \in Session, NEW i \in Id, ArchiveSession(x, i)
  PROVE  LogsInv'
<1>a. "none" \notin Name /\ Stages
  BY FilesAssumption, StagesHold DEF NamesInv
<1>b. Readable /\ Shelved
  BY DEF LogsInv
<1>c. live[x].name \in Name
  BY SessionFacts DEF ArchiveSession
<1>1. /\ live' = live /\ flush' = flush /\ erase' = erase /\ writes' = writes /\ disk' = disk
      /\ scope' = scope /\ archive' = archive /\ fate' = fate
      /\ ~archive[i].data /\ ~archive[i].meta
  BY DEF ArchiveSession
<1>2. /\ op'.kind = "session" /\ op'.at = "teardown" /\ op'.id = i /\ op.kind = "idle"
      /\ op.at = "idle"
  BY <1>a, <1>c, BeginsType DEF ArchiveSession, Stages
<1>3. Packing'
  BY <1>1, <1>2 DEF Packing
<1>4. Readable'
  BY <1>b, <1>1 DEF Readable
<1>5. Shelved'
  BY <1>b, <1>1, <1>2, ShelvedKept
<1> QED BY <1>1, <1>2, <1>3, <1>4, <1>5, OnlyOpKeeps

LEMMA RestoreKeeps ==
  ASSUME NamesInv, LogsInv, NEW i \in Id, Restore(i) \/ ReturnSession(i)
  PROVE  LogsInv'
<1>a. "none" \notin Name /\ Stages
  BY FilesAssumption, StagesHold DEF NamesInv
<1>b. Readable /\ Shelved
  BY DEF LogsInv
<1>c. archive[i].name \in Name /\ archive[i].saved \in SUBSET Session
  BY DEF NamesInv, Typed, FileRec
<1>1. /\ live' = live /\ flush' = flush /\ erase' = erase /\ writes' = writes /\ disk' = disk
      /\ scope' = scope /\ archive' = archive /\ fate' = fate /\ Complete(i)
  BY DEF Restore, ReturnSession
<1>2. /\ op'.id = i /\ op.kind = "idle" /\ op.at = "idle" /\ op'.who = archive[i].saved
      /\ \/ op'.kind = "restore" /\ op'.at = "unpacked"
         \/ op'.kind = "return" /\ op'.at = "flush"
  BY <1>a, <1>c, BeginsType DEF Restore, ReturnSession, Stages
<1>3. Packing'
  BY <1>1, <1>2 DEF Packing, Complete
<1>4. Readable'
  BY <1>b, <1>1 DEF Readable
<1>5. Shelved'
  BY <1>b, <1>1, <1>2, ShelvedKept
<1> QED BY <1>1, <1>2, <1>3, <1>4, <1>5, OnlyOpKeeps

LEMMA DeleteArchiveKeeps ==
  ASSUME NamesInv, LogsInv, NEW i \in Id, DeleteArchive(i)
  PROVE  LogsInv'
<1>a. "none" \notin Name /\ Stages
  BY FilesAssumption, StagesHold DEF NamesInv
<1>b. Readable /\ Shelved
  BY DEF LogsInv
<1> DEFINE who == {s \in archive[i].saved : live[s].name = "none"}
<1>c. archive[i].name \in Name /\ archive[i].saved \in SUBSET Session /\ who \in SUBSET Session
  BY DEF NamesInv, Typed, FileRec
<1>1. /\ live' = live /\ flush' = flush /\ erase' = erase /\ writes' = writes /\ disk' = disk
      /\ scope' = scope /\ archive' = archive
  BY DEF DeleteArchive
<1>2. op'.id = i /\ op.kind = "idle" /\ op.at = "idle" /\ op'.at = "returned"
  BY <1>a, <1>c, BeginsType DEF DeleteArchive, Stages
<1>3. \A s \in Session :
        /\ live[s].name # "none" => fate'[s] = fate[s]
        /\ fate'[s] = "kept" => fate[s] = "kept"
        /\ fate'[s] = "kept" /\ live[s].name = "none" /\ s \in archive[i].saved
             => \E j \in Id \ {i} : Holds(j, s)
  BY <1>a DEF DeleteArchive
<1>4. Packing'
  BY <1>1, <1>2 DEF Packing
<1>5. Readable'
  BY <1>b, <1>1 DEF Readable
<1>6. Shelved'
  <2> SUFFICES ASSUME NEW s \in Session, fate'[s] = "kept", live'[s].name = "none"
               PROVE  \E j \in Id : Holds(j, s)' /\ (op'.at = "returned" => j # op'.id)
    BY DEF Shelved
  <2>1. PICK j \in Id : Holds(j, s) /\ j # i
    <3>1. CASE s \in archive[i].saved
      BY <1>1, <1>3, <3>1
    <3>2. CASE s \notin archive[i].saved
      <4>1. PICK j \in Id : Holds(j, s)
        BY <1>b, <1>1, <1>3 DEF Shelved
      <4> QED BY <3>2, <4>1 DEF Holds
    <3> QED BY <3>1, <3>2
  <2> QED BY <1>1, <1>2, <2>1 DEF Holds, Complete
<1> QED BY <1>1, <1>2, <1>3, <1>4, <1>5, <1>6, OnlyOpKeeps

LEMMA OpTeardownKeeps ==
  ASSUME NamesInv, LogsInv, OpTeardown
  PROVE  LogsInv'
<1>a. "none" \notin Name /\ Stages
  BY FilesAssumption, StagesHold DEF NamesInv
<1>b. Readable /\ Shelved /\ Packing
  BY DEF LogsInv
<1>1. /\ live' = live /\ flush' = flush /\ erase' = erase /\ writes' = writes /\ disk' = disk
      /\ scope' = scope /\ archive' = archive /\ fate' = fate
  BY DEF OpTeardown
<1>2. /\ op.at = "teardown" /\ op'.at = "flush" /\ op'.kind = op.kind /\ op'.id = op.id
      /\ op.kind \in {"scope", "session"}
  BY <1>a, OpType DEF OpTeardown, NamesInv, Typed, Stages
<1>3. Packing'
  BY <1>b, <1>1, <1>2 DEF Packing
<1>4. Readable'
  BY <1>b, <1>1 DEF Readable
<1>5. Shelved'
  BY <1>b, <1>1, <1>2, ShelvedKept
<1> QED BY <1>1, <1>2, <1>3, <1>4, <1>5, OnlyOpKeeps

LEMMA OpFlushedKeeps ==
  ASSUME NamesInv, LogsInv, OpFlushed
  PROVE  LogsInv'
<1>a. "none" \notin Name /\ Stages
  BY FilesAssumption, StagesHold DEF NamesInv
<1>b. Readable /\ Shelved /\ Packing
  BY DEF LogsInv
<1>1. /\ live' = live /\ flush' = flush /\ erase' = erase /\ writes' = writes /\ disk' = disk
      /\ scope' = scope /\ archive' = archive /\ fate' = fate
      /\ op.at = "flushing" /\ \A s \in SessionsFor(op.name) : ~flush[s].on
  BY DEF OpFlushed, Flushed, Written
<1>2. CASE /\ \A s \in SessionsFor(op.name) : live[s].flushed = live[s].seq
           /\ op.kind = "session" => \A s \in op.who : disk[op.name].saved[s] # "none"
  <2>1. /\ op'.kind = op.kind /\ op'.id = op.id /\ op'.name = op.name /\ op'.who = op.who
        /\ op'.at = IF op.kind = "return" THEN "copy" ELSE "pack"
    BY <1>2, OpType DEF OpFlushed, NamesInv, Typed
  <2>2. Packing'
    <3>1. SessionsFor(op.name)' = SessionsFor(op.name)
      BY <1>1, <2>1 DEF SessionsFor
    <3>2. op.kind \in {"scope", "session", "return"}
      BY <1>a, <1>1 DEF Stages
    <3>3. op.kind = "return" => Complete(op.id) /\ archive[op.id].saved = op.who
      BY <1>b, <1>1 DEF Packing
    <3>4. op.kind # "return" => ~archive[op.id].data /\ ~archive[op.id].meta
      BY <1>b, <1>1, <3>2 DEF Packing
    <3> QED BY <1>1, <1>2, <2>1, <3>1, <3>3, <3>4 DEF Packing, Complete
  <2>3. Readable'
    BY <1>b, <1>1 DEF Readable
  <2>4. Shelved'
    BY <1>b, <1>1, <2>1, ShelvedKept
  <2> QED BY <1>1, <2>1, <2>2, <2>3, <2>4, OnlyOpKeeps
<1>3. CASE ~(/\ \A s \in SessionsFor(op.name) : live[s].flushed = live[s].seq
             /\ op.kind = "session" => \A s \in op.who : disk[op.name].saved[s] # "none")
  <2>1. op'.kind = "idle" /\ op'.at = "idle"
    BY <1>3, OpType DEF OpFlushed, NamesInv, Typed
  <2>2. Packing'
    BY <2>1 DEF Packing
  <2>3. Readable'
    BY <1>b, <1>1 DEF Readable
  <2>4. Shelved'
    BY <1>b, <1>1, <2>1, ShelvedKept
  <2> QED BY <1>1, <2>1, <2>2, <2>3, <2>4, OnlyOpKeeps
<1> QED BY <1>2, <1>3

LEMMA OpPacksKeeps ==
  ASSUME NamesInv, LogsInv, Windows = {}, OpPacks
  PROVE  LogsInv'
<1>a. "none" \notin Name /\ Stages
  BY FilesAssumption, StagesHold DEF NamesInv
<1>b. Readable /\ AtHome /\ Shelved /\ Packing
  BY DEF LogsInv
<1>c. Apart /\ Archiving /\ Current
  BY DEF NamesInv
<1>1. PICK c \in Name, i \in Id : c = op.name /\ i = op.id
  BY <1>a DEF OpPacks, NamesInv, OpStage, Stages
<1>2. /\ live' = live /\ flush' = flush /\ erase' = erase /\ writes' = writes /\ disk' = disk
      /\ scope' = scope /\ fate' = fate /\ op.at = "pack" /\ op.kind \in {"scope", "session"}
  BY <1>a DEF OpPacks, Stages
<1>3. /\ op'.at = "packed" /\ op'.kind = op.kind /\ op'.name = c /\ op'.who = op.who
      /\ op'.id = i
  BY <1>1, OpType DEF OpPacks, NamesInv, Typed
<1>4. Place(c) = c /\ ~Retired(c) /\ ~(scope.at = "branches" /\ c \in {scope.from, scope.to})
  BY <1>a, <1>c, <1>1, <1>2 DEF Place, Between, Retired, Apart, Stages
<1> DEFINE who == IF op.kind = "scope" THEN SessionsFor(c) ELSE op.who
           log == [s \in Session |-> IF s \in who THEN disk[c].log[s] ELSE <<>>]
<1>5. who \subseteq SessionsFor(c)
  BY <1>1, <1>2, <1>c DEF Archiving
<1>6. op.kind = "scope" => {s \in Session : disk[c].saved[s] # "none"} = SessionsFor(c)
  <2> SUFFICES ASSUME op.kind = "scope"
               PROVE  {s \in Session : disk[c].saved[s] # "none"} = SessionsFor(c)
    OBVIOUS
  <2>1. writes[c] = <<>> /\ c \notin timers
    BY <1>1, <1>2, <1>c DEF Archiving
  <2>2. ~Behind(c)
    BY <1>a, <1>c, <1>1, <1>2, <1>4, <2>1 DEF Behind, Retired, Apart, Stages
  <2>3. disk[c].saved = RecordsFor(live, c)
    BY <1>2, <1>c, <2>1, <2>2 DEF Current, Told, Final, Due
  <2> QED BY <1>a, <2>3 DEF RecordsFor, SessionsFor
<1>7. archive' = [archive EXCEPT ![i] =
        [data |-> TRUE, meta |-> FALSE, kind |-> op.kind, name |-> c, saved |-> who, log |-> log]]
  <2>1. CASE op.kind = "scope"
    BY <1>1, <1>2, <1>6, <2>1 DEF OpPacks
  <2>2. CASE op.kind = "session"
    BY <1>1, <1>2, <2>2 DEF OpPacks
  <2> QED BY <1>2, <2>1, <2>2
<1>8. /\ archive'[i].data /\ archive'[i].meta = FALSE /\ archive'[i].saved = who
      /\ \A s \in Session : archive'[i].log[s] = IF s \in who THEN disk[c].log[s] ELSE <<>>
      /\ \A j \in Id : j # i => archive'[j] = archive[j]
  <2>1. archive \in [Id -> FileRec]
    BY DEF NamesInv, Typed
  <2> HIDE DEF who
  <2> QED BY <1>7, <2>1
<1> HIDE DEF who, log
<1>9. \A s \in SessionsFor(c) : /\ live[s].flushed = live[s].seq /\ ~flush[s].on
                                /\ Reads(disk[c].log[s], live[s].seq)
  <2> SUFFICES ASSUME NEW s \in SessionsFor(c)
               PROVE  /\ live[s].flushed = live[s].seq /\ ~flush[s].on
                      /\ Reads(disk[c].log[s], live[s].seq)
    OBVIOUS
  <2>1. live[s].flushed = live[s].seq /\ ~flush[s].on
    BY <1>b, <1>1, <1>2 DEF Packing
  <2>2. s \in Session /\ live[s].name = c
    BY DEF SessionsFor
  <2>3. PICK m \in live[s].flushed..live[s].seq : Reads(disk[c].log[s], m)
    BY <1>a, <1>b, <1>4, <2>2 DEF AtHome, Housed
  <2>4. m = live[s].seq
    BY <2>1, <2>2, SessionFacts
  <2> QED BY <2>1, <2>3, <2>4
<1>10. Readable'
  <2>1. 0 \in Records /\ Reads(<<>>, 0)
    BY EmptyReads, FilesAssumption DEF Records
  <2>2. ASSUME NEW s \in Session PROVE \E m \in Records : Reads(archive'[i].log[s], m)
    BY <1>8, <1>b, <2>1 DEF Readable
  <2> QED BY <1>2, <1>8, <1>b, <2>2 DEF Readable
<1>11. Shelved'
  <2> SUFFICES ASSUME NEW s \in Session, fate'[s] = "kept", live'[s].name = "none"
               PROVE  \E j \in Id : Holds(j, s)' /\ (op'.at = "returned" => j # op'.id)
    BY DEF Shelved
  <2>1. PICK j \in Id : Holds(j, s)
    BY <1>2, <1>b DEF Shelved
  <2>2. j # i
    BY <1>1, <1>2, <1>b, <2>1 DEF Holds, Complete, Packing
  <2> QED BY <1>2, <1>3, <1>8, <2>1, <2>2 DEF Holds, Complete
<1>12. Packing'
  <2>1. SessionsFor(op.name)' = SessionsFor(c) /\ SessionsFor(c) \subseteq Session
    BY <1>2, <1>3 DEF SessionsFor
  <2>2. who = IF op.kind = "scope" THEN SessionsFor(c) ELSE op.who
    BY DEF who
  <2>3. \A s \in who : Reads(archive'[i].log[s], live[s].seq)
    BY <1>5, <1>8, <1>9, <2>1
  <2>4. \A s \in SessionsFor(op.name)' : live'[s].flushed = live'[s].seq /\ ~flush'[s].on
    BY <1>2, <1>3, <1>9, <2>1
  <2>5. archive'[i].saved = IF op'.kind = "scope" THEN SessionsFor(op.name)' ELSE op'.who
    BY <1>3, <1>8, <2>1, <2>2
  <2>6. \A s \in archive'[i].saved : Reads(archive'[i].log[s], live'[s].seq)
    BY <1>2, <1>8, <2>3
  <2> QED BY <1>2, <1>3, <1>8, <2>4, <2>5, <2>6 DEF Packing
<1> QED BY <1>2, <1>3, <1>10, <1>11, <1>12, OnlyOpKeeps

LEMMA OpCommitsKeeps ==
  ASSUME NamesInv, LogsInv, OpCommits
  PROVE  LogsInv'
<1>a. "none" \notin Name /\ Stages
  BY FilesAssumption, StagesHold DEF NamesInv
<1>b. Readable /\ Shelved /\ Packing
  BY DEF LogsInv
<1>1. PICK c \in Name, i \in Id : c = op.name /\ i = op.id
  BY <1>a DEF OpCommits, NamesInv, OpStage, Stages
<1>2. /\ live' = live /\ flush' = flush /\ erase' = erase /\ writes' = writes /\ disk' = disk
      /\ scope' = scope /\ fate' = fate /\ op.at = "packed"
  BY DEF OpCommits
<1>3. /\ op'.at = "committed" /\ op'.kind = op.kind /\ op'.name = c /\ op'.who = op.who
      /\ op'.id = i
  BY <1>1, OpType DEF OpCommits, NamesInv, Typed
<1>4. /\ archive'[i].data = archive[i].data /\ archive'[i].meta
      /\ archive'[i].saved = archive[i].saved /\ archive'[i].log = archive[i].log
      /\ \A j \in Id : j # i => archive'[j] = archive[j]
  <2>1. archive \in [Id -> FileRec]
    BY DEF NamesInv, Typed
  <2> QED BY <1>1, <2>1 DEF OpCommits, FileRec
<1>5. Readable'
  BY <1>2, <1>4, <1>b DEF Readable
<1>6. Shelved'
  <2> SUFFICES ASSUME NEW s \in Session, fate'[s] = "kept", live'[s].name = "none"
               PROVE  \E j \in Id : Holds(j, s)' /\ (op'.at = "returned" => j # op'.id)
    BY DEF Shelved
  <2>1. PICK j \in Id : Holds(j, s)
    BY <1>2, <1>b DEF Shelved
  <2>2. j # i
    BY <1>1, <1>2, <1>b, <2>1 DEF Holds, Complete, Packing
  <2> QED BY <1>2, <1>3, <1>4, <2>1, <2>2 DEF Holds, Complete
<1>7. Packing'
  <2>1. SessionsFor(c)' = SessionsFor(c)
    BY <1>2 DEF SessionsFor
  <2> QED BY <1>1, <1>2, <1>3, <1>4, <1>b, <2>1, ZenonT(40) DEF Packing
<1> QED BY <1>2, <1>3, <1>5, <1>6, <1>7, OnlyOpKeeps

(* An operation ends that leaves the archives alone, or removes its own,     *)
(* which is not complete.                                                    *)
LEMMA OpStopsKeep ==
  ASSUME NamesInv, LogsInv, OpFails \/ OpRemovesMeta
  PROVE  LogsInv'
<1>a. "none" \notin Name /\ Stages
  BY FilesAssumption, StagesHold DEF NamesInv
<1>b. Readable /\ Shelved /\ Packing
  BY DEF LogsInv
<1>1. PICK i \in Id : i = op.id
  BY <1>a DEF OpFails, OpRemovesMeta, NamesInv, OpStage, Stages
<1>2. /\ live' = live /\ flush' = flush /\ erase' = erase /\ writes' = writes /\ disk' = disk
      /\ scope' = scope /\ fate' = fate /\ op.at # "retired"
      /\ archive' = archive \/ op.at \in {"packed", "emptied"}
      /\ archive' = archive \/ archive' = [archive EXCEPT ![i] = NoFile]
  BY <1>1 DEF OpFails, OpRemovesMeta
<1>3. op'.at = "idle" /\ op'.kind = "idle"
  BY OpType DEF OpFails, OpRemovesMeta, NamesInv, Typed
<1>4. /\ \A s \in Session : archive'[i].log[s] = archive[i].log[s] \/ archive'[i].log[s] = <<>>
      /\ \A j \in Id : j # i => archive'[j] = archive[j]
  <2>1. archive \in [Id -> FileRec]
    BY DEF NamesInv, Typed
  <2> QED BY <1>2, <2>1 DEF NoFile, NoLogs
<1>5. Readable'
  <2>1. 0 \in Records /\ Reads(<<>>, 0)
    BY EmptyReads, FilesAssumption DEF Records
  <2>2. ASSUME NEW s \in Session PROVE \E m \in Records : Reads(archive'[i].log[s], m)
    BY <1>4, <1>b, <2>1 DEF Readable
  <2> QED BY <1>2, <1>4, <1>b, <2>2 DEF Readable
<1>6. Shelved'
  <2> SUFFICES ASSUME NEW s \in Session, fate'[s] = "kept", live'[s].name = "none"
               PROVE  \E j \in Id : Holds(j, s)' /\ (op'.at = "returned" => j # op'.id)
    BY DEF Shelved
  <2>1. PICK j \in Id : Holds(j, s)
    BY <1>2, <1>b DEF Shelved
  <2>2. archive'[j] = archive[j]
    BY <1>1, <1>2, <1>4, <1>b, <2>1 DEF Holds, Complete, Packing
  <2> QED BY <1>2, <1>3, <2>1, <2>2 DEF Holds, Complete
<1>7. Packing'
  BY <1>3 DEF Packing
<1> QED BY <1>2, <1>3, <1>5, <1>6, <1>7, OnlyOpKeeps

LEMMA OpRemovesDataKeeps ==
  ASSUME NamesInv, LogsInv, OpRemovesData
  PROVE  LogsInv'
<1>a. "none" \notin Name /\ Stages
  BY FilesAssumption, StagesHold DEF NamesInv
<1>b. Readable /\ Shelved /\ Packing
  BY DEF LogsInv
<1>1. PICK i \in Id : i = op.id
  BY <1>a DEF OpRemovesData, NamesInv, OpStage, Stages
<1>2. /\ live' = live /\ flush' = flush /\ erase' = erase /\ writes' = writes /\ disk' = disk
      /\ scope' = scope /\ fate' = fate /\ op.at = "returned"
  BY DEF OpRemovesData
<1>3. op'.at = "emptied" /\ op'.id = i
  BY <1>1, OpType DEF OpRemovesData, NamesInv, Typed
<1>4. /\ ~archive'[i].data /\ archive'[i].log = archive[i].log
      /\ \A j \in Id : j # i => archive'[j] = archive[j]
  <2>1. archive \in [Id -> FileRec]
    BY DEF NamesInv, Typed
  <2> QED BY <1>1, <2>1 DEF OpRemovesData, FileRec
<1>5. Readable'
  BY <1>2, <1>4, <1>b DEF Readable
<1>6. Shelved'
  <2> SUFFICES ASSUME NEW s \in Session, fate'[s] = "kept", live'[s].name = "none"
               PROVE  \E j \in Id : Holds(j, s)' /\ (op'.at = "returned" => j # op'.id)
    BY DEF Shelved
  <2>1. PICK j \in Id : Holds(j, s) /\ j # i
    BY <1>1, <1>2, <1>b DEF Shelved
  <2> QED BY <1>2, <1>3, <1>4, <2>1 DEF Holds, Complete
<1>7. Packing'
  BY <1>3, <1>4 DEF Packing
<1> QED BY <1>2, <1>3, <1>5, <1>6, <1>7, OnlyOpKeeps

LEMMA OpFlushesNothingKeeps ==
  ASSUME NamesInv, LogsInv, Windows = {}, OpFlushes, ~Written(op.name)
  PROVE  LogsInv'
<1>a. "none" \notin Name /\ Stages
  BY FilesAssumption, StagesHold DEF NamesInv
<1>b. Readable /\ Shelved /\ Packing
  BY DEF LogsInv
<1>1. /\ live' = live /\ erase' = erase /\ disk' = disk /\ archive' = archive /\ fate' = fate
      /\ scope' = scope /\ flush' = flush /\ writes' = writes
  BY FlushesNothing DEF OpFlushes
<1>2. /\ op.at = "flush" /\ op'.at = "flushing" /\ op'.kind = op.kind /\ op'.name = op.name
      /\ op'.who = op.who /\ op'.id = op.id
  BY OpType DEF OpFlushes, NamesInv, Typed
<1>3. Packing'
  BY <1>a, <1>b, <1>1, <1>2 DEF Packing, Complete, SessionsFor, Stages
<1>4. Readable'
  BY <1>b, <1>1 DEF Readable
<1>5. Shelved'
  BY <1>b, <1>1, <1>2, ShelvedKept
<1> QED BY <1>1, <1>2, <1>3, <1>4, <1>5, OnlyOpKeeps

LEMMA OpFlushesKeeps ==
  ASSUME NamesInv, LogsInv, Windows = {}, OpFlushes, Written(op.name)
  PROVE  LogsInv'
<1>a. "none" \notin Name /\ Stages
  BY FilesAssumption, StagesHold DEF NamesInv
<1>b. Readable /\ Appending /\ AtHome /\ Fated /\ Shelved /\ Packing
  BY DEF LogsInv
<1>c. Rooted /\ Moving /\ Apart /\ Archiving /\ Current /\ Flushing
  BY DEF NamesInv
<1>1. PICK c \in Name : c = op.name
  BY <1>a DEF Stages
<1> DEFINE r == RecordsFor(live, c)
<1>2. /\ live' = live /\ erase' = erase /\ disk' = disk /\ archive' = archive /\ fate' = fate
      /\ scope' = scope
  BY DEF OpFlushes
<1>3. /\ op.at = "flush" /\ op'.at = "flushing" /\ op'.kind = op.kind /\ op'.name = c /\ op.name = c
      /\ op'.who = op.who /\ op'.id = op.id
  BY <1>1, OpType DEF OpFlushes, NamesInv, Typed
<1>4. op.kind \notin {"idle", "delete"} =>
        /\ scope.kind # "idle" => c # scope.from
        /\ scope.kind = "rename" => c # scope.to
  BY <1>a, <1>c, <1>1 DEF Apart, Stages
<1>5. writes' = [writes EXCEPT ![c] = Append(@, r)] /\ flush' = FlushAll(live, c)
  BY <1>1 DEF OpFlushes, FlushTask, Written, SessionsFor
<1>6. r \in Saved
  BY RecordsForType DEF NamesInv, Typed
<1>7. \A t \in Session : live[t].name = c => r[t] # "none"
  BY <1>a DEF RecordsFor
<1> HIDE DEF r
<1>8. /\ \A i \in DOMAIN writes'[c] : writes'[c][i] = r \/ (i \in DOMAIN writes[c] /\ writes'[c][i] = writes[c][i])
      /\ \A m \in Name : m # c => writes'[m] = writes[m]
  BY <1>5, <1>6, AppendType DEF NamesInv, Typed
<1>9. Place(c) = c /\ ~Retired(c)
  BY <1>a, <1>1, <1>3, <1>4 DEF Place, Between, Retired, Stages
<1>10. \A s \in Session : flush'[s].on =>
        /\ flush'[s].from = live[s].flushed /\ flush'[s].upTo <= live[s].seq
        /\ \A m \in Records : Reads(disk[flush'[s].name].log[s], m) => flush'[s].from <= m
        /\ flush'[s] = flush[s] \/ (live[s].name = c /\ live[s].flushed < live[s].seq)
  <2>1. live \in [Session -> LiveRec]
    BY DEF NamesInv, Typed
  <2> QED BY <1>b, <1>5, <1>9, <2>1, FlushesFit
<1>11. \A s \in Session : live[s].seq \in Nat /\ live[s].flushed \in Nat
  BY SessionFacts
<1>12. Readable'
  BY <1>a, <1>b, <1>1, <1>2, <1>3, <1>4, <1>7, <1>8, <1>9, <1>10, <1>11 DEF Readable
<1>13. Appending'
  <2> SUFFICES ASSUME NEW s \in Session
               PROVE  /\ live'[s].flushed <= live'[s].seq
                      /\ flush'[s].on =>
                           /\ flush'[s].from = live'[s].flushed /\ flush'[s].upTo <= live'[s].seq
                           /\ \A j \in Records : Reads(disk'[flush'[s].name].log[s], j)
                                => flush'[s].from <= j
    BY DEF Appending
  <2>1. /\ live[s].flushed <= live[s].seq
        /\ flush[s].on =>
             /\ flush[s].from = live[s].flushed /\ flush[s].upTo <= live[s].seq
             /\ \A j \in Records : Reads(disk[flush[s].name].log[s], j) => flush[s].from <= j
    BY <1>b DEF Appending
  <2> QED BY <1>a, <1>1, <1>2, <1>3, <1>4, <1>7, <1>8, <1>9, <1>10, <1>11, <2>1, SessionFacts
<1>14. AtHome'
  <2> SUFFICES ASSUME NEW s \in Session, live'[s].name # "none" PROVE Housed(s)'
    BY DEF AtHome, Housed
  <2>a. PICK n \in Name : live'[s].name = n
    BY <1>a, <1>b, <1>1, <1>2, <1>3, <1>4, <1>7, <1>8, <1>9, <1>10, <1>11, SessionFacts
  <2>1. live[s].name = n /\ Housed(s)
    BY <1>a, <1>b, <1>1, <1>2, <1>3, <1>4, <1>7, <1>8, <1>9, <1>10, <1>11, <2>a DEF AtHome
  <2>2. ~Retired(n)' =>
          /\ ~Retired(n)
          /\ disk[Place(n)].saved[s] # "none" => disk'[Place(n)'].saved[s] # "none"
          /\ disk'[Place(n)'].log[s] = disk[Place(n)].log[s]
    BY <1>a, <1>b, <1>1, <1>2, <1>3, <1>4, <1>7, <1>8, <1>9, <1>10, <1>11, <2>1 DEF Place, Between, Retired, Stages
  <2>3. \A i \in DOMAIN writes'[n] : writes'[n][i][s] # "none"
    BY <1>a, <1>b, <1>1, <1>2, <1>3, <1>4, <1>7, <1>8, <1>9, <1>10, <1>11, <2>1 DEF Housed
  <2> QED BY <1>a, <1>b, <1>1, <1>2, <1>3, <1>4, <1>7, <1>8, <1>9, <1>10, <1>11, <2>a, <2>1, <2>2, <2>3, SessionFacts, HousedKept
<1>15. Fated'
  BY <1>a, <1>b, <1>1, <1>2, <1>3, <1>4, <1>7, <1>8, <1>9, <1>10, <1>11 DEF Fated, Wanted
<1>16. Shelved'
  <2> SUFFICES ASSUME NEW s \in Session, fate'[s] = "kept", live'[s].name = "none"
               PROVE  \E i \in Id : Holds(i, s)' /\ (op'.at = "returned" => i # op'.id)
    BY DEF Shelved
  <2>1. PICK i \in Id : Holds(i, s) /\ (op.at = "returned" => i # op.id)
    BY <1>a, <1>b, <1>1, <1>2, <1>3, <1>4, <1>7, <1>8, <1>9, <1>10, <1>11 DEF Shelved
  <2> QED BY <1>a, <1>b, <1>1, <1>2, <1>3, <1>4, <1>7, <1>8, <1>9, <1>10, <1>11, <2>1 DEF Holds, Complete, Stages
<1>17. Packing'
  BY <1>a, <1>b, <1>1, <1>2, <1>3, <1>4, <1>7, <1>8, <1>9, <1>10, <1>11 DEF Packing, Complete, SessionsFor, Stages
<1> QED BY <1>12, <1>13, <1>14, <1>15, <1>16, <1>17 DEF LogsInv

LEMMA ScopeRetiresKeeps ==
  ASSUME NamesInv, LogsInv, Windows = {}, ScopeRetires
  PROVE  LogsInv'
<1>a. "none" \notin Name /\ Stages
  BY FilesAssumption, StagesHold DEF NamesInv
<1>b. Readable /\ Appending /\ AtHome /\ Fated /\ Shelved /\ Packing
  BY DEF LogsInv
<1>c. Rooted /\ Moving /\ Apart /\ Archiving /\ Current /\ Flushing
  BY DEF NamesInv
<1>1. PICK c \in Name : c = op.name
  BY <1>a DEF Stages
<1>2. /\ live' = live /\ flush' = flush /\ erase' = erase /\ archive' = archive /\ fate' = fate
      /\ scope' = scope /\ op.kind = "scope"
  BY DEF ScopeRetires
<1>3. /\ op.at = "committed" /\ op'.at = "retired" /\ op'.kind = op.kind /\ op'.name = c /\ op.name = c
      /\ op'.who = op.who /\ op'.id = op.id
  BY <1>1, OpType DEF ScopeRetires, NamesInv, Typed
<1>4. op.kind \notin {"idle", "delete"} =>
        /\ scope.kind # "idle" => c # scope.from
        /\ scope.kind = "rename" => c # scope.to
  BY <1>a, <1>c, <1>1 DEF Apart, Stages
<1>5. /\ writes'[c] = <<>> /\ \A m \in Name : m # c => writes'[m] = writes[m]
      /\ \A s \in Session : flush[s].on => flush[s].name # c
  BY <1>1, GoingType DEF ScopeRetires, NamesInv, Typed, Drained
<1>6. /\ \A s \in Session : disk'[c].log[s] = <<>>
      /\ \A m \in Name : m # c => disk'[m] = disk[m]
  <2>1. disk \in [Name -> DirRec]
    BY DEF NamesInv, Typed
  <2> QED BY <1>1, <2>1 DEF ScopeRetires, NoDir, NoLogs
<1>7. Reads(<<>>, 0) /\ 0 \in Records
  BY EmptyReads, FilesAssumption DEF Records
<1>8. \A m \in Name : /\ Place(m)' = Place(m) /\ (Retired(m)' <=> m = c) /\ ~Retired(m)
                       /\ Place(m) \in Name /\ (m # c => Place(m) # c)
  BY <1>a, <1>2, <1>3, <1>4 DEF Place, Between, Retired, Stages
<1>9. \A s \in Session : flush[s].name \in Name
  BY SessionFacts
<1>10. Readable'
  BY <1>a, <1>b, <1>1, <1>2, <1>3, <1>4, <1>5, <1>6, <1>7, <1>8, <1>9 DEF Readable
<1>11. Appending'
  <2> SUFFICES ASSUME NEW s \in Session
               PROVE  /\ live'[s].flushed <= live'[s].seq
                      /\ flush'[s].on =>
                           /\ flush'[s].from = live'[s].flushed /\ flush'[s].upTo <= live'[s].seq
                           /\ \A j \in Records : Reads(disk'[flush'[s].name].log[s], j)
                                => flush'[s].from <= j
    BY DEF Appending
  <2>1. /\ live[s].flushed <= live[s].seq
        /\ flush[s].on =>
             /\ flush[s].from = live[s].flushed /\ flush[s].upTo <= live[s].seq
             /\ \A j \in Records : Reads(disk[flush[s].name].log[s], j) => flush[s].from <= j
    BY <1>b DEF Appending
  <2> QED BY <1>a, <1>1, <1>2, <1>3, <1>4, <1>5, <1>6, <1>7, <1>8, <1>9, <2>1, SessionFacts
<1>12. AtHome'
  <2> SUFFICES ASSUME NEW s \in Session, live'[s].name # "none" PROVE Housed(s)'
    BY DEF AtHome, Housed
  <2>a. PICK n \in Name : live'[s].name = n
    BY <1>a, <1>b, <1>1, <1>2, <1>3, <1>4, <1>5, <1>6, <1>7, <1>8, <1>9, SessionFacts
  <2>1. live[s].name = n /\ Housed(s)
    BY <1>a, <1>b, <1>1, <1>2, <1>3, <1>4, <1>5, <1>6, <1>7, <1>8, <1>9, <2>a DEF AtHome
  <2>2. ~Retired(n)' =>
          /\ ~Retired(n)
          /\ disk[Place(n)].saved[s] # "none" => disk'[Place(n)'].saved[s] # "none"
          /\ disk'[Place(n)'].log[s] = disk[Place(n)].log[s]
    BY <1>a, <1>b, <1>1, <1>2, <1>3, <1>4, <1>5, <1>6, <1>7, <1>8, <1>9, <2>1 DEF Stages
  <2>3. \A i \in DOMAIN writes'[n] : writes'[n][i][s] # "none"
    BY <1>a, <1>b, <1>1, <1>2, <1>3, <1>4, <1>5, <1>6, <1>7, <1>8, <1>9, <2>1 DEF Housed
  <2> QED BY <1>a, <1>b, <1>1, <1>2, <1>3, <1>4, <1>5, <1>6, <1>7, <1>8, <1>9, <2>a, <2>1, <2>2, <2>3, SessionFacts, HousedKept
<1>13. Fated'
  BY <1>a, <1>b, <1>1, <1>2, <1>3, <1>4, <1>5, <1>6, <1>7, <1>8, <1>9 DEF Fated, Wanted
<1>14. Shelved'
  <2> SUFFICES ASSUME NEW s \in Session, fate'[s] = "kept", live'[s].name = "none"
               PROVE  \E i \in Id : Holds(i, s)' /\ (op'.at = "returned" => i # op'.id)
    BY DEF Shelved
  <2>1. PICK i \in Id : Holds(i, s) /\ (op.at = "returned" => i # op.id)
    BY <1>a, <1>b, <1>1, <1>2, <1>3, <1>4, <1>5, <1>6, <1>7, <1>8, <1>9 DEF Shelved
  <2> QED BY <1>a, <1>b, <1>1, <1>2, <1>3, <1>4, <1>5, <1>6, <1>7, <1>8, <1>9, <2>1 DEF Holds, Complete, Stages
<1>15. Packing'
  BY <1>a, <1>b, <1>1, <1>2, <1>3, <1>4, <1>5, <1>6, <1>7, <1>8, <1>9 DEF Packing, Complete, SessionsFor, Stages
<1> QED BY <1>10, <1>11, <1>12, <1>13, <1>14, <1>15 DEF LogsInv

LEMMA ScopeDropsKeeps ==
  ASSUME NamesInv, LogsInv, Windows = {}, ScopeDrops
  PROVE  LogsInv'
<1>a. "none" \notin Name /\ Stages
  BY FilesAssumption, StagesHold DEF NamesInv
<1>b. Readable /\ Appending /\ AtHome /\ Fated /\ Shelved /\ Packing
  BY DEF LogsInv
<1>c. Rooted /\ Moving /\ Apart /\ Archiving /\ Current /\ Flushing
  BY DEF NamesInv
<1>1. PICK c \in Name : c = op.name
  BY <1>a DEF Stages
<1>2. /\ flush' = flush /\ erase' = erase /\ writes' = writes /\ disk' = disk /\ archive' = archive
      /\ scope' = scope /\ fate' = fate
  BY DEF ScopeDrops
<1>3. /\ op.at = "retired" /\ op'.at = "idle" /\ op'.kind = "idle" /\ op'.name = c /\ op.name = c
      /\ op'.who = {}
  BY <1>1, OpType DEF ScopeDrops, NamesInv, Typed
<1>4. \A s \in Session : /\ live'[s].name = IF live[s].name = c THEN "none" ELSE live[s].name
                         /\ live'[s].seq = live[s].seq /\ live'[s].flushed = live[s].flushed
  BY <1>1, DropType DEF ScopeDrops, NamesInv, Typed
<1>5. op.id \in Id
  BY <1>a, <1>3 DEF NamesInv, OpStage, Stages
<1>6. \A s \in Session : live[s].name = c => Holds(op.id, s)
  BY <1>a, <1>b, <1>1, <1>3 DEF Packing, Holds, Complete, SessionsFor, Reads, Stages
<1>7. \A m \in Name : Place(m)' = Place(m) /\ ~Retired(m)' /\ (Retired(m) <=> m = c) /\ Place(m) \in Name
  BY <1>a, <1>2, <1>3 DEF Place, Between, Retired, Stages
<1>8. Readable'
  BY <1>a, <1>b, <1>1, <1>2, <1>3, <1>4, <1>5, <1>6, <1>7 DEF Readable
<1>9. Appending'
  <2> SUFFICES ASSUME NEW s \in Session
               PROVE  /\ live'[s].flushed <= live'[s].seq
                      /\ flush'[s].on =>
                           /\ flush'[s].from = live'[s].flushed /\ flush'[s].upTo <= live'[s].seq
                           /\ \A j \in Records : Reads(disk'[flush'[s].name].log[s], j)
                                => flush'[s].from <= j
    BY DEF Appending
  <2>1. /\ live[s].flushed <= live[s].seq
        /\ flush[s].on =>
             /\ flush[s].from = live[s].flushed /\ flush[s].upTo <= live[s].seq
             /\ \A j \in Records : Reads(disk[flush[s].name].log[s], j) => flush[s].from <= j
    BY <1>b DEF Appending
  <2> QED BY <1>a, <1>1, <1>2, <1>3, <1>4, <1>5, <1>6, <1>7, <2>1, SessionFacts
<1>10. AtHome'
  <2> SUFFICES ASSUME NEW s \in Session, live'[s].name # "none" PROVE Housed(s)'
    BY DEF AtHome, Housed
  <2>a. PICK n \in Name : live'[s].name = n
    BY <1>a, <1>b, <1>1, <1>2, <1>3, <1>4, <1>5, <1>6, <1>7, SessionFacts
  <2>1. live[s].name = n /\ Housed(s)
    BY <1>a, <1>b, <1>1, <1>2, <1>3, <1>4, <1>5, <1>6, <1>7, <2>a DEF AtHome
  <2>2. ~Retired(n)' =>
          /\ ~Retired(n)
          /\ disk[Place(n)].saved[s] # "none" => disk'[Place(n)'].saved[s] # "none"
          /\ disk'[Place(n)'].log[s] = disk[Place(n)].log[s]
    BY <1>a, <1>b, <1>1, <1>2, <1>3, <1>4, <1>5, <1>6, <1>7, <2>1 DEF Stages
  <2>3. \A i \in DOMAIN writes'[n] : writes'[n][i][s] # "none"
    BY <1>a, <1>b, <1>1, <1>2, <1>3, <1>4, <1>5, <1>6, <1>7, <2>1 DEF Housed
  <2> QED BY <1>a, <1>b, <1>1, <1>2, <1>3, <1>4, <1>5, <1>6, <1>7, <2>a, <2>1, <2>2, <2>3, SessionFacts, HousedKept
<1>11. Fated'
  BY <1>a, <1>b, <1>1, <1>2, <1>3, <1>4, <1>5, <1>6, <1>7 DEF Fated, Wanted
<1>12. Shelved'
  <2> SUFFICES ASSUME NEW s \in Session, fate'[s] = "kept", live'[s].name = "none"
               PROVE  \E i \in Id : Holds(i, s)' /\ (op'.at = "returned" => i # op'.id)
    BY DEF Shelved
  <2>1. PICK i \in Id : Holds(i, s)
    BY <1>a, <1>b, <1>1, <1>2, <1>3, <1>4, <1>5, <1>6, <1>7 DEF Shelved
  <2> QED BY <1>a, <1>b, <1>1, <1>2, <1>3, <1>4, <1>5, <1>6, <1>7, <2>1 DEF Holds, Complete
<1>13. Packing'
  BY <1>a, <1>b, <1>1, <1>2, <1>3, <1>4, <1>5, <1>6, <1>7 DEF Packing
<1> QED BY <1>8, <1>9, <1>10, <1>11, <1>12, <1>13 DEF LogsInv

LEMMA SessionDropsKeeps ==
  ASSUME NamesInv, LogsInv, Windows = {}, SessionDrops
  PROVE  LogsInv'
<1>a. "none" \notin Name /\ Stages
  BY FilesAssumption, StagesHold DEF NamesInv
<1>b. Readable /\ Appending /\ AtHome /\ Fated /\ Shelved /\ Packing
  BY DEF LogsInv
<1>c. Rooted /\ Moving /\ Apart /\ Archiving /\ Current /\ Flushing
  BY DEF NamesInv
<1>1. PICK c \in Name : c = op.name
  BY <1>a DEF Stages
<1> DEFINE l == [s \in Session |-> IF s \in op.who THEN [live[s] EXCEPT !.name = "none"] ELSE live[s]]
             r == RecordsFor(l, c)
<1>2. /\ live' = l /\ FlushTask(l, c, TRUE)
  BY <1>1 DEF SessionDrops
<1>3. /\ erase' = erase /\ disk' = disk /\ archive' = archive /\ fate' = fate
      /\ scope' = scope /\ op.kind = "session"
  BY DEF SessionDrops
<1>4. /\ op.at = "committed" /\ op'.at = "dropped" /\ op'.kind = op.kind /\ op'.name = c /\ op.name = c
      /\ op'.who = op.who /\ op'.id = op.id
  BY <1>1, OpType DEF SessionDrops, NamesInv, Typed
<1>5. op.kind \notin {"idle", "delete"} =>
        /\ scope.kind # "idle" => c # scope.from
        /\ scope.kind = "rename" => c # scope.to
  BY <1>a, <1>c, <1>1 DEF Apart, Stages
<1>6. op.who \subseteq Session /\ \A s \in op.who : live[s].name = c /\ ~flush[s].on
  BY <1>a, <1>b, <1>c, <1>1, <1>3, <1>4 DEF Archiving, Packing, SessionsFor, Stages
<1>7. /\ l \in [Session -> LiveRec]
      /\ \A s \in Session : /\ live'[s].name = IF s \in op.who THEN "none" ELSE live[s].name
                            /\ live'[s].seq = live[s].seq /\ live'[s].flushed = live[s].flushed
                            /\ l[s].name = live'[s].name
                            /\ l[s].seq = live[s].seq /\ l[s].flushed = live[s].flushed
  <2>1. live \in [Session -> LiveRec]
    BY DEF NamesInv, Typed
  <2> QED BY <1>2, <2>1 DEF LiveRec
<1>8. \A s \in Session : /\ live'[s].name = IF s \in op.who THEN "none" ELSE live[s].name
                         /\ live'[s].seq = live[s].seq /\ live'[s].flushed = live[s].flushed
  BY <1>7
<1>9. /\ writes' = [writes EXCEPT ![c] = Append(@, r)] /\ flush' = FlushAll(l, c)
  BY <1>2 DEF FlushTask
<1>10. r \in Saved /\ \A t \in Session : live'[t].name = c => r[t] # "none"
  BY <1>a, <1>2, <1>7, RecordsForType DEF RecordsFor
<1> HIDE DEF l, r
<1>11. /\ \A i \in DOMAIN writes'[c] : writes'[c][i] = r \/ (i \in DOMAIN writes[c] /\ writes'[c][i] = writes[c][i])
      /\ \A m \in Name : m # c => writes'[m] = writes[m]
  BY <1>9, <1>10, AppendType DEF NamesInv, Typed
<1>12. Place(c) = c /\ ~Retired(c)
  BY <1>a, <1>1, <1>3, <1>4, <1>5 DEF Place, Between, Retired, Stages
<1>13. \A s \in Session : flush'[s].on =>
        /\ flush'[s].from = live[s].flushed /\ flush'[s].upTo <= live[s].seq
        /\ \A m \in Records : Reads(disk[flush'[s].name].log[s], m) => flush'[s].from <= m
        /\ flush'[s] = flush[s] \/ (live'[s].name = c /\ live[s].flushed < live[s].seq)
  BY <1>a, <1>b, <1>6, <1>7, <1>9, <1>12, FlushesFit
<1>14. \A s \in Session : live[s].seq \in Nat /\ live[s].flushed \in Nat
  BY SessionFacts
<1>15. op.id \in Id
  BY <1>a, <1>3 DEF NamesInv, OpStage, Stages
<1>16. \A s \in op.who : Holds(op.id, s)
  BY <1>a, <1>b, <1>3, <1>4 DEF Packing, Holds, Complete, Reads, Stages
<1>17. Readable'
  BY <1>a, <1>b, <1>1, <1>3, <1>4, <1>5, <1>6, <1>8, <1>10, <1>11, <1>12, <1>13, <1>14, <1>15, <1>16 DEF Readable
<1>18. Appending'
  <2> SUFFICES ASSUME NEW s \in Session
               PROVE  /\ live'[s].flushed <= live'[s].seq
                      /\ flush'[s].on =>
                           /\ flush'[s].from = live'[s].flushed /\ flush'[s].upTo <= live'[s].seq
                           /\ \A j \in Records : Reads(disk'[flush'[s].name].log[s], j)
                                => flush'[s].from <= j
    BY DEF Appending
  <2>1. /\ live[s].flushed <= live[s].seq
        /\ flush[s].on =>
             /\ flush[s].from = live[s].flushed /\ flush[s].upTo <= live[s].seq
             /\ \A j \in Records : Reads(disk[flush[s].name].log[s], j) => flush[s].from <= j
    BY <1>b DEF Appending
  <2> QED BY <1>a, <1>1, <1>3, <1>4, <1>5, <1>6, <1>8, <1>10, <1>11, <1>12, <1>13, <1>14, <1>15, <1>16, <2>1, SessionFacts
<1>19. AtHome'
  <2> SUFFICES ASSUME NEW s \in Session, live'[s].name # "none" PROVE Housed(s)'
    BY DEF AtHome, Housed
  <2>a. PICK n \in Name : live'[s].name = n
    BY <1>a, <1>b, <1>1, <1>3, <1>4, <1>5, <1>6, <1>8, <1>10, <1>11, <1>12, <1>13, <1>14, <1>15, <1>16, SessionFacts
  <2>1. live[s].name = n /\ Housed(s)
    BY <1>a, <1>b, <1>1, <1>3, <1>4, <1>5, <1>6, <1>8, <1>10, <1>11, <1>12, <1>13, <1>14, <1>15, <1>16, <2>a DEF AtHome
  <2>2. ~Retired(n)' =>
          /\ ~Retired(n)
          /\ disk[Place(n)].saved[s] # "none" => disk'[Place(n)'].saved[s] # "none"
          /\ disk'[Place(n)'].log[s] = disk[Place(n)].log[s]
    BY <1>a, <1>b, <1>1, <1>3, <1>4, <1>5, <1>6, <1>8, <1>10, <1>11, <1>12, <1>13, <1>14, <1>15, <1>16, <2>1 DEF Place, Between, Retired, Stages
  <2>3. \A i \in DOMAIN writes'[n] : writes'[n][i][s] # "none"
    BY <1>a, <1>b, <1>1, <1>3, <1>4, <1>5, <1>6, <1>8, <1>10, <1>11, <1>12, <1>13, <1>14, <1>15, <1>16, <2>1 DEF Housed
  <2> QED BY <1>a, <1>b, <1>1, <1>3, <1>4, <1>5, <1>6, <1>8, <1>10, <1>11, <1>12, <1>13, <1>14, <1>15, <1>16, <2>a, <2>1, <2>2, <2>3, SessionFacts, HousedKept
<1>20. Fated'
  BY <1>a, <1>b, <1>1, <1>3, <1>4, <1>5, <1>6, <1>8, <1>10, <1>11, <1>12, <1>13, <1>14, <1>15, <1>16 DEF Fated, Wanted
<1>21. Shelved'
  <2> SUFFICES ASSUME NEW s \in Session, fate'[s] = "kept", live'[s].name = "none"
               PROVE  \E i \in Id : Holds(i, s)' /\ (op'.at = "returned" => i # op'.id)
    BY DEF Shelved
  <2>1. PICK i \in Id : Holds(i, s)
    BY <1>a, <1>b, <1>1, <1>3, <1>4, <1>5, <1>6, <1>8, <1>10, <1>11, <1>12, <1>13, <1>14, <1>15, <1>16 DEF Shelved
  <2> QED BY <1>a, <1>b, <1>1, <1>3, <1>4, <1>5, <1>6, <1>8, <1>10, <1>11, <1>12, <1>13, <1>14, <1>15, <1>16, <2>1 DEF Holds, Complete
<1>22. Packing'
  <2>1. \A s \in op.who : live'[s].name = "none" /\ ~flush'[s].on
    BY <1>a, <1>b, <1>1, <1>3, <1>4, <1>5, <1>6, <1>8, <1>10, <1>11, <1>12, <1>13, <1>14, <1>15, <1>16
  <2> QED BY <1>a, <1>b, <1>1, <1>3, <1>4, <1>5, <1>6, <1>8, <1>10, <1>11, <1>12, <1>13, <1>14, <1>15, <1>16, <2>1 DEF Packing
<1> QED BY <1>17, <1>18, <1>19, <1>20, <1>21, <1>22 DEF LogsInv

LEMMA SessionErasesKeeps ==
  ASSUME NamesInv, LogsInv, Windows = {}, SessionErases
  PROVE  LogsInv'
<1>a. "none" \notin Name /\ Stages
  BY FilesAssumption, StagesHold DEF NamesInv
<1>b. Readable /\ Appending /\ AtHome /\ Fated /\ Shelved /\ Packing
  BY DEF LogsInv
<1>c. Rooted /\ Moving /\ Apart /\ Archiving /\ Current /\ Flushing
  BY DEF NamesInv
<1>1. PICK c \in Name : c = op.name
  BY <1>a DEF Stages
<1>2. /\ live' = live /\ flush' = flush /\ erase' = erase /\ writes' = writes /\ archive' = archive
      /\ scope' = scope /\ fate' = fate
  BY DEF SessionErases
<1>3. /\ op.at = "dropped" /\ op'.at = "idle" /\ op'.kind = "idle" /\ op'.name = c /\ op.name = c
      /\ op'.who = {}
  BY <1>1, OpType DEF SessionErases, NamesInv, Typed
<1>4. op.who \subseteq Session /\ \A s \in op.who : live[s].name = "none" /\ ~flush[s].on
  BY <1>a, <1>b, <1>3 DEF Packing, Stages
<1>5. \A m \in Name, s \in Session :
        /\ disk'[m].saved = disk[m].saved
        /\ disk'[m].log[s] = IF m = c /\ s \in op.who THEN <<>> ELSE disk[m].log[s]
  <2>1. disk \in [Name -> DirRec]
    BY DEF NamesInv, Typed
  <2> QED BY <1>1, <2>1 DEF SessionErases, DirRec
<1>6. Reads(<<>>, 0) /\ 0 \in Records
  BY EmptyReads, FilesAssumption DEF Records
<1>7. \A m \in Name : Place(m)' = Place(m) /\ ~Retired(m)' /\ ~Retired(m) /\ Place(m) \in Name
  BY <1>a, <1>2, <1>3 DEF Place, Between, Retired, Stages
<1>8. \A s \in Session : flush[s].name \in Name
  BY SessionFacts
<1>9. Readable'
  BY <1>a, <1>b, <1>1, <1>2, <1>3, <1>4, <1>5, <1>6, <1>7, <1>8 DEF Readable
<1>10. Appending'
  <2> SUFFICES ASSUME NEW s \in Session
               PROVE  /\ live'[s].flushed <= live'[s].seq
                      /\ flush'[s].on =>
                           /\ flush'[s].from = live'[s].flushed /\ flush'[s].upTo <= live'[s].seq
                           /\ \A j \in Records : Reads(disk'[flush'[s].name].log[s], j)
                                => flush'[s].from <= j
    BY DEF Appending
  <2>1. /\ live[s].flushed <= live[s].seq
        /\ flush[s].on =>
             /\ flush[s].from = live[s].flushed /\ flush[s].upTo <= live[s].seq
             /\ \A j \in Records : Reads(disk[flush[s].name].log[s], j) => flush[s].from <= j
    BY <1>b DEF Appending
  <2> QED BY <1>a, <1>1, <1>2, <1>3, <1>4, <1>5, <1>6, <1>7, <1>8, <2>1, SessionFacts
<1>11. AtHome'
  <2> SUFFICES ASSUME NEW s \in Session, live'[s].name # "none" PROVE Housed(s)'
    BY DEF AtHome, Housed
  <2>a. PICK n \in Name : live'[s].name = n
    BY <1>a, <1>b, <1>1, <1>2, <1>3, <1>4, <1>5, <1>6, <1>7, <1>8, SessionFacts
  <2>1. live[s].name = n /\ Housed(s)
    BY <1>a, <1>b, <1>1, <1>2, <1>3, <1>4, <1>5, <1>6, <1>7, <1>8, <2>a DEF AtHome
  <2>2. ~Retired(n)' =>
          /\ ~Retired(n)
          /\ disk[Place(n)].saved[s] # "none" => disk'[Place(n)'].saved[s] # "none"
          /\ disk'[Place(n)'].log[s] = disk[Place(n)].log[s]
    BY <1>a, <1>b, <1>1, <1>2, <1>3, <1>4, <1>5, <1>6, <1>7, <1>8, <2>1 DEF Stages
  <2>3. \A i \in DOMAIN writes'[n] : writes'[n][i][s] # "none"
    BY <1>a, <1>b, <1>1, <1>2, <1>3, <1>4, <1>5, <1>6, <1>7, <1>8, <2>1 DEF Housed
  <2> QED BY <1>a, <1>b, <1>1, <1>2, <1>3, <1>4, <1>5, <1>6, <1>7, <1>8, <2>a, <2>1, <2>2, <2>3, SessionFacts, HousedKept
<1>12. Fated'
  BY <1>a, <1>b, <1>1, <1>2, <1>3, <1>4, <1>5, <1>6, <1>7, <1>8 DEF Fated, Wanted
<1>13. Shelved'
  <2> SUFFICES ASSUME NEW s \in Session, fate'[s] = "kept", live'[s].name = "none"
               PROVE  \E i \in Id : Holds(i, s)' /\ (op'.at = "returned" => i # op'.id)
    BY DEF Shelved
  <2>1. PICK i \in Id : Holds(i, s) /\ (op.at = "returned" => i # op.id)
    BY <1>a, <1>b, <1>1, <1>2, <1>3, <1>4, <1>5, <1>6, <1>7, <1>8 DEF Shelved
  <2> QED BY <1>a, <1>b, <1>1, <1>2, <1>3, <1>4, <1>5, <1>6, <1>7, <1>8, <2>1 DEF Holds, Complete, Stages
<1>14. Packing'
  BY <1>a, <1>b, <1>1, <1>2, <1>3, <1>4, <1>5, <1>6, <1>7, <1>8 DEF Packing
<1> QED BY <1>9, <1>10, <1>11, <1>12, <1>13, <1>14 DEF LogsInv

LEMMA RestoreMovesKeeps ==
  ASSUME NamesInv, LogsInv, Windows = {}, RestoreMoves
  PROVE  LogsInv'
<1>a. "none" \notin Name /\ Stages
  BY FilesAssumption, StagesHold DEF NamesInv
<1>b. Readable /\ Appending /\ AtHome /\ Fated /\ Shelved /\ Packing
  BY DEF LogsInv
<1>c. Rooted /\ Moving /\ Apart /\ Archiving /\ Current /\ Flushing
  BY DEF NamesInv
<1>1. PICK c \in Name : c = op.name
  BY <1>a DEF Stages
<1>2. /\ flush' = flush /\ erase' = erase /\ writes' = writes /\ archive' = archive
      /\ scope' = scope
  BY DEF RestoreMoves
<1>3. /\ op.at = "unpacked" /\ op'.at = "moved" /\ op'.kind = op.kind /\ op'.name = c /\ op.name = c
      /\ op'.who = op.who /\ op'.id = op.id
  BY <1>1, OpType DEF RestoreMoves, NamesInv, Typed
<1>4. op.kind \notin {"idle", "delete"} =>
        /\ scope.kind # "idle" => c # scope.from
        /\ scope.kind = "rename" => c # scope.to
  BY <1>a, <1>c, <1>1 DEF Apart, Stages
<1>5. /\ op.kind = "restore" /\ op.id \in Id /\ Complete(op.id) /\ archive[op.id].saved = op.who
      /\ op.who \subseteq Session /\ \A s \in op.who : live[s].name = "none"
  BY <1>a, <1>b, <1>c, <1>3 DEF Archiving, Packing, NamesInv, OpStage, Stages
<1>6. \A s \in op.who : ~flush[s].on /\ \A n \in Name : <<s, n>> \notin erase
  BY DEF RestoreMoves, Erased
<1>7. /\ \A s \in Session : /\ fate'[s] = IF s \in op.who THEN "kept" ELSE fate[s]
                            /\ live'[s].name = live[s].name
                            /\ ~(s \in op.who /\ fate[s] = "deleted") =>
                                 live'[s].seq = live[s].seq /\ live'[s].flushed = live[s].flushed
      /\ \A s \in op.who : fate[s] = "deleted" =>
           \E m \in Records : /\ live'[s].seq = m /\ live'[s].flushed = m
                              /\ Reads(archive[op.id].log[s], m)
  <2>1. BringsBack
    BY DEF RestoreMoves
  <2>2. \A s \in op.who : \E m \in Records : Reads(archive[op.id].log[s], m)
    BY <1>5, <1>b DEF Readable
  <2>3. Records \subseteq Nat
    BY FilesAssumption DEF Records
  <2>4. \A s \in op.who : fate[s] = "deleted" =>
          LET k == Cardinality(ReadLog(archive[op.id].log[s]))
          IN  live'[s].seq = k /\ live'[s].flushed = k
    BY <1>5, <2>1, BringsBackType DEF NamesInv, Typed
  <2>5. \A s \in op.who : fate[s] = "deleted" =>
          \E m \in Records : /\ live'[s].seq = m /\ live'[s].flushed = m
                             /\ Reads(archive[op.id].log[s], m)
    BY <2>2, <2>3, <2>4, ReadsCount
  <2> QED BY <1>5, <2>1, <2>5, BringsBackType DEF NamesInv, Typed
<1>8. \A s \in Session : /\ live'[s].flushed <= live'[s].seq
                         /\ s \notin op.who => live'[s].seq = live[s].seq /\ live'[s].flushed = live[s].flushed
  <2>1. \A m \in Records : m <= m
    BY FilesAssumption DEF Records
  <2> QED BY <1>7, <1>b, <2>1 DEF Appending
<1>9. /\ \A s \in Session : disk'[c].log[s] = archive[op.id].log[s]
      /\ \A m \in Name : m # c => disk'[m] = disk[m]
  <2>1. disk \in [Name -> DirRec] /\ archive[op.id] \in FileRec
    BY <1>5 DEF NamesInv, Typed
  <2> QED BY <1>1, <2>1 DEF RestoreMoves, FileRec
<1>10. \A s \in Session : live[s].name # c /\ (flush[s].on => flush[s].name # c)
  <2>1. RootedAt(c) /\ ~disk[c].scope
    BY <1>c, <1>1, <1>3 DEF Rooted, Archiving
  <2> QED BY <1>a, <1>3, <1>4, <1>5, <2>1 DEF RootedAt, Between, Retired, Stages
<1>11. \A m \in Name : /\ Place(m)' = Place(m) /\ ~Retired(m)' /\ ~Retired(m)
                       /\ Place(m) \in Name /\ (m # c => Place(m) # c)
  BY <1>a, <1>2, <1>3, <1>4, <1>5 DEF Place, Between, Retired, Stages
<1>12. \A s \in Session : flush[s].name \in Name
  BY SessionFacts
<1>13. Readable'
  BY <1>a, <1>b, <1>1, <1>2, <1>3, <1>4, <1>5, <1>6, <1>7, <1>8, <1>9, <1>10, <1>11, <1>12 DEF Readable
<1>14. Appending'
  <2> SUFFICES ASSUME NEW s \in Session
               PROVE  /\ live'[s].flushed <= live'[s].seq
                      /\ flush'[s].on =>
                           /\ flush'[s].from = live'[s].flushed /\ flush'[s].upTo <= live'[s].seq
                           /\ \A j \in Records : Reads(disk'[flush'[s].name].log[s], j)
                                => flush'[s].from <= j
    BY DEF Appending
  <2>1. /\ live[s].flushed <= live[s].seq
        /\ flush[s].on =>
             /\ flush[s].from = live[s].flushed /\ flush[s].upTo <= live[s].seq
             /\ \A j \in Records : Reads(disk[flush[s].name].log[s], j) => flush[s].from <= j
    BY <1>b DEF Appending
  <2> QED BY <1>a, <1>1, <1>2, <1>3, <1>4, <1>5, <1>6, <1>7, <1>8, <1>9, <1>10, <1>11, <1>12, <2>1, SessionFacts
<1>15. AtHome'
  <2> SUFFICES ASSUME NEW s \in Session, live'[s].name # "none" PROVE Housed(s)'
    BY DEF AtHome, Housed
  <2>a. PICK n \in Name : live'[s].name = n
    BY <1>a, <1>b, <1>1, <1>2, <1>3, <1>4, <1>5, <1>6, <1>7, <1>8, <1>9, <1>10, <1>11, <1>12, SessionFacts
  <2>1. live[s].name = n /\ Housed(s)
    BY <1>a, <1>b, <1>1, <1>2, <1>3, <1>4, <1>5, <1>6, <1>7, <1>8, <1>9, <1>10, <1>11, <1>12, <2>a DEF AtHome
  <2>2. ~Retired(n)' =>
          /\ ~Retired(n)
          /\ disk[Place(n)].saved[s] # "none" => disk'[Place(n)'].saved[s] # "none"
          /\ disk'[Place(n)'].log[s] = disk[Place(n)].log[s]
    BY <1>a, <1>b, <1>1, <1>2, <1>3, <1>4, <1>5, <1>6, <1>7, <1>8, <1>9, <1>10, <1>11, <1>12, <2>1 DEF Stages
  <2>3. \A i \in DOMAIN writes'[n] : writes'[n][i][s] # "none"
    BY <1>a, <1>b, <1>1, <1>2, <1>3, <1>4, <1>5, <1>6, <1>7, <1>8, <1>9, <1>10, <1>11, <1>12, <2>1 DEF Housed
  <2> QED BY <1>a, <1>b, <1>1, <1>2, <1>3, <1>4, <1>5, <1>6, <1>7, <1>8, <1>9, <1>10, <1>11, <1>12, <2>a, <2>1, <2>2, <2>3, SessionFacts, HousedKept
<1>16. Fated'
  BY <1>a, <1>b, <1>1, <1>2, <1>3, <1>4, <1>5, <1>6, <1>7, <1>8, <1>9, <1>10, <1>11, <1>12 DEF Fated, Wanted
<1>17. Shelved'
  <2> SUFFICES ASSUME NEW s \in Session, fate'[s] = "kept", live'[s].name = "none"
               PROVE  \E i \in Id : Holds(i, s)' /\ (op'.at = "returned" => i # op'.id)
    BY DEF Shelved
  <2>1. CASE s \in op.who /\ fate[s] = "deleted"
    <3>1. Holds(op.id, s)'
      BY <1>2, <1>3, <1>5, <1>7, <2>1 DEF Holds, Complete, Reads
    <3> QED BY <1>3, <1>5, <3>1
  <2>2. CASE ~(s \in op.who /\ fate[s] = "deleted")
    <3>1. fate[s] = "kept" /\ live[s].name = "none" /\ live'[s].seq = live[s].seq
      BY <1>7, <2>2 DEF NamesInv, Typed
    <3>2. PICK i \in Id : Holds(i, s)
      BY <1>b, <3>1 DEF Shelved
    <3> QED BY <1>2, <1>3, <3>1, <3>2 DEF Holds, Complete
  <2> QED BY <2>1, <2>2
<1>18. Packing'
  BY <1>a, <1>b, <1>1, <1>2, <1>3, <1>4, <1>5, <1>6, <1>7, <1>8, <1>9, <1>10, <1>11, <1>12 DEF Packing, Complete
<1> QED BY <1>13, <1>14, <1>15, <1>16, <1>17, <1>18 DEF LogsInv

LEMMA ReturnWritesKeeps ==
  ASSUME NamesInv, LogsInv, Windows = {}, ReturnWrites
  PROVE  LogsInv'
<1>a. "none" \notin Name /\ Stages
  BY FilesAssumption, StagesHold DEF NamesInv
<1>b. Readable /\ Appending /\ AtHome /\ Fated /\ Shelved /\ Packing
  BY DEF LogsInv
<1>c. Rooted /\ Moving /\ Apart /\ Archiving /\ Current /\ Flushing
  BY DEF NamesInv
<1>1. PICK c \in Name : c = op.name
  BY <1>a DEF Stages
<1>2. /\ flush' = flush /\ erase' = erase /\ archive' = archive /\ scope' = scope
  BY DEF ReturnWrites
<1>3. /\ op.at = "copy" /\ op'.at = "written" /\ op'.kind = op.kind /\ op'.name = c /\ op.name = c
      /\ op'.who = op.who /\ op'.id = op.id
  BY <1>1, OpType DEF ReturnWrites, NamesInv, Typed
<1>4. op.kind \notin {"idle", "delete"} =>
        /\ scope.kind # "idle" => c # scope.from
        /\ scope.kind = "rename" => c # scope.to
  BY <1>a, <1>c, <1>1 DEF Apart, Stages
<1>5. /\ op.kind = "return" /\ op.id \in Id /\ Complete(op.id) /\ archive[op.id].saved = op.who
      /\ op.who \subseteq Session /\ \A s \in op.who : live[s].name = "none"
  BY <1>a, <1>b, <1>c, <1>3 DEF Archiving, Packing, NamesInv, OpStage, Stages
<1>6. \A s \in op.who : ~flush[s].on /\ \A n \in Name : <<s, n>> \notin erase
  BY DEF ReturnWrites, Erased
<1>7. /\ \A s \in Session : /\ fate'[s] = IF s \in op.who THEN "kept" ELSE fate[s]
                            /\ live'[s].name = live[s].name
                            /\ ~(s \in op.who /\ fate[s] = "deleted") =>
                                 live'[s].seq = live[s].seq /\ live'[s].flushed = live[s].flushed
      /\ \A s \in op.who : fate[s] = "deleted" =>
           \E m \in Records : /\ live'[s].seq = m /\ live'[s].flushed = m
                              /\ Reads(archive[op.id].log[s], m)
  <2>1. BringsBack
    BY DEF ReturnWrites
  <2>2. \A s \in op.who : \E m \in Records : Reads(archive[op.id].log[s], m)
    BY <1>5, <1>b DEF Readable
  <2>3. Records \subseteq Nat
    BY FilesAssumption DEF Records
  <2>4. \A s \in op.who : fate[s] = "deleted" =>
          LET k == Cardinality(ReadLog(archive[op.id].log[s]))
          IN  live'[s].seq = k /\ live'[s].flushed = k
    BY <1>5, <2>1, BringsBackType DEF NamesInv, Typed
  <2>5. \A s \in op.who : fate[s] = "deleted" =>
          \E m \in Records : /\ live'[s].seq = m /\ live'[s].flushed = m
                             /\ Reads(archive[op.id].log[s], m)
    BY <2>2, <2>3, <2>4, ReadsCount
  <2> QED BY <1>5, <2>1, <2>5, BringsBackType DEF NamesInv, Typed
<1>8. \A s \in Session : /\ live'[s].flushed <= live'[s].seq
                         /\ s \notin op.who => live'[s].seq = live[s].seq /\ live'[s].flushed = live[s].flushed
  <2>1. \A m \in Records : m <= m
    BY FilesAssumption DEF Records
  <2> QED BY <1>7, <1>b, <2>1 DEF Appending
<1>9. \A m \in Name, s \in Session :
        /\ disk'[m].saved = disk[m].saved
        /\ disk'[m].log[s] = IF m = c /\ s \in op.who THEN archive[op.id].log[s] ELSE disk[m].log[s]
  <2>1. disk \in [Name -> DirRec] /\ archive[op.id] \in FileRec
    BY <1>5 DEF NamesInv, Typed
  <2> QED BY <1>1, <2>1 DEF ReturnWrites, DirRec, FileRec
<1> DEFINE r == [s \in Session |-> IF s \in op.who THEN c ELSE disk[c].saved[s]]
<1>10. writes' = [writes EXCEPT ![c] = Append(@, r)]
  BY <1>1 DEF ReturnWrites
<1>11. r \in Saved
  <2>1. disk[c] \in DirRec
    BY DEF NamesInv, Typed
  <2> QED BY <2>1 DEF DirRec, Saved
<1>12. \A s \in Session : live[s].name = c => r[s] # "none"
  <2>1. disk[c].saved = RecordsFor(live, c)
    BY <1>c, <1>3 DEF Current, Told
  <2> QED BY <1>a, <2>1 DEF RecordsFor
<1> HIDE DEF r
<1>13. /\ \A i \in DOMAIN writes'[c] : writes'[c][i] = r \/ (i \in DOMAIN writes[c] /\ writes'[c][i] = writes[c][i])
      /\ \A m \in Name : m # c => writes'[m] = writes[m]
  BY <1>10, <1>11, AppendType DEF NamesInv, Typed
<1>14. \A m \in Name : Place(m)' = Place(m) /\ ~Retired(m)' /\ ~Retired(m) /\ Place(m) \in Name
  BY <1>a, <1>2, <1>3 DEF Place, Between, Retired, Stages
<1>15. \A s \in Session : flush[s].name \in Name
  BY SessionFacts
<1>16. Readable'
  BY <1>a, <1>b, <1>1, <1>2, <1>3, <1>4, <1>5, <1>6, <1>7, <1>8, <1>9, <1>12, <1>13, <1>14, <1>15 DEF Readable
<1>17. Appending'
  <2> SUFFICES ASSUME NEW s \in Session
               PROVE  /\ live'[s].flushed <= live'[s].seq
                      /\ flush'[s].on =>
                           /\ flush'[s].from = live'[s].flushed /\ flush'[s].upTo <= live'[s].seq
                           /\ \A j \in Records : Reads(disk'[flush'[s].name].log[s], j)
                                => flush'[s].from <= j
    BY DEF Appending
  <2>1. /\ live[s].flushed <= live[s].seq
        /\ flush[s].on =>
             /\ flush[s].from = live[s].flushed /\ flush[s].upTo <= live[s].seq
             /\ \A j \in Records : Reads(disk[flush[s].name].log[s], j) => flush[s].from <= j
    BY <1>b DEF Appending
  <2> QED BY <1>a, <1>1, <1>2, <1>3, <1>4, <1>5, <1>6, <1>7, <1>8, <1>9, <1>12, <1>13, <1>14, <1>15, <2>1, SessionFacts
<1>18. AtHome'
  <2> SUFFICES ASSUME NEW s \in Session, live'[s].name # "none" PROVE Housed(s)'
    BY DEF AtHome, Housed
  <2>a. PICK n \in Name : live'[s].name = n
    BY <1>a, <1>b, <1>1, <1>2, <1>3, <1>4, <1>5, <1>6, <1>7, <1>8, <1>9, <1>12, <1>13, <1>14, <1>15, SessionFacts
  <2>1. live[s].name = n /\ Housed(s)
    BY <1>a, <1>b, <1>1, <1>2, <1>3, <1>4, <1>5, <1>6, <1>7, <1>8, <1>9, <1>12, <1>13, <1>14, <1>15, <2>a DEF AtHome
  <2>2. ~Retired(n)' =>
          /\ ~Retired(n)
          /\ disk[Place(n)].saved[s] # "none" => disk'[Place(n)'].saved[s] # "none"
          /\ disk'[Place(n)'].log[s] = disk[Place(n)].log[s]
    BY <1>a, <1>b, <1>1, <1>2, <1>3, <1>4, <1>5, <1>6, <1>7, <1>8, <1>9, <1>12, <1>13, <1>14, <1>15, <2>1 DEF Stages
  <2>3. \A i \in DOMAIN writes'[n] : writes'[n][i][s] # "none"
    BY <1>a, <1>b, <1>1, <1>2, <1>3, <1>4, <1>5, <1>6, <1>7, <1>8, <1>9, <1>12, <1>13, <1>14, <1>15, <2>1 DEF Housed
  <2> QED BY <1>a, <1>b, <1>1, <1>2, <1>3, <1>4, <1>5, <1>6, <1>7, <1>8, <1>9, <1>12, <1>13, <1>14, <1>15, <2>a, <2>1, <2>2, <2>3, SessionFacts, HousedKept
<1>19. Fated'
  BY <1>a, <1>b, <1>1, <1>2, <1>3, <1>4, <1>5, <1>6, <1>7, <1>8, <1>9, <1>12, <1>13, <1>14, <1>15 DEF Fated, Wanted
<1>20. Shelved'
  <2> SUFFICES ASSUME NEW s \in Session, fate'[s] = "kept", live'[s].name = "none"
               PROVE  \E i \in Id : Holds(i, s)' /\ (op'.at = "returned" => i # op'.id)
    BY DEF Shelved
  <2>1. CASE s \in op.who /\ fate[s] = "deleted"
    <3>1. Holds(op.id, s)'
      BY <1>2, <1>3, <1>5, <1>7, <2>1 DEF Holds, Complete, Reads
    <3> QED BY <1>3, <1>5, <3>1
  <2>2. CASE ~(s \in op.who /\ fate[s] = "deleted")
    <3>1. fate[s] = "kept" /\ live[s].name = "none" /\ live'[s].seq = live[s].seq
      BY <1>7, <2>2 DEF NamesInv, Typed
    <3>2. PICK i \in Id : Holds(i, s)
      BY <1>b, <3>1 DEF Shelved
    <3> QED BY <1>2, <1>3, <3>1, <3>2 DEF Holds, Complete
  <2> QED BY <2>1, <2>2
<1>21. Packing'
  BY <1>a, <1>b, <1>1, <1>2, <1>3, <1>4, <1>5, <1>6, <1>7, <1>8, <1>9, <1>12, <1>13, <1>14, <1>15 DEF Packing, Complete
<1> QED BY <1>16, <1>17, <1>18, <1>19, <1>20, <1>21 DEF LogsInv

LEMMA RestoreReturnsKeeps ==
  ASSUME NamesInv, LogsInv, Windows = {}, RestoreReturns
  PROVE  LogsInv'
<1>a. "none" \notin Name /\ Stages
  BY FilesAssumption, StagesHold DEF NamesInv
<1>b. Readable /\ Appending /\ AtHome /\ Fated /\ Shelved /\ Packing
  BY DEF LogsInv
<1>c. Rooted /\ Moving /\ Apart /\ Archiving /\ Current /\ Flushing
  BY DEF NamesInv
<1>1. PICK c \in Name : c = op.name
  BY <1>a DEF Stages
<1>2. /\ flush' = flush /\ erase' = erase /\ writes' = writes /\ archive' = archive
      /\ scope' = scope /\ disk' = disk /\ fate' = fate
  BY DEF RestoreReturns
<1>3. /\ op.at \in {"moved", "written"} /\ op'.at = "returned" /\ op'.kind = op.kind /\ op'.name = c
      /\ op.name = c /\ op'.who = op.who /\ op'.id = op.id
  BY <1>1, OpType DEF RestoreReturns, NamesInv, Typed
<1>4. op.kind \notin {"idle", "delete"} =>
        /\ scope.kind # "idle" => c # scope.from
        /\ scope.kind = "rename" => c # scope.to
  BY <1>a, <1>c, <1>1 DEF Apart, Stages
<1>5. /\ op.kind \in {"restore", "return"} /\ op.id \in Id /\ archive[op.id].saved = op.who
      /\ op.who \subseteq Session /\ \A s \in op.who : live[s].name = "none" /\ ~flush[s].on
  BY <1>a, <1>b, <1>c, <1>3 DEF Archiving, Packing, Flushing, NamesInv, OpStage, Stages
<1>6. \A s \in Session : s \notin op.who => live'[s] = live[s]
  BY <1>1 DEF RestoreReturns
<1>7. \A s \in op.who : /\ live'[s].name = c
                        /\ \E m \in Records : /\ live'[s].seq = m /\ live'[s].flushed = m
                                              /\ m \in Nat /\ Reads(disk[c].log[s], m)
  <2> SUFFICES ASSUME NEW s \in op.who
               PROVE  /\ live'[s].name = c
                      /\ \E m \in Records : /\ live'[s].seq = m /\ live'[s].flushed = m
                                            /\ m \in Nat /\ Reads(disk[c].log[s], m)
    OBVIOUS
  <2>1. PICK m \in Records : Reads(disk[c].log[s], m)
    BY <1>5, <1>b DEF Readable
  <2>2. m \in Nat
    BY FilesAssumption DEF Records
  <2>3. Cardinality(ReadLog(disk[c].log[s])) = m
    BY <2>1, <2>2, ReadsCount
  <2>4. live'[s] = Restored(s, c)
    BY <1>1, <1>5 DEF RestoreReturns
  <2> QED BY <2>1, <2>2, <2>3, <2>4 DEF Restored
<1>8. \A m \in Name : Place(m)' = Place(m) /\ ~Retired(m)' /\ ~Retired(m) /\ Place(m) \in Name
  BY <1>a, <1>2, <1>3 DEF Place, Between, Retired, Stages
<1>9. Place(c) = c
  BY <1>a, <1>4, <1>5 DEF Place, Between, Stages
<1>10. writes[c] = <<>> /\ DOMAIN writes[c] = {}
  BY <1>c, <1>1, <1>3 DEF Archiving, RestoreReturns
<1>11. \A s \in op.who : disk[c].saved[s] # "none"
  <2>1. ~Behind(c)
    BY <1>a, <1>c, <1>3, <1>4, <1>5 DEF Behind, Archiving, Retired, Stages
  <2>2. disk[c].saved = Due(c)
    BY <1>10, <1>c, <2>1 DEF Current, Told, Final
  <2> QED BY <1>a, <1>3, <1>5, <2>2 DEF Due
<1>12. Readable'
  BY <1>a, <1>b, <1>1, <1>2, <1>3, <1>4, <1>5, <1>6, <1>7, <1>8, <1>9, <1>10, <1>11 DEF Readable
<1>13. Appending'
  <2> SUFFICES ASSUME NEW s \in Session
               PROVE  /\ live'[s].flushed <= live'[s].seq
                      /\ flush'[s].on =>
                           /\ flush'[s].from = live'[s].flushed /\ flush'[s].upTo <= live'[s].seq
                           /\ \A j \in Records : Reads(disk'[flush'[s].name].log[s], j)
                                => flush'[s].from <= j
    BY DEF Appending
  <2>1. CASE s \in op.who
    BY <1>2, <1>5, <1>7, <2>1
  <2>2. CASE s \notin op.who
    BY <1>2, <1>6, <1>b, <2>2 DEF Appending
  <2> QED BY <2>1, <2>2
<1>14. AtHome'
  <2> SUFFICES ASSUME NEW s \in Session, live'[s].name # "none" PROVE Housed(s)'
    BY DEF AtHome, Housed
  <2>a. PICK n \in Name : live'[s].name = n
    BY <1>a, <1>b, <1>1, <1>2, <1>3, <1>4, <1>5, <1>6, <1>7, <1>8, <1>9, <1>10, <1>11, SessionFacts
  <2>1. CASE s \in op.who
    <3>1. n = c
      BY <1>7, <2>a, <2>1
    <3>2. PICK m \in Records : live'[s].seq = m /\ live'[s].flushed = m /\ m \in Nat
                               /\ Reads(disk[c].log[s], m)
      BY <1>7, <2>1
    <3>3. m \in live'[s].flushed..live'[s].seq
      BY <3>2
    <3>4. Place(live[s].name)' = c
      BY <1>8, <1>9, <2>a, <3>1 DEF Place, Between
    <3> QED BY <1>2, <1>10, <1>11, <2>a, <2>1, <3>1, <3>2, <3>3, <3>4 DEF Housed
  <2>2. CASE s \notin op.who
    <3>1. live[s].name = n /\ Housed(s)
      BY <1>6, <1>a, <1>b, <2>a, <2>2 DEF AtHome
    <3>2. \A i \in DOMAIN writes'[n] : writes'[n][i][s] # "none"
      BY <1>a, <1>2, <3>1 DEF Housed
    <3> QED BY <1>a, <1>2, <1>6, <1>8, <2>a, <2>2, <3>1, <3>2, SessionFacts, HousedKept
  <2> QED BY <2>1, <2>2
<1>15. Fated'
  <2> SUFFICES ASSUME NEW s \in Session, Wanted(s)'
               PROVE  fate'[s] = "kept" /\ \A n \in Name : <<s, n>> \notin erase'
    BY DEF Fated
  <2>1. Wanted(s)
    BY <1>3, <1>6 DEF Wanted
  <2> QED BY <1>2, <1>b, <2>1 DEF Fated
<1>16. Shelved'
  <2> SUFFICES ASSUME NEW s \in Session, fate'[s] = "kept", live'[s].name = "none"
               PROVE  \E i \in Id : Holds(i, s)' /\ (op'.at = "returned" => i # op'.id)
    BY DEF Shelved
  <2>1. s \notin op.who /\ live'[s] = live[s]
    BY <1>a, <1>6, <1>7
  <2>2. PICK i \in Id : Holds(i, s)
    BY <1>2, <1>b, <2>1 DEF Shelved
  <2>3. i # op.id
    BY <1>5, <2>1, <2>2 DEF Holds
  <2> QED BY <1>2, <1>3, <2>1, <2>2, <2>3 DEF Holds, Complete
<1>17. Packing'
  BY <1>a, <1>b, <1>1, <1>2, <1>3, <1>4, <1>5, <1>6, <1>7, <1>8, <1>9, <1>10, <1>11 DEF Packing
<1> QED BY <1>12, <1>13, <1>14, <1>15, <1>16, <1>17 DEF LogsInv

(* A restart finds every session where memory had it.                        *)
LEMMA CrashKeeps ==
  ASSUME NamesInv, LogsInv, Windows = {}, Crash
  PROVE  LogsInv'
<1>a. "none" \notin Name /\ Stages
  BY FilesAssumption, StagesHold DEF NamesInv
<1>b. Readable /\ Appending /\ AtHome /\ Fated /\ Shelved /\ Packing
  BY DEF LogsInv
<1>c. Rooted /\ Moving
  BY DEF NamesInv
<1>1. /\ disk' = disk /\ archive' = archive /\ erase' = {} /\ scope' = NoMove
      /\ op'.kind = "idle" /\ op'.at = "idle"
      /\ \A n \in Name : DOMAIN writes'[n] = {}
      /\ \A s \in Session : ~flush'[s].on
      /\ \A s \in Session : fate'[s] = IF Homes(s) = {} THEN fate[s] ELSE "kept"
  <2>1. DOMAIN (<<>>) = {}
    OBVIOUS
  <2>2. \A n \in Name : DOMAIN writes'[n] = {}
    BY <2>1 DEF Crash
  <2>3. op'.kind = "idle" /\ op'.at = "idle"
    BY OpType DEF Crash, NamesInv, Typed
  <2> QED BY <2>2, <2>3 DEF Crash, NoFlush
<1>2. \A n \in Name : Place(n)' = n /\ ~Retired(n)'
  BY <1>1 DEF Place, Between, Retired, NoMove
<1>3. ASSUME NEW s \in Session, Homes(s) # {}
      PROVE  \E n \in Name, m \in Records :
               /\ live'[s].name = n /\ disk[n].saved[s] # "none" /\ m \in Nat
               /\ live'[s].seq = m /\ live'[s].flushed = m /\ Reads(disk[n].log[s], m)
  <2>1. PICK n \in Homes(s) : /\ live'[s].name = disk[n].saved[s]
                              /\ live'[s].seq = Restored(s, n).seq
                              /\ live'[s].flushed = Restored(s, n).flushed
    BY <1>3, CrashLive DEF NamesInv
  <2>2. n \in Name /\ disk[n].saved[s] = n
    BY <2>1 DEF Crash, Homes
  <2>3. PICK m \in Records : Reads(disk[n].log[s], m)
    BY <1>b, <2>2 DEF Readable
  <2>4. m \in Nat
    BY FilesAssumption DEF Records
  <2>5. Cardinality(ReadLog(disk[n].log[s])) = m
    BY <2>3, <2>4, ReadsCount
  <2> QED BY <1>a, <2>1, <2>2, <2>3, <2>4, <2>5 DEF Restored
<1>4. ASSUME NEW s \in Session, Homes(s) = {}
      PROVE  /\ live'[s].name = "none" /\ live'[s].seq = live[s].seq
             /\ live'[s].flushed = live[s].flushed /\ fate'[s] = fate[s]
  BY <1>1, <1>4, CrashLive DEF NamesInv
<1>5. ASSUME NEW s \in Session, NEW n \in Name, Homes(s) = {}, live[s].name = n
      PROVE  Retired(n)
  <2> SUFFICES ASSUME ~Retired(n) PROVE FALSE
    OBVIOUS
  <2>1. Place(n) \in Name /\ disk[Place(n)].saved[s] # "none"
    BY <1>a, <1>b, <1>5 DEF AtHome, Housed, Place, Stages
  <2>2. disk[Place(n)].scope
    BY <1>c, <2>1 DEF Rooted, RootedAt, Nothing
  <2> QED BY <1>5, <2>1, <2>2 DEF Homes
<1>6. Readable'
  BY <1>b, <1>1 DEF Readable
<1>7. Appending'
  <2> SUFFICES ASSUME NEW s \in Session PROVE live'[s].flushed <= live'[s].seq
    BY <1>1 DEF Appending
  <2>1. CASE Homes(s) = {}
    BY <1>4, <1>b, <2>1 DEF Appending
  <2>2. CASE Homes(s) # {}
    BY <1>3, <2>2
  <2> QED BY <2>1, <2>2
<1>8. AtHome'
  <2> SUFFICES ASSUME NEW s \in Session, live'[s].name # "none" PROVE Housed(s)'
    BY DEF AtHome, Housed
  <2>1. PICK n \in Name, m \in Records :
          /\ live'[s].name = n /\ disk[n].saved[s] # "none" /\ m \in Nat
          /\ live'[s].seq = m /\ live'[s].flushed = m /\ Reads(disk[n].log[s], m)
    BY <1>3, <1>4
  <2>2. m \in live'[s].flushed..live'[s].seq
    BY <2>1
  <2>3. Place(live[s].name)' = n
    BY <1>1, <2>1 DEF Place, Between, NoMove
  <2> QED BY <1>1, <2>1, <2>2, <2>3 DEF Housed
<1>9. Fated'
  BY <1>1, <1>3, <1>4 DEF Fated, Wanted
<1>10. Shelved'
  <2> SUFFICES ASSUME NEW s \in Session, fate'[s] = "kept", live'[s].name = "none"
               PROVE  \E i \in Id : Holds(i, s)' /\ (op'.at = "returned" => i # op'.id)
    BY DEF Shelved
  <2>1. Homes(s) = {}
    BY <1>a, <1>3
  <2>2. \E i \in Id : Holds(i, s)
    <3>1. CASE live[s].name = "none"
      BY <1>4, <1>b, <2>1, <3>1 DEF Shelved
    <3>2. CASE live[s].name # "none"
      <4>1. PICK n \in Name : live[s].name = n
        BY <3>2, SessionFacts
      <4>2. op.at = "retired" /\ n = op.name /\ op.kind = "scope"
        BY <1>5, <1>a, <2>1, <4>1 DEF Retired, Stages
      <4>3. op.id \in Id
        BY <4>2 DEF NamesInv, OpStage
      <4>4. Holds(op.id, s)
        BY <1>b, <4>1, <4>2 DEF Packing, Holds, Complete, SessionsFor, Reads
      <4> QED BY <4>3, <4>4
    <3> QED BY <3>1, <3>2
  <2> QED BY <1>1, <1>4, <2>1, <2>2 DEF Holds, Complete
<1>11. Packing'
  BY <1>1 DEF Packing
<1> QED BY <1>6, <1>7, <1>8, <1>9, <1>10, <1>11 DEF LogsInv

LEMMA LogsInit == Init => LogsInv
<1> SUFFICES ASSUME Init PROVE LogsInv
  OBVIOUS
<1>a. "none" \notin Name /\ Home \in Name /\ 0 \in Records /\ Reads(<<>>, 0)
  BY FilesAssumption, EmptyReads DEF Records
<1>1. /\ \A s \in Session : /\ live[s].name = Home /\ live[s].seq = 0 /\ live[s].flushed = 0
                            /\ ~flush[s].on /\ fate[s] = "kept"
      /\ \A n \in Name, s \in Session : disk[n].log[s] = <<>>
      /\ \A s \in Session : disk[Home].saved[s] = Home
      /\ \A i \in Id, s \in Session : archive[i].log[s] = <<>>
      /\ erase = {} /\ op.at = "idle" /\ op.kind = "idle" /\ DOMAIN writes[Home] = {}
      /\ scope.at = "idle"
  <2>1. DOMAIN (<<>>) = {}
    OBVIOUS
  <2>2. DOMAIN writes[Home] = {} /\ erase = {}
    BY <1>a, <2>1 DEF Init
  <2>3. \A n \in Name, s \in Session : disk[n].log[s] = <<>>
    BY DEF Init, NoDir, NoLogs
  <2>4. \A s \in Session : disk[Home].saved[s] = Home
    BY <1>a DEF Init, NoDir
  <2>5. \A i \in Id, s \in Session : archive[i].log[s] = <<>>
    BY DEF Init, NoFile, NoLogs
  <2>6. op.at = "idle" /\ op.kind = "idle" /\ scope.at = "idle"
    BY DEF Init, NoMove
  <2> QED BY <2>2, <2>3, <2>4, <2>5, <2>6 DEF Init, NoFlush
<1>2. Readable
  BY <1>a, <1>1 DEF Readable
<1>3. Appending
  BY <1>1 DEF Appending
<1>4. AtHome
  <2>1. 0 \in 0..0
    OBVIOUS
  <2> QED BY <1>a, <1>1, <2>1 DEF AtHome, Housed, Place, Between, Retired
<1>5. Fated
  BY <1>1 DEF Fated
<1>6. Shelved
  BY <1>a, <1>1 DEF Shelved
<1>7. Packing
  BY <1>1 DEF Packing
<1> QED BY <1>2, <1>3, <1>4, <1>5, <1>6, <1>7 DEF LogsInv

LEMMA LogsNext ==
  ASSUME NamesInv, LogsInv, Windows = {}, [Next]_vars
  PROVE  LogsInv'
<1>1. ASSUME NEW s \in Session, \/ Prompt(s) \/ Record(s) \/ TurnEnds(s) \/ DeleteSession(s)
                                \/ AppendLands(s) \/ AppendFails(s)
      PROVE  LogsInv'
  BY <1>1, PromptKeeps, RecordKeeps, QuietSteps, DeleteSessionKeeps, AppendKeeps
<1>2. ASSUME NEW n \in Name, \/ StatusChanges(n) \/ TimerFires(n) \/ WriteLands(n)
                             \/ CreateTask(n) \/ DeleteTask(n) \/ \E m \in Name : RenameTask(n, m)
      PROVE  LogsInv'
  BY <1>2, QuietSteps, TimerKeeps, WriteKeeps
<1>3. ASSUME NEW s \in Session, NEW n \in Name, EraseLog(s, n) PROVE LogsInv'
  BY <1>3, EraseKeeps
<1>4. ASSUME ScopeStops \/ DeleteDrops \/ DeleteRemoves \/ RenameMoves \/ RenameEnds PROVE LogsInv'
  BY <1>4, QuietSteps, DropsKeep, RemovesKeep, MovesKeep, EndsKeep
<1>5. ASSUME NEW i \in Id, NEW n \in Name, ArchiveScope(n, i) PROVE LogsInv'
  BY <1>5, ArchiveScopeKeeps
<1>6. ASSUME NEW i \in Id, NEW s \in Session, ArchiveSession(s, i) PROVE LogsInv'
  BY <1>6, ArchiveSessionKeeps
<1>7. ASSUME NEW i \in Id, Restore(i) \/ ReturnSession(i) \/ DeleteArchive(i) PROVE LogsInv'
  BY <1>7, RestoreKeeps, DeleteArchiveKeeps
<1>8. ASSUME \/ OpTeardown \/ OpFlushes \/ OpFlushed \/ OpPacks \/ OpCommits \/ ScopeRetires
             \/ ScopeDrops \/ SessionDrops
      PROVE  LogsInv'
  BY <1>8, OpTeardownKeeps, OpFlushesKeeps, OpFlushesNothingKeeps, OpFlushedKeeps, OpPacksKeeps, OpCommitsKeeps,
     ScopeRetiresKeeps, ScopeDropsKeeps, SessionDropsKeeps
<1>9. ASSUME \/ SessionErases \/ OpFails \/ RestoreMoves \/ RestoreReturns \/ ReturnWrites
             \/ OpRemovesData \/ OpRemovesMeta \/ Crash
      PROVE  LogsInv'
  BY <1>9, SessionErasesKeeps, OpStopsKeep, RestoreMovesKeeps, RestoreReturnsKeeps,
     ReturnWritesKeeps, OpRemovesDataKeeps, CrashKeeps
<1>10. CASE UNCHANGED vars
  BY <1>10, QuietStep DEF vars
<1> QED BY <1>1, <1>2, <1>3, <1>4, <1>5, <1>6, <1>7, <1>8, <1>9, <1>10 DEF Next

LEMMA LogsHold ==
  ASSUME Windows = {}
  PROVE  Spec => [](NamesInv /\ LogsInv)
<1>1. NamesInv /\ LogsInv /\ [Next]_vars => NamesInv' /\ LogsInv'
  BY NamesNext, LogsNext
<1> QED BY NamesInit, LogsInit, <1>1, PTL DEF Spec

LEMMA LogsSuffice == NamesInv /\ LogsInv => NothingLost /\ ArchivedWhole /\ InAScope
<1> SUFFICES ASSUME NamesInv, LogsInv PROVE NothingLost /\ ArchivedWhole /\ InAScope
  OBVIOUS
<1>a. "none" \notin Name /\ Stages
  BY FilesAssumption, StagesHold DEF NamesInv
<1>b. Appending /\ AtHome /\ Shelved /\ Packing
  BY DEF LogsInv
<1>c. Rooted
  BY DEF NamesInv
<1>1. ASSUME NEW s \in Session, NEW i \in Id, Holds(i, s) PROVE Stored(s)
  <2>1. Complete(i) /\ s \in archive[i].saved /\ ReadLog(archive[i].log[s]) = 1..live[s].seq
    BY <1>1 DEF Holds
  <2>2. live[s].seq \in live[s].flushed..MaxRecords
    BY <1>b, SessionFacts, FilesAssumption DEF Appending, Records
  <2>3. Whole(archive[i].log[s], live[s].flushed)
    BY <2>1, <2>2 DEF Whole
  <2> QED BY <2>1, <2>3 DEF Stored
<1>2. NothingLost
  <2> SUFFICES ASSUME NEW s \in Session, fate[s] = "kept" PROVE Stored(s)
    BY DEF NothingLost
  <2>1. CASE live[s].name = "none"
    BY <1>1, <1>b, <2>1 DEF Shelved
  <2>2. CASE live[s].name # "none"
    <3>1. PICK n \in Name : live[s].name = n /\ Housed(s)
      BY <1>b, <2>2, SessionFacts DEF AtHome
    <3>2. CASE ~Retired(n)
      <4>1. Place(n) \in Name
        BY <1>a DEF Place, Stages
      <4>2. disk[Place(n)].saved[s] # "none"
        BY <1>a, <3>1, <3>2 DEF Housed
      <4>3. Place(n) \in Homes(s)
        BY <1>c, <4>1, <4>2 DEF Rooted, RootedAt, Nothing, Homes
      <4>4. PICK m \in live[s].flushed..live[s].seq : Reads(disk[Place(n)].log[s], m)
        BY <1>a, <3>1, <3>2 DEF Housed
      <4>5. m \in live[s].flushed..MaxRecords
        BY <4>4, SessionFacts, FilesAssumption DEF Records
      <4>6. Whole(disk[Place(n)].log[s], live[s].flushed)
        BY <4>4, <4>5 DEF Whole, Reads
      <4> QED BY <4>3, <4>6 DEF Stored
    <3>3. CASE Retired(n)
      <4>1. op.at = "retired" /\ n = op.name /\ op.kind = "scope" /\ op.id \in Id
        BY <1>a, <3>3 DEF Retired, Stages, NamesInv, OpStage
      <4>2. Holds(op.id, s)
        BY <1>b, <3>1, <4>1 DEF Packing, Holds, Complete, SessionsFor, Reads
      <4> QED BY <1>1, <4>1, <4>2
    <3> QED BY <3>2, <3>3
  <2> QED BY <2>1, <2>2
<1>3. ArchivedWhole
  BY <1>b DEF ArchivedWhole, Shelved
<1>4. InAScope
  <2> SUFFICES ASSUME NEW s \in Session, live[s].name # "none", scope.kind = "idle",
                      op.kind = "idle"
               PROVE  disk[live[s].name].scope
    BY DEF InAScope
  <2>1. PICK n \in Name : live[s].name = n
    BY SessionFacts
  <2> QED BY <1>a, <1>c, <2>1 DEF Rooted, RootedAt, Between, Retired, Stages
<1> QED BY <1>2, <1>3, <1>4

(* At every moment, were the process to die, each session the user has not   *)
(* deleted is on the disk with every record its flush was confirmed for: in  *)
(* the directory of a scope, or in a complete archive.  No session comes     *)
(* back into a scope that is being deleted.                                  *)
THEOREM SessionsAreNeverLost ==
  ASSUME Windows = {}
  PROVE  Spec => []NothingLost
BY LogsHold, LogsSuffice, PTL

(* A session out of memory that the user has not deleted is in an archive    *)
(* with every record it ever had: the quiet that archive.ts asks for before  *)
(* it packs lasts until the scope is retired, if no delete or rename of the  *)
(* scope is under way.                                                       *)
THEOREM ArchivesAreWhole ==
  ASSUME Windows = {}
  PROVE  Spec => []ArchivedWhole
BY LogsHold, LogsSuffice, PTL

(* When no operation is under way a session in memory belongs to a scope the *)
(* user can see, after a restart too: renameTask, deleteTask and the archive *)
(* leave no session behind under a name that has no directory, if they do    *)
(* not overlap.                                                              *)
THEOREM SessionsHaveAScope ==
  ASSUME Windows = {}
  PROVE  Spec => []InAScope
BY LogsHold, LogsSuffice, PTL

=============================================================================
