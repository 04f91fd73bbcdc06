------------------------ MODULE ProactiveRuns_proofs ------------------------
(***************************************************************************)
(* Invariants of ProactiveRuns, for any refs, names, calls and bounds.     *)
(*                                                                         *)
(* RunsSettle holds as long as the window "opening" is closed; RefsBelong, *)
(* and TypeOK and InboxBounded, which rest on what makes it inductive, as  *)
(* long as none of the Windows is open: each of them has a counterexample  *)
(* (README.md).                                                            *)
(***************************************************************************)
EXTENDS ProactiveRuns, FiniteSetTheorems, TLAPS

-----------------------------------------------------------------------------
(* The runs.                                                                 *)


Stage   == {"none", "queued", "starting", "opening", "working", "stopping", "idle", "draft",
            "gone"}
Under   == {"queued", "starting", "opening", "working"}

(* What RunsSettle speaks of is typed; the rest of TypeOK does not matter.   *)
RunsTyped ==
  /\ active \in Run \cup {0}
  /\ outcome \in [Run -> {"none", "running", "over"}]
  /\ sess \in [Run -> Stage]

RunsInv == RunsTyped /\ RunsSettle /\ "opening" \notin Windows

LEMMA RunIsPositive == 0 \notin Run
  BY ProactiveAssumption DEF Run, ProactiveAssumption

(* Collecting old runs only deletes sessions.                                *)
LEMMA CollectDeletes ==
  ASSUME NEW s \in [Run -> Stage]
  PROVE  /\ Collect(s) \in [Run -> Stage]
         /\ \A r \in Run : Collect(s)[r] \in {s[r], "gone"}
<1> DEFINE ended == {r \in Run : s[r] \notin {"none", "gone"}}
           drop(r) == r \in ended /\ Cardinality({q \in ended : q > r}) >= KeepRuns
<1>1. Collect(s) = [r \in Run |-> IF drop(r) THEN "gone" ELSE s[r]]
  BY DEF Collect
<1> HIDE DEF drop, ended
<1>2. QED
  BY <1>1 DEF Stage

(* The run in progress is finished, and its session is left where nothing    *)
(* but the user starts it again.                                             *)
LEMMA FinishSettles ==
  ASSUME RunsInv, NEW r \in Run, active = r,
         NEW s \in [Run -> Stage], s[r] \notin Under,
         \A q \in Run \ {r} : s[q] = sess[q],
         FinishRun(r, s)
  PROVE  RunsInv'
<1>1. /\ Collect(s) \in [Run -> Stage]
      /\ \A q \in Run : Collect(s)[q] \in {s[q], "gone"}
  BY CollectDeletes
<1>2. active' = 0 /\ outcome' = [outcome EXCEPT ![r] = "over"] /\ sess' = Collect(s)
  BY DEF FinishRun
<1>3. RunsTyped'
  BY <1>1, <1>2 DEF RunsInv, RunsTyped
<1>4. \A q \in Run : outcome'[q] # "running"
  BY <1>2 DEF RunsInv, RunsTyped, RunsSettle
<1>5. \A q \in Run : sess'[q] \notin Under
  BY <1>1, <1>2 DEF RunsInv, RunsSettle, Under
<1>6. QED
  BY <1>2, <1>3, <1>4, <1>5, RunIsPositive DEF RunsInv, RunsSettle, Under

(* The bus handlers: an event of the run in progress ends it, one of any     *)
(* other run only moves its session.                                         *)
LEMMA SettlesSettles ==
  ASSUME RunsInv, NEW r \in Run, NEW x \in Stage \ Under,
         Settles(r, [sess EXCEPT ![r] = x])
  PROVE  RunsInv'
<1> DEFINE s == [sess EXCEPT ![r] = x]
<1>1. /\ s \in [Run -> Stage] /\ s[r] = x
      /\ \A q \in Run \ {r} : s[q] = sess[q]
  BY DEF RunsInv, RunsTyped
<1>2. CASE active = r
  BY <1>1, <1>2, FinishSettles DEF Settles
<1>3. CASE active # r
  <2>1. sess' = s /\ active' = active /\ outcome' = outcome
    BY <1>3 DEF Settles
  <2>2. QED
    BY <1>1, <1>3, <2>1 DEF RunsInv, RunsTyped, RunsSettle, Under
<1>4. QED
  BY <1>2, <1>3

(* A session that moves between the stages of a run in progress.             *)
LEMMA MovesSettle ==
  ASSUME RunsInv, NEW r \in Run, active = r, NEW x \in Under \cup {"draft"},
         sess' = [sess EXCEPT ![r] = x], UNCHANGED <<active, outcome>>
  PROVE  RunsInv'
<1>1. RunsTyped'
  BY DEF RunsInv, RunsTyped, Stage, Under
<1>2. RunsSettle'
  BY DEF RunsInv, RunsTyped, RunsSettle, Under
<1>3. QED
  BY <1>1, <1>2 DEF RunsInv

LEMMA InitSettles == Init /\ "opening" \notin Windows => RunsInv
  BY RunIsPositive DEF Init, RunsInv, RunsTyped, RunsSettle, Stage

LEMMA NextSettles == RunsInv /\ [Next]_vars => RunsInv'
<1> SUFFICES ASSUME RunsInv, [Next]_vars PROVE RunsInv'
  OBVIOUS
<1>1. ASSUME NEW r \in Run, StartRun(r) PROVE RunsInv'
  <2>1. /\ active = 0 /\ active' = r
        /\ outcome' = [outcome EXCEPT ![r] = "running"]
        /\ sess' = [sess EXCEPT ![r] = "queued"]
    BY <1>1 DEF StartRun
  <2>2. RunsTyped'
    BY <2>1 DEF RunsInv, RunsTyped, Stage
  <2>3. RunsSettle'
    BY <2>1, RunIsPositive DEF RunsInv, RunsTyped, RunsSettle
  <2>4. QED
    BY <2>2, <2>3 DEF RunsInv
<1>2. ASSUME NEW r \in Run, Starts(r) PROVE RunsInv'
  <2>1. PICK x \in {"starting", "opening", "working"} : sess' = [sess EXCEPT ![r] = x]
    BY <1>2 DEF Starts, Goes
  <2>2. active = r /\ UNCHANGED <<active, outcome>>
    BY <1>2 DEF Starts, Goes, RunsInv, RunsSettle
  <2>3. QED
    BY <2>1, <2>2, MovesSettle DEF Under
<1>3. ASSUME NEW r \in Run, TakesRun(r) PROVE RunsInv'
  <2>1. PICK x \in {"draft", "queued"} : sess' = [sess EXCEPT ![r] = x]
    BY <1>3 DEF TakesRun, Goes
  <2>2. active = r /\ UNCHANGED <<active, outcome>>
    BY <1>3 DEF TakesRun, Goes, RunsInv, RunsSettle
  <2>3. QED
    BY <2>1, <2>2, MovesSettle DEF Under
<1>4. ASSUME NEW r \in Run, Nudges(r) PROVE RunsInv'
  <2>1. sess[r] = "working" /\ sess' = [sess EXCEPT ![r] = "opening"]
    BY <1>4 DEF Nudges, Goes, RunsInv
  <2>2. active = r /\ UNCHANGED <<active, outcome>>
    BY <1>4, <2>1 DEF Nudges, RunsInv, RunsSettle
  <2>3. QED
    BY <2>1, <2>2, MovesSettle DEF Under
<1>5. ASSUME NEW r \in Run, StartFails(r) PROVE RunsInv'
  <2>1. "draft" \in Stage \ Under
    BY DEF Stage, Under
  <2>2. QED
    BY <1>5, <2>1, SettlesSettles DEF StartFails
<1>6. ASSUME NEW r \in Run, TurnEnds(r) PROVE RunsInv'
  <2>1. "idle" \in Stage \ Under
    BY DEF Stage, Under
  <2>2. QED
    BY <1>6, <2>1, SettlesSettles DEF TurnEnds
<1>7. ASSUME NEW r \in Run, DeletesRun(r) PROVE RunsInv'
  <2>1. "gone" \in Stage \ Under
    BY DEF Stage, Under
  <2>2. QED
    BY <1>7, <2>1, SettlesSettles DEF DeletesRun
<1>8. ASSUME NEW r \in Run, Overdue(r) PROVE RunsInv'
  <2> DEFINE s == [sess EXCEPT ![r] = CASE @ = "opening" -> "opening"
                                        [] @ = "working" -> "stopping"
                                        [] OTHER         -> "gone"]
  <2>1. active = r /\ sess[r] # "opening" /\ FinishRun(r, s)
    BY <1>8 DEF Overdue, RunsInv
  <2>2. /\ s \in [Run -> Stage] /\ s[r] \notin Under
        /\ \A q \in Run \ {r} : s[q] = sess[q]
    BY <2>1 DEF RunsInv, RunsTyped, Stage, Under
  <2>3. QED
    BY <2>1, <2>2, FinishSettles
<1>9. ASSUME Restart PROVE RunsInv'
  <2>1. PICK lost \in {0, active} :
          outcome' = [r \in Run |-> IF outcome[r] = "none" \/ r = lost THEN "none" ELSE "over"]
    BY <1>9 DEF Restart
  <2>2. /\ active' = 0
        /\ sess' = [r \in Run |-> CASE sess[r] \in {"queued", "starting", "draft"} -> "draft"
                                    [] sess[r] \in {"none", "gone"} -> sess[r]
                                    [] OTHER -> "idle"]
    BY <1>9 DEF Restart
  <2>3. \A r \in Run : sess'[r] \in Stage \ Under
    BY <2>2 DEF RunsInv, RunsTyped, Stage, Under
  <2>4. RunsTyped'
    <3>1. sess' \in [Run -> Stage]
      BY <2>2, <2>3
    <3>2. QED
      BY <2>1, <2>2, <3>1 DEF RunsTyped
  <2>5. QED
    BY <2>1, <2>2, <2>3, <2>4, RunIsPositive DEF RunsInv, RunsSettle, Under
<1>10. ASSUME UNCHANGED runs PROVE RunsInv'
  BY <1>10 DEF runs, RunsInv, RunsTyped, RunsSettle
<1>11. ASSUME NEW c \in Call,
              \/ \E refs \in (SUBSET Ref) \ {{}} : Proposes(c, refs)
              \/ \E n \in Name, refs \in (SUBSET Ref) \ {{}} : Attaches(c, n, refs)
              \/ \E n \in Name : WritesScope(c, n)
              \/ PrepareFails(c) \/ Refilled(c) \/ Raised(c) \/ Attached(c)
       PROVE  UNCHANGED runs
  BY <1>11 DEF Proposes, Attaches, WritesScope, PrepareFails, Refilled, Raised, Attached
<1>12. ASSUME NEW n \in Name,
              \/ ActsOn(n) \/ SavesDrafts(n) \/ Edits(n) \/ Deletes(n) \/ Archives(n)
              \/ Restores(n) \/ \E to \in Name \ {n} : Renames(n, to)
       PROVE  UNCHANGED runs
  BY <1>12 DEF ActsOn, SavesDrafts, Edits, Deletes, Archives, Restores, Renames
<1>13. ASSUME Edited \/ Deleted \/ Renamed \/ Archived PROVE UNCHANGED runs
  BY <1>13 DEF Edited, Deleted, Renamed, Archived
<1>14. ASSUME UNCHANGED vars PROVE UNCHANGED runs
  BY <1>14 DEF vars
<1>15. CASE Next
  BY <1>15, <1>1, <1>2, <1>3, <1>5, <1>6, <1>7, <1>8, <1>9, <1>10, <1>11, <1>12, <1>13, <1>4 DEF Next
<1>16. QED
  BY <1>10, <1>14, <1>15

(* A run is recorded as running exactly while it is the agent's, and nothing *)
(* of an ended run comes up on its own: startRun, finishRun, tick, the bus   *)
(* handlers and load of proactive.ts, for any number of runs and restarts,   *)
(* as long as no run is overdue while its turn is on its way to the agent.   *)
THEOREM RunsAreSettled == "opening" \notin Windows /\ Spec => []RunsSettle
<1>1. RunsInv => RunsSettle
  BY DEF RunsInv
<1>2. QED
  BY <1>1, InitSettles, NextSettles, PTL DEF Spec
-----------------------------------------------------------------------------
(* The inductive invariant.                                                  *)

RefsTyped ==
  /\ dir \in [Name -> [on : BOOLEAN, refs : SUBSET Ref]]
  /\ origin \in [Name -> SUBSET Ref]
  /\ index \in [Ref -> Name \cup {"none"}]
  /\ vault = [n \in Name |-> vault[n]] /\ \A n \in Name : vault[n].refs \in SUBSET Ref
  /\ unindexed \subseteq Name
  /\ call \in [Call -> [at : {"idle", "preparing", "refilling", "writing", "saving"},
                        name : Name \cup {"none"}, refs : SUBSET Ref]]

(* The index is the origins, turned around.                                  *)
Indexed == \A r \in Ref, n \in Name : index[r] = n <=> r \in origin[n]

(* What a scope under way stands on.                                         *)
Moved ==
  /\ move.kind \in {"idle", "delete", "rename", "archive"}
  /\ move.kind = "idle" => move = NoMove
  /\ move.kind # "idle" => move.from \in Name /\ edit.name # move.from
  /\ move.kind = "delete" => dir[move.from].on /\ origin[move.from] = {}
  /\ move.kind = "archive" => ~dir[move.from].on
  /\ move.kind = "rename" =>
       /\ move.to \in Name /\ move.to # move.from
       /\ ~dir[move.from].on /\ dir[move.to].on /\ origin[move.to] = {}
  /\ move.kind \in {"delete", "archive"} => move.to = "none"

(* The scope by whose name the origin of directory n is still kept.          *)
Owner(n) == IF move.kind = "rename" /\ move.to = n THEN move.from ELSE n

Going(n)   == move.kind = "delete" /\ move.from = n
Written(n) == \E c \in Call : call[c].at = "writing" /\ call[c].name = n

(* The origins are what the task.json files say, but for a scope that is     *)
(* going, being written, or back from an archive.                            *)
Filed ==
  \A n \in Name :
    /\ ~dir[n].on => dir[n].refs = {}
    /\ ~dir[n].on /\ origin[n] # {} => move.kind \in {"rename", "archive"} /\ move.from = n
    /\ n \in unindexed => dir[n].on /\ origin[Owner(n)] = {}
    /\ dir[n].on /\ n \notin unindexed /\ ~Going(n) /\ ~Written(n) =>
         origin[Owner(n)] = dir[n].refs

(* No two scopes hold one ref, those that are back from an archive included. *)
Disjoint ==
  \A n, m \in Existing \cup unindexed : n # m => dir[n].refs \cap dir[m].refs = {}

(* A call under the lock has its scope to itself, and nobody else binds its  *)
(* refs before it does.                                                      *)
OneCall == \A c, d \in Call : call[c].at # "idle" /\ call[d].at # "idle" => c = d
Apart(c) == \A m \in unindexed : dir[m].refs \cap call[c].refs = {}
Alone(c) ==
  /\ call[c].name \in Name /\ call[c].name \notin {move.from, move.to}
  /\ call[c].name \notin unindexed /\ dir[call[c].name].on /\ edit.name # call[c].name
CallHolds(c) ==
  /\ call[c].at \in {"idle", "refilling"} => call[c].refs = {}
  /\ Apart(c)
  /\ call[c].at \in {"preparing", "writing"} => \A r \in call[c].refs : index[r] = "none"
  /\ call[c].at = "writing" =>
       Alone(c) /\ dir[call[c].name].refs = call[c].refs /\ origin[call[c].name] = {}
  /\ call[c].at = "saving" =>
       /\ Alone(c) /\ origin[call[c].name] \subseteq call[c].refs
       /\ \A r \in call[c].refs : index[r] \in {call[c].name, "none"}

(* The settings being written are those of the file.                         *)
EditHolds ==
  /\ edit = NoEdit \/ edit.name \in Name
  /\ edit.name \in Name => edit = [name |-> edit.name, refs |-> dir[edit.name].refs]
                           /\ dir[edit.name].on

RefsInv ==
  /\ Windows = {} /\ RefsTyped /\ Indexed /\ Moved /\ Filed /\ Disjoint
  /\ OneCall /\ (\A c \in Call : CallHolds(c)) /\ EditHolds

(* All the invariant reads.                                                  *)
core == <<dir, origin, index, vault, unindexed, call, move, edit>>

-----------------------------------------------------------------------------
(* What the closed windows and the lock leave of the guards.                 *)

LEMMA NoneIsNoName == "none" \notin Name
  BY ProactiveAssumption DEF ProactiveAssumption

LEMMA Closed ==
  ASSUME RefsInv
  PROVE  /\ \A n \in Name : Still(n) => n \notin {move.from, move.to}
         /\ \A n : Unread(n) => edit.name # n
         /\ \A n : Unused(n) => \A c \in Call : call[c].name # n
         /\ \A n : Unsaved(n) => \A c \in Call : call[c].name # n
         /\ \A refs : Elsewhere(refs) => \A n \in unindexed : dir[n].refs \cap refs = {}
  BY NoneIsNoName
     DEF RefsInv, RefsTyped, Moved, NoMove, Still, Unread, Unused, Unsaved, Elsewhere

LEMMA FrameRefs == RefsInv /\ UNCHANGED core => RefsInv'
  BY DEF core, RefsInv, RefsTyped, Indexed, Moved, Owner, Going, Written, Filed, Existing, Disjoint,
         OneCall, Apart, Alone, CallHolds, EditHolds

-----------------------------------------------------------------------------
(* The calls of a run.                                                       *)

(* A call that ends without having written anything.                         *)
LEMMA DropsRefs ==
  ASSUME RefsInv, NEW c \in Call, call[c].at \in {"preparing", "refilling"},
         call' = [call EXCEPT ![c] = NoCall],
         UNCHANGED <<dir, origin, index, vault, unindexed, move, edit>>
  PROVE  RefsInv'
<1>1. \A d \in Call : call'[d] = IF d = c THEN NoCall ELSE call[d]
  BY DEF RefsInv, RefsTyped
<1>2. \A n \in Name : Written(n) <=> Written(n)'
  BY <1>1 DEF Written, NoCall
<1>3. RefsTyped' /\ OneCall'
  BY <1>1 DEF RefsInv, RefsTyped, OneCall, NoCall
<1>4. Indexed' /\ Moved' /\ Disjoint' /\ EditHolds'
  BY DEF RefsInv, Indexed, Moved, Disjoint, Existing, EditHolds
<1>5. Filed'
  BY <1>2 DEF RefsInv, Filed, Owner, Going
<1>6. \A d \in Call : CallHolds(d)'
  BY <1>1 DEF RefsInv, CallHolds, Apart, Alone, NoCall
<1>7. QED
  BY <1>3, <1>4, <1>5, <1>6 DEF RefsInv

(* A call that enters: it is the only one.                                   *)
LEMMA EntersRefs ==
  ASSUME RefsInv, NEW c \in Call, Enters(c),
         NEW at \in {"preparing", "refilling", "saving"}, NEW n \in Name \cup {"none"},
         NEW refs \in SUBSET Ref, Calls(c, at, n, refs),
         UNCHANGED <<dir, origin, index, vault, unindexed, move, edit>>,
         CallHolds(c)'
  PROVE  RefsInv'
<1>1. \A d \in Call : call[d].at = "idle"
  BY DEF Enters, Unlocked
<1>2. \A d \in Call : call'[d] = IF d = c THEN [at |-> at, name |-> n, refs |-> refs] ELSE call[d]
  BY DEF RefsInv, RefsTyped, Calls
<1>3. RefsTyped' /\ OneCall'
  <2>1. call' \in [Call -> [at : {"idle", "preparing", "refilling", "writing", "saving"},
                            name : Name \cup {"none"}, refs : SUBSET Ref]]
    BY DEF RefsInv, RefsTyped, Calls
  <2>2. QED
    BY <1>1, <1>2, <2>1 DEF RefsInv, RefsTyped, OneCall
<1>4. Indexed' /\ Moved' /\ Disjoint' /\ EditHolds'
  BY DEF RefsInv, Indexed, Moved, Disjoint, Existing, EditHolds
<1>5. \A m \in Name : ~Written(m) /\ ~Written(m)'
  BY <1>1, <1>2 DEF Written
<1>6. Filed'
  BY <1>5 DEF RefsInv, Filed, Owner, Going
<1>7. ASSUME NEW d \in Call, d # c PROVE CallHolds(d)'
  BY <1>1, <1>2, <1>7 DEF RefsInv, CallHolds, Apart, Alone
<1>8. QED
  BY <1>3, <1>4, <1>6, <1>7 DEF RefsInv

LEMMA ProposesRefs ==
  ASSUME RefsInv, NEW c \in Call, NEW refs \in SUBSET Ref, Proposes(c, refs)
  PROVE  RefsInv'
<1>1. Enters(c) /\ Elsewhere(refs) /\ UNCHANGED <<scopes, move, edit>>
  BY DEF Proposes
<1>2. UNCHANGED <<dir, origin, index, vault, unindexed, move, edit>>
  BY <1>1 DEF scopes
<1>3. CASE Calls(c, "preparing", "none", refs) /\ {r \in refs : index[r] # "none"} = {}
  <2>1. call'[c] = [at |-> "preparing", name |-> "none", refs |-> refs]
    BY <1>3 DEF RefsInv, RefsTyped, Calls
  <2>2. CallHolds(c)'
    BY <1>1, <1>2, <1>3, <2>1, Closed DEF CallHolds, Apart
  <2>3. QED
    BY <1>1, <1>2, <1>3, <2>2, EntersRefs
<1>4. ASSUME NEW r \in refs, index[r] # "none", Calls(c, "refilling", index[r], {})
      PROVE  RefsInv'
  <2>1. index[r] \in Name \cup {"none"}
    BY DEF RefsInv, RefsTyped
  <2>2. call'[c] = [at |-> "refilling", name |-> index[r], refs |-> {}]
    BY <1>4 DEF RefsInv, RefsTyped, Calls
  <2>3. CallHolds(c)'
    BY <2>2 DEF CallHolds, Apart
  <2>4. QED
    BY <1>1, <1>2, <1>4, <2>1, <2>3, EntersRefs
<1>5. QED
  BY <1>3, <1>4 DEF Proposes

LEMMA AttachesRefs ==
  ASSUME RefsInv, NEW c \in Call, NEW n \in Name, NEW refs \in SUBSET Ref, Attaches(c, n, refs)
  PROVE  RefsInv'
<1> DEFINE all == origin[n] \cup refs
<1>1. /\ Enters(c) /\ UNCHANGED <<dir, origin, index, vault, unindexed, move, edit>>
      /\ Calls(c, "saving", n, all) /\ all \in SUBSET Ref
  BY DEF Attaches, scopes, RefsInv, RefsTyped
<1>2. call'[c] = [at |-> "saving", name |-> n, refs |-> all]
  BY <1>1 DEF RefsInv, RefsTyped, Calls
<1>3. n \notin {move.from, move.to} /\ edit.name # n
  BY Closed DEF Attaches
<1>4. Owner(n) = n /\ dir[n].on /\ n \notin unindexed
  BY <1>3 DEF Attaches, RefsInv, Filed, Owner
<1>5. \A r \in all : index[r] \in {n, "none"}
  BY DEF Attaches, RefsInv, RefsTyped, Indexed
<1>6. \A m \in unindexed : dir[m].refs \cap all = {}
  <2>1. \A m \in unindexed : dir[m].refs \cap refs = {}
    BY Closed DEF Attaches
  <2>2. ASSUME NEW m \in unindexed PROVE dir[m].refs \cap origin[n] = {}
    <3>1. ~Written(n)
      BY <1>1 DEF Enters, Unlocked, Written
    <3>2. ~Going(n)
      BY <1>3 DEF Going
    <3>3. origin[n] = dir[n].refs
      BY <1>4, <3>1, <3>2 DEF RefsInv, Filed
    <3>4. n \in Existing /\ m # n
      BY <1>4, <3>2 DEF Existing, Going
    <3>5. QED
      BY <3>3, <3>4 DEF RefsInv, Disjoint
  <2>3. QED
    BY <2>1, <2>2
<1>7. CallHolds(c)'
  BY <1>1, <1>2, <1>3, <1>4, <1>5, <1>6 DEF CallHolds, Apart, Alone
<1>8. QED
  BY <1>1, <1>7, EntersRefs

(* The task.json of a new scope is written with its refs.                    *)
LEMMA WritesRefs ==
  ASSUME RefsInv, NEW c \in Call, NEW n \in Name, WritesScope(c, n)
  PROVE  RefsInv'
<1> DEFINE refs == call[c].refs
<1>1. /\ call[c].at = "preparing" /\ ~dir[n].on
      /\ n \notin {move.from, move.to} /\ edit.name # n
      /\ dir' = [dir EXCEPT ![n] = [on |-> TRUE, refs |-> refs]]
      /\ Calls(c, "writing", n, refs)
      /\ UNCHANGED <<origin, index, vault, unindexed, move, edit>>
  BY Closed DEF WritesScope
<1>2. /\ \A m \in Name : dir'[m] = IF m = n THEN [on |-> TRUE, refs |-> refs] ELSE dir[m]
      /\ refs \in SUBSET Ref
  BY <1>1 DEF RefsInv, RefsTyped
<1>3. \A d \in Call : /\ call'[d] = IF d = c THEN [at |-> "writing", name |-> n, refs |-> refs]
                                    ELSE call[d]
                      /\ d # c => call[d].at = "idle"
  BY <1>1 DEF RefsInv, RefsTyped, Calls, OneCall
<1>4. origin[n] = {} /\ n \notin unindexed /\ ~Going(n) /\ Owner(n) = n
  BY <1>1 DEF RefsInv, Filed, Going, Owner
<1>5. /\ \A r \in refs : index[r] = "none"
      /\ \A m \in unindexed : dir[m].refs \cap refs = {}
  BY <1>1 DEF RefsInv, CallHolds, Apart
<1>6. RefsTyped' /\ OneCall'
  <2>1. call' \in [Call -> [at : {"idle", "preparing", "refilling", "writing", "saving"},
                            name : Name \cup {"none"}, refs : SUBSET Ref]]
    BY <1>1, <1>2 DEF RefsInv, RefsTyped, Calls
  <2>2. dir' \in [Name -> [on : BOOLEAN, refs : SUBSET Ref]]
    BY <1>1, <1>2 DEF RefsInv, RefsTyped
  <2>3. QED
    BY <1>1, <1>3, <2>1, <2>2 DEF RefsInv, RefsTyped, OneCall
<1>7. Indexed' /\ Moved'
  BY <1>1, <1>2 DEF RefsInv, Indexed, Moved
<1>8. EditHolds'
  BY <1>1, <1>2 DEF RefsInv, EditHolds
<1>9. \A m \in Name : ~Written(m) /\ (Written(m)' <=> m = n)
  BY <1>1, <1>3 DEF Written
<1>10. Filed'
  BY <1>1, <1>2, <1>4, <1>9 DEF RefsInv, Filed, Owner, Going
<1>11. ASSUME NEW m \in Existing \cup unindexed, m # n PROVE dir[m].refs \cap refs = {}
  <2>1. CASE m \in unindexed
    BY <1>5, <2>1
  <2>2. CASE m \notin unindexed
    <3>1. dir[m].refs = origin[Owner(m)] /\ Owner(m) \in Name
      BY <1>9, <1>11, <2>2 DEF RefsInv, Filed, Existing, Going, Owner, Moved
    <3>2. \A r \in dir[m].refs : index[r] = Owner(m)
      BY <3>1 DEF RefsInv, RefsTyped, Indexed
    <3>3. QED
      BY <1>5, <3>1, <3>2, NoneIsNoName
  <2>3. QED
    BY <2>1, <2>2
<1>12. Disjoint'
  BY <1>1, <1>2, <1>11 DEF RefsInv, Disjoint, Existing
<1>13. CallHolds(c)'
  BY <1>1, <1>2, <1>3, <1>4, <1>5 DEF CallHolds, Apart, Alone, RefsInv, RefsTyped
<1>14. ASSUME NEW d \in Call, d # c PROVE CallHolds(d)'
  <2>1. CallHolds(d) /\ call'[d] = call[d] /\ call[d].at = "idle"
    BY <1>3, <1>14 DEF RefsInv
  <2>2. QED
    BY <2>1 DEF CallHolds, Apart
<1>15. QED
  BY <1>1, <1>6, <1>7, <1>8, <1>10, <1>12, <1>13, <1>14 DEF RefsInv

(* indexOrigin, once the file of a scope with these refs is written.          *)
LEMMA BindsRefs ==
  ASSUME RefsInv, NEW c \in Call, call[c].at \in {"writing", "saving"},
         NEW n \in Name, call[c].name = n,
         dir' = [dir EXCEPT ![n] = [on |-> TRUE, refs |-> call[c].refs]],
         Bind(n, call[c].refs),
         call' = [call EXCEPT ![c] = NoCall],
         UNCHANGED <<vault, unindexed, move, edit>>
  PROVE  RefsInv'
<1> DEFINE refs == call[c].refs
<1>1. /\ Alone(c) /\ Apart(c) /\ refs \in SUBSET Ref /\ origin[n] \subseteq refs
      /\ \A r \in refs : index[r] \in {n, "none"}
  BY DEF RefsInv, RefsTyped, CallHolds
<1>2. /\ n \notin {move.from, move.to} /\ n \notin unindexed /\ dir[n].on /\ edit.name # n
      /\ \A m \in unindexed : dir[m].refs \cap refs = {}
  BY <1>1 DEF Alone, Apart
<1>3. /\ \A m \in Name : dir'[m] = IF m = n THEN [on |-> TRUE, refs |-> refs] ELSE dir[m]
      /\ \A m \in Name : origin'[m] = IF m = n THEN refs ELSE origin[m]
      /\ \A r \in Ref : index'[r] = IF r \in refs THEN n ELSE index[r]
  BY DEF RefsInv, RefsTyped, Bind
<1>4. \A d \in Call : call'[d].at = "idle" /\ call'[d].refs = {} /\ (d # c => call[d].at = "idle")
  <2>1. ASSUME NEW d \in Call, d # c PROVE call[d].at = "idle" /\ call'[d] = call[d]
    BY <2>1 DEF RefsInv, RefsTyped, OneCall
  <2>2. call'[c] = NoCall
    BY DEF RefsInv, RefsTyped
  <2>3. QED
    BY <2>1, <2>2 DEF RefsInv, CallHolds, NoCall
<1>5. RefsTyped' /\ OneCall'
  <2>1. dir' \in [Name -> [on : BOOLEAN, refs : SUBSET Ref]]
    BY <1>1 DEF RefsInv, RefsTyped
  <2>2. origin' \in [Name -> SUBSET Ref] /\ index' \in [Ref -> Name \cup {"none"}]
    BY <1>1 DEF RefsInv, RefsTyped, Bind
  <2>3. call' \in [Call -> [at : {"idle", "preparing", "refilling", "writing", "saving"},
                            name : Name \cup {"none"}, refs : SUBSET Ref]]
    BY DEF RefsInv, RefsTyped, NoCall
  <2>4. QED
    BY <1>4, <2>1, <2>2, <2>3 DEF RefsInv, RefsTyped, OneCall
<1>6. Indexed'
  BY <1>1, <1>3, NoneIsNoName DEF RefsInv, RefsTyped, Indexed
<1>7. Moved' /\ EditHolds'
  BY <1>2, <1>3 DEF RefsInv, Moved, EditHolds
<1>8. \A m \in Name : ~Written(m)' /\ (Written(m) => m = n)
  BY <1>4 DEF Written
<1>9. Filed'
  <2>1. ASSUME NEW m \in Name, m # n
        PROVE  /\ dir'[m] = dir[m] /\ Owner(m) = Owner(m)' /\ Owner(m) # n
               /\ origin'[m] = origin[m] /\ origin'[Owner(m)] = origin[Owner(m)]
    BY <1>2, <1>3, <2>1 DEF Owner, RefsInv, Moved
  <2>2. Owner(n)' = n /\ origin'[n] = refs /\ dir'[n] = [on |-> TRUE, refs |-> refs]
    BY <1>2, <1>3 DEF Owner
  <2>3. QED
    BY <1>2, <1>8, <2>1, <2>2 DEF RefsInv, Filed, Going
<1>10. ASSUME NEW m \in Existing \cup unindexed, m # n PROVE dir[m].refs \cap refs = {}
  <2>1. CASE m \in unindexed
    BY <1>2, <2>1
  <2>2. CASE m \notin unindexed
    <3>1. dir[m].refs = origin[Owner(m)] /\ Owner(m) \in Name /\ Owner(m) # n
      BY <1>2, <1>8, <1>10, <2>2 DEF RefsInv, Filed, Existing, Going, Owner, Moved
    <3>2. \A r \in dir[m].refs : index[r] = Owner(m)
      BY <3>1 DEF RefsInv, RefsTyped, Indexed
    <3>3. QED
      BY <1>1, <3>1, <3>2, NoneIsNoName
  <2>3. QED
    BY <2>1, <2>2
<1>11. Disjoint'
  BY <1>2, <1>3, <1>10 DEF RefsInv, Disjoint, Existing
<1>12. \A d \in Call : CallHolds(d)'
  BY <1>4 DEF CallHolds, Apart
<1>13. QED
  BY <1>5, <1>6, <1>7, <1>9, <1>11, <1>12 DEF RefsInv

LEMMA RaisedRefs == ASSUME RefsInv, NEW c \in Call, Raised(c) PROVE RefsInv'
<1> DEFINE n == call[c].name
<1>1. n \in Name /\ dir[n] = [on |-> TRUE, refs |-> call[c].refs]
  BY DEF Raised, RefsInv, RefsTyped, CallHolds, Alone
<1>2. dir' = [dir EXCEPT ![n] = [on |-> TRUE, refs |-> call[c].refs]]
  BY <1>1 DEF Raised, RefsInv, RefsTyped
<1>3. QED
  BY <1>1, <1>2, BindsRefs DEF Raised

LEMMA AttachedRefs == ASSUME RefsInv, NEW c \in Call, Attached(c) PROVE RefsInv'
<1>1. call[c].name \in Name
  BY DEF Attached, RefsInv, CallHolds, Alone
<1>2. QED
  BY <1>1, BindsRefs DEF Attached

-----------------------------------------------------------------------------
(* The user.                                                                 *)

LEMMA EditsRefs == ASSUME RefsInv, NEW n \in Name, Edits(n) PROVE RefsInv'
<1>1. /\ edit' = [name |-> n, refs |-> dir[n].refs] /\ dir[n].on /\ move.from # n
      /\ \A c \in Call : call[c].name # n
      /\ UNCHANGED <<dir, origin, index, vault, unindexed, call, move>>
  BY Closed DEF Edits, scopes
<1>2. Moved' /\ EditHolds'
  BY <1>1 DEF RefsInv, Moved, EditHolds
<1>3. RefsTyped' /\ Indexed' /\ Filed' /\ Disjoint' /\ OneCall'
  BY <1>1 DEF RefsInv, RefsTyped, Indexed, Filed, Owner, Going, Written, Disjoint, Existing, OneCall
<1>4. \A c \in Call : CallHolds(c)'
  BY <1>1 DEF RefsInv, CallHolds, Apart, Alone
<1>5. QED
  BY <1>2, <1>3, <1>4 DEF RefsInv

LEMMA EditedRefs == ASSUME RefsInv, Edited PROVE RefsInv'
<1>1. edit.name \in Name /\ edit.refs = dir[edit.name].refs /\ dir[edit.name].on
  BY DEF Edited, RefsInv, EditHolds
<1>2. dir' = dir
  BY <1>1 DEF Edited, RefsInv, RefsTyped
<1>3. edit' = NoEdit /\ edit'.name \notin Name
      /\ UNCHANGED <<dir, origin, index, vault, unindexed, call, move>>
  BY <1>2, NoneIsNoName DEF Edited, NoEdit
<1>4. Moved' /\ EditHolds'
  BY <1>3 DEF RefsInv, Moved, EditHolds
<1>5. RefsTyped' /\ Indexed' /\ Filed' /\ Disjoint' /\ OneCall'
  BY <1>3 DEF RefsInv, RefsTyped, Indexed, Filed, Owner, Going, Written, Disjoint, Existing, OneCall
<1>6. \A c \in Call : CallHolds(c)'
  BY <1>3 DEF RefsInv, CallHolds, Apart, Alone
<1>7. QED
  BY <1>4, <1>5, <1>6 DEF RefsInv

(* What a delete, a rename or an archive finds when it begins.                *)
LEMMA MovesRefs ==
  ASSUME RefsInv, NEW n \in Name, MayMove(n)
  PROVE  /\ move = NoMove /\ dir[n].on /\ edit.name # n
         /\ \A c \in Call : call[c].name # n
         /\ \A m \in Name : Owner(m) = m /\ ~Going(m)
         /\ ~Written(n)
  BY Closed DEF MayMove, NoMove, Owner, Going, Written

LEMMA ForgetsRefs ==
  ASSUME RefsInv, NEW n \in Name, Forget(n)
  PROVE  /\ \A m \in Name : origin'[m] = IF m = n THEN {} ELSE origin[m]
         /\ \A r \in Ref : index'[r] = IF r \in origin[n] THEN "none" ELSE index[r]
         /\ origin' \in [Name -> SUBSET Ref] /\ index' \in [Ref -> Name \cup {"none"}]
         /\ Indexed'
<1>1. /\ \A m \in Name : origin'[m] = IF m = n THEN {} ELSE origin[m]
      /\ \A r \in Ref : index'[r] = IF r \in origin[n] THEN "none" ELSE index[r]
  BY DEF RefsInv, RefsTyped, Indexed, Forget
<1>2. origin' \in [Name -> SUBSET Ref] /\ index' \in [Ref -> Name \cup {"none"}]
  BY DEF RefsInv, RefsTyped, Forget
<1>3. Indexed'
  BY <1>1, NoneIsNoName DEF RefsInv, Indexed
<1>4. QED
  BY <1>1, <1>2, <1>3

LEMMA DeletesRefs == ASSUME RefsInv, NEW n \in Name, Deletes(n) PROVE RefsInv'
<1>1. /\ Forget(n) /\ move' = [kind |-> "delete", from |-> n, to |-> "none"]
      /\ \A c \in Call : call[c].at = "idle"
      /\ UNCHANGED <<dir, vault, unindexed, call, edit>>
  BY DEF Deletes, Unlocked
<1>2. /\ move = NoMove /\ dir[n].on /\ edit.name # n
      /\ \A m \in Name : Owner(m) = m /\ ~Going(m)
  BY MovesRefs DEF Deletes
<1>3. /\ \A m \in Name : origin'[m] = IF m = n THEN {} ELSE origin[m]
      /\ origin' \in [Name -> SUBSET Ref] /\ index' \in [Ref -> Name \cup {"none"}]
      /\ Indexed'
  BY <1>1, ForgetsRefs
<1>4. RefsTyped' /\ OneCall' /\ EditHolds'
  BY <1>1, <1>3 DEF RefsInv, RefsTyped, OneCall, EditHolds
<1>5. Moved'
  BY <1>1, <1>2, <1>3 DEF Moved
<1>6. \A m \in Name : /\ Owner(m)' = m /\ (Going(m)' <=> m = n)
                      /\ ~Written(m) /\ ~Written(m)'
  BY <1>1 DEF Owner, Going, Written
<1>7. Filed'
  BY <1>1, <1>2, <1>3, <1>6 DEF RefsInv, Filed, NoMove
<1>8. Disjoint'
  BY <1>1, <1>2 DEF RefsInv, Disjoint, Existing, NoMove
<1>9. \A c \in Call : CallHolds(c)'
  BY <1>1 DEF RefsInv, CallHolds, Apart
<1>10. QED
  BY <1>3, <1>4, <1>5, <1>7, <1>8, <1>9 DEF RefsInv

LEMMA DeletedRefs == ASSUME RefsInv, Deleted PROVE RefsInv'
<1> DEFINE n == move.from
<1>1. /\ n \in Name /\ move.kind = "delete" /\ move.to = "none" /\ edit.name # n
      /\ origin[n] = {} /\ Going(n) /\ \A m \in Name : Owner(m) = m
  BY DEF Deleted, RefsInv, Moved, Going, Owner
<1>2. /\ dir' = [dir EXCEPT ![n] = NoFile] /\ unindexed' = unindexed \ {n} /\ move' = NoMove
      /\ UNCHANGED <<origin, index, vault, call, edit>>
  BY DEF Deleted
<1>3. \A m \in Name : dir'[m] = IF m = n THEN [on |-> FALSE, refs |-> {}] ELSE dir[m]
  BY <1>1, <1>2 DEF RefsInv, RefsTyped, NoFile
<1>4. RefsTyped' /\ OneCall'
  <2>1. dir' \in [Name -> [on : BOOLEAN, refs : SUBSET Ref]]
    BY <1>2 DEF RefsInv, RefsTyped, NoFile
  <2>2. QED
    BY <1>2, <2>1 DEF RefsInv, RefsTyped, OneCall
<1>5. Indexed' /\ Moved'
  BY <1>2 DEF RefsInv, Indexed, Moved, NoMove
<1>6. EditHolds'
  BY <1>1, <1>2, <1>3 DEF RefsInv, EditHolds
<1>7. \A m \in Name : Owner(m)' = m /\ ~Going(m)' /\ (Written(m)' <=> Written(m))
  BY <1>2 DEF Owner, Going, Written, NoMove
<1>8. \A m \in Name \ {n} : ~Going(m)
  BY DEF Going
<1>9. Filed'
  BY <1>1, <1>2, <1>3, <1>7, <1>8 DEF RefsInv, Filed
<1>10. Disjoint'
  BY <1>1, <1>2, <1>3 DEF RefsInv, Disjoint, Existing, NoMove
<1>11. ASSUME NEW c \in Call PROVE CallHolds(c)'
  <2>1. CallHolds(c) /\ Apart(c)'
    BY <1>2, <1>3 DEF RefsInv, RefsTyped, CallHolds, Apart
  <2>2. Alone(c) => Alone(c)' /\ dir'[call[c].name] = dir[call[c].name]
    BY <1>1, <1>2, <1>3, NoneIsNoName DEF Alone, NoMove
  <2>3. QED
    BY <1>2, <2>1, <2>2 DEF CallHolds
<1>12. QED
  BY <1>2, <1>4, <1>5, <1>6, <1>9, <1>10, <1>11 DEF RefsInv

LEMMA RenamesRefs ==
  ASSUME RefsInv, NEW n \in Name, NEW to \in Name \ {n}, Renames(n, to)
  PROVE  RefsInv'
<1>1. /\ dir' = [dir EXCEPT ![to] = dir[n], ![n] = NoFile] /\ ~dir[to].on
      /\ unindexed' = IF n \in unindexed THEN (unindexed \ {n}) \cup {to} ELSE unindexed
      /\ move' = [kind |-> "rename", from |-> n, to |-> to]
      /\ edit.name # to /\ \A c \in Call : call[c].name # to
      /\ UNCHANGED <<origin, index, vault, call, edit>>
  BY Closed DEF Renames
<1>2. /\ move = NoMove /\ dir[n].on /\ edit.name # n
      /\ \A c \in Call : call[c].name # n
      /\ \A m \in Name : Owner(m) = m /\ ~Going(m)
      /\ ~Written(n)
  BY MovesRefs DEF Renames
<1>3. \A m \in Name : dir'[m] = IF m = to THEN dir[n]
                                ELSE IF m = n THEN [on |-> FALSE, refs |-> {}] ELSE dir[m]
  BY <1>1 DEF RefsInv, RefsTyped, NoFile
<1>4. origin[to] = {} /\ to \notin unindexed
  BY <1>1, <1>2 DEF RefsInv, Filed, NoMove
<1>5. RefsTyped' /\ OneCall'
  <2>1. dir' \in [Name -> [on : BOOLEAN, refs : SUBSET Ref]]
    BY <1>1 DEF RefsInv, RefsTyped, NoFile
  <2>2. unindexed' \subseteq Name
    BY <1>1 DEF RefsInv, RefsTyped
  <2>3. QED
    BY <1>1, <2>1, <2>2 DEF RefsInv, RefsTyped, OneCall
<1>6. Indexed' /\ Moved' /\ EditHolds'
  <2>1. Indexed'
    BY <1>1 DEF RefsInv, Indexed
  <2>2. Moved'
    <3>1. move'.kind = "rename" /\ move'.from = n /\ move'.to = to
      BY <1>1
    <3>2. edit' = edit /\ origin' = origin
      BY <1>1
    <3>3. dir'[n] = [on |-> FALSE, refs |-> {}] /\ dir'[to] = dir[n] /\ to # n
      BY <1>3
    <3>4. ~dir'[n].on /\ (dir'[to].on <=> dir[n].on)
      BY <3>3
    <3>5. dir[n].on /\ edit.name # n
      BY <1>2
    <3>6. QED
      BY <1>4, <3>1, <3>2, <3>3, <3>4, <3>5 DEF Moved
  <2>3. EditHolds'
    BY <1>1, <1>2, <1>3 DEF RefsInv, EditHolds
  <2>4. QED
    BY <2>1, <2>2, <2>3
<1>7. \A m \in Name : /\ Owner(m)' = IF m = to THEN n ELSE m
                      /\ ~Going(m)' /\ (Written(m)' <=> Written(m))
  BY <1>1 DEF Owner, Going, Written
<1>8. Filed'
  <2>1. ASSUME NEW m \in Name, m # n, m # to
        PROVE  /\ dir'[m] = dir[m] /\ Owner(m)' = m /\ origin'[m] = origin[m]
               /\ (m \in unindexed' <=> m \in unindexed)
    BY <1>1, <1>3, <1>7, <2>1
  <2>2. /\ dir'[to] = dir[n] /\ Owner(to)' = n /\ (to \in unindexed' <=> n \in unindexed)
        /\ n \notin unindexed'
    BY <1>1, <1>3, <1>4, <1>7
  <2>3. dir'[n] = [on |-> FALSE, refs |-> {}] /\ move'.from = n /\ move'.kind = "rename"
    BY <1>1, <1>3
  <2>4. \A m \in Name : m # n => dir[m].on \/ origin[m] = {}
    BY <1>2 DEF RefsInv, Filed, NoMove
  <2>6. ~Written(to)
    BY <1>1 DEF Written
  <2>7. ASSUME NEW m \in Name, m # n, m # to
        PROVE  /\ ~dir'[m].on => dir'[m].refs = {}
               /\ dir'[m].on \/ origin'[m] = {}
               /\ m \in unindexed' => dir'[m].on /\ origin'[Owner(m)'] = {}
               /\ dir'[m].on /\ m \notin unindexed' /\ ~Written(m)' => origin'[Owner(m)'] = dir'[m].refs
    <3>1. /\ Owner(m)' = m /\ origin'[m] = origin[m] /\ dir'[m] = dir[m]
          /\ (m \in unindexed' <=> m \in unindexed)
      BY <2>1, <2>7
    <3>2. Written(m)' <=> Written(m)
      BY <1>7
    <3>3. /\ ~dir[m].on => dir[m].refs = {}
          /\ dir[m].on \/ origin[m] = {}
          /\ m \in unindexed => dir[m].on /\ origin[m] = {}
          /\ dir[m].on /\ m \notin unindexed /\ ~Written(m) => origin[m] = dir[m].refs
      BY <1>2, <2>4, <2>7 DEF RefsInv, Filed
    <3>4. QED
      BY <3>1, <3>2, <3>3
  <2>8. /\ dir'[to].on
        /\ to \in unindexed' => origin'[Owner(to)'] = {}
        /\ to \notin unindexed' => origin'[Owner(to)'] = dir'[to].refs
    <3>0. origin' = origin
      BY <1>1
    <3>1. dir[n].on /\ ~Written(n)
      BY <1>2
    <3>2. /\ n \in unindexed => origin[n] = {}
          /\ n \notin unindexed => origin[n] = dir[n].refs
      BY <1>2, <3>1 DEF RefsInv, Filed
    <3>3. QED
      BY <2>2, <3>0, <3>1, <3>2
  <2>9. QED
    BY <2>2, <2>3, <2>7, <2>8 DEF Filed
<1>9. Disjoint'
  <2> DEFINE from(m) == IF m = to THEN n ELSE m
  <2>1. ASSUME NEW m \in (Existing \cup unindexed)'
        PROVE  /\ from(m) \in Existing \cup unindexed /\ dir'[m] = dir[from(m)] /\ m # n
    BY <1>1, <1>2, <1>3, <1>4 DEF Existing, NoMove, RefsInv, RefsTyped
  <2>2. ASSUME NEW m \in (Existing \cup unindexed)', NEW k \in (Existing \cup unindexed)', m # k
        PROVE  dir'[m].refs \cap dir'[k].refs = {}
    <3>1. from(m) # from(k)
      BY <2>1, <2>2
    <3>2. QED
      BY <2>1, <3>1 DEF RefsInv, Disjoint
  <2>3. QED
    BY <2>2 DEF Disjoint
<1>10. ASSUME NEW c \in Call PROVE CallHolds(c)'
  <2>1. CallHolds(c) /\ Apart(c)'
    <3>1. CallHolds(c) /\ Apart(c)
      BY DEF RefsInv, CallHolds
    <3>2. ASSUME NEW m \in unindexed' PROVE dir'[m].refs \cap call'[c].refs = {}
      <4>1. \E k \in unindexed : dir'[m].refs = dir[k].refs
        BY <1>1, <1>3, <1>4 DEF RefsInv, RefsTyped
      <4>2. QED
        BY <1>1, <3>1, <4>1 DEF Apart
    <3>3. QED
      BY <3>1, <3>2 DEF Apart
  <2>2. Alone(c) => Alone(c)' /\ dir'[call[c].name] = dir[call[c].name]
    BY <1>1, <1>2, <1>3 DEF Alone
  <2>3. QED
    BY <1>1, <2>1, <2>2 DEF CallHolds
<1>11. QED
  BY <1>1, <1>5, <1>6, <1>8, <1>9, <1>10 DEF RefsInv

LEMMA RenamedRefs == ASSUME RefsInv, Renamed PROVE RefsInv'
<1> DEFINE n == move.from  to == move.to
<1>1. /\ n \in Name /\ to \in Name /\ to # n /\ move.kind = "rename"
      /\ ~dir[n].on /\ dir[to].on /\ origin[to] = {} /\ n \notin unindexed
      /\ \A m \in Name : ~Going(m) /\ Owner(m) = IF m = to THEN n ELSE m
  BY DEF Renamed, RefsInv, Moved, Filed, Going, Owner
<1>2. move' = NoMove /\ UNCHANGED <<dir, vault, unindexed, call, edit>>
  BY DEF Renamed
<1>3. /\ \A m \in Name : origin'[m] = IF m = to THEN origin[n] ELSE IF m = n THEN {} ELSE origin[m]
      /\ \A r \in Ref : index'[r] = IF r \in origin[n] THEN to ELSE index[r]
      /\ origin' \in [Name -> SUBSET Ref] /\ index' \in [Ref -> Name \cup {"none"}]
  <2>1. CASE origin[n] = {}
    BY <1>1, <2>1 DEF Renamed, RefsInv, RefsTyped
  <2>2. CASE origin[n] # {}
    <3>1. /\ origin' = [origin EXCEPT ![to] = origin[n], ![n] = {}]
          /\ index' = [r \in Ref |-> IF r \in origin[n] THEN to ELSE index[r]]
      BY <2>2 DEF Renamed
    <3>2. QED
      BY <1>1, <3>1 DEF RefsInv, RefsTyped
  <2>3. QED
    BY <2>1, <2>2
<1>4. RefsTyped' /\ OneCall'
  BY <1>2, <1>3 DEF RefsInv, RefsTyped, OneCall
<1>5. Indexed'
  BY <1>1, <1>3 DEF RefsInv, Indexed
<1>6. Moved' /\ EditHolds'
  BY <1>2 DEF RefsInv, Moved, EditHolds, NoMove
<1>7. \A m \in Name : Owner(m)' = m /\ ~Going(m)' /\ (Written(m)' <=> Written(m))
  BY <1>2 DEF Owner, Going, Written, NoMove
<1>8. Filed'
  BY <1>1, <1>2, <1>3, <1>7 DEF RefsInv, Filed
<1>9. Disjoint'
  BY <1>1, <1>2 DEF RefsInv, Disjoint, Existing, NoMove
<1>10. ASSUME NEW c \in Call PROVE CallHolds(c)'
  <2>1. CallHolds(c) /\ Apart(c)' /\ call[c].refs \in SUBSET Ref
    BY <1>2 DEF RefsInv, RefsTyped, CallHolds, Apart
  <2>2. Alone(c) => /\ Alone(c)' /\ call[c].name \in Name
                    /\ call[c].name # n /\ origin'[call[c].name] = origin[call[c].name]
    BY <1>2, <1>3, NoneIsNoName DEF Alone, NoMove
  <2>3. \A r \in Ref : index[r] # n => index'[r] = index[r]
    BY <1>1, <1>3 DEF RefsInv, Indexed
  <2>4. QED
    BY <1>1, <1>2, <2>1, <2>2, <2>3, NoneIsNoName DEF CallHolds
<1>11. QED
  BY <1>2, <1>4, <1>5, <1>6, <1>8, <1>9, <1>10 DEF RefsInv

LEMMA ArchivesRefs == ASSUME RefsInv, NEW n \in Name, Archives(n) PROVE RefsInv'
<1>1. /\ dir' = [dir EXCEPT ![n] = NoFile] /\ unindexed' = unindexed \ {n}
      /\ vault' = [vault EXCEPT ![n] = [on |-> TRUE, refs |-> dir[n].refs,
                                        box |-> IF box[n] = "drafts" THEN "back" ELSE box[n]]]
      /\ move' = [kind |-> "archive", from |-> n, to |-> "none"]
      /\ UNCHANGED <<origin, index, call, edit>>
  BY DEF Archives
<1>2. /\ move = NoMove /\ dir[n].on /\ edit.name # n
      /\ \A c \in Call : call[c].name # n
      /\ \A m \in Name : Owner(m) = m /\ ~Going(m)
  BY MovesRefs DEF Archives
<1>3. \A m \in Name : dir'[m] = IF m = n THEN [on |-> FALSE, refs |-> {}] ELSE dir[m]
  BY <1>1 DEF RefsInv, RefsTyped, NoFile
<1>4. RefsTyped' /\ OneCall'
  <2>1. dir' \in [Name -> [on : BOOLEAN, refs : SUBSET Ref]]
    BY <1>1 DEF RefsInv, RefsTyped, NoFile
  <2>2. QED
    BY <1>1, <2>1 DEF RefsInv, RefsTyped, OneCall
<1>5. Indexed' /\ Moved' /\ EditHolds'
  BY <1>1, <1>2, <1>3 DEF RefsInv, Indexed, Moved, EditHolds
<1>6. \A m \in Name : Owner(m)' = m /\ ~Going(m)' /\ (Written(m)' <=> Written(m))
  BY <1>1 DEF Owner, Going, Written
<1>7. Filed'
  BY <1>1, <1>2, <1>3, <1>6 DEF RefsInv, Filed, NoMove
<1>8. Disjoint'
  BY <1>1, <1>2, <1>3 DEF RefsInv, Disjoint, Existing, NoMove
<1>9. ASSUME NEW c \in Call PROVE CallHolds(c)'
  <2>1. CallHolds(c) /\ Apart(c)'
    BY <1>1, <1>3 DEF RefsInv, RefsTyped, CallHolds, Apart
  <2>2. Alone(c) => Alone(c)' /\ dir'[call[c].name] = dir[call[c].name]
    BY <1>1, <1>2, <1>3, NoneIsNoName DEF Alone
  <2>3. QED
    BY <1>1, <2>1, <2>2 DEF CallHolds
<1>10. QED
  BY <1>1, <1>4, <1>5, <1>7, <1>8, <1>9 DEF RefsInv

LEMMA ArchivedRefs == ASSUME RefsInv, Archived PROVE RefsInv'
<1> DEFINE n == move.from
<1>1. /\ n \in Name /\ ~dir[n].on /\ move.kind = "archive"
      /\ Forget(n) /\ move' = NoMove /\ \A c \in Call : call[c].at = "idle"
      /\ UNCHANGED <<dir, vault, unindexed, call, edit>>
  BY DEF Archived, RefsInv, Moved, Unlocked
<1>2. /\ \A m \in Name : origin'[m] = IF m = n THEN {} ELSE origin[m]
      /\ origin' \in [Name -> SUBSET Ref] /\ index' \in [Ref -> Name \cup {"none"}]
      /\ Indexed'
  BY <1>1, ForgetsRefs
<1>3. RefsTyped' /\ OneCall' /\ EditHolds'
  BY <1>1, <1>2 DEF RefsInv, RefsTyped, OneCall, EditHolds
<1>4. Moved'
  BY <1>1 DEF RefsInv, Moved, NoMove
<1>5. \A m \in Name : /\ Owner(m) = m /\ Owner(m)' = m /\ ~Going(m) /\ ~Going(m)'
                      /\ (Written(m)' <=> Written(m))
  BY <1>1 DEF Owner, Going, Written, NoMove
<1>6. Filed'
  BY <1>1, <1>2, <1>5 DEF RefsInv, Filed
<1>7. Disjoint'
  BY <1>1 DEF RefsInv, Disjoint, Existing, NoMove
<1>8. \A c \in Call : CallHolds(c)'
  BY <1>1 DEF RefsInv, CallHolds, Apart
<1>9. QED
  BY <1>1, <1>2, <1>3, <1>4, <1>6, <1>7, <1>8 DEF RefsInv

LEMMA RestoresRefs == ASSUME RefsInv, NEW n \in Name, Restores(n) PROVE RefsInv'
<1> DEFINE refs == vault[n].refs
<1>1. /\ ~dir[n].on /\ n \notin {move.from, move.to}
      /\ \A m \in Name : dir[m].refs \cap refs = {}
      /\ \A c \in Call : call[c].refs \cap refs = {}
      /\ dir' = [dir EXCEPT ![n] = [on |-> TRUE, refs |-> refs]]
      /\ vault' = [vault EXCEPT ![n] = NoVault] /\ unindexed' = unindexed \cup {n}
      /\ UNCHANGED <<origin, index, call, move, edit>>
  BY Closed DEF Restores, RefsInv
<1>2. /\ \A m \in Name : dir'[m] = IF m = n THEN [on |-> TRUE, refs |-> refs] ELSE dir[m]
      /\ refs \in SUBSET Ref
  BY <1>1 DEF RefsInv, RefsTyped
<1>3. /\ origin[n] = {} /\ n \notin unindexed /\ Owner(n) = n
      /\ edit.name # n
  BY <1>1 DEF RefsInv, Filed, Owner, EditHolds
<1>4. RefsTyped' /\ OneCall'
  <2>1. dir' \in [Name -> [on : BOOLEAN, refs : SUBSET Ref]]
    BY <1>1, <1>2 DEF RefsInv, RefsTyped
  <2>2. vault' = [m \in Name |-> vault'[m]] /\ \A m \in Name : vault'[m].refs \in SUBSET Ref
    BY <1>1 DEF RefsInv, RefsTyped, NoVault
  <2>3. QED
    BY <1>1, <2>1, <2>2 DEF RefsInv, RefsTyped, OneCall
<1>5. Indexed' /\ Moved'
  BY <1>1, <1>2 DEF RefsInv, Indexed, Moved
<1>6. EditHolds'
  BY <1>1, <1>2, <1>3 DEF RefsInv, EditHolds
<1>7. \A m \in Name : /\ Owner(m)' = Owner(m) /\ (Going(m)' <=> Going(m))
                      /\ (Written(m)' <=> Written(m))
  BY <1>1 DEF Owner, Going, Written
<1>8. Filed'
  BY <1>1, <1>2, <1>3, <1>7 DEF RefsInv, Filed
<1>9. Disjoint'
  BY <1>1, <1>2 DEF RefsInv, RefsTyped, Disjoint, Existing
<1>10. ASSUME NEW c \in Call PROVE CallHolds(c)'
  <2>1. CallHolds(c) /\ Apart(c)'
    BY <1>1, <1>2 DEF RefsInv, RefsTyped, CallHolds, Apart
  <2>2. Alone(c) => Alone(c)' /\ dir'[call[c].name] = dir[call[c].name]
    BY <1>1, <1>2 DEF Alone
  <2>3. QED
    BY <1>1, <2>1, <2>2 DEF CallHolds
<1>11. QED
  BY <1>1, <1>4, <1>5, <1>6, <1>8, <1>9, <1>10 DEF RefsInv

-----------------------------------------------------------------------------
(* The application.                                                          *)

LEMMA RestartRefs == ASSUME RefsInv, Restart PROVE RefsInv'
<1>1. /\ move.kind \notin {"delete", "rename"}
      /\ origin' = [n \in Name |-> dir[n].refs]
      /\ index' \in [Ref -> Name \cup {"none"}]
      /\ \A r \in Ref : IF \E n \in Name : r \in dir[n].refs
                          THEN index'[r] # "none" /\ r \in dir[index'[r]].refs
                          ELSE index'[r] = "none"
      /\ call' = [c \in Call |-> NoCall] /\ move' = NoMove /\ edit' = NoEdit
      /\ unindexed' = {} /\ UNCHANGED <<dir, vault>>
  BY DEF Restart, RefsInv
<1>2. \A n \in Name : dir[n].refs # {} => n \in Existing
  <2>1. \A n \in Name : dir[n].refs # {} => dir[n].on
    BY DEF RefsInv, Filed, RefsTyped
  <2>2. QED
    BY <1>1, <2>1 DEF Existing
<1>3. RefsTyped' /\ OneCall' /\ EditHolds'
  <2>1. origin' \in [Name -> SUBSET Ref]
    BY <1>1 DEF RefsInv, RefsTyped
  <2>2. call' \in [Call -> [at : {"idle", "preparing", "refilling", "writing", "saving"},
                            name : Name \cup {"none"}, refs : SUBSET Ref]]
    BY <1>1 DEF NoCall
  <2>3. \A c \in Call : call'[c].at = "idle"
    BY <1>1 DEF NoCall
  <2>4. EditHolds'
    BY <1>1, NoneIsNoName DEF EditHolds, NoEdit
  <2>5. QED
    BY <1>1, <2>1, <2>2, <2>3, <2>4 DEF RefsInv, RefsTyped, OneCall
<1>4. Indexed'
  <2>1. ASSUME NEW r \in Ref, NEW n \in Name, r \in dir[n].refs PROVE index'[r] = n
    <3>1. index'[r] \in Name /\ r \in dir[index'[r]].refs
      BY <1>1, <2>1
    <3>2. n \in Existing /\ index'[r] \in Existing
      BY <1>2, <2>1, <3>1
    <3>3. QED
      BY <2>1, <3>1, <3>2 DEF RefsInv, Disjoint
  <2>2. ASSUME NEW r \in Ref, NEW n \in Name, index'[r] = n PROVE r \in dir[n].refs
    BY <1>1, <2>2, NoneIsNoName
  <2>3. QED
    BY <1>1, <2>1, <2>2 DEF Indexed
<1>5. Moved'
  BY <1>1, NoneIsNoName DEF Moved, NoMove
<1>6. \A n \in Name : Owner(n)' = n /\ ~Going(n)'
  BY <1>1 DEF Owner, Going, NoMove
<1>7. Filed'
  BY <1>1, <1>6 DEF RefsInv, Filed
<1>8. Disjoint'
  BY <1>1 DEF RefsInv, Disjoint, Existing, NoMove
<1>9. \A c \in Call : CallHolds(c)'
  BY <1>1 DEF CallHolds, Apart, NoCall
<1>10. QED
  BY <1>1, <1>3, <1>4, <1>5, <1>7, <1>8, <1>9 DEF RefsInv

LEMMA InitRefs == Init /\ Windows = {} => RefsInv
<1> SUFFICES ASSUME Init, Windows = {} PROVE RefsInv
  OBVIOUS
<1>1. RefsTyped
  <2>1. dir \in [Name -> [on : BOOLEAN, refs : SUBSET Ref]]
    BY DEF Init, NoFile
  <2>2. /\ origin \in [Name -> SUBSET Ref] /\ index \in [Ref -> Name \cup {"none"}]
        /\ unindexed \subseteq Name
    BY DEF Init
  <2>3. vault = [n \in Name |-> vault[n]]
    BY DEF Init
  <2>4. \A n \in Name : vault[n].refs \in SUBSET Ref
    BY DEF Init, NoVault
  <2>5. call \in [Call -> [at : {"idle", "preparing", "refilling", "writing", "saving"},
                          name : Name \cup {"none"}, refs : SUBSET Ref]]
    BY DEF Init, NoCall
  <2>6. QED
    BY <2>1, <2>2, <2>3, <2>4, <2>5 DEF RefsTyped
<1>2. \A n \in Name : dir[n] = NoFile /\ origin[n] = {} /\ Owner(n) = n
  BY DEF Init, Owner, NoMove
<1>3. Indexed /\ Moved /\ EditHolds
  <2>1. Indexed
    BY <1>2, NoneIsNoName DEF Init, Indexed
  <2>2. Moved
    BY DEF Init, Moved, NoMove
  <2>3. EditHolds
    BY NoneIsNoName DEF Init, EditHolds, NoEdit
  <2>4. QED
    BY <2>1, <2>2, <2>3
<1>4. Filed
  BY <1>2 DEF Init, Filed, NoFile
<1>5. Disjoint
  BY <1>2 DEF Init, Disjoint, Existing, NoFile
<1>6. OneCall /\ \A c \in Call : CallHolds(c)
  BY DEF Init, OneCall, CallHolds, Apart, NoCall
<1>7. QED
  BY <1>1, <1>3, <1>4, <1>5, <1>6 DEF RefsInv

LEMMA NextRefs == RefsInv /\ [Next]_vars => RefsInv'
<1> SUFFICES ASSUME RefsInv, [Next]_vars PROVE RefsInv'
  OBVIOUS
<1>1. ASSUME NEW r \in Run,
             \/ StartRun(r) \/ Starts(r) \/ StartFails(r) \/ Nudges(r) \/ TurnEnds(r) \/ Overdue(r)
             \/ DeletesRun(r) \/ TakesRun(r)
      PROVE  RefsInv'
  <2>1. UNCHANGED core
    BY <1>1 DEF StartRun, Starts, StartFails, Nudges, TurnEnds, Overdue, DeletesRun, TakesRun, scopes,
                core
  <2>2. QED
    BY <2>1, FrameRefs
<1>2. ASSUME NEW c \in Call, PrepareFails(c) \/ Refilled(c) PROVE RefsInv'
  BY <1>2, DropsRefs DEF PrepareFails, Refilled, scopes
<1>3. ASSUME NEW c \in Call,
             \/ \E refs \in (SUBSET Ref) \ {{}} : Proposes(c, refs)
             \/ \E n \in Name, refs \in (SUBSET Ref) \ {{}} : Attaches(c, n, refs)
             \/ \E n \in Name : WritesScope(c, n)
             \/ Raised(c) \/ Attached(c)
      PROVE  RefsInv'
  BY <1>3, ProposesRefs, AttachesRefs, WritesRefs, RaisedRefs, AttachedRefs
<1>4. ASSUME NEW n \in Name, ActsOn(n) \/ SavesDrafts(n) PROVE RefsInv'
  <2>1. UNCHANGED core
    BY <1>4 DEF ActsOn, SavesDrafts, core
  <2>2. QED
    BY <2>1, FrameRefs
<1>5. ASSUME NEW n \in Name,
             \/ Edits(n) \/ Deletes(n) \/ Archives(n) \/ Restores(n)
             \/ \E to \in Name \ {n} : Renames(n, to)
      PROVE  RefsInv'
  BY <1>5, EditsRefs, DeletesRefs, ArchivesRefs, RestoresRefs, RenamesRefs
<1>6. CASE Edited \/ Deleted \/ Renamed \/ Archived \/ Restart
  BY <1>6, EditedRefs, DeletedRefs, RenamedRefs, ArchivedRefs, RestartRefs
<1>7. CASE UNCHANGED vars
  <2>1. UNCHANGED core
    BY <1>7 DEF vars, scopes, core
  <2>2. QED
    BY <2>1, FrameRefs
<1>8. CASE Next
  BY <1>8, <1>1, <1>2, <1>3, <1>4, <1>5, <1>6 DEF Next
<1>9. QED
  BY <1>7, <1>8

LEMMA RefsInvSuffices == RefsInv => RefsBelong
<1> SUFFICES ASSUME RefsInv PROVE RefsBelong
  OBVIOUS
<1>1. \A n, m \in Existing : n # m => dir[n].refs \cap dir[m].refs = {}
  BY DEF RefsInv, Disjoint
<1>2. ASSUME move = NoMove, \A c \in Call : call[c].at = "idle",
             NEW r \in Ref, NEW n \in Existing \ unindexed
      PROVE  r \in dir[n].refs <=> index[r] = n
  <2>1. Owner(n) = n /\ ~Going(n) /\ ~Written(n) /\ n \in Name /\ dir[n].on
    BY <1>2 DEF NoMove, Owner, Going, Written, Existing
  <2>2. origin[n] = dir[n].refs
    BY <2>1 DEF RefsInv, Filed
  <2>3. QED
    BY <2>1, <2>2 DEF RefsInv, Indexed
<1>3. QED
  BY <1>1, <1>2 DEF RefsBelong

(* "While a scope exists, each of its refs is bound to it alone": propose_scope,*)
(* attach, and what the kernel and the archive do to scopes, for any number of *)
(* refs, scopes and calls - except in the windows the code leaves open.       *)
THEOREM RefsBelongToOne == Windows = {} /\ Spec => []RefsBelong
<1>1. Windows = {} /\ Spec => []RefsInv
  BY InitRefs, NextRefs, PTL DEF Spec
<1>2. QED
  BY <1>1, RefsInvSuffices, PTL
-----------------------------------------------------------------------------
(* The inbox.                                                                *)

(* What neither part of the proof has typed so far.                          *)
BoxTyped ==
  /\ box \in [Name -> {"empty", "drafts", "back", "acted"}] /\ kept \subseteq Name
  /\ \A n \in Name : vault[n] \in [on : BOOLEAN, refs : SUBSET Ref, box : {"empty", "back", "acted"}]
  /\ move \in [kind : {"idle", "delete", "rename", "archive"},
               from : Name \cup {"none"}, to : Name \cup {"none"}]
  /\ edit \in [name : Name \cup {"none"}, refs : SUBSET Ref]
  /\ spent \in [moves : 0..MaxMoves, restarts : 0..MaxRestarts]

(* The untouched scopes, but for one that is being deleted ...               *)
Untouched == {n \in Name : box[n] = "drafts" /\ ~Going(n)}

(* ... each of which the count of the inbox sees, ...                        *)
Seen ==
  /\ \A n \in Untouched : origin[n] # {}
  /\ move.kind = "archive" => box[move.from] # "drafts"

(* ... and the one under way, for which a place is kept.                     *)
Raising == \E c \in Call : call[c].at \in {"preparing", "writing"}
Counted ==
  /\ \A c \in Call : call[c].at \in {"preparing", "writing"} => call[c].refs # {}
  /\ Cardinality(Untouched) <= MaxPending
  /\ Raising => Cardinality(Untouched) < MaxPending

BoxInv == RefsInv /\ BoxTyped /\ Seen /\ Counted

LEMMA UntouchedIsFinite ==
  /\ IsFiniteSet(Untouched) /\ Cardinality(Untouched) \in Nat
  /\ IsFiniteSet(Untouched') /\ Cardinality(Untouched') \in Nat
<1>1. IsFiniteSet(Name) /\ Untouched \subseteq Name /\ Untouched' \subseteq Name
  BY ProactiveAssumption DEF ProactiveAssumption, Untouched
<1>2. IsFiniteSet(Untouched) /\ IsFiniteSet(Untouched')
  BY <1>1, FS_Subset
<1>3. QED
  BY <1>2, FS_CardinalityType

(* A step that leaves no more scopes untouched, and keeps no more places.    *)
LEMMA NoneAdded ==
  ASSUME Counted, Untouched' \subseteq Untouched, Raising' => Raising,
         \A c \in Call : call'[c].at \in {"preparing", "writing"} => call'[c].refs # {}
  PROVE  Counted'
<1>1. Cardinality(Untouched') <= Cardinality(Untouched)
  BY UntouchedIsFinite, FS_Subset
<1>2. /\ Cardinality(Untouched) \in Nat /\ Cardinality(Untouched') \in Nat
      /\ MaxPending \in Nat
  BY UntouchedIsFinite, ProactiveAssumption DEF ProactiveAssumption
<1>3. Cardinality(Untouched') <= MaxPending
  BY <1>1, <1>2 DEF Counted
<1>4. Raising' => Cardinality(Untouched') < MaxPending
  BY <1>1, <1>2 DEF Counted
<1>5. QED
  BY <1>3, <1>4 DEF Counted

(* What is left as it is by most steps.                                      *)
LEMMA FrameBox ==
  ASSUME BoxInv, UNCHANGED <<box, kept, vault, move, origin>>
  PROVE  /\ Seen' /\ Untouched' = Untouched
         /\ /\ edit' \in [name : Name \cup {"none"}, refs : SUBSET Ref]
            /\ spent' \in [moves : 0..MaxMoves, restarts : 0..MaxRestarts]
            => BoxTyped'
<1>1. Untouched' = Untouched
  BY DEF Untouched, Going
<1>2. Seen'
  BY <1>1 DEF BoxInv, Seen
<1>3. QED
  BY <1>1, <1>2 DEF BoxInv, BoxTyped

(* The same calls are under way.                                             *)
LEMMA SameCalls ==
  ASSUME BoxInv, UNCHANGED call, Untouched' \subseteq Untouched
  PROVE  Counted'
<1>1. Counted /\ (Raising' <=> Raising)
  BY DEF BoxInv, Raising
<1>2. \A c \in Call : call'[c].at \in {"preparing", "writing"} => call'[c].refs # {}
  BY <1>1 DEF Counted
<1>3. QED
  BY <1>1, <1>2, NoneAdded

LEMMA MovesSpend ==
  ASSUME BoxInv, Moves
  PROVE  spent' \in [moves : 0..MaxMoves, restarts : 0..MaxRestarts]
<1>1. /\ spent \in [moves : 0..MaxMoves, restarts : 0..MaxRestarts]
      /\ spent.moves < MaxMoves /\ spent' = [spent EXCEPT !.moves = @ + 1]
      /\ MaxMoves \in Nat /\ MaxRestarts \in Nat
  BY ProactiveAssumption DEF ProactiveAssumption, BoxInv, BoxTyped, Moves
<1>2. spent.moves + 1 \in 0..MaxMoves
  BY <1>1
<1>3. QED
  BY <1>1, <1>2

(* A call that does not raise a scope, or no longer does.                    *)
LEMMA CallEnds ==
  ASSUME BoxInv, NEW c \in Call, NEW v, call' = [call EXCEPT ![c] = v],
         v.at \notin {"preparing", "writing"}, Untouched' \subseteq Untouched
  PROVE  Counted'
<1>1. \A d \in Call : call'[d] = IF d = c THEN v ELSE call[d]
  BY DEF BoxInv, RefsInv, RefsTyped
<1>2. Counted /\ (Raising' => Raising)
  BY <1>1 DEF BoxInv, Raising
<1>3. \A d \in Call : call'[d].at \in {"preparing", "writing"} => call'[d].refs # {}
  BY <1>1, <1>2 DEF Counted
<1>4. QED
  BY <1>2, <1>3, NoneAdded

LEMMA ProposesBox ==
  ASSUME BoxInv, NEW c \in Call, NEW refs \in SUBSET Ref, refs # {}, Proposes(c, refs)
  PROVE  BoxTyped' /\ Seen' /\ Counted'
<1>1. UNCHANGED <<box, kept, vault, move, origin, edit, spent>>
  BY DEF Proposes, scopes
<1>2. BoxTyped' /\ Seen' /\ Untouched' = Untouched
  BY <1>1, FrameBox DEF BoxInv, BoxTyped
<1>3. ASSUME HasRoom, Calls(c, "preparing", "none", refs) PROVE Counted'
  <2>1. Untouched \subseteq Pending /\ Pending \subseteq Name
    BY DEF BoxInv, Seen, Untouched, Pending
  <2>2. Cardinality(Untouched) <= Cardinality(Pending) /\ Cardinality(Pending) \in Nat
    <3>1. IsFiniteSet(Pending)
      BY <2>1, ProactiveAssumption, FS_Subset DEF ProactiveAssumption
    <3>2. QED
      BY <2>1, <3>1, FS_Subset, FS_CardinalityType
  <2>3. Cardinality(Untouched) < MaxPending /\ Cardinality(Untouched) <= MaxPending
    <3>1. Cardinality(Untouched) \in Nat /\ MaxPending \in Nat
      BY UntouchedIsFinite, ProactiveAssumption DEF ProactiveAssumption
    <3>2. QED
      BY <1>3, <2>2, <3>1 DEF HasRoom
  <2>4. \A d \in Call : call'[d] = IF d = c THEN [at |-> "preparing", name |-> "none", refs |-> refs]
                                   ELSE call[d]
    BY <1>3 DEF BoxInv, RefsInv, RefsTyped, Calls
  <2>5. \A d \in Call : call'[d].at \in {"preparing", "writing"} => call'[d].refs # {}
    BY <2>4 DEF BoxInv, Counted
  <2>6. QED
    BY <1>2, <2>3, <2>5 DEF Counted
<1>4. ASSUME NEW n, Calls(c, "refilling", n, {}) PROVE Counted'
  BY <1>2, <1>4, CallEnds DEF Calls
<1>5. QED
  BY <1>2, <1>3, <1>4 DEF Proposes

LEMMA WritesBox ==
  ASSUME BoxInv, NEW c \in Call, NEW n \in Name, WritesScope(c, n)
  PROVE  BoxTyped' /\ Seen' /\ Counted'
<1>1. /\ call[c].at = "preparing" /\ Calls(c, "writing", n, call[c].refs)
      /\ UNCHANGED <<box, kept, vault, move, origin, edit, spent>>
  BY DEF WritesScope
<1>2. BoxTyped' /\ Seen' /\ Untouched' = Untouched
  BY <1>1, FrameBox DEF BoxInv, BoxTyped
<1>3. \A d \in Call : call'[d] = IF d = c THEN [at |-> "writing", name |-> n, refs |-> call[c].refs]
                                 ELSE call[d]
  BY <1>1 DEF BoxInv, RefsInv, RefsTyped, Calls
<1>4. Counted /\ (Raising' => Raising)
  BY <1>1, <1>3 DEF BoxInv, Raising
<1>5. \A d \in Call : call'[d].at \in {"preparing", "writing"} => call'[d].refs # {}
  BY <1>1, <1>3, <1>4 DEF Counted
<1>6. QED
  BY <1>2, <1>4, <1>5, NoneAdded

(* The place that was kept is taken.                                         *)
LEMMA RaisedBox ==
  ASSUME BoxInv, NEW c \in Call, Raised(c)
  PROVE  BoxTyped' /\ Seen' /\ Counted'
<1> DEFINE n == call[c].name
<1>1. /\ call[c].at = "writing" /\ call[c].refs # {} /\ call[c].refs \in SUBSET Ref
      /\ n \in Name /\ n \notin {move.from, move.to}
  BY DEF Raised, BoxInv, Counted, RefsInv, RefsTyped, CallHolds, Alone
<1>2. /\ box' = [box EXCEPT ![n] = "drafts"] /\ kept' = kept \ {n}
      /\ origin' = [origin EXCEPT ![n] = call[c].refs]
      /\ call' = [call EXCEPT ![c] = NoCall]
      /\ UNCHANGED <<vault, move, edit, spent>>
  BY DEF Raised, Bind
<1>3. \A m \in Name : /\ box'[m] = IF m = n THEN "drafts" ELSE box[m]
                      /\ origin'[m] = IF m = n THEN call[c].refs ELSE origin[m]
  BY <1>1, <1>2 DEF BoxInv, BoxTyped, RefsInv, RefsTyped
<1>4. BoxTyped'
  <2>1. box' \in [Name -> {"empty", "drafts", "back", "acted"}] /\ kept' \subseteq Name
    BY <1>2 DEF BoxInv, BoxTyped
  <2>2. QED
    BY <1>2, <2>1 DEF BoxInv, BoxTyped
<1>5. Untouched' \subseteq Untouched \cup {n}
  BY <1>2, <1>3 DEF Untouched, Going
<1>6. Seen'
  <2>1. \A m \in Untouched' : origin'[m] # {}
    BY <1>1, <1>3, <1>5 DEF BoxInv, Seen, Untouched
  <2>2. move.kind = "archive" => move.from \in Name
    BY DEF BoxInv, RefsInv, Moved
  <2>3. QED
    BY <1>1, <1>2, <1>3, <2>1, <2>2 DEF BoxInv, Seen
<1>7. Counted'
  <2>1. \A d \in Call : call'[d].at \notin {"preparing", "writing"}
    <3>1. \A d \in Call : d # c => call[d].at = "idle"
      BY <1>1 DEF BoxInv, RefsInv, OneCall
    <3>2. QED
      BY <1>2, <3>1 DEF BoxInv, RefsInv, RefsTyped, NoCall
  <2>2. Cardinality(Untouched) < MaxPending
    BY <1>1 DEF BoxInv, Counted, Raising
  <2>3. Cardinality(Untouched') <= Cardinality(Untouched) + 1
    <3>1. /\ IsFiniteSet(Untouched \cup {n})
          /\ Cardinality(Untouched \cup {n}) <= Cardinality(Untouched) + 1
          /\ Cardinality(Untouched \cup {n}) \in Nat
      BY UntouchedIsFinite, FS_AddElement, FS_CardinalityType
    <3>2. Cardinality(Untouched') <= Cardinality(Untouched \cup {n})
      BY <1>5, <3>1, FS_Subset
    <3>3. QED
      BY <3>1, <3>2, UntouchedIsFinite
  <2>4. Cardinality(Untouched') <= MaxPending
    <3>1. MaxPending \in Nat
      BY ProactiveAssumption DEF ProactiveAssumption
    <3>2. QED
      BY <2>2, <2>3, <3>1, UntouchedIsFinite
  <2>5. QED
    BY <2>1, <2>4 DEF Counted, Raising
<1>8. QED
  BY <1>4, <1>6, <1>7

LEMMA CallsBox ==
  ASSUME BoxInv, NEW c \in Call,
         \/ PrepareFails(c) \/ Refilled(c) \/ Attached(c)
         \/ \E n \in Name, refs \in (SUBSET Ref) \ {{}} : Attaches(c, n, refs)
  PROVE  BoxTyped' /\ Seen' /\ Counted'
<1>1. CASE PrepareFails(c)
  <2>1. /\ call' = [call EXCEPT ![c] = NoCall]
        /\ UNCHANGED <<box, kept, vault, move, origin, edit, spent>>
    BY <1>1 DEF PrepareFails, scopes
  <2>2. BoxTyped' /\ Seen' /\ Untouched' = Untouched
    BY <2>1, FrameBox DEF BoxInv, BoxTyped
  <2>3. Counted'
    BY <2>1, <2>2, CallEnds DEF NoCall
  <2>4. QED
    BY <2>2, <2>3
<1>2. ASSUME NEW n \in Name, NEW refs \in SUBSET Ref, Attaches(c, n, refs)
      PROVE  BoxTyped' /\ Seen' /\ Counted'
  <2>1. /\ call' = [call EXCEPT ![c] = [at |-> "saving", name |-> n, refs |-> origin[n] \cup refs]]
        /\ UNCHANGED <<box, kept, vault, move, origin, edit, spent>>
    BY <1>2 DEF Attaches, Calls, scopes
  <2>2. BoxTyped' /\ Seen' /\ Untouched' = Untouched
    BY <2>1, FrameBox DEF BoxInv, BoxTyped
  <2>3. Counted'
    BY <2>1, <2>2, CallEnds
  <2>4. QED
    BY <2>2, <2>3
<1>3. CASE Refilled(c)
  <2> DEFINE n == call[c].name
  <2>1. /\ box' = [box EXCEPT ![n] = "back"] /\ kept' = kept \ {n}
        /\ call' = [call EXCEPT ![c] = NoCall]
        /\ UNCHANGED <<origin, vault, move, edit, spent>>
    BY <1>3 DEF Refilled
  <2>2. BoxTyped'
    <3>1. box' \in [Name -> {"empty", "drafts", "back", "acted"}] /\ kept' \subseteq Name
      BY <2>1 DEF BoxInv, BoxTyped
    <3>2. QED
      BY <2>1, <3>1 DEF BoxInv, BoxTyped
  <2>3. \A m \in Name : box'[m] = "drafts" => box[m] = "drafts"
    BY <2>1 DEF BoxInv, BoxTyped
  <2>4. Untouched' \subseteq Untouched
    BY <2>1, <2>3 DEF Untouched, Going
  <2>5. Seen'
    BY <2>1, <2>3, <2>4 DEF BoxInv, Seen, RefsInv, Moved
  <2>6. Counted'
    BY <2>1, <2>4, CallEnds DEF NoCall
  <2>7. QED
    BY <2>2, <2>5, <2>6
<1>4. CASE Attached(c)
  <2> DEFINE n == call[c].name
  <2>1. /\ origin' = [origin EXCEPT ![n] = call[c].refs]
        /\ call' = [call EXCEPT ![c] = NoCall]
        /\ UNCHANGED <<box, kept, vault, move, edit, spent>>
    BY <1>4 DEF Attached, Bind
  <2>2. BoxTyped'
    BY <2>1 DEF BoxInv, BoxTyped
  <2>3. origin[n] \subseteq call[c].refs
    BY <1>4 DEF Attached, BoxInv, RefsInv, CallHolds
  <2>4. Untouched' = Untouched
    BY <2>1 DEF Untouched, Going
  <2>5. \A m \in Name : origin[m] # {} => origin'[m] # {}
    BY <2>1, <2>3 DEF BoxInv, RefsInv, RefsTyped
  <2>6. Seen'
    BY <2>1, <2>4, <2>5 DEF BoxInv, Seen, Untouched
  <2>7. Counted'
    BY <2>1, <2>4, CallEnds DEF NoCall
  <2>8. QED
    BY <2>2, <2>6, <2>7
<1>5. QED
  BY <1>1, <1>2, <1>3, <1>4

-----------------------------------------------------------------------------
(* The inbox, and what the user does.                                        *)

LEMMA EditsBox ==
  ASSUME BoxInv, NEW n \in Name, SavesDrafts(n) \/ Edits(n) \/ Edited
  PROVE  BoxTyped' /\ Seen' /\ Counted'
<1>1. CASE SavesDrafts(n)
  <2>1. kept' = kept \cup {n} /\ UNCHANGED <<box, vault, move, origin, call, edit, spent>>
    BY <1>1 DEF SavesDrafts
  <2>2. BoxTyped' /\ Seen' /\ Untouched' = Untouched
    BY <2>1 DEF BoxInv, BoxTyped, Seen, Untouched, Going
  <2>3. QED
    BY <2>1, <2>2, SameCalls
<1>2. CASE Edits(n)
  <2>1. /\ edit' = [name |-> n, refs |-> dir[n].refs] /\ Moves
        /\ UNCHANGED <<box, kept, vault, move, origin, call>>
    BY <1>2 DEF Edits, scopes
  <2>2. edit' \in [name : Name \cup {"none"}, refs : SUBSET Ref]
    BY <2>1 DEF BoxInv, RefsInv, RefsTyped
  <2>3. BoxTyped' /\ Seen' /\ Untouched' = Untouched
    BY <2>1, <2>2, FrameBox, MovesSpend
  <2>4. QED
    BY <2>1, <2>3, SameCalls
<1>3. CASE Edited
  <2>1. edit' = NoEdit /\ UNCHANGED <<box, kept, vault, move, origin, call, spent>>
    BY <1>3 DEF Edited
  <2>2. edit' \in [name : Name \cup {"none"}, refs : SUBSET Ref]
    BY <2>1 DEF NoEdit
  <2>3. BoxTyped' /\ Seen' /\ Untouched' = Untouched
    BY <2>1, <2>2, FrameBox DEF BoxInv, BoxTyped
  <2>4. QED
    BY <2>1, <2>3, SameCalls
<1>4. QED
  BY <1>1, <1>2, <1>3

LEMMA ActsOnBox ==
  ASSUME BoxInv, NEW n \in Name, ActsOn(n)
  PROVE  BoxTyped' /\ Seen' /\ Counted'
<1>1. PICK b \in {"acted", "back", "empty"} : box' = [box EXCEPT ![n] = b]
  BY DEF ActsOn
<1>2. /\ kept' \subseteq kept
      /\ UNCHANGED <<vault, move, origin, call, edit, spent>>
  BY DEF ActsOn
<1>3. \A m \in Name : box'[m] = "drafts" => box[m] = "drafts"
  BY <1>1 DEF BoxInv, BoxTyped
<1>4. Untouched' \subseteq Untouched
  BY <1>2, <1>3 DEF Untouched, Going
<1>5. BoxTyped'
  BY <1>1, <1>2 DEF BoxInv, BoxTyped
<1>6. Seen'
  BY <1>2, <1>3, <1>4 DEF BoxInv, Seen, RefsInv, Moved
<1>7. QED
  BY <1>2, <1>4, <1>5, <1>6, SameCalls

LEMMA DeletesBox ==
  ASSUME BoxInv, NEW n \in Name, Deletes(n)
  PROVE  BoxTyped' /\ Seen' /\ Counted'
<1>1. /\ move' = [kind |-> "delete", from |-> n, to |-> "none"] /\ Moves
      /\ origin' = [origin EXCEPT ![n] = {}]
      /\ UNCHANGED <<box, kept, vault, call, edit>>
  BY DEF Deletes, Forget
<1>2. move = NoMove
  BY DEF Deletes, MayMove
<1>3. BoxTyped'
  BY <1>1, MovesSpend DEF BoxInv, BoxTyped
<1>4. \A m \in Untouched' : m \in Untouched /\ m # n
  BY <1>1, <1>2 DEF Untouched, Going, NoMove
<1>5. Seen'
  BY <1>1, <1>4 DEF BoxInv, Seen, RefsInv, RefsTyped, Untouched
<1>6. QED
  BY <1>1, <1>3, <1>4, <1>5, SameCalls

LEMMA DeletedBox ==
  ASSUME BoxInv, Deleted
  PROVE  BoxTyped' /\ Seen' /\ Counted'
<1> DEFINE n == move.from
<1>1. /\ n \in Name /\ move.kind = "delete" /\ move' = NoMove
      /\ box' = [box EXCEPT ![n] = "empty"] /\ kept' = kept \ {n}
      /\ UNCHANGED <<origin, vault, call, edit, spent>>
  BY DEF Deleted, BoxInv, RefsInv, Moved
<1>2. \A m \in Name : box'[m] = IF m = n THEN "empty" ELSE box[m]
  BY <1>1 DEF BoxInv, BoxTyped
<1>3. Untouched' \subseteq Untouched
  BY <1>1, <1>2 DEF Untouched, Going
<1>4. BoxTyped'
  <2>1. move' \in [kind : {"idle", "delete", "rename", "archive"},
                   from : Name \cup {"none"}, to : Name \cup {"none"}]
    BY <1>1 DEF NoMove
  <2>2. box' \in [Name -> {"empty", "drafts", "back", "acted"}] /\ kept' \subseteq Name
    BY <1>1 DEF BoxInv, BoxTyped
  <2>3. QED
    BY <1>1, <2>1, <2>2 DEF BoxInv, BoxTyped
<1>5. Seen'
  BY <1>1, <1>3 DEF BoxInv, Seen, NoMove
<1>6. QED
  BY <1>1, <1>3, <1>4, <1>5, SameCalls

LEMMA RenamesBox ==
  ASSUME BoxInv, NEW n \in Name, NEW to \in Name, Renames(n, to)
  PROVE  BoxTyped' /\ Seen' /\ Counted'
<1>1. /\ move' = [kind |-> "rename", from |-> n, to |-> to] /\ Moves
      /\ UNCHANGED <<origin, box, kept, vault, call, edit>>
  BY DEF Renames
<1>2. move = NoMove
  BY DEF Renames, MayMove
<1>3. BoxTyped'
  BY <1>1, MovesSpend DEF BoxInv, BoxTyped
<1>4. Untouched' = Untouched
  BY <1>1, <1>2 DEF Untouched, Going, NoMove
<1>5. Seen'
  BY <1>1, <1>4 DEF BoxInv, Seen
<1>6. QED
  BY <1>1, <1>3, <1>4, <1>5, SameCalls

(* The scope takes its drafts along.                                         *)
LEMMA RenamedBox ==
  ASSUME BoxInv, Renamed
  PROVE  BoxTyped' /\ Seen' /\ Counted'
<1> DEFINE n == move.from  to == move.to
<1>1. /\ n \in Name /\ to \in Name /\ to # n /\ move.kind = "rename" /\ origin[to] = {}
      /\ move' = NoMove
      /\ box' = [box EXCEPT ![to] = box[n], ![n] = "empty"]
      /\ kept' = IF n \in kept THEN (kept \ {n}) \cup {to} ELSE kept \ {to}
      /\ UNCHANGED <<vault, call, edit, spent>>
  BY DEF Renamed, BoxInv, RefsInv, Moved
<1>2. \A m \in Name : box'[m] = IF m = n THEN "empty" ELSE IF m = to THEN box[n] ELSE box[m]
  BY <1>1 DEF BoxInv, BoxTyped
<1>3. \A m \in Name : /\ origin'[m] = IF m = to THEN origin[n] ELSE IF m = n THEN {} ELSE origin[m]
  <2>1. CASE origin[n] = {}
    BY <1>1, <2>1 DEF Renamed
  <2>2. CASE origin[n] # {}
    BY <1>1, <2>2 DEF Renamed, BoxInv, RefsInv, RefsTyped
  <2>3. QED
    BY <2>1, <2>2
<1>4. \A m \in Untouched' : m # n /\ (m # to => m \in Untouched) /\ (m = to => n \in Untouched)
  BY <1>1, <1>2 DEF Untouched, Going
<1>5. BoxTyped'
  <2>1. move' \in [kind : {"idle", "delete", "rename", "archive"},
                   from : Name \cup {"none"}, to : Name \cup {"none"}]
    BY <1>1 DEF NoMove
  <2>2. box' \in [Name -> {"empty", "drafts", "back", "acted"}] /\ kept' \subseteq Name
    BY <1>1 DEF BoxInv, BoxTyped
  <2>3. QED
    BY <1>1, <2>1, <2>2 DEF BoxInv, BoxTyped
<1>6. Seen'
  <2>1. \A m \in Untouched' : origin'[m] # {}
    BY <1>1, <1>3, <1>4 DEF BoxInv, Seen, Untouched
  <2>2. QED
    BY <1>1, <2>1 DEF Seen, NoMove
<1>7. Cardinality(Untouched') <= Cardinality(Untouched)
  <2>1. CASE to \in Untouched' 
    <3>1. /\ IsFiniteSet(Untouched \ {n}) /\ n \in Untouched
          /\ Cardinality(Untouched \ {n}) = Cardinality(Untouched) - 1
      BY <1>4, <2>1, UntouchedIsFinite, FS_RemoveElement
    <3>2. Untouched' \subseteq (Untouched \ {n}) \cup {to}
      BY <1>4
    <3>3. /\ IsFiniteSet((Untouched \ {n}) \cup {to})
          /\ \/ Cardinality((Untouched \ {n}) \cup {to}) = Cardinality(Untouched \ {n})
             \/ Cardinality((Untouched \ {n}) \cup {to}) = Cardinality(Untouched \ {n}) + 1
      BY <3>1, FS_AddElement
    <3>4. Cardinality(Untouched') <= Cardinality((Untouched \ {n}) \cup {to})
      BY <3>2, <3>3, FS_Subset
    <3>5. QED
      BY <3>1, <3>3, <3>4, UntouchedIsFinite
  <2>2. CASE to \notin Untouched'
    <3>1. Untouched' \subseteq Untouched
      BY <1>4, <2>2
    <3>2. QED
      BY <3>1, UntouchedIsFinite, FS_Subset
  <2>3. QED
    BY <2>1, <2>2
<1>8. Counted'
  <2>1. Raising' <=> Raising
    BY <1>1 DEF Raising
  <2>2. /\ Cardinality(Untouched) \in Nat /\ Cardinality(Untouched') \in Nat
        /\ MaxPending \in Nat
    BY UntouchedIsFinite, ProactiveAssumption DEF ProactiveAssumption
  <2>3. Cardinality(Untouched') <= MaxPending
    BY <1>7, <2>2 DEF BoxInv, Counted
  <2>4. Raising' => Cardinality(Untouched') < MaxPending
    BY <1>7, <2>1, <2>2 DEF BoxInv, Counted
  <2>5. \A c \in Call : call'[c].at \in {"preparing", "writing"} => call'[c].refs # {}
    BY <1>1 DEF BoxInv, Counted
  <2>6. QED
    BY <2>3, <2>4, <2>5 DEF Counted
<1>9. QED
  BY <1>5, <1>6, <1>8

LEMMA ArchivesBox ==
  ASSUME BoxInv, NEW n \in Name, Archives(n)
  PROVE  BoxTyped' /\ Seen' /\ Counted'
<1>1. /\ box' = [box EXCEPT ![n] = "empty"] /\ kept' = kept \ {n} /\ Moves
      /\ vault' = [vault EXCEPT ![n] = [on |-> TRUE, refs |-> dir[n].refs,
                                        box |-> IF box[n] = "drafts" THEN "back" ELSE box[n]]]
      /\ move' = [kind |-> "archive", from |-> n, to |-> "none"]
      /\ UNCHANGED <<origin, call, edit>>
  BY DEF Archives
<1>2. move = NoMove
  BY DEF Archives, MayMove
<1>3. \A m \in Name : box'[m] = IF m = n THEN "empty" ELSE box[m]
  BY <1>1 DEF BoxInv, BoxTyped
<1>4. BoxTyped'
  <2>1. box' \in [Name -> {"empty", "drafts", "back", "acted"}] /\ kept' \subseteq Name
    BY <1>1 DEF BoxInv, BoxTyped
  <2>2. ASSUME NEW m \in Name
        PROVE  vault'[m] \in [on : BOOLEAN, refs : SUBSET Ref, box : {"empty", "back", "acted"}]
    <3>1. vault'[m] = IF m = n THEN [on |-> TRUE, refs |-> dir[n].refs,
                                     box |-> IF box[n] = "drafts" THEN "back" ELSE box[n]]
                      ELSE vault[m]
      BY <1>1 DEF BoxInv, RefsInv, RefsTyped
    <3>2. dir[n].refs \in SUBSET Ref /\ box[n] \in {"empty", "drafts", "back", "acted"}
      BY DEF BoxInv, BoxTyped, RefsInv, RefsTyped
    <3>3. QED
      BY <3>1, <3>2 DEF BoxInv, BoxTyped
  <2>3. QED
    BY <1>1, <2>1, <2>2, MovesSpend DEF BoxInv, BoxTyped
<1>5. Untouched' \subseteq Untouched
  BY <1>1, <1>2, <1>3 DEF Untouched, Going, NoMove
<1>6. Seen'
  BY <1>1, <1>3, <1>5 DEF BoxInv, Seen
<1>7. QED
  BY <1>1, <1>4, <1>5, <1>6, SameCalls

LEMMA ArchivedBox ==
  ASSUME BoxInv, Archived
  PROVE  BoxTyped' /\ Seen' /\ Counted'
<1> DEFINE n == move.from
<1>1. /\ n \in Name /\ move.kind = "archive" /\ move' = NoMove
      /\ origin' = [origin EXCEPT ![n] = {}]
      /\ UNCHANGED <<box, kept, vault, call, edit, spent>>
  BY DEF Archived, Forget, BoxInv, RefsInv, Moved
<1>2. BoxTyped'
  <2>1. move' \in [kind : {"idle", "delete", "rename", "archive"},
                   from : Name \cup {"none"}, to : Name \cup {"none"}]
    BY <1>1 DEF NoMove
  <2>2. QED
    BY <1>1, <2>1 DEF BoxInv, BoxTyped
<1>3. \A m \in Untouched' : m \in Untouched /\ m # n
  BY <1>1 DEF Untouched, Going, BoxInv, Seen
<1>4. Seen'
  BY <1>1, <1>3 DEF BoxInv, Seen, RefsInv, RefsTyped, Untouched, NoMove
<1>5. QED
  BY <1>1, <1>2, <1>3, <1>4, SameCalls

LEMMA RestoresBox ==
  ASSUME BoxInv, NEW n \in Name, Restores(n)
  PROVE  BoxTyped' /\ Seen' /\ Counted'
<1>1. /\ box' = [box EXCEPT ![n] = vault[n].box] /\ move.from # n /\ Moves
      /\ kept' \subseteq kept \cup {n}
      /\ vault' = [vault EXCEPT ![n] = NoVault]
      /\ UNCHANGED <<origin, call, move, edit>>
  BY DEF Restores
<1>2. vault[n].box \in {"empty", "back", "acted"}
  BY DEF BoxInv, BoxTyped
<1>3. \A m \in Name : box'[m] = IF m = n THEN vault[n].box ELSE box[m]
  BY <1>1 DEF BoxInv, BoxTyped
<1>4. BoxTyped'
  <2>1. box' \in [Name -> {"empty", "drafts", "back", "acted"}] /\ kept' \subseteq Name
    BY <1>1, <1>2 DEF BoxInv, BoxTyped
  <2>2. ASSUME NEW m \in Name
        PROVE  vault'[m] \in [on : BOOLEAN, refs : SUBSET Ref, box : {"empty", "back", "acted"}]
    <3>1. vault'[m] = IF m = n THEN NoVault ELSE vault[m]
      BY <1>1 DEF BoxInv, RefsInv, RefsTyped
    <3>2. QED
      BY <3>1 DEF BoxInv, BoxTyped, NoVault
  <2>3. QED
    BY <1>1, <2>1, <2>2, MovesSpend DEF BoxInv, BoxTyped
<1>5. Untouched' \subseteq Untouched
  BY <1>1, <1>2, <1>3 DEF Untouched, Going
<1>6. Seen'
  BY <1>1, <1>3, <1>5 DEF BoxInv, Seen, RefsInv, Moved
<1>7. QED
  BY <1>1, <1>4, <1>5, <1>6, SameCalls

(* What is read from the disk is as untouched as it was, and as bound.       *)
LEMMA RestartBox ==
  ASSUME BoxInv, Restart
  PROVE  BoxTyped' /\ Seen' /\ Counted'
<1>1. /\ move.kind \notin {"delete", "rename"}
      /\ origin' = [n \in Name |-> dir[n].refs]
      /\ box' = [n \in Name |-> IF n \in kept THEN box[n] ELSE "empty"]
      /\ kept' = {n \in kept : box[n] # "empty"}
      /\ call' = [c \in Call |-> NoCall] /\ move' = NoMove /\ edit' = NoEdit
      /\ vault' = vault
  BY DEF Restart, BoxInv, RefsInv
<1>2. spent' \in [moves : 0..MaxMoves, restarts : 0..MaxRestarts]
  <2>1. /\ spent \in [moves : 0..MaxMoves, restarts : 0..MaxRestarts]
        /\ spent.restarts < MaxRestarts /\ spent' = [spent EXCEPT !.restarts = @ + 1]
        /\ MaxMoves \in Nat /\ MaxRestarts \in Nat
    BY ProactiveAssumption DEF ProactiveAssumption, BoxInv, BoxTyped, Restart
  <2>2. spent.restarts + 1 \in 0..MaxRestarts
    BY <2>1
  <2>3. QED
    BY <2>1, <2>2
<1>3. BoxTyped'
  <2>1. box' \in [Name -> {"empty", "drafts", "back", "acted"}] /\ kept' \subseteq Name
    BY <1>1 DEF BoxInv, BoxTyped
  <2>2. move' \in [kind : {"idle", "delete", "rename", "archive"},
                   from : Name \cup {"none"}, to : Name \cup {"none"}]
    BY <1>1 DEF NoMove
  <2>3. edit' \in [name : Name \cup {"none"}, refs : SUBSET Ref]
    BY <1>1 DEF NoEdit
  <2>4. QED
    BY <1>1, <1>2, <2>1, <2>2, <2>3 DEF BoxInv, BoxTyped
<1>4. Untouched' \subseteq Untouched
  BY <1>1 DEF Untouched, Going
<1>5. ASSUME NEW n \in Untouched' PROVE origin'[n] # {}
  <2>1. n \in Name /\ n \in Untouched /\ origin[n] # {} /\ box[n] = "drafts" /\ ~Going(n)
    BY <1>4 DEF BoxInv, Seen, Untouched
  <2>2. Owner(n) = n
    BY <1>1 DEF Owner
  <2>3. ~Written(n)
    BY <2>1 DEF Written, BoxInv, RefsInv, CallHolds
  <2>4. dir[n].on /\ n \notin unindexed
    BY <1>1, <2>1, <2>2 DEF BoxInv, Seen, RefsInv, Filed
  <2>5. origin[n] = dir[n].refs
    BY <2>1, <2>2, <2>3, <2>4 DEF BoxInv, RefsInv, Filed
  <2>6. QED
    BY <1>1, <2>1, <2>5
<1>6. Seen'
  BY <1>1, <1>5 DEF Seen, NoMove
<1>7. Counted'
  <2>1. \A c \in Call : call'[c].at = "idle"
    BY <1>1 DEF NoCall
  <2>2. QED
    BY <1>4, <2>1, NoneAdded DEF BoxInv, Raising
<1>8. QED
  BY <1>3, <1>6, <1>7

LEMMA FrameAllBox ==
  ASSUME BoxInv, UNCHANGED <<box, kept, vault, move, origin, call, edit, spent>>
  PROVE  BoxTyped' /\ Seen' /\ Counted'
<1>1. BoxTyped' /\ Seen' /\ Untouched' = Untouched
  BY FrameBox DEF BoxInv, BoxTyped
<1>2. QED
  BY <1>1, SameCalls

LEMMA InitBox == Init /\ Windows = {} => BoxInv
<1> SUFFICES ASSUME Init, Windows = {} PROVE BoxInv
  OBVIOUS
<1>1. RefsInv
  BY InitRefs
<1>2. BoxTyped
  <2>1. \A n \in Name : vault[n] \in [on : BOOLEAN, refs : SUBSET Ref, box : {"empty", "back", "acted"}]
    BY DEF Init, NoVault
  <2>2. move \in [kind : {"idle", "delete", "rename", "archive"},
                  from : Name \cup {"none"}, to : Name \cup {"none"}]
    BY DEF Init, NoMove
  <2>3. edit \in [name : Name \cup {"none"}, refs : SUBSET Ref]
    BY DEF Init, NoEdit
  <2>4. spent \in [moves : 0..MaxMoves, restarts : 0..MaxRestarts]
    BY ProactiveAssumption DEF ProactiveAssumption, Init
  <2>5. box \in [Name -> {"empty", "drafts", "back", "acted"}] /\ kept \subseteq Name
    BY DEF Init
  <2>6. QED
    BY <2>1, <2>2, <2>3, <2>4, <2>5 DEF BoxTyped
<1>3. Untouched = {}
  BY DEF Init, Untouched
<1>4. Seen
  BY <1>3 DEF Init, Seen, NoMove
<1>5. Counted
  <2>1. \A c \in Call : call[c].at = "idle"
    BY DEF Init, NoCall
  <2>2. Cardinality(Untouched) = 0 /\ MaxPending \in Nat \ {0}
    BY <1>3, FS_EmptySet, ProactiveAssumption DEF ProactiveAssumption
  <2>3. QED
    BY <2>1, <2>2 DEF Counted, Raising
<1>6. QED
  BY <1>1, <1>2, <1>4, <1>5 DEF BoxInv

LEMMA NextBox == BoxInv /\ [Next]_vars => BoxInv'
<1> SUFFICES ASSUME BoxInv, [Next]_vars PROVE BoxTyped' /\ Seen' /\ Counted'
  BY NextRefs DEF BoxInv
<1> DEFINE Goal == BoxTyped' /\ Seen' /\ Counted'
<1>1. ASSUME NEW r \in Run,
             \/ StartRun(r) \/ Starts(r) \/ StartFails(r) \/ Nudges(r) \/ TurnEnds(r) \/ Overdue(r)
             \/ DeletesRun(r) \/ TakesRun(r)
      PROVE  Goal
  <2>1. UNCHANGED <<box, kept, vault, move, origin, call, edit, spent>>
    BY <1>1 DEF StartRun, Starts, StartFails, Nudges, TurnEnds, Overdue, DeletesRun, TakesRun, scopes
  <2>2. QED
    BY <2>1, FrameAllBox
<1>2. ASSUME NEW c \in Call,
             \/ \E refs \in (SUBSET Ref) \ {{}} : Proposes(c, refs)
             \/ \E n \in Name, refs \in (SUBSET Ref) \ {{}} : Attaches(c, n, refs)
             \/ \E n \in Name : WritesScope(c, n)
             \/ PrepareFails(c) \/ Refilled(c) \/ Raised(c) \/ Attached(c)
      PROVE  Goal
  BY <1>2, ProposesBox, WritesBox, RaisedBox, CallsBox
<1>3. ASSUME NEW n \in Name,
             \/ ActsOn(n) \/ SavesDrafts(n) \/ Edits(n) \/ Deletes(n) \/ Archives(n)
             \/ Restores(n) \/ \E to \in Name \ {n} : Renames(n, to)
      PROVE  Goal
  BY <1>3, ActsOnBox, EditsBox, DeletesBox, ArchivesBox, RestoresBox, RenamesBox
<1>4. ASSUME Edited PROVE Goal
  <2>1. edit.name \in Name
    BY <1>4 DEF Edited, BoxInv, RefsInv, EditHolds
  <2>2. QED
    BY <1>4, <2>1, EditsBox
<1>5. ASSUME Deleted \/ Renamed \/ Archived \/ Restart PROVE Goal
  BY <1>5, DeletedBox, RenamedBox, ArchivedBox, RestartBox
<1>6. ASSUME UNCHANGED vars PROVE Goal
  <2>1. UNCHANGED <<box, kept, vault, move, origin, call, edit, spent>>
    BY <1>6 DEF vars, scopes
  <2>2. QED
    BY <2>1, FrameAllBox
<1> HIDE DEF Goal
<1>7. ASSUME Next PROVE Goal
  BY <1>7, <1>1, <1>2, <1>3, <1>4, <1>5 DEF Next
<1>8. QED
  BY <1>6, <1>7 DEF Goal

LEMMA BoxSuffices == BoxInv => InboxBounded
<1> SUFFICES ASSUME BoxInv PROVE InboxBounded
  OBVIOUS
<1> DEFINE shown == {n \in Existing : box[n] = "drafts"}
<1>1. shown \subseteq Untouched
  BY DEF Existing, Untouched, Going
<1>2. Cardinality(shown) <= Cardinality(Untouched) /\ Cardinality(shown) \in Nat
  <2>1. IsFiniteSet(shown)
    BY <1>1, UntouchedIsFinite, FS_Subset
  <2>2. QED
    BY <1>1, <2>1, UntouchedIsFinite, FS_Subset, FS_CardinalityType
<1>3. Cardinality(Untouched) <= MaxPending /\ MaxPending \in Nat
  BY ProactiveAssumption DEF ProactiveAssumption, BoxInv, Counted
<1>4. Cardinality(shown) <= MaxPending
  BY <1>2, <1>3, UntouchedIsFinite
<1>5. QED
  BY <1>4 DEF InboxBounded

(* "At most this many untouched scopes in the inbox": pendingCount is read   *)
(* before a proposal is prepared, named and written, and still bounds what   *)
(* is there afterwards, for any limit, whatever renames, deletes, archives,  *)
(* restores and restarts happen in between - outside the windows.            *)
THEOREM InboxStaysBounded == Windows = {} /\ Spec => []InboxBounded
<1>1. Windows = {} /\ Spec => []BoxInv
  BY InitBox, NextBox, PTL DEF Spec
<1>2. QED
  BY <1>1, BoxSuffices, PTL

LEMMA AllTyped == RunsInv /\ BoxInv => TypeOK
<1> SUFFICES ASSUME RunsInv, BoxInv PROVE TypeOK
  OBVIOUS
<1>1. /\ active \in Run \cup {0}
      /\ outcome \in [Run -> {"none", "running", "over"}]
      /\ sess \in [Run -> {"none", "queued", "starting", "opening", "working", "stopping", "idle",
                           "draft", "gone"}]
  BY DEF RunsInv, RunsTyped, Stage
<1>2. /\ dir \in [Name -> [on : BOOLEAN, refs : SUBSET Ref]]
      /\ origin \in [Name -> SUBSET Ref] /\ index \in [Ref -> Name \cup {"none"}]
      /\ unindexed \subseteq Name
      /\ call \in [Call -> [at : {"idle", "preparing", "refilling", "writing", "saving"},
                            name : Name \cup {"none"}, refs : SUBSET Ref]]
      /\ vault = [n \in Name |-> vault[n]]
  BY DEF BoxInv, RefsInv, RefsTyped
<1>3. \A r \in Ref : index[r] # "none" => r \in origin[index[r]]
  BY <1>2 DEF BoxInv, RefsInv, Indexed
<1>4. vault \in [Name -> [on : BOOLEAN, refs : SUBSET Ref, box : {"empty", "back", "acted"}]]
  BY <1>2 DEF BoxInv, BoxTyped
<1>5. QED
  BY <1>1, <1>2, <1>3, <1>4 DEF TypeOK, BoxInv, BoxTyped

(* Every variable keeps its type, and the index is never ahead of the        *)
(* origins: a ref it maps to a scope is one of that scope's.                 *)
THEOREM ProactiveTypeCorrect == Windows = {} /\ Spec => []TypeOK
<1>1. Windows = {} => "opening" \notin Windows
  OBVIOUS
<1>2. Windows = {} /\ Spec => [](RunsInv /\ BoxInv)
  BY <1>1, InitBox, NextBox, InitSettles, NextSettles, PTL DEF Spec
<1>3. QED
  BY <1>2, AllTyped, PTL
=============================================================================
