----------------------------- MODULE HeldWrites -----------------------------
(***************************************************************************)
(* How an operator's agent writes one server of the MCP registry, and how  *)
(* the fields that decide what runs on the user's machine are held back    *)
(* until the user has confirmed them.                                      *)
(*                                                                         *)
(* write() and the second half of applyHeld() run one at a time on the     *)
(* workspace's chain; the first half of applyHeld(), the confirmation and  *)
(* the user's own edits in Settings do not wait for it.  An action runs a  *)
(* call from one await to the next.  A revision is the entry itself: the   *)
(* code compares hashes of its canonical JSON.                             *)
(***************************************************************************)
EXTENDS Naturals, Sequences, FiniteSets

CONSTANTS
  Field,       \* the fields that are held, "command" among them
  Asks,        \* the apply_held calls that may be in flight together
  MaxEdits,    \* bound on the user's edits
  MaxWrites,   \* bound on the agent's writes
  Races        \* what may cut in: "edit", a save of the user between the check
               \* of a call and its answer; "names", a second confirmation that
               \* names a field another open one names

ASSUME HeldAssumption ==
  /\ "command" \in Field /\ IsFiniteSet(Field) /\ IsFiniteSet(Asks) /\ "write" \notin Asks
  /\ MaxEdits \in Nat /\ MaxWrites \in Nat /\ Races \subseteq {"edit", "names"}

VARIABLES
  store,     \* the entry in workspace.json
  held,      \* the fragment the map holds for it, 0 for none
  frag,      \* the fragments: shared, and changed in place
  call,      \* the write() in flight
  ask,       \* the applyHeld() calls in flight
  chain,     \* who waits for the workspace, its holder first
  edits,
  writes

vars == <<store, held, frag, call, ask, chain, edits, writes>>

Calls == {"write"} \cup Asks
Text  == {"user", "agent"}
None  == "none"              \* a field the entry does not have

Entry == [kind : {"absent", "http", "local"}, what : [Field -> Text \cup {None}],
          linked : BOOLEAN]

Bare   == [f \in Field |-> None]
Absent == [kind |-> "absent", what |-> Bare, linked |-> FALSE]

(* A local entry is not one without its command; a remote one has none of it. *)
Valid(e) ==
  \/ e = Absent
  \/ e.kind = "http" /\ e.what = Bare
  \/ e.kind = "local" /\ e.what["command"] # None

Entries == {e \in Entry : Valid(e)}

(* A fragment's map of values lacks the fields it does not hold. *)
NotHeld == "no"
Names(v) == {f \in Field : v[f] # NotHeld}

FragIds == 1..(Cardinality(Asks) + 2)
Blank   == [rev |-> Absent, values |-> [f \in Field |-> NotHeld], replace |-> Absent]
Resting == [at |-> "idle", rev |-> Absent, next |-> Absent, values |-> Blank.values,
            replace |-> Absent]
Silent  == [at |-> "idle", frag |-> 0, rev |-> Absent, fields |-> {},
            shown |-> [f \in Field |-> <<None, None>>], next |-> Absent]

TypeOK ==
  /\ store \in Entries
  /\ held \in FragIds \cup {0}
  /\ frag \in [FragIds -> [rev : Entries, values : [Field -> Text \cup {None, NotHeld}],
                           replace : Entries]]
  /\ call \in [at : {"idle", "chain", "store", "after"}, rev : Entries, next : Entries,
               values : [Field -> Text \cup {None, NotHeld}], replace : Entries]
  /\ ask \in [Asks -> [at : {"idle", "read", "open", "chain", "store", "after"},
                       frag : FragIds \cup {0}, rev : Entries, fields : SUBSET Field,
                       shown : [Field -> (Text \cup {None}) \X (Text \cup {None})],
                       next : Entry]]
  /\ \A i \in 1..Len(chain) : chain[i] \in Calls
  /\ edits \in 0..MaxEdits /\ writes \in 0..MaxWrites

Init ==
  /\ store \in {e \in Entries : \A f \in Field : e.what[f] # "agent"}
  /\ held = 0 /\ frag = [i \in FragIds |-> Blank]
  /\ call = Resting /\ ask = [d \in Asks |-> Silent]
  /\ chain = <<>> /\ edits = 0 /\ writes = 0

First(c) == chain # <<>> /\ Head(chain) = c

(* A fragment nobody refers to any more is forgotten. *)
Used(h, a) == {h} \cup {a[d].frag : d \in Asks}
Kept(g, h, a) == [i \in FragIds |-> IF i \in Used(h, a) THEN g[i] ELSE Blank]
Fresh == CHOOSE i \in FragIds : i \notin {0, held} \cup {ask[d].frag : d \in Asks}

-----------------------------------------------------------------------------
(* write                                                                   *)

(* What is written by hand: by the agent, or by the user in Settings. *)
Typed(text) ==
  {e \in Entries : \A f \in Field : e.what[f] \in {text, None, store.what[f]}}

(* The agent proposes an entry, or proposes to remove it ("absent"), for the *)
(* revision it has just read.                                                *)
Write ==
  /\ call.at = "idle" /\ writes < MaxWrites /\ writes' = writes + 1
  /\ \E e \in Typed("agent") : call' = [Resting EXCEPT !.at = "chain", !.rev = store, !.next = e]
  /\ chain' = Append(chain, "write")
  /\ UNCHANGED <<store, held, frag, ask, edits>>

(* Mutant: what a linked entry runs may be confirmed, too. *)
RefusedLinksOnly(next, prev) ==
  IF prev = Absent THEN next.linked
  ELSE next.linked # prev.linked \/ (prev.linked /\ next.kind # prev.kind)

(* A credential link may be neither made nor moved: not to another field or  *)
(* host, nor to what else a local entry would run.                           *)
Refused(next, prev) ==
  IF prev = Absent THEN next.linked
  ELSE \/ next.linked # prev.linked
       \/ prev.linked /\ (next.kind # prev.kind \/ next.what # prev.what)

(* Mutant: a held field is taken out and not put back as it was. *)
PlanBare(next, prev) ==
  [entry |-> [next EXCEPT !.what = IF next.kind = "local" /\ prev.kind = "local"
                                     THEN [f \in Field |-> IF next.what[f] = prev.what[f]
                                             THEN next.what[f] ELSE None]
                                     ELSE @],
   values |-> [f \in Field |-> NotHeld], replace |-> Absent]

(* Of a local entry what differs in a held field is taken out; an entry that *)
(* is new, or changes kind, is held whole.                                   *)
Plan(next, prev) ==
  IF next.kind # "local" THEN [entry |-> next, values |-> Blank.values, replace |-> Absent]
  ELSE IF prev.kind # "local"
    THEN [entry |-> Absent, replace |-> next,
          values |-> [f \in Field |-> IF next.what[f] = None THEN NotHeld ELSE next.what[f]]]
    ELSE [entry |-> [next EXCEPT !.what = prev.what], replace |-> Absent,
          values |-> [f \in Field |-> IF next.what[f] = prev.what[f] THEN NotHeld
                                      ELSE next.what[f]]]

Dismissed == chain' = Tail(chain)

(* The revision is compared with the entry as it reads now, the write split. *)
WriteChecks ==
  /\ First("write") /\ call.at = "chain"
  /\ LET gone == call.next = Absent
         p == IF gone THEN [entry |-> Absent, values |-> Blank.values, replace |-> Absent]
              ELSE Plan(call.next, store)
     IN  IF call.rev # store \/ (~gone /\ Refused(call.next, store))
           THEN call' = Resting /\ Dismissed
           ELSE /\ call' = [call EXCEPT !.next = p.entry, !.values = p.values,
                                        !.replace = p.replace,
                                        !.at = IF p.replace = Absent THEN "store" ELSE "after"]
                /\ UNCHANGED chain
  /\ UNCHANGED <<store, held, frag, ask, edits, writes>>

(* What the store makes of it: one may be added only where there is none,    *)
(* and updated or removed only where there is one.                           *)
Lands(next, expected) == Valid(next) /\ (store = Absent) = (expected = Absent)
                         /\ ~(next = Absent /\ store = Absent)

(* Mutant: what is held outlives a change of its entry. *)
MutateQuiet(next) == store' = next /\ UNCHANGED <<held, frag>>

(* Any mutation drops what is held, before it is journalled. *)
Mutate(next) ==
  /\ store' = next /\ held' = 0 /\ frag' = Kept(frag, 0, ask)

WriteStores ==
  /\ First("write") /\ call.at = "store"
  /\ IF Lands(call.next, call.rev)
       THEN Mutate(call.next) /\ call' = [call EXCEPT !.at = "after"] /\ UNCHANGED chain
       ELSE call' = Resting /\ Dismissed /\ UNCHANGED <<store, held, frag>>
  /\ UNCHANGED <<ask, edits, writes>>

(* The fields that were taken out are held for the revision that resulted. *)
WriteHolds ==
  /\ First("write") /\ call.at = "after"
  /\ IF Names(call.values) = {} THEN UNCHANGED <<held, frag>>
     ELSE /\ held' = Fresh
          /\ frag' = Kept([frag EXCEPT ![Fresh] = [rev |-> store, values |-> call.values,
                                                   replace |-> call.replace]], Fresh, ask)
  /\ call' = Resting /\ Dismissed
  /\ UNCHANGED <<store, ask, edits, writes>>

-----------------------------------------------------------------------------
(* applyHeld                                                               *)

Named(d) == UNION {ask[e].fields : e \in {e \in Asks \ {d} : ask[e].frag = held}}

(* Only what is held can be named, and all of it when it is held whole. *)
Ask(d) ==
  /\ ask[d].at = "idle" /\ held # 0
  /\ \E fields \in (SUBSET Names(frag[held].values)) \ {{}} :
       /\ frag[held].replace # Absent => fields = Names(frag[held].values)
       /\ "names" \in Races \/ fields \cap Named(d) = {}
       /\ ask' = [ask EXCEPT ![d] = [Silent EXCEPT !.at = "read", !.frag = held,
                                       !.rev = frag[held].rev, !.fields = fields]]
  /\ UNCHANGED <<store, held, frag, call, chain, edits, writes>>

(* The confirmation shows, per field, what is saved and what would be. *)
AskReads(d) ==
  /\ ask[d].at = "read"
  /\ IF store # ask[d].rev
       THEN /\ held' = 0 /\ ask' = [ask EXCEPT ![d] = Silent]
            /\ frag' = Kept(frag, 0, ask')
       ELSE /\ ask' = [ask EXCEPT ![d].at = "open", ![d].shown = [f \in Field |->
                         IF f \notin ask[d].fields THEN <<None, None>>
                         ELSE <<store.what[f],
                                IF frag[ask[d].frag].values[f] = NotHeld THEN None
                                ELSE frag[ask[d].frag].values[f]>>]]
            /\ UNCHANGED <<held, frag>>
  /\ UNCHANGED <<store, call, chain, edits, writes>>

(* The user keeps them held back, or the turn is cancelled: those go. *)
Deny(d) ==
  /\ ask[d].at = "open"
  /\ LET i == ask[d].frag
         left == IF held # i THEN frag[i].values
                 ELSE [f \in Field |-> IF f \in ask[d].fields THEN NotHeld
                                       ELSE frag[i].values[f]]
     IN  /\ held' = IF Names(left) = {} \/ frag[i].replace # Absent THEN 0 ELSE held
         /\ ask' = [ask EXCEPT ![d] = Silent]
         /\ frag' = Kept([frag EXCEPT ![i].values = left], held', ask')
  /\ UNCHANGED <<store, call, chain, edits, writes>>

Confirm(d) ==
  /\ ask[d].at = "open" /\ ask' = [ask EXCEPT ![d].at = "chain"]
  /\ chain' = Append(chain, d)
  /\ UNCHANGED <<store, held, frag, call, edits, writes>>

(* Mutant: what is held by now is applied. *)
AskChecksAnew(d) ==
  /\ First(d) /\ ask[d].at = "chain"
  /\ LET v == frag[held].values
     IN  IF held = 0 \/ store # ask[d].rev
           THEN /\ ask' = [ask EXCEPT ![d] = Silent] /\ Dismissed
                /\ frag' = Kept(frag, held, ask')
           ELSE /\ ask' = [ask EXCEPT ![d].at = "store", ![d].next =
                            IF frag[held].replace # Absent THEN frag[held].replace
                            ELSE [store EXCEPT !.what = [f \in Field |->
                                    IF f \notin ask[d].fields \/ v[f] = NotHeld
                                      THEN store.what[f] ELSE v[f]]]]
                /\ UNCHANGED <<frag, chain>>
  /\ UNCHANGED <<store, held, call, edits, writes>>

(* Whatever changed while it was open wins: both the fragment and the        *)
(* revision are looked at again.                                             *)
AskChecks(d) ==
  /\ First(d) /\ ask[d].at = "chain"
  /\ LET i == ask[d].frag
         v == frag[i].values
     IN  IF held # i \/ store # ask[d].rev
           THEN /\ ask' = [ask EXCEPT ![d] = Silent] /\ Dismissed
                /\ frag' = Kept(frag, held, ask')
           ELSE /\ ask' = [ask EXCEPT ![d].at = "store", ![d].next =
                            IF frag[i].replace # Absent THEN frag[i].replace
                            ELSE [store EXCEPT !.what = [f \in Field |->
                                    IF f \notin ask[d].fields THEN store.what[f]
                                    ELSE IF v[f] = NotHeld THEN None ELSE v[f]]]]
                /\ UNCHANGED <<frag, chain>>
  /\ UNCHANGED <<store, held, call, edits, writes>>

AskStores(d) ==
  /\ First(d) /\ ask[d].at = "store"
  /\ IF Lands(ask[d].next, ask[d].rev)
       THEN Mutate(ask[d].next) /\ ask' = [ask EXCEPT ![d].at = "after"] /\ UNCHANGED chain
       ELSE /\ ask' = [ask EXCEPT ![d] = Silent] /\ Dismissed
            /\ frag' = Kept(frag, held, ask') /\ UNCHANGED <<store, held>>
  /\ UNCHANGED <<call, edits, writes>>

(* The fields that were not named stay held, at the new revision. *)
AskHolds(d) ==
  /\ First(d) /\ ask[d].at = "after"
  /\ LET left == [f \in Field |-> IF f \in ask[d].fields THEN NotHeld
                                  ELSE frag[ask[d].frag].values[f]]
     IN  /\ ask' = [ask EXCEPT ![d] = Silent]
         /\ IF Names(left) = {}
              THEN frag' = Kept(frag, held, ask') /\ UNCHANGED held
              ELSE /\ held' = Fresh
                   /\ frag' = Kept([frag EXCEPT ![Fresh] =
                        [frag[ask[d].frag] EXCEPT !.rev = store, !.values = left]], Fresh, ask')
  /\ Dismissed /\ UNCHANGED <<store, call, edits, writes>>

-----------------------------------------------------------------------------
(* The user and the app.                                                   *)

Storing == call.at \in {"store", "after"} \/ \E d \in Asks : ask[d].at \in {"store", "after"}

(* A save or a removal in Settings: nothing of it is held. *)
UserEdit ==
  /\ edits < MaxEdits /\ edits' = edits + 1
  /\ "edit" \in Races \/ ~Storing
  /\ \E e \in Typed("user") : Mutate(e)
  /\ UNCHANGED <<call, ask, chain, writes>>

(* Fragments and open confirmations live in memory. *)
Restart ==
  /\ held' = 0 /\ frag' = [i \in FragIds |-> Blank] /\ call' = Resting
  /\ ask' = [d \in Asks |-> Silent] /\ chain' = <<>>
  /\ UNCHANGED <<store, edits, writes>>

WriteStep  == WriteChecks \/ WriteStores \/ WriteHolds
AskStep(d) == AskReads(d) \/ AskChecks(d) \/ AskStores(d) \/ AskHolds(d)

Next ==
  \/ Write \/ WriteStep \/ UserEdit \/ Restart
  \/ \E d \in Asks : Ask(d) \/ AskStep(d) \/ Confirm(d) \/ Deny(d)

Spec == Init /\ [][Next]_vars

-----------------------------------------------------------------------------
(* Properties.                                                             *)

(* What a server runs changes only by the user's own save, or by a           *)
(* confirmation that showed exactly this change: what was saved and what     *)
(* replaced it, whatever the agent wrote, asked and retried around it.  And  *)
(* then all that it showed has landed, and nothing else.                     *)
LandsAsShown ==
  [][~UserEdit /\ store' # store /\ store'.kind = "local" =>
       \/ store'.what = store.what
       \/ \E d \in Asks :
            /\ ask[d].at = "store"
            /\ \A f \in ask[d].fields : ask[d].shown[f] = <<store.what[f], store'.what[f]>>
            /\ \A f \in Field \ ask[d].fields : store'.what[f] = store.what[f]]_vars

(* A secret stays where the user put it: no write of the operator, confirmed *)
(* or not, links a credential or changes what a linked entry runs.           *)
LinkStaysPut ==
  [][~UserEdit /\ store' # store /\ store' # Absent =>
       /\ store'.linked = store.linked
       /\ store.linked => store'.kind = store.kind /\ store'.what = store.what]_vars

(* A fragment can be asked for only while its entry reads as it did when the *)
(* agent was told what is held: a change by anyone drops it.                 *)
HeldIsCurrent == held # 0 => frag[held].rev = store
=============================================================================
