------------------------- MODULE HeldWrites_proofs --------------------------
(***************************************************************************)
(* What HeldWrites promises, for any fields, any number of confirmations,  *)
(* writes and saves.  Serial is the chain per workspace and needs nothing; *)
(* so does HeldIsCurrent.  That links stay put needs the user's saves kept *)
(* out of a call's last steps; that what lands is what was shown needs     *)
(* confirmations that do not share fields, too (README.md).                *)
(***************************************************************************)
EXTENDS HeldWrites, FiniteSetTheorems, FunctionTheorems, SequenceTheorems, TLAPS

-----------------------------------------------------------------------------
(* The invariants.                                                           *)

At(c)    == IF c = "write" THEN call.at ELSE ask[c].at
OnChain  == {"chain", "store", "after"}
Working  == {"store", "after"}

(* A call is on the chain at most once, and past its check only in front.    *)
Serial ==
  /\ chain \in Seq(Calls)
  /\ \A i, j \in 1..Len(chain) : chain[i] = chain[j] => i = j
  /\ \A c \in Calls : At(c) \notin OnChain => \A i \in 1..Len(chain) : chain[i] # c
  /\ \A c \in Calls : At(c) \in Working => First(c)

(* A call that is under way has a fragment.                                  *)
Asking == \A d \in Asks : ask[d].at # "idle" => ask[d].frag \in FragIds

(* Nothing is held, planned or about to land for an entry with a credential  *)
(* link, but the entry as it is linked.                                      *)
Keeps(next) ==
  next # Absent =>
    /\ next.linked = store.linked
    /\ store.linked => next.kind = store.kind /\ next.what = store.what

HeldFree == held # 0 => ~store.linked /\ ~frag[held].replace.linked

WriteFree ==
  /\ call.at = "store" => /\ call.rev = store /\ Keeps(call.next) /\ call.replace = Absent
                          /\ Names(call.values) # {} => ~call.next.linked
  /\ call.at = "after" => /\ Names(call.values) # {} => ~store.linked
                          /\ ~call.replace.linked

AskFree(d) ==
  /\ ask[d].at = "store" => ask[d].rev = store /\ ~store.linked /\ ~ask[d].next.linked
  /\ ask[d].at \in Working => ~store.linked /\ ~frag[ask[d].frag].replace.linked

Unlinked == HeldFree /\ WriteFree /\ \A d \in Asks : AskFree(d)

(* What is held whole is a local entry where there was none, field by field. *)
Whole(values, replace) ==
  replace # Absent =>
    /\ replace.kind = "local" /\ store.kind # "local"
    /\ \A f \in Field : values[f] = IF replace.what[f] = None THEN NotHeld ELSE replace.what[f]

HeldWhole == held # 0 => Whole(frag[held].values, frag[held].replace)

(* A write leaves what a local entry runs as it is.                          *)
Planned ==
  /\ call.at = "store" /\ call.next.kind = "local" => call.next.what = store.what
  /\ call.at = "after" => Whole(call.values, call.replace)

(* What an open confirmation shows is what its fragment holds; a call past   *)
(* its check writes just that.                                               *)
Shows(d) ==
  LET i == ask[d].frag
      v == frag[i].values
  IN  /\ ask[d].fields # {} /\ ask[d].fields \subseteq Names(v)
      /\ frag[i].replace # Absent => ask[d].fields = Names(v)
      /\ ask[d].at \in {"open", "chain", "store"} =>
           \A f \in ask[d].fields : ask[d].shown[f] = <<ask[d].rev.what[f], v[f]>>
      /\ ask[d].at = "store" =>
           /\ \A f \in ask[d].fields : ask[d].next.what[f] = v[f]
           /\ \A f \in Field \ ask[d].fields : ask[d].next.what[f] = store.what[f]

(* Two confirmations of one fragment name other fields.                      *)
Apart(d, e) ==
  ask[d].at # "idle" /\ ask[e].at # "idle" /\ ask[d].frag = ask[e].frag =>
    ask[d].fields \cap ask[e].fields = {}

Shown ==
  /\ HeldWhole /\ Planned
  /\ \A d \in Asks : ask[d].at # "idle" => Shows(d)
  /\ \A d, e \in Asks : d # e => Apart(d, e)

-----------------------------------------------------------------------------
(* Fragments.                                                                *)

Values == [Field -> Text \cup {None, NotHeld}]
Frags  == [rev : Entries, values : Values, replace : Entries]

(* There is always a number to spare, and nothing refers to it.              *)
LEMMA FreshIsFree ==
  ASSUME TypeOK
  PROVE  Fresh \in FragIds /\ Fresh \notin {0, held} /\ \A d \in Asks : ask[d].frag # Fresh
<1> DEFINE R == {ask[d].frag : d \in Asks}
           f == [d \in Asks |-> ask[d].frag]
           n == Cardinality(Asks)
<1>1. n \in Nat
  BY HeldAssumption, FS_CardinalityType
<1>2. f \in Surjection(Asks, R)
  BY Fun_IsSurj
<1>3. IsFiniteSet(R) /\ Cardinality(R) <= n
  BY <1>2, FS_Surjection, HeldAssumption
<1>4. IsFiniteSet(R \cup {held}) /\ Cardinality(R \cup {held}) <= n + 1
  BY <1>1, <1>3, FS_AddElement, FS_CardinalityType, SMTT(30)
<1>5. IsFiniteSet(FragIds) /\ Cardinality(FragIds) = n + 2
  BY <1>1, FS_Interval DEF FragIds
<1>6. ~(FragIds \subseteq R \cup {held})
  <2> SUFFICES ASSUME FragIds \subseteq R \cup {held} PROVE FALSE
    OBVIOUS
  <2>1. Cardinality(FragIds) <= Cardinality(R \cup {held})
    BY <1>4, FS_Subset
  <2>2. Cardinality(R \cup {held}) \in Nat
    BY <1>4, FS_CardinalityType
  <2> QED
    BY <1>1, <1>4, <1>5, <2>1, <2>2
<1>7. \E i \in FragIds : i \notin {0, held} \cup R
  <2>1. PICK i \in FragIds : i \notin R \cup {held}
    BY <1>6
  <2>2. i # 0
    BY <1>1 DEF FragIds
  <2> QED
    BY <2>1, <2>2
<1>8. Fresh \in FragIds /\ Fresh \notin {0, held} \cup R
  BY <1>7 DEF Fresh
<1> QED
  BY <1>8

LEMMA BlankTyped == Blank \in Frags /\ Absent \in Entries /\ Blank.values \in Values
BY DEF Blank, Frags, Absent, Entries, Entry, Valid, Bare, Values

(* Of the fragments that are referred to nothing is forgotten.               *)
LEMMA KeptTyped ==
  ASSUME NEW g \in [FragIds -> Frags], NEW h, NEW a
  PROVE  /\ Kept(g, h, a) \in [FragIds -> Frags]
         /\ \A i \in FragIds : i = h \/ (\E d \in Asks : a[d].frag = i) => Kept(g, h, a)[i] = g[i]
BY BlankTyped DEF Kept, Used

-----------------------------------------------------------------------------
(* The chain.                                                                *)

LEMMA Stays ==
  ASSUME Serial, chain' = chain,
         \A d \in Calls : At(d)' = At(d) \/ (At(d) \notin OnChain /\ At(d)' \notin OnChain)
  PROVE  Serial'
BY DEF Serial, First, OnChain, Working

LEMMA Joins ==
  ASSUME Serial, NEW c \in Calls, At(c) \notin OnChain, At(c)' = "chain",
         chain' = Append(chain, c), \A d \in Calls \ {c} : At(d)' = At(d)
  PROVE  Serial'
<1>1. chain \in Seq(Calls)
  BY DEF Serial
<1>2. Len(chain) \in Nat /\ Len(chain') = Len(chain) + 1 /\ chain' \in Seq(Calls)
  BY <1>1, AppendProperties, LenProperties
<1>3. \A i \in 1..Len(chain) : chain'[i] = chain[i] /\ chain[i] # c /\ chain[i] \in Calls
  BY <1>1, AppendProperties, ElementOfSeq DEF Serial
<1>4. chain'[Len(chain) + 1] = c
  BY <1>1, AppendProperties
<1>5. \A d \in Calls : First(d) => First(d)'
  BY <1>1, HeadTailAppend, AppendProperties DEF First
<1>6. \A i, j \in 1..Len(chain') : chain'[i] = chain'[j] => i = j
  <2> SUFFICES ASSUME NEW i \in 1..Len(chain'), NEW j \in 1..Len(chain'), chain'[i] = chain'[j]
               PROVE  i = j
    OBVIOUS
  <2>1. CASE i \in 1..Len(chain) /\ j \in 1..Len(chain)
    BY <2>1, <1>3 DEF Serial
  <2>2. CASE i = Len(chain) + 1 \/ j = Len(chain) + 1
    BY <2>2, <1>2, <1>3, <1>4
  <2> QED
    BY <2>1, <2>2, <1>2
<1>7. \A d \in Calls : At(d)' \notin OnChain => \A i \in 1..Len(chain') : chain'[i] # d
  <2> SUFFICES ASSUME NEW d \in Calls, At(d)' \notin OnChain, NEW i \in 1..Len(chain')
               PROVE  chain'[i] # d
    OBVIOUS
  <2>1. d # c /\ At(d) \notin OnChain
    BY DEF OnChain
  <2>2. CASE i \in 1..Len(chain)
    BY <2>1, <2>2, <1>3 DEF Serial
  <2>3. CASE i = Len(chain) + 1
    BY <2>1, <2>3, <1>4
  <2> QED
    BY <2>2, <2>3, <1>2
<1>8. \A d \in Calls : At(d)' \in Working => First(d)'
  BY <1>5 DEF Serial, Working
<1> QED
  BY <1>2, <1>6, <1>7, <1>8 DEF Serial, OnChain, Working

(* The call in front moves on, and stays in front.                           *)
LEMMA Goes ==
  ASSUME Serial, NEW c \in Calls, First(c), chain' = chain, At(c)' \in OnChain,
         \A d \in Calls \ {c} : At(d)' = At(d)
  PROVE  Serial'
<1>1. \A d \in Calls : First(d)' <=> First(d)
  BY DEF First
<1>3. \A d \in Calls : At(d)' \notin OnChain => \A i \in 1..Len(chain) : chain[i] # d
  BY DEF Serial
<1>4. \A d \in Calls : At(d)' \in Working => First(d)'
  BY <1>1 DEF Serial
<1> QED
  BY <1>3, <1>4 DEF Serial

(* It leaves, and nobody behind it had gone past its check.                  *)
LEMMA Leaves ==
  ASSUME Serial, NEW c \in Calls, First(c), chain' = Tail(chain), At(c)' \notin OnChain,
         \A d \in Calls \ {c} : At(d)' = At(d)
  PROVE  Serial'
<1>1. chain \in Seq(Calls) /\ chain # <<>> /\ Head(chain) = c
  BY DEF Serial, First
<1>2. /\ Len(chain) \in Nat \ {0} /\ Len(chain') = Len(chain) - 1 /\ chain' \in Seq(Calls)
      /\ \A i \in 1..Len(chain') : chain'[i] = chain[i + 1]
  BY <1>1, HeadTailProperties, EmptySeq
<1>3. chain[1] = c
  BY <1>1, <1>2
<1>4. \A i, j \in 1..Len(chain) : chain[i] = chain[j] => i = j
  BY DEF Serial
<1>5. \A i \in 1..Len(chain') : i + 1 \in 1..Len(chain) /\ chain[i + 1] \in Calls
                                /\ chain[i + 1] # c
  BY <1>1, <1>2, <1>3, <1>4, ElementOfSeq
<1>6. \A i, j \in 1..Len(chain') : chain'[i] = chain'[j] => i = j
  BY <1>2, <1>4, <1>5
<1>7. \A d \in Calls : At(d)' \notin OnChain => \A i \in 1..Len(chain') : chain'[i] # d
  BY <1>2, <1>5 DEF Serial
<1>8. \A d \in Calls : At(d)' \notin Working
  BY <1>1 DEF Serial, First, OnChain, Working
<1> QED
  BY <1>2, <1>6, <1>7, <1>8 DEF Serial
-----------------------------------------------------------------------------
(* What holds under any Races.                                               *)

Callings == [at : {"idle", "chain", "store", "after"}, rev : Entries, next : Entries,
             values : Values, replace : Entries]
Askings  == [at : {"idle", "read", "open", "chain", "store", "after"},
             frag : FragIds \cup {0}, rev : Entries, fields : SUBSET Field,
             shown : [Field -> (Text \cup {None}) \X (Text \cup {None})], next : Entry]

Typing ==
  /\ store \in Entries /\ held \in FragIds \cup {0} /\ frag \in [FragIds -> Frags]
  /\ call \in Callings /\ ask \in [Asks -> Askings]
  /\ edits \in 0..MaxEdits /\ writes \in 0..MaxWrites

Base == Typing /\ Asking /\ Serial /\ HeldIsCurrent

LEMMA BaseTyped == ASSUME Base PROVE TypeOK
<1>1. \A i \in 1..Len(chain) : chain[i] \in Calls
  BY ElementOfSeq DEF Base, Serial
<1> QED
  BY <1>1 DEF Base, Typing, TypeOK, Frags, Values, Callings, Askings

LEMMA IdleTyped == Resting \in Callings /\ Silent \in Askings
BY BlankTyped DEF Resting, Silent, Callings, Askings, Absent, Entries, Entry, Bare

LEMMA AtIs ==
  /\ At("write") = call.at /\ At("write")' = call'.at
  /\ \A d \in Asks : d # "write" /\ At(d) = ask[d].at /\ At(d)' = ask'[d].at
BY HeldAssumption DEF At

LEMMA BaseInit == Init => Base
<1> SUFFICES ASSUME Init PROVE Base
  OBVIOUS
<1>1. Typing
  BY IdleTyped, BlankTyped, HeldAssumption DEF Init, Typing
<1>2. \A c \in Calls : At(c) \notin OnChain
  BY AtIs DEF Init, Calls, Resting, Silent, OnChain
<1>3. Serial
  BY <1>2, EmptySeq DEF Init, Serial, Working, OnChain
<1> QED
  BY <1>1, <1>3, IdleTyped DEF Init, Base, Asking, HeldIsCurrent, Silent

LEMMA BaseWrite ==
  ASSUME Base, Write
  PROVE  Base'
<1>1. PICK e \in Entries : call' = [Resting EXCEPT !.at = "chain", !.rev = store, !.next = e]
  BY DEF Write, Typed
<1>2. call' \in Callings /\ call'.at = "chain"
  BY <1>1, IdleTyped DEF Callings, Base, Typing
<1>3. Typing'
  BY <1>2, HeldAssumption DEF Base, Typing, Write
<1>4. ask' = ask /\ call.at = "idle" /\ chain' = Append(chain, "write")
  BY DEF Write
<1>5. Serial'
  <2>1. At("write") \notin OnChain /\ At("write")' = "chain"
    BY <1>2, <1>4, AtIs DEF OnChain
  <2>2. \A d \in Calls \ {"write"} : At(d)' = At(d)
    BY <1>4, AtIs DEF Calls
  <2> QED
    BY <1>4, <2>1, <2>2, Joins DEF Base, Calls
<1> QED
  BY <1>3, <1>4, <1>5 DEF Base, Asking, HeldIsCurrent, Write

LEMMA PlanTyped ==
  ASSUME NEW next \in Entries, NEW prev \in Entries
  PROVE  /\ Plan(next, prev).entry \in Entries /\ Plan(next, prev).values \in Values
         /\ Plan(next, prev).replace \in Entries
<1>1. CASE next.kind # "local"
  BY <1>1, BlankTyped DEF Plan
<1>2. CASE next.kind = "local" /\ prev.kind # "local"
  <2>1. [f \in Field |-> IF next.what[f] = None THEN NotHeld ELSE next.what[f]] \in Values
    BY DEF Values, Entries, Entry
  <2> QED
    BY <1>2, <2>1, BlankTyped DEF Plan
<1>3. CASE next.kind = "local" /\ prev.kind = "local"
  <2>1. [f \in Field |-> IF next.what[f] = prev.what[f] THEN NotHeld ELSE next.what[f]] \in Values
    BY DEF Values, Entries, Entry
  <2>2. [next EXCEPT !.what = prev.what] \in Entries
    BY <1>3 DEF Entries, Entry, Valid, Absent
  <2> QED
    BY <1>3, <2>1, <2>2, BlankTyped DEF Plan
<1> QED
  BY <1>1, <1>2, <1>3

(* A write passes its check, or is over.                                     *)
LEMMA WriteChecked ==
  ASSUME Base, WriteChecks
  PROVE  LET gone == call.next = Absent
             p == Plan(call.next, store)
         IN  \/ call' = Resting /\ chain' = Tail(chain)
             \/ /\ call.rev = store /\ chain' = chain /\ gone
                /\ call' = [call EXCEPT !.next = Absent, !.values = Blank.values,
                                        !.replace = Absent, !.at = "store"]
             \/ /\ call.rev = store /\ chain' = chain /\ ~gone /\ ~Refused(call.next, store)
                /\ call' = [call EXCEPT !.next = p.entry, !.values = p.values,
                                        !.replace = p.replace,
                                        !.at = IF p.replace = Absent THEN "store" ELSE "after"]
BY DEF WriteChecks, Dismissed

LEMMA BaseWriteChecks ==
  ASSUME Base, WriteChecks
  PROVE  Base'
<1>1. call \in Callings /\ call.next \in Entries /\ store \in Entries
  BY DEF Base, Typing, Callings
<1>2. \/ call' = Resting /\ chain' = Tail(chain)
      \/ call' \in Callings /\ call'.at \in {"store", "after"} /\ chain' = chain
  <2>1. \A e \in Entries, v \in Values, r \in Entries, at \in {"store", "after"} :
          LET c == [call EXCEPT !.next = e, !.values = v, !.replace = r, !.at = at]
          IN  c \in Callings /\ c.at \in {"store", "after"}
    BY <1>1 DEF Callings
  <2>2. /\ Plan(call.next, store).entry \in Entries /\ Plan(call.next, store).values \in Values
        /\ Plan(call.next, store).replace \in Entries
    BY <1>1, PlanTyped
  <2> QED
    <3>1. CASE call' = Resting /\ chain' = Tail(chain)
      BY <3>1
    <3>2. CASE /\ chain' = chain
               /\ call' = [call EXCEPT !.next = Absent, !.values = Blank.values,
                                       !.replace = Absent, !.at = "store"]
      BY <3>2, <2>1, BlankTyped
    <3>3. CASE /\ chain' = chain
               /\ LET p == Plan(call.next, store)
                  IN  call' = [call EXCEPT !.next = p.entry, !.values = p.values,
                                 !.replace = p.replace,
                                 !.at = IF p.replace = Absent THEN "store" ELSE "after"]
      <4>1. (IF Plan(call.next, store).replace = Absent THEN "store" ELSE "after")
              \in {"store", "after"}
        OBVIOUS
      <4> QED
        BY <3>3, <4>1, <2>1, <2>2
    <3> QED
      BY <3>1, <3>2, <3>3, WriteChecked
<1>3. First("write") /\ call.at = "chain" /\ UNCHANGED <<store, held, frag, ask, edits, writes>>
  BY DEF WriteChecks
<1>4. Typing'
  BY <1>2, <1>3, IdleTyped DEF Base, Typing
<1>5. \A d \in Calls \ {"write"} : At(d)' = At(d)
  BY <1>3, AtIs DEF Calls
<1>6. Serial'
  <2>1. CASE call' = Resting /\ chain' = Tail(chain)
    BY <2>1, <1>3, <1>5, AtIs, Leaves DEF Base, Calls, Resting, OnChain
  <2>2. CASE call'.at \in {"store", "after"} /\ chain' = chain
    BY <2>2, <1>3, <1>5, AtIs, Goes DEF Base, Calls, OnChain
  <2> QED
    BY <1>2, <2>1, <2>2
<1> QED
  BY <1>3, <1>4, <1>6 DEF Base, Asking, HeldIsCurrent

LEMMA BaseWriteStores ==
  ASSUME Base, WriteStores
  PROVE  Base'
<1>1. call \in Callings /\ call.next \in Entries /\ frag \in [FragIds -> Frags]
  BY DEF Base, Typing, Callings
<1>2. First("write") /\ call.at = "store" /\ UNCHANGED <<ask, edits, writes>>
  BY DEF WriteStores
<1>3. \A d \in Calls \ {"write"} : At(d)' = At(d)
  BY <1>2, AtIs DEF Calls
<1>4. CASE Mutate(call.next) /\ call' = [call EXCEPT !.at = "after"] /\ chain' = chain
  <2>1. store' = call.next /\ held' = 0 /\ frag' = Kept(frag, 0, ask)
    BY <1>4 DEF Mutate
  <2>2. frag' \in [FragIds -> Frags]
    BY <1>1, <2>1, KeptTyped
  <2>3. call' \in Callings /\ call'.at = "after"
    BY <1>1, <1>4 DEF Callings
  <2>4. Typing'
    BY <1>1, <1>2, <2>1, <2>2, <2>3 DEF Base, Typing
  <2>5. Serial'
    BY <1>2, <1>3, <1>4, <2>3, AtIs, Goes DEF Base, Calls, OnChain
  <2> QED
    BY <1>2, <2>1, <2>4, <2>5 DEF Base, Asking, HeldIsCurrent
<1>5. CASE call' = Resting /\ chain' = Tail(chain) /\ UNCHANGED <<store, held, frag>>
  <2>1. Typing'
    BY <1>2, <1>5, IdleTyped DEF Base, Typing
  <2>2. Serial'
    BY <1>2, <1>3, <1>5, AtIs, Leaves DEF Base, Calls, Resting, OnChain
  <2> QED
    BY <1>2, <1>5, <2>1, <2>2 DEF Base, Asking, HeldIsCurrent
<1> QED
  BY <1>4, <1>5 DEF WriteStores, Dismissed

LEMMA BaseWriteHolds ==
  ASSUME Base, WriteHolds
  PROVE  Base'
<1>1. call \in Callings /\ frag \in [FragIds -> Frags] /\ store \in Entries
  BY DEF Base, Typing
<1>2. /\ First("write") /\ call' = Resting /\ chain' = Tail(chain)
      /\ UNCHANGED <<store, ask, edits, writes>>
  BY DEF WriteHolds, Dismissed
<1>3. Serial'
  <2>1. \A d \in Calls \ {"write"} : At(d)' = At(d)
    BY <1>2, AtIs DEF Calls
  <2> QED
    BY <2>1, <1>2, AtIs, Leaves DEF Base, Calls, Resting, OnChain
<1>4. /\ held' \in FragIds \cup {0} /\ frag' \in [FragIds -> Frags]
      /\ held' # 0 => frag'[held'].rev = store
  <2>1. CASE Names(call.values) = {}
    BY <2>1 DEF WriteHolds, Base, Typing, HeldIsCurrent
  <2>2. CASE Names(call.values) # {}
    <3> DEFINE new == [rev |-> store, values |-> call.values, replace |-> call.replace]
               g == [frag EXCEPT ![Fresh] = new]
    <3>1. Fresh \in FragIds
      BY BaseTyped, FreshIsFree
    <3>2. new \in Frags /\ new.rev = store
      BY <1>1 DEF Frags, Callings
    <3>4. held' = Fresh /\ frag' = Kept(g, Fresh, ask)
      BY <2>2 DEF WriteHolds
    <3> HIDE DEF new
    <3>3. g \in [FragIds -> Frags] /\ g[Fresh] = new
      BY <1>1, <3>1, <3>2
    <3> HIDE DEF g
    <3>5. frag' \in [FragIds -> Frags] /\ frag'[Fresh] = g[Fresh]
      BY <3>1, <3>3, <3>4, KeptTyped
    <3> QED
      BY <3>1, <3>2, <3>3, <3>4, <3>5
  <2> QED
    BY <2>1, <2>2
<1>5. Typing'
  BY <1>2, <1>4, IdleTyped DEF Base, Typing
<1> QED
  BY <1>2, <1>3, <1>4, <1>5 DEF Base, Asking, HeldIsCurrent

(* One confirmation moves, the others stand still.                           *)
LEMMA OneAsk ==
  ASSUME ask \in [Asks -> Askings], NEW d \in Asks, NEW v \in Askings,
         ask' = [ask EXCEPT ![d] = v]
  PROVE  /\ ask' \in [Asks -> Askings] /\ ask'[d] = v
         /\ \A e \in Asks \ {d} : ask'[e] = ask[e] /\ At(e)' = At(e)
         /\ At(d)' = v.at
<1>1. ask'[d] = v /\ \A e \in Asks \ {d} : ask'[e] = ask[e]
  OBVIOUS
<1> QED
  BY <1>1, AtIs

LEMMA BaseAsk ==
  ASSUME Base, NEW d \in Asks, Ask(d)
  PROVE  Base'
<1>1. /\ frag \in [FragIds -> Frags] /\ held \in FragIds /\ ask \in [Asks -> Askings]
      /\ ask[d].at = "idle" /\ UNCHANGED <<store, held, frag, call, chain, edits, writes>>
  BY DEF Base, Typing, Ask
<1>2. PICK fields \in SUBSET Field :
        ask' = [ask EXCEPT ![d] = [Silent EXCEPT !.at = "read", !.frag = held,
                                     !.rev = frag[held].rev, !.fields = fields]]
  BY DEF Ask, Names
<1> DEFINE v == [Silent EXCEPT !.at = "read", !.frag = held,
                                 !.rev = frag[held].rev, !.fields = fields]
<1>3. v \in Askings /\ v.at = "read" /\ v.frag = held
  BY <1>1, IdleTyped DEF Askings, Frags
<1> HIDE DEF v
<1>4. /\ ask' \in [Asks -> Askings] /\ ask'[d] = v
      /\ \A e \in Asks \ {d} : ask'[e] = ask[e] /\ At(e)' = At(e)
      /\ At(d)' = "read"
  BY <1>1, <1>2, <1>3, OneAsk DEF v
<1>5. \A c \in Calls : At(c)' = At(c) \/ (At(c) \notin OnChain /\ At(c)' \notin OnChain)
  BY <1>1, <1>4, AtIs DEF Calls, OnChain
<1>6. Serial'
  BY <1>1, <1>5, Stays DEF Base
<1>7. Asking'
  BY <1>1, <1>3, <1>4 DEF Base, Asking
<1> QED
  BY <1>1, <1>4, <1>6, <1>7 DEF Base, Typing, HeldIsCurrent

LEMMA BaseAskReads ==
  ASSUME Base, NEW d \in Asks, AskReads(d)
  PROVE  Base'
<1>1. /\ frag \in [FragIds -> Frags] /\ ask \in [Asks -> Askings] /\ ask[d].frag \in FragIds
      /\ ask[d].at = "read" /\ UNCHANGED <<store, call, chain, edits, writes>>
      /\ store \in Entries
  BY DEF Base, Typing, AskReads, Asking
<1>2. CASE store # ask[d].rev
  <2>1. held' = 0 /\ ask' = [ask EXCEPT ![d] = Silent] /\ frag' = Kept(frag, 0, ask')
    BY <1>2 DEF AskReads
  <2>2. /\ ask' \in [Asks -> Askings] /\ ask'[d] = Silent
        /\ \A e \in Asks \ {d} : ask'[e] = ask[e] /\ At(e)' = At(e)
        /\ At(d)' = "idle"
    BY <1>1, <2>1, IdleTyped, OneAsk, ZenonT(40) DEF Silent
  <2>3. \A c \in Calls : At(c)' = At(c) \/ (At(c) \notin OnChain /\ At(c)' \notin OnChain)
    BY <1>1, <2>2, AtIs DEF Calls, OnChain
  <2>4. frag' \in [FragIds -> Frags]
    BY <1>1, <2>1, KeptTyped
  <2>5. Serial'
    BY <1>1, <2>3, Stays DEF Base
  <2>6. Asking'
    BY <2>2 DEF Base, Asking, Silent
  <2> QED
    BY <1>1, <2>1, <2>2, <2>4, <2>5, <2>6 DEF Base, Typing, HeldIsCurrent
<1>3. CASE store = ask[d].rev
  <2> DEFINE shown == [f \in Field |->
                         IF f \notin ask[d].fields THEN <<None, None>>
                         ELSE <<store.what[f],
                                IF frag[ask[d].frag].values[f] = NotHeld THEN None
                                ELSE frag[ask[d].frag].values[f]>>]
             v == [ask[d] EXCEPT !.at = "open", !.shown = shown]
  <2>1. ask' = [ask EXCEPT ![d] = v] /\ UNCHANGED <<held, frag>>
    BY <1>1, <1>3 DEF AskReads
  <2>2. shown \in [Field -> (Text \cup {None}) \X (Text \cup {None})]
    <3>1. store.what \in [Field -> Text \cup {None}]
      BY <1>1 DEF Entries, Entry
    <3>2. frag[ask[d].frag].values \in Values
      BY <1>1 DEF Frags
    <3> QED
      BY <3>1, <3>2 DEF Values
  <2> HIDE DEF shown
  <2>3. v \in Askings /\ v.at = "open" /\ v.frag = ask[d].frag
    BY <1>1, <2>2 DEF Askings
  <2> HIDE DEF v
  <2>4. /\ ask' \in [Asks -> Askings] /\ ask'[d] = v
        /\ \A e \in Asks \ {d} : ask'[e] = ask[e] /\ At(e)' = At(e)
        /\ At(d)' = "open"
    BY <1>1, <2>1, <2>3, OneAsk
  <2>5. \A c \in Calls : At(c)' = At(c) \/ (At(c) \notin OnChain /\ At(c)' \notin OnChain)
    BY <1>1, <2>4, AtIs DEF Calls, OnChain
  <2>6. Serial'
    BY <1>1, <2>5, Stays DEF Base
  <2>7. Asking'
    BY <1>1, <2>3, <2>4 DEF Base, Asking
  <2> QED
    BY <1>1, <2>1, <2>4, <2>6, <2>7 DEF Base, Typing, HeldIsCurrent
<1> QED
  BY <1>2, <1>3

LEMMA BaseDeny ==
  ASSUME Base, NEW d \in Asks, Deny(d)
  PROVE  Base'
<1> DEFINE i == ask[d].frag
           left == IF held # i THEN frag[i].values
                   ELSE [f \in Field |-> IF f \in ask[d].fields THEN NotHeld
                                         ELSE frag[i].values[f]]
           g == [frag EXCEPT ![i].values = left]
<1>1. /\ frag \in [FragIds -> Frags] /\ ask \in [Asks -> Askings] /\ i \in FragIds
      /\ ask[d].at = "open" /\ UNCHANGED <<store, call, chain, edits, writes>>
      /\ held \in FragIds \cup {0}
  BY DEF Base, Typing, Deny, Asking
<1>2. held' \in {0, held} /\ ask' = [ask EXCEPT ![d] = Silent] /\ frag' = Kept(g, held', ask')
  BY DEF Deny
<1>3. left \in Values
  BY <1>1 DEF Frags, Values
<1> HIDE DEF left
<1>4. g \in [FragIds -> Frags] /\ \A j \in FragIds : g[j].rev = frag[j].rev
  BY <1>1, <1>3 DEF Frags
<1> HIDE DEF g
<1>5. frag' \in [FragIds -> Frags] /\ (held' \in FragIds => frag'[held'] = g[held'])
  BY <1>2, <1>4, KeptTyped
<1>6. held' # 0 => held' = held /\ held \in FragIds /\ frag'[held'].rev = frag[held].rev
  BY <1>1, <1>2, <1>4, <1>5
<1>7. /\ ask' \in [Asks -> Askings] /\ ask'[d] = Silent
      /\ \A e \in Asks \ {d} : ask'[e] = ask[e] /\ At(e)' = At(e)
      /\ At(d)' = "idle"
  BY <1>1, <1>2, IdleTyped, OneAsk, ZenonT(40) DEF Silent
<1>8. \A c \in Calls : At(c)' = At(c) \/ (At(c) \notin OnChain /\ At(c)' \notin OnChain)
  BY <1>1, <1>7, AtIs DEF Calls, OnChain
<1>9. Serial'
  BY <1>1, <1>8, Stays DEF Base
<1>10. Asking'
  BY <1>7 DEF Base, Asking, Silent
<1>11. Typing'
  BY <1>1, <1>2, <1>5, <1>7 DEF Base, Typing
<1> QED
  BY <1>1, <1>6, <1>9, <1>10, <1>11 DEF Base, HeldIsCurrent

LEMMA BaseConfirm ==
  ASSUME Base, NEW d \in Asks, Confirm(d)
  PROVE  Base'
<1> DEFINE v == [ask[d] EXCEPT !.at = "chain"]
<1>1. /\ ask \in [Asks -> Askings] /\ ask[d].at = "open" /\ ask' = [ask EXCEPT ![d] = v]
      /\ chain' = Append(chain, d) /\ UNCHANGED <<store, held, frag, call, edits, writes>>
  BY DEF Base, Typing, Confirm
<1>2. v \in Askings /\ v.at = "chain" /\ v.frag = ask[d].frag
  BY <1>1 DEF Askings
<1> HIDE DEF v
<1>3. /\ ask' \in [Asks -> Askings] /\ ask'[d] = v
      /\ \A e \in Asks \ {d} : ask'[e] = ask[e] /\ At(e)' = At(e)
      /\ At(d)' = "chain"
  BY <1>1, <1>2, OneAsk
<1>4. Serial'
  <2>1. \A e \in Calls \ {d} : At(e)' = At(e)
    BY <1>1, <1>3, AtIs DEF Calls
  <2>2. d \in Calls /\ At(d) \notin OnChain
    BY <1>1, AtIs DEF Calls, OnChain
  <2> QED
    BY <1>1, <1>3, <2>1, <2>2, Joins DEF Base
<1>5. Asking'
  BY <1>1, <1>2, <1>3 DEF Base, Asking
<1> QED
  BY <1>1, <1>3, <1>4, <1>5 DEF Base, Typing, HeldIsCurrent

LEMMA AskLeaves ==
  ASSUME Base, NEW d \in Asks, First(d), ask' = [ask EXCEPT ![d] = Silent],
         chain' = Tail(chain), call' = call
  PROVE  ask' \in [Asks -> Askings] /\ Asking' /\ Serial'
<1>1. /\ ask' \in [Asks -> Askings] /\ ask'[d] = Silent
      /\ \A e \in Asks \ {d} : ask'[e] = ask[e] /\ At(e)' = At(e)
      /\ At(d)' = "idle"
  BY IdleTyped, OneAsk, ZenonT(40) DEF Silent, Base, Typing
<1>2. \A e \in Calls \ {d} : At(e)' = At(e)
  BY <1>1, AtIs DEF Calls
<1>3. Serial'
  BY <1>1, <1>2, Leaves DEF Base, Calls, OnChain
<1>4. Asking'
  BY <1>1 DEF Base, Asking, Silent
<1> QED
  BY <1>1, <1>3, <1>4

LEMMA AskGoes ==
  ASSUME Base, NEW d \in Asks, First(d), NEW v \in Askings, v.at \in OnChain,
         v.frag = ask[d].frag, ask[d].at # "idle", ask' = [ask EXCEPT ![d] = v],
         chain' = chain, call' = call
  PROVE  ask' \in [Asks -> Askings] /\ Asking' /\ Serial' /\ ask'[d] = v
<1>1. /\ ask' \in [Asks -> Askings] /\ ask'[d] = v
      /\ \A e \in Asks \ {d} : ask'[e] = ask[e] /\ At(e)' = At(e)
      /\ At(d)' = v.at
  BY OneAsk DEF Base, Typing
<1>2. \A e \in Calls \ {d} : At(e)' = At(e)
  BY <1>1, AtIs DEF Calls
<1>3. Serial'
  BY <1>1, <1>2, Goes DEF Base, Calls
<1>4. Asking'
  BY <1>1 DEF Base, Asking
<1> QED
  BY <1>1, <1>3, <1>4

LEMMA BaseAskChecks ==
  ASSUME Base, NEW d \in Asks, AskChecks(d)
  PROVE  Base'
<1> DEFINE i == ask[d].frag
<1>1. /\ frag \in [FragIds -> Frags] /\ ask \in [Asks -> Askings] /\ i \in FragIds
      /\ held \in FragIds \cup {0} /\ store \in Entries
      /\ First(d) /\ ask[d].at = "chain" /\ UNCHANGED <<store, held, call, edits, writes>>
  BY DEF Base, Typing, AskChecks, Asking
<1>2. CASE held # i \/ store # ask[d].rev
  <2>1. ask' = [ask EXCEPT ![d] = Silent] /\ chain' = Tail(chain) /\ frag' = Kept(frag, held, ask')
    BY <1>2 DEF AskChecks, Dismissed
  <2>2. ask' \in [Asks -> Askings] /\ Asking' /\ Serial'
    BY <1>1, <2>1, AskLeaves
  <2>3. frag' \in [FragIds -> Frags] /\ (held \in FragIds => frag'[held] = frag[held])
    BY <1>1, <2>1, KeptTyped
  <2> QED
    BY <1>1, <2>2, <2>3 DEF Base, Typing, HeldIsCurrent
<1>3. CASE held = i /\ store = ask[d].rev
  <2> DEFINE next == IF frag[i].replace # Absent THEN frag[i].replace
                     ELSE [store EXCEPT !.what = [f \in Field |->
                             IF f \notin ask[d].fields THEN store.what[f]
                             ELSE IF frag[i].values[f] = NotHeld THEN None
                             ELSE frag[i].values[f]]]
             v == [ask[d] EXCEPT !.at = "store", !.next = next]
  <2>1. ask' = [ask EXCEPT ![d] = v] /\ UNCHANGED <<frag, chain>>
    BY <1>1, <1>3 DEF AskChecks
  <2>2. next \in Entry
    <3>1. store \in Entry /\ frag[i].replace \in Entry /\ frag[i].values \in Values
      BY <1>1 DEF Frags, Entries
    <3>2. [f \in Field |-> IF f \notin ask[d].fields THEN store.what[f]
                           ELSE IF frag[i].values[f] = NotHeld THEN None
                           ELSE frag[i].values[f]] \in [Field -> Text \cup {None}]
      BY <3>1 DEF Entry, Values
    <3>3. \A w \in [Field -> Text \cup {None}] : [store EXCEPT !.what = w] \in Entry
      BY <3>1 DEF Entry
    <3> QED
      BY <3>1, <3>2, <3>3
  <2> HIDE DEF next
  <2>3. v \in Askings /\ v.at = "store" /\ v.frag = ask[d].frag
    BY <1>1, <2>2 DEF Askings
  <2> HIDE DEF v
  <2>4. ask' \in [Asks -> Askings] /\ Asking' /\ Serial'
    BY <1>1, <2>1, <2>3, AskGoes DEF OnChain
  <2> QED
    BY <1>1, <2>1, <2>4 DEF Base, Typing, HeldIsCurrent
<1> QED
  BY <1>2, <1>3

LEMMA BaseAskStores ==
  ASSUME Base, NEW d \in Asks, AskStores(d)
  PROVE  Base'
<1>1. /\ frag \in [FragIds -> Frags] /\ ask \in [Asks -> Askings] /\ ask[d].next \in Entry
      /\ held \in FragIds \cup {0} /\ store \in Entries
      /\ First(d) /\ ask[d].at = "store" /\ UNCHANGED <<call, edits, writes>>
  BY DEF Base, Typing, Askings, AskStores
<1>2. CASE Lands(ask[d].next, ask[d].rev)
  <2> DEFINE v == [ask[d] EXCEPT !.at = "after"]
  <2>1. /\ store' = ask[d].next /\ held' = 0 /\ frag' = Kept(frag, 0, ask)
        /\ ask' = [ask EXCEPT ![d] = v] /\ UNCHANGED chain
    BY <1>1, <1>2 DEF AskStores, Mutate
  <2>2. v \in Askings /\ v.at = "after" /\ v.frag = ask[d].frag
    BY <1>1 DEF Askings
  <2> HIDE DEF v
  <2>3. ask' \in [Asks -> Askings] /\ Asking' /\ Serial'
    BY <1>1, <2>1, <2>2, AskGoes DEF OnChain
  <2>4. frag' \in [FragIds -> Frags] /\ store' \in Entries
    BY <1>1, <1>2, <2>1, KeptTyped DEF Lands, Entries
  <2> QED
    BY <1>1, <2>1, <2>3, <2>4 DEF Base, Typing, HeldIsCurrent
<1>3. CASE ~Lands(ask[d].next, ask[d].rev)
  <2>1. /\ ask' = [ask EXCEPT ![d] = Silent] /\ chain' = Tail(chain)
        /\ frag' = Kept(frag, held, ask') /\ UNCHANGED <<store, held>>
    BY <1>3 DEF AskStores, Dismissed
  <2>2. ask' \in [Asks -> Askings] /\ Asking' /\ Serial'
    BY <1>1, <2>1, AskLeaves
  <2>3. frag' \in [FragIds -> Frags] /\ (held \in FragIds => frag'[held] = frag[held])
    BY <1>1, <2>1, KeptTyped
  <2> QED
    BY <1>1, <2>1, <2>2, <2>3 DEF Base, Typing, HeldIsCurrent
<1> QED
  BY <1>2, <1>3

LEMMA BaseAskHolds ==
  ASSUME Base, NEW d \in Asks, AskHolds(d)
  PROVE  Base'
<1> DEFINE i    == ask[d].frag
           left == [f \in Field |-> IF f \in ask[d].fields THEN NotHeld ELSE frag[i].values[f]]
           new  == [frag[i] EXCEPT !.rev = store, !.values = left]
           g    == [frag EXCEPT ![Fresh] = new]
<1>1. /\ frag \in [FragIds -> Frags] /\ ask \in [Asks -> Askings] /\ i \in FragIds
      /\ held \in FragIds \cup {0} /\ store \in Entries
      /\ First(d) /\ ask[d].at = "after" /\ UNCHANGED <<store, call, edits, writes>>
      /\ ask' = [ask EXCEPT ![d] = Silent] /\ chain' = Tail(chain)
  BY DEF Base, Typing, Asking, AskHolds, Dismissed
<1>2. ask' \in [Asks -> Askings] /\ Asking' /\ Serial'
  BY <1>1, AskLeaves
<1>3. /\ held' \in FragIds \cup {0} /\ frag' \in [FragIds -> Frags]
      /\ held' # 0 => frag'[held'].rev = store
  <2>1. CASE Names(left) = {}
    <3>1. frag' = Kept(frag, held, ask') /\ held' = held
      BY <2>1 DEF AskHolds
    <3>2. frag' \in [FragIds -> Frags] /\ (held \in FragIds => frag'[held] = frag[held])
      BY <1>1, <3>1, KeptTyped
    <3> QED
      BY <1>1, <3>1, <3>2 DEF Base, HeldIsCurrent
  <2>2. CASE Names(left) # {}
    <3>1. Fresh \in FragIds
      BY BaseTyped, FreshIsFree
    <3>2. left \in Values
      BY <1>1 DEF Frags, Values
    <3>3. held' = Fresh /\ frag' = Kept(g, Fresh, ask')
      BY <2>2 DEF AskHolds
    <3> HIDE DEF left
    <3>4. new \in Frags /\ new.rev = store
      BY <1>1, <3>2 DEF Frags
    <3> HIDE DEF new
    <3>5. g \in [FragIds -> Frags] /\ g[Fresh] = new
      BY <1>1, <3>1, <3>4
    <3> HIDE DEF g
    <3>6. frag' \in [FragIds -> Frags] /\ frag'[Fresh] = g[Fresh]
      BY <3>1, <3>3, <3>5, KeptTyped
    <3> QED
      BY <3>1, <3>3, <3>4, <3>5, <3>6
  <2> QED
    BY <2>1, <2>2
<1> QED
  BY <1>1, <1>2, <1>3 DEF Base, Typing, HeldIsCurrent

LEMMA BaseUserEdit ==
  ASSUME Base, UserEdit
  PROVE  Base'
<1>1. PICK e \in Entries : store' = e /\ held' = 0 /\ frag' = Kept(frag, 0, ask)
  BY DEF UserEdit, Typed, Mutate
<1>2. /\ edits < MaxEdits /\ edits' = edits + 1 /\ UNCHANGED <<call, ask, chain, writes>>
      /\ frag \in [FragIds -> Frags]
  BY DEF UserEdit, Base, Typing
<1>3. frag' \in [FragIds -> Frags]
  BY <1>1, <1>2, KeptTyped
<1>4. Typing'
  BY <1>1, <1>2, <1>3, HeldAssumption DEF Base, Typing
<1>5. Serial'
  BY <1>2, AtIs, Stays DEF Base, Calls
<1> QED
  BY <1>1, <1>2, <1>4, <1>5 DEF Base, Asking, HeldIsCurrent

LEMMA BaseRestart ==
  ASSUME Base, Restart
  PROVE  Base'
<1>1. Typing'
  BY IdleTyped, BlankTyped DEF Restart, Base, Typing
<1>2. \A c \in Calls : At(c)' \notin OnChain
  BY AtIs DEF Restart, Calls, Resting, Silent, OnChain
<1>3. Serial'
  BY <1>2, EmptySeq DEF Restart, Serial, Working, OnChain
<1> QED
  BY <1>1, <1>3 DEF Base, Asking, HeldIsCurrent, Restart, Silent

LEMMA BaseStep ==
  ASSUME Base, [Next]_vars
  PROVE  Base'
<1>1. CASE UNCHANGED vars
  <2>1. Serial'
    BY <1>1, AtIs, Stays DEF vars, Base, Calls
  <2> QED
    BY <1>1, <2>1 DEF vars, Base, Typing, Asking, HeldIsCurrent
<1> QED
  BY <1>1, BaseWrite, BaseWriteChecks, BaseWriteStores, BaseWriteHolds, BaseAsk, BaseAskReads,
     BaseDeny, BaseConfirm, BaseAskChecks, BaseAskStores, BaseAskHolds, BaseUserEdit, BaseRestart
  DEF Next, WriteStep, AskStep

LEMMA Invariant == Spec => []Base
BY BaseInit, BaseStep, PTL DEF Spec

(* Every variable of the registry's writes keeps to its kind: an entry that  *)
(* is saved is one the registry admits, whoever wrote it.                    *)
THEOREM HeldTypeCorrect == Spec => []TypeOK
BY Invariant, BaseTyped, PTL

(* What is held is held for the entry as it reads now: write, applyHeld, a   *)
(* denial, a save in Settings, in any order and any number.                  *)
THEOREM HeldStaysCurrent == Spec => []HeldIsCurrent
<1>1. Base => HeldIsCurrent
  BY DEF Base
<1> QED
  BY <1>1, Invariant, PTL

-----------------------------------------------------------------------------
(* Links stay put: what holds as long as the user does not save in between.  *)

(* Who is past its check is alone there.                                     *)
LEMMA Only ==
  ASSUME Base, NEW c \in Calls, First(c)
  PROVE  /\ c # "write" => call.at \notin Working
         /\ \A d \in Asks : c # d => ask[d].at \notin Working
BY AtIs DEF Base, Serial, First, Calls

(* What a call that does not move refers to stays.                           *)
LEMMA AskStaysFree ==
  ASSUME NEW e \in Asks, AskFree(e), ask'[e] = ask[e],
         \/ ask[e].at \notin Working
         \/ store' = store /\ frag'[ask[e].frag].replace = frag[ask[e].frag].replace
  PROVE  AskFree(e)'
BY DEF AskFree, Working

LEMMA WriteStaysFree ==
  ASSUME WriteFree, call' = call, call.at \notin Working \/ store' = store
  PROVE  WriteFree'
BY DEF WriteFree, Keeps, Working

LEMMA FreeInit == Init => Unlinked
BY DEF Init, Unlinked, HeldFree, WriteFree, AskFree, Resting, Silent, Working

LEMMA PlanFree ==
  ASSUME NEW next \in Entries, store \in Entries, ~Refused(next, store)
  PROVE  LET p == Plan(next, store)
         IN  /\ p.replace = Absent => Keeps(p.entry) /\ (Names(p.values) # {} => ~p.entry.linked)
             /\ p.replace # Absent => ~store.linked /\ ~p.replace.linked
<1> DEFINE p == Plan(next, store)
<1>1. /\ next.linked = store.linked
      /\ store # Absent /\ store.linked => next.kind = store.kind /\ next.what = store.what
  BY DEF Refused, Absent, Entries, Entry
<1>2. ~Absent.linked /\ Absent.kind = "absent" /\ Names(Blank.values) = {}
  BY DEF Absent, Names, Blank
<1>3. CASE next.kind # "local"
  <2>1. p.entry = next /\ p.replace = Absent /\ p.values = Blank.values
    BY <1>3 DEF Plan
  <2> HIDE DEF p
  <2>2. Keeps(next)
    BY <1>1, <1>2 DEF Keeps
  <2>3. Names(p.values) = {}
    BY <1>2, <2>1
  <2> QED
    BY <2>1, <2>2, <2>3 DEF p
<1>4. CASE next.kind = "local" /\ store.kind # "local"
  <2>1. p.entry = Absent /\ p.replace = next
    BY <1>4 DEF Plan
  <2>2. ~next.linked /\ ~store.linked
    BY <1>1, <1>2, <1>4
  <2>3. next # Absent
    BY <1>2, <1>4
  <2> QED
    BY <2>1, <2>2, <2>3
<1>5. CASE next.kind = "local" /\ store.kind = "local"
  <2>1. /\ p.entry = [next EXCEPT !.what = store.what] /\ p.replace = Absent
        /\ p.values = [f \in Field |-> IF next.what[f] = store.what[f] THEN NotHeld
                                       ELSE next.what[f]]
    BY <1>5 DEF Plan
  <2> HIDE DEF p
  <2>2. p.entry.linked = next.linked /\ p.entry.kind = next.kind /\ p.entry.what = store.what
    BY <2>1 DEF Entries, Entry
  <2>3. Keeps(p.entry)
    BY <1>1, <1>5, <2>2 DEF Keeps
  <2>4. Names(p.values) # {} => next.what # store.what
    BY <2>1 DEF Names
  <2>5. Names(p.values) # {} => ~p.entry.linked
    BY <1>1, <1>2, <1>5, <2>2, <2>4
  <2> QED
    BY <2>1, <2>3, <2>5 DEF p
<1> QED
  BY <1>3, <1>4, <1>5

LEMMA FreeWrite ==
  ASSUME Base, Unlinked, Write
  PROVE  Unlinked'
<1>1. call'.at = "chain" /\ UNCHANGED <<store, held, frag, ask>>
  BY DEF Write, Resting
<1>2. WriteFree'
  BY <1>1 DEF WriteFree
<1>3. \A e \in Asks : AskFree(e)'
  BY <1>1, AskStaysFree DEF Unlinked
<1> QED
  BY <1>1, <1>2, <1>3 DEF Unlinked, HeldFree

LEMMA FreeWriteChecks ==
  ASSUME Base, Unlinked, WriteChecks
  PROVE  Unlinked'
<1>1. /\ UNCHANGED <<store, held, frag, ask>> /\ store \in Entries /\ call \in Callings
      /\ call.next \in Entries
  BY DEF WriteChecks, Base, Typing, Callings
<1>2. \A e \in Asks : AskFree(e)'
  BY <1>1, AskStaysFree DEF Unlinked
<1>3. WriteFree'
  <2>1. CASE call' = Resting
    BY <2>1 DEF WriteFree, Resting
  <2>2. CASE /\ call.rev = store
             /\ call' = [call EXCEPT !.next = Absent, !.values = Blank.values,
                                     !.replace = Absent, !.at = "store"]
    <3>1. /\ call'.next = Absent /\ call'.values = Blank.values /\ call'.replace = Absent
          /\ call'.at = "store" /\ call'.rev = store
      BY <1>1, <2>2 DEF Callings
    <3>2. Names(Blank.values) = {}
      BY DEF Names, Blank
    <3> QED
      BY <1>1, <3>1, <3>2 DEF WriteFree, Keeps
  <2>3. CASE /\ call.rev = store /\ ~Refused(call.next, store)
             /\ LET p == Plan(call.next, store)
                IN  call' = [call EXCEPT !.next = p.entry, !.values = p.values,
                               !.replace = p.replace,
                               !.at = IF p.replace = Absent THEN "store" ELSE "after"]
    <3> DEFINE p == Plan(call.next, store)
    <3>1. /\ p.replace = Absent => Keeps(p.entry) /\ (Names(p.values) # {} => ~p.entry.linked)
          /\ p.replace # Absent => ~store.linked /\ ~p.replace.linked
      BY <1>1, <2>3, PlanFree
    <3>2. /\ call'.next = p.entry /\ call'.values = p.values /\ call'.replace = p.replace
          /\ call'.at = IF p.replace = Absent THEN "store" ELSE "after"
          /\ call'.rev = store
      BY <1>1, <2>3 DEF Callings
    <3> HIDE DEF p
    <3>3. CASE p.replace = Absent
      BY <1>1, <3>1, <3>2, <3>3 DEF WriteFree, Keeps
    <3>4. CASE p.replace # Absent
      BY <1>1, <3>1, <3>2, <3>4 DEF WriteFree
    <3> QED
      BY <3>3, <3>4
  <2> QED
    BY <2>1, <2>2, <2>3, WriteChecked
<1> QED
  BY <1>1, <1>2, <1>3 DEF Unlinked, HeldFree

LEMMA FreeWriteStores ==
  ASSUME Base, Unlinked, WriteStores
  PROVE  Unlinked'
<1>1. /\ First("write") /\ call.at = "store" /\ UNCHANGED ask /\ call \in Callings
  BY DEF WriteStores, Base, Typing
<1>2. \A e \in Asks : AskFree(e)'
  BY <1>1, Only, AskStaysFree, HeldAssumption DEF Unlinked, Calls
<1>3. CASE Mutate(call.next) /\ call' = [call EXCEPT !.at = "after"]
  <2>1. store' = call.next /\ held' = 0
    BY <1>3 DEF Mutate
  <2>2. call'.at = "after" /\ call'.values = call.values /\ call'.replace = call.replace
    BY <1>1, <1>3 DEF Callings
  <2>3. /\ call.replace = Absent /\ ~Absent.linked
        /\ Names(call.values) # {} => ~call.next.linked
    BY <1>1 DEF Unlinked, WriteFree, Absent
  <2>4. WriteFree'
    BY <2>1, <2>2, <2>3 DEF WriteFree
  <2> QED
    BY <1>2, <2>1, <2>4 DEF Unlinked, HeldFree
<1>4. CASE call' = Resting /\ UNCHANGED <<store, held, frag>>
  <2>1. WriteFree'
    BY <1>4 DEF WriteFree, Resting
  <2> QED
    BY <1>2, <1>4, <2>1 DEF Unlinked, HeldFree
<1> QED
  BY <1>3, <1>4 DEF WriteStores, Dismissed

(* A write that is held, as a fragment nobody had a number for.              *)
LEMMA WriteHeld ==
  ASSUME Base, WriteHolds
  PROVE  /\ \/ Names(call.values) = {} /\ UNCHANGED <<held, frag>>
            \/ /\ Names(call.values) # {} /\ held' \in FragIds
               /\ frag'[held'] = [rev |-> store, values |-> call.values, replace |-> call.replace]
         /\ \A e \in Asks : ask[e].at # "idle" => frag'[ask[e].frag] = frag[ask[e].frag]
<1>1. CASE Names(call.values) = {}
  BY <1>1 DEF WriteHolds
<1>2. CASE Names(call.values) # {}
  <2> DEFINE new == [rev |-> store, values |-> call.values, replace |-> call.replace]
             g == [frag EXCEPT ![Fresh] = new]
  <2>1. Fresh \in FragIds /\ \A e \in Asks : ask[e].frag # Fresh
    BY BaseTyped, FreshIsFree
  <2>2. held' = Fresh /\ frag' = Kept(g, Fresh, ask)
    BY <1>2 DEF WriteHolds
  <2>3. new \in Frags /\ frag \in [FragIds -> Frags]
    BY DEF Frags, Callings, Base, Typing
  <2> HIDE DEF new
  <2>4. /\ g \in [FragIds -> Frags] /\ g[Fresh] = new
        /\ \A i \in FragIds \ {Fresh} : g[i] = frag[i]
    BY <2>1, <2>3
  <2> HIDE DEF g
  <2>5. frag'[Fresh] = new
    BY <2>1, <2>2, <2>4, KeptTyped
  <2>6. \A e \in Asks : ask[e].frag \in FragIds => frag'[ask[e].frag] = frag[ask[e].frag]
    BY <2>1, <2>2, <2>4, KeptTyped
  <2> QED
    BY <1>2, <2>1, <2>2, <2>5, <2>6 DEF new, Base, Asking
<1> QED
  BY <1>1, <1>2

LEMMA FreeWriteHolds ==
  ASSUME Base, Unlinked, WriteHolds
  PROVE  Unlinked'
<1>1. /\ First("write") /\ call.at = "after" /\ call' = Resting /\ UNCHANGED <<store, ask>>
  BY DEF WriteHolds
<1>2. \A e \in Asks : AskFree(e)'
  BY <1>1, Only, AskStaysFree, HeldAssumption DEF Unlinked, Calls
<1>3. HeldFree'
  <2>1. Names(call.values) # {} => ~store.linked /\ ~call.replace.linked
    BY <1>1 DEF Unlinked, WriteFree
  <2> QED
    BY <1>1, <2>1, WriteHeld DEF Unlinked, HeldFree
<1> QED
  BY <1>1, <1>2, <1>3 DEF Unlinked, WriteFree, Resting

(* What the steps of a confirmation do to the fragments others refer to.     *)
LEMMA Others ==
  ASSUME Base, NEW d \in Asks, NEW v, ask' = [ask EXCEPT ![d] = v]
  PROVE  \A e \in Asks \ {d} :
           /\ ask'[e] = ask[e]
           /\ ask[e].at # "idle" =>
                /\ ask[e].frag \in FragIds
                /\ \A g \in [FragIds -> Frags], h \in FragIds \cup {0} :
                     Kept(g, h, ask')[ask[e].frag] = g[ask[e].frag]
<1> SUFFICES ASSUME NEW e \in Asks \ {d}
             PROVE  /\ ask'[e] = ask[e]
                    /\ ask[e].at # "idle" =>
                         /\ ask[e].frag \in FragIds
                         /\ \A g \in [FragIds -> Frags], h \in FragIds \cup {0} :
                              Kept(g, h, ask')[ask[e].frag] = g[ask[e].frag]
  OBVIOUS
<1>1. ask'[e] = ask[e]
  BY DEF Base, Typing
<1>2. ask[e].at # "idle" => ask[e].frag \in FragIds
  BY DEF Base, Asking
<1>3. ASSUME NEW g \in [FragIds -> Frags], NEW h \in FragIds \cup {0}, ask[e].frag \in FragIds
      PROVE  Kept(g, h, ask')[ask[e].frag] = g[ask[e].frag]
  <2>1. ask[e].frag \in Used(h, ask')
    BY <1>1 DEF Used
  <2> QED
    BY <1>3, <2>1 DEF Kept
<1> QED
  BY <1>1, <1>2, <1>3

LEMMA FreeAsk ==
  ASSUME Base, Unlinked, NEW d \in Asks, Ask(d)
  PROVE  Unlinked'
<1>1. UNCHANGED <<store, held, frag, call>> /\ ask \in [Asks -> Askings]
  BY DEF Ask, Base, Typing
<1>2. ask'[d].at = "read" /\ \A e \in Asks \ {d} : ask'[e] = ask[e]
  <2>1. PICK fields \in SUBSET Field :
          ask' = [ask EXCEPT ![d] = [Silent EXCEPT !.at = "read", !.frag = held,
                                       !.rev = frag[held].rev, !.fields = fields]]
    BY DEF Ask, Names
  <2> QED
    BY <1>1, <2>1 DEF Silent
<1>3. \A e \in Asks : AskFree(e)'
  <2>1. AskFree(d)'
    BY <1>2 DEF AskFree, Working
  <2>2. \A e \in Asks \ {d} : AskFree(e)'
    BY <1>1, <1>2, AskStaysFree DEF Unlinked
  <2> QED
    BY <2>1, <2>2
<1> QED
  BY <1>1, <1>3, WriteStaysFree DEF Unlinked, HeldFree

LEMMA FreeAskReads ==
  ASSUME Base, Unlinked, NEW d \in Asks, AskReads(d)
  PROVE  Unlinked'
<1>1. /\ UNCHANGED <<store, call>> /\ ask \in [Asks -> Askings]
      /\ frag \in [FragIds -> Frags]
  BY DEF AskReads, Base, Typing
<1>2. CASE store # ask[d].rev
  <2>1. held' = 0 /\ ask' = [ask EXCEPT ![d] = Silent] /\ frag' = Kept(frag, 0, ask')
    BY <1>2 DEF AskReads
  <2>2. AskFree(d)'
    BY <1>1, <2>1 DEF AskFree, Working, Silent
  <2>3. \A e \in Asks \ {d} : AskFree(e)'
    <3> SUFFICES ASSUME NEW e \in Asks \ {d}, ask[e].at \in Working
                 PROVE  frag'[ask[e].frag].replace = frag[ask[e].frag].replace
      BY <1>1, <2>1, Others, AskStaysFree DEF Unlinked
    <3>1. ask[e].at # "idle" /\ 0 \in FragIds \cup {0}
      BY DEF Working
    <3>2. Kept(frag, 0, ask')[ask[e].frag] = frag[ask[e].frag]
      BY <1>1, <2>1, <3>1, Others
    <3> QED
      BY <2>1, <3>2
  <2> QED
    BY <1>1, <2>1, <2>2, <2>3, WriteStaysFree DEF Unlinked, HeldFree
<1>3. CASE store = ask[d].rev
  <2>1. /\ UNCHANGED <<held, frag>> /\ ask'[d].at = "open"
        /\ \A e \in Asks \ {d} : ask'[e] = ask[e]
    BY <1>1, <1>3 DEF AskReads, Askings
  <2>2. AskFree(d)'
    BY <2>1 DEF AskFree, Working
  <2>3. \A e \in Asks \ {d} : AskFree(e)'
    BY <1>1, <2>1, AskStaysFree DEF Unlinked
  <2> QED
    BY <1>1, <2>1, <2>2, <2>3, WriteStaysFree DEF Unlinked, HeldFree
<1> QED
  BY <1>2, <1>3

(* What a denial leaves.                                                     *)
Left(d) ==
  [f \in Field |-> IF f \in ask[d].fields THEN NotHeld ELSE frag[ask[d].frag].values[f]]

LEMMA Denied ==
  ASSUME Base, NEW d \in Asks, Deny(d)
  PROVE  LET i == ask[d].frag
             left == IF held # i THEN frag[i].values ELSE Left(d)
             g == [frag EXCEPT ![i].values = left]
         IN  /\ i \in FragIds /\ ask[d].at = "open"
             /\ ask' = [ask EXCEPT ![d] = Silent] /\ UNCHANGED <<store, call>>
             /\ frag' = Kept(g, held', ask') /\ g \in [FragIds -> Frags]
             /\ \A j \in FragIds : /\ g[j].replace = frag[j].replace
                                   /\ g[j].values = IF j = i THEN left ELSE frag[j].values
             /\ held' \in {0, held} /\ (held' # 0 => frag'[held'] = g[held'])
             /\ Names(left) = {} \/ frag[i].replace # Absent => held' = 0
<1> DEFINE i == ask[d].frag
           left == IF held # i THEN frag[i].values ELSE Left(d)
           g == [frag EXCEPT ![i].values = left]
<1>1. /\ frag \in [FragIds -> Frags] /\ i \in FragIds /\ held \in FragIds \cup {0}
      /\ ask[d].at = "open" /\ UNCHANGED <<store, call>> /\ ask' = [ask EXCEPT ![d] = Silent]
      /\ frag' = Kept(g, held', ask')
      /\ held' = IF Names(left) = {} \/ frag[i].replace # Absent THEN 0 ELSE held
  BY DEF Base, Typing, Asking, Deny, Left
<1>2. left \in Values
  BY <1>1 DEF Frags, Values, Left
<1> HIDE DEF left
<1>3. /\ g \in [FragIds -> Frags]
      /\ \A j \in FragIds : /\ g[j].replace = frag[j].replace
                            /\ g[j].values = IF j = i THEN left ELSE frag[j].values
  BY <1>1, <1>2 DEF Frags
<1> HIDE DEF g
<1>4. held' # 0 => held' = held /\ frag'[held'] = g[held']
  BY <1>1, <1>3, KeptTyped
<1> QED
  BY <1>1, <1>3, <1>4 DEF left, g

LEMMA FreeDeny ==
  ASSUME Base, Unlinked, NEW d \in Asks, Deny(d)
  PROVE  Unlinked'
<1> DEFINE left == IF held # ask[d].frag THEN frag[ask[d].frag].values ELSE Left(d)
           g == [frag EXCEPT ![ask[d].frag].values = left]
<1>1. /\ ask' = [ask EXCEPT ![d] = Silent] /\ UNCHANGED <<store, call>>
      /\ frag' = Kept(g, held', ask') /\ g \in [FragIds -> Frags]
      /\ \A j \in FragIds : g[j].replace = frag[j].replace
      /\ held' \in {0, held} /\ (held' # 0 => frag'[held'] = g[held'])
  BY Denied
<1> HIDE DEF g
<1>2. held \in FragIds \cup {0} /\ ask \in [Asks -> Askings]
  BY DEF Base, Typing
<1>3. AskFree(d)'
  BY <1>1, <1>2 DEF AskFree, Working, Silent
<1>4. \A e \in Asks \ {d} : AskFree(e)'
  <2> SUFFICES ASSUME NEW e \in Asks \ {d}, ask[e].at \in Working
               PROVE  frag'[ask[e].frag].replace = frag[ask[e].frag].replace
    BY <1>1, Others, AskStaysFree DEF Unlinked
  <2>1. ask[e].at # "idle" /\ held' \in FragIds \cup {0}
    BY <1>1, <1>2 DEF Working
  <2>2. ask[e].frag \in FragIds /\ frag'[ask[e].frag] = g[ask[e].frag]
    BY <1>1, <2>1, Others
  <2> QED
    BY <1>1, <2>2
<1>5. HeldFree'
  BY <1>1, <1>2 DEF Unlinked, HeldFree
<1> QED
  BY <1>1, <1>3, <1>4, <1>5, WriteStaysFree DEF Unlinked

LEMMA FreeConfirm ==
  ASSUME Base, Unlinked, NEW d \in Asks, Confirm(d)
  PROVE  Unlinked'
<1>1. /\ UNCHANGED <<store, held, frag, call>> /\ ask'[d].at = "chain"
      /\ \A e \in Asks \ {d} : ask'[e] = ask[e]
  BY DEF Confirm, Base, Typing, Askings
<1>2. AskFree(d)'
  BY <1>1 DEF AskFree, Working
<1>3. \A e \in Asks \ {d} : AskFree(e)'
  BY <1>1, AskStaysFree DEF Unlinked
<1> QED
  BY <1>1, <1>2, <1>3, WriteStaysFree DEF Unlinked, HeldFree

(* A call that leaves frees its fragment, and only that.                     *)
LEMMA FreeLeaves ==
  ASSUME Base, Unlinked, NEW d \in Asks, ask' = [ask EXCEPT ![d] = Silent],
         frag' = Kept(frag, held, ask'), UNCHANGED <<store, held, call>>
  PROVE  Unlinked'
<1>1. frag \in [FragIds -> Frags] /\ held \in FragIds \cup {0} /\ ask \in [Asks -> Askings]
  BY DEF Base, Typing
<1>2. AskFree(d)'
  BY <1>1 DEF AskFree, Working, Silent
<1>3. \A e \in Asks \ {d} : AskFree(e)'
  <2> SUFFICES ASSUME NEW e \in Asks \ {d}, ask[e].at \in Working
               PROVE  frag'[ask[e].frag].replace = frag[ask[e].frag].replace
    BY Others, AskStaysFree DEF Unlinked
  <2>1. ask[e].at # "idle"
    BY DEF Working
  <2> QED
    BY <1>1, <2>1, Others, ZenonT(40)
<1>4. HeldFree'
  BY <1>1, KeptTyped DEF Unlinked, HeldFree
<1> QED
  BY <1>2, <1>3, <1>4, WriteStaysFree DEF Unlinked

(* A confirmation that passes its check writes what its fragment holds.      *)
LEMMA AskChecked ==
  ASSUME Base, NEW d \in Asks, AskChecks(d), held = ask[d].frag, store = ask[d].rev
  PROVE  LET i == ask[d].frag
             v == frag[i].values
         IN  /\ ask'[d] \in Askings /\ \A e \in Asks \ {d} : ask'[e] = ask[e]
             /\ ask'[d].at = "store" /\ ask'[d].frag = i /\ ask'[d].fields = ask[d].fields
             /\ ask'[d].rev = ask[d].rev /\ ask'[d].shown = ask[d].shown
             /\ frag[i].replace # Absent => ask'[d].next = frag[i].replace
             /\ frag[i].replace = Absent =>
                  /\ ask'[d].next.linked = store.linked
                  /\ \A f \in Field : ask'[d].next.what[f] =
                       IF f \notin ask[d].fields THEN store.what[f]
                       ELSE IF v[f] = NotHeld THEN None ELSE v[f]
<1> DEFINE i == ask[d].frag
           v == frag[i].values
           w == [f \in Field |-> IF f \notin ask[d].fields THEN store.what[f]
                                 ELSE IF v[f] = NotHeld THEN None ELSE v[f]]
           next == IF frag[i].replace # Absent THEN frag[i].replace ELSE [store EXCEPT !.what = w]
           a == [ask[d] EXCEPT !.at = "store", !.next = next]
<1>1. ask \in [Asks -> Askings] /\ ask' = [ask EXCEPT ![d] = a] /\ store \in Entry
  BY DEF Base, Typing, AskChecks, Entries
<1>2. /\ frag[i].replace # Absent => next = frag[i].replace
      /\ frag[i].replace = Absent => next.linked = store.linked /\ next.what = w
  BY <1>1 DEF Entry
<1>3. ask'[d] = a /\ \A e \in Asks \ {d} : ask'[e] = ask[e]
  BY <1>1
<1> HIDE DEF next
<1>4. /\ a.at = "store" /\ a.frag = i /\ a.fields = ask[d].fields /\ a.rev = ask[d].rev
      /\ a.shown = ask[d].shown /\ a.next = next
  BY <1>1 DEF Askings
<1>5. ask'[d] \in Askings
  BY BaseAskChecks DEF Base, Typing
<1> QED
  BY <1>2, <1>3, <1>4, <1>5

LEMMA FreeAskChecks ==
  ASSUME Base, Unlinked, NEW d \in Asks, AskChecks(d)
  PROVE  Unlinked'
<1>1. UNCHANGED <<store, held, call>> /\ First(d)
  BY DEF AskChecks
<1>2. CASE held # ask[d].frag \/ store # ask[d].rev
  BY <1>1, <1>2, FreeLeaves DEF AskChecks
<1>3. CASE held = ask[d].frag /\ store = ask[d].rev
  <2>1. held # 0 /\ UNCHANGED frag
    <3>1. ask[d].frag \in FragIds
      BY DEF AskChecks, Base, Asking
    <3>2. 0 \notin FragIds
      BY DEF FragIds
    <3> QED
      BY <1>3, <3>1, <3>2 DEF AskChecks
  <2>2. ~store.linked /\ ~frag[held].replace.linked
    BY <2>1 DEF Unlinked, HeldFree
  <2>3. AskFree(d)'
    BY <1>1, <1>3, <2>1, <2>2, AskChecked DEF AskFree
  <2>4. \A e \in Asks \ {d} : AskFree(e)'
    BY <1>1, <1>3, <2>1, AskChecked, AskStaysFree DEF Unlinked
  <2> QED
    BY <1>1, <2>1, <2>3, <2>4, WriteStaysFree DEF Unlinked, HeldFree
<1> QED
  BY <1>2, <1>3

LEMMA FreeAskStores ==
  ASSUME Base, Unlinked, NEW d \in Asks, AskStores(d)
  PROVE  Unlinked'
<1>1. /\ First(d) /\ ask[d].at = "store" /\ call' = call /\ d # "write" /\ d \in Calls
      /\ frag \in [FragIds -> Frags] /\ ask \in [Asks -> Askings] /\ ask[d].frag \in FragIds
  BY HeldAssumption DEF AskStores, Calls, Base, Typing, Asking
<1>2. CASE Lands(ask[d].next, ask[d].rev)
  <2>1. /\ store' = ask[d].next /\ held' = 0 /\ frag' = Kept(frag, 0, ask)
        /\ ask' = [ask EXCEPT ![d].at = "after"]
    BY <1>2 DEF AskStores, Mutate
  <2>2. /\ ask'[d].at = "after" /\ ask'[d].frag = ask[d].frag
        /\ \A e \in Asks \ {d} : ask'[e] = ask[e]
    BY <1>1, <2>1 DEF Askings
  <2>3. frag'[ask[d].frag] = frag[ask[d].frag]
    BY <1>1, <2>1 DEF Kept, Used
  <2>4. AskFree(d)'
    BY <1>1, <2>1, <2>2, <2>3 DEF Unlinked, AskFree, Working
  <2>5. \A e \in Asks \ {d} : AskFree(e)'
    BY <1>1, <2>2, Only, AskStaysFree DEF Unlinked
  <2>6. WriteFree'
    BY <1>1, Only, WriteStaysFree DEF Unlinked
  <2> QED
    BY <2>1, <2>4, <2>5, <2>6 DEF Unlinked, HeldFree
<1>3. CASE ~Lands(ask[d].next, ask[d].rev)
  BY <1>3, FreeLeaves DEF AskStores
<1> QED
  BY <1>2, <1>3

(* What was not named is held anew, as a fragment nobody had a number for.   *)
LEMMA AskHeld ==
  ASSUME Base, NEW d \in Asks, AskHolds(d)
  PROVE  /\ \/ Names(Left(d)) = {} /\ held' = held /\ frag' = Kept(frag, held, ask')
            \/ /\ Names(Left(d)) # {} /\ held' \in FragIds
               /\ frag'[held'].replace = frag[ask[d].frag].replace
               /\ frag'[held'].values = Left(d)
         /\ \A e \in Asks \ {d} :
              ask'[e] = ask[e] /\ (ask[e].at # "idle" => frag'[ask[e].frag] = frag[ask[e].frag])
<1> DEFINE new == [frag[ask[d].frag] EXCEPT !.rev = store, !.values = Left(d)]
           g == [frag EXCEPT ![Fresh] = new]
<1>1. /\ ask' = [ask EXCEPT ![d] = Silent] /\ frag \in [FragIds -> Frags]
      /\ ask[d].frag \in FragIds /\ held \in FragIds \cup {0} /\ store \in Entries
  BY DEF AskHolds, Base, Typing, Asking
<1>2. CASE Names(Left(d)) = {}
  <2>1. held' = held /\ frag' = Kept(frag, held, ask')
    BY <1>2 DEF AskHolds, Left
  <2> QED
    BY <1>1, <1>2, <2>1, Others, ZenonT(40)
<1>3. CASE Names(Left(d)) # {}
  <2>1. Fresh \in FragIds /\ \A e \in Asks : ask[e].frag # Fresh
    BY BaseTyped, FreshIsFree
  <2>2. held' = Fresh /\ frag' = Kept(g, Fresh, ask')
    BY <1>3 DEF AskHolds, Left
  <2>3. Left(d) \in Values
    BY <1>1 DEF Left, Frags, Values
  <2>4. new \in Frags /\ new.replace = frag[ask[d].frag].replace /\ new.values = Left(d)
    BY <1>1, <2>3 DEF Frags
  <2> HIDE DEF new
  <2>5. /\ g \in [FragIds -> Frags] /\ g[Fresh] = new
        /\ \A i \in FragIds \ {Fresh} : g[i] = frag[i]
    BY <1>1, <2>1, <2>4
  <2> HIDE DEF g
  <2>6. frag'[Fresh] = new
    BY <2>1, <2>2, <2>5, KeptTyped
  <2>7. ASSUME NEW e \in Asks \ {d}, ask[e].at # "idle"
        PROVE  frag'[ask[e].frag] = frag[ask[e].frag]
    <3>1. ask[e].frag \in FragIds \ {Fresh}
      BY <1>1, <2>1, <2>7 DEF Base, Asking
    <3>2. ask'[e] = ask[e]
      BY <1>1 DEF Base, Typing
    <3>3. ask[e].frag \in Used(Fresh, ask')
      BY <3>2 DEF Used
    <3> QED
      BY <2>2, <2>5, <3>1, <3>3 DEF Kept
  <2>8. \A e \in Asks \ {d} : ask'[e] = ask[e]
    BY <1>1 DEF Base, Typing
  <2> QED
    BY <1>3, <2>1, <2>2, <2>4, <2>6, <2>7, <2>8
<1> QED
  BY <1>2, <1>3

LEMMA FreeAskHolds ==
  ASSUME Base, Unlinked, NEW d \in Asks, AskHolds(d)
  PROVE  Unlinked'
<1>1. /\ UNCHANGED <<store, call>> /\ ask' = [ask EXCEPT ![d] = Silent] /\ ask[d].at = "after"
      /\ ask \in [Asks -> Askings]
  BY DEF AskHolds, Base, Typing
<1>2. CASE Names(Left(d)) = {} /\ held' = held /\ frag' = Kept(frag, held, ask')
  BY <1>1, <1>2, FreeLeaves
<1>3. CASE held' \in FragIds /\ frag'[held'].replace = frag[ask[d].frag].replace
  <2>1. ~store.linked /\ ~frag[ask[d].frag].replace.linked
    BY <1>1 DEF Unlinked, AskFree, Working
  <2>2. HeldFree'
    BY <1>1, <1>3, <2>1 DEF HeldFree
  <2>3. AskFree(d)'
    BY <1>1 DEF AskFree, Working, Silent
  <2>4. \A e \in Asks \ {d} : AskFree(e)'
    BY <1>1, AskHeld, AskStaysFree DEF Unlinked, Working
  <2> QED
    BY <1>1, <2>2, <2>3, <2>4, WriteStaysFree DEF Unlinked
<1> QED
  BY <1>2, <1>3, AskHeld

(* The user saves only while nothing is past its check.                      *)
LEMMA FreeUserEdit ==
  ASSUME Base, Unlinked, UserEdit, "edit" \notin Races
  PROVE  Unlinked'
<1>1. held' = 0 /\ UNCHANGED <<call, ask>>
  BY DEF UserEdit, Mutate
<1>2. call.at \notin Working /\ \A d \in Asks : ask[d].at \notin Working
  BY DEF UserEdit, Storing, Working
<1>3. WriteFree'
  BY <1>1, <1>2, WriteStaysFree DEF Unlinked
<1>4. \A e \in Asks : AskFree(e)'
  BY <1>1, <1>2, AskStaysFree DEF Unlinked
<1> QED
  BY <1>1, <1>3, <1>4 DEF Unlinked, HeldFree

LEMMA FreeRestart ==
  ASSUME Restart
  PROVE  Unlinked'
BY DEF Restart, Unlinked, HeldFree, WriteFree, AskFree, Resting, Silent, Working

LEMMA FreeStep ==
  ASSUME Base, Unlinked, "edit" \notin Races, [Next]_vars
  PROVE  Unlinked'
<1>1. CASE UNCHANGED vars
  <2>1. UNCHANGED <<store, held, frag, call, ask>>
    BY <1>1 DEF vars
  <2>2. \A e \in Asks : AskFree(e)'
    BY <2>1, AskStaysFree DEF Unlinked
  <2> QED
    BY <2>1, <2>2, WriteStaysFree DEF Unlinked, HeldFree
<1> QED
  BY <1>1, FreeWrite, FreeWriteChecks, FreeWriteStores, FreeWriteHolds, FreeAsk, FreeAskReads,
     FreeDeny, FreeConfirm, FreeAskChecks, FreeAskStores, FreeAskHolds, FreeUserEdit, FreeRestart
  DEF Next, WriteStep, AskStep

(* No step but the user's own save moves a link.                             *)
LEMMA StepKeepsLinks ==
  ASSUME Base, Unlinked, [Next]_vars, ~UserEdit, store' # store, store' # Absent
  PROVE  Keeps(store')
<1>1. WriteStores \/ \E d \in Asks : AskStores(d)
  BY DEF Next, WriteStep, AskStep, vars, Write, WriteChecks, WriteHolds, Ask, AskReads, Deny,
         Confirm, AskChecks, AskHolds, Restart
<1>2. CASE WriteStores
  <2>1. call.at = "store" /\ store' = call.next
    BY <1>2 DEF WriteStores, Mutate
  <2> QED
    BY <2>1 DEF Unlinked, WriteFree
<1>3. CASE \E d \in Asks : AskStores(d)
  <2>1. PICK d \in Asks : AskStores(d)
    BY <1>3
  <2>2. ask[d].at = "store" /\ store' = ask[d].next
    BY <2>1 DEF AskStores, Mutate
  <2>3. ~store.linked /\ ~ask[d].next.linked /\ store.linked \in BOOLEAN
           /\ ask[d].next.linked \in BOOLEAN
    BY <2>2 DEF Unlinked, AskFree, Base, Typing, Entries, Entry, Askings
  <2> QED
    BY <2>2, <2>3 DEF Keeps
<1> QED
  BY <1>1, <1>2, <1>3

(* However many writes and confirmations the operator has under way, none    *)
(* makes, drops or moves a credential link, nor what a linked entry runs, as *)
(* long as the user does not save between the check of a call and its store. *)
THEOREM LinksStayPut ==
  ASSUME "edit" \notin Races
  PROVE  Spec => LinkStaysPut
<1> DEFINE I == Base /\ Unlinked
<1>1. Init => I
  BY BaseInit, FreeInit
<1>2. I /\ [Next]_vars => I'
  BY BaseStep, FreeStep
<1>3. I /\ [Next]_vars =>
        [~UserEdit /\ store' # store /\ store' # Absent =>
           /\ store'.linked = store.linked
           /\ store.linked => store'.kind = store.kind /\ store'.what = store.what]_vars
  BY StepKeepsLinks DEF Keeps
<1> QED
  BY <1>1, <1>2, <1>3, PTL DEF Spec, LinkStaysPut

-----------------------------------------------------------------------------
(* What lands is what was shown, when two confirmations share no field.      *)

Showing == \A e \in Asks : ask[e].at # "idle" => Shows(e)
Parted  == \A d, e \in Asks : d # e => Apart(d, e)

LEMMA ShownIs == Shown <=> HeldWhole /\ Planned /\ Showing /\ Parted
BY DEF Shown, Showing, Parted

LEMMA ShownInit == Init => Shown
BY DEF Init, Shown, HeldWhole, Planned, Apart, Resting, Silent

(* What a call that does not move refers to stays.                           *)
LEMMA StaysShown ==
  ASSUME NEW e \in Asks, ask[e].at # "idle" => Shows(e), ask'[e] = ask[e],
         store' = store \/ ask[e].at # "store",
         ask[e].at # "idle" => frag'[ask[e].frag] = frag[ask[e].frag]
  PROVE  ask'[e].at # "idle" => Shows(e)'
BY DEF Shows, Names

LEMMA StaysParted ==
  ASSUME Parted,
         \A d \in Asks : \/ ask'[d].at = "idle"
                         \/ /\ ask[d].at # "idle" /\ ask'[d].frag = ask[d].frag
                            /\ ask'[d].fields = ask[d].fields
  PROVE  Parted'
BY DEF Parted, Apart

LEMMA StaysPlanned ==
  ASSUME Planned, call' = call, call.at \notin Working \/ store' = store
  PROVE  Planned'
BY DEF Planned, Whole, Working

LEMMA PlanWhole ==
  ASSUME NEW next \in Entries
  PROVE  LET p == Plan(next, store)
         IN  /\ p.replace = Absent /\ p.entry.kind = "local" => p.entry.what = store.what
             /\ Whole(p.values, p.replace)
<1>1. CASE next.kind # "local"
  BY <1>1 DEF Plan, Whole, Absent
<1>2. CASE next.kind = "local" /\ store.kind # "local"
  BY <1>2 DEF Plan, Whole, Absent
<1>3. CASE next.kind = "local" /\ store.kind = "local"
  <2>1. /\ Plan(next, store).entry = [next EXCEPT !.what = store.what]
        /\ Plan(next, store).replace = Absent
    BY <1>3 DEF Plan
  <2>2. [next EXCEPT !.what = store.what].what = store.what
    BY DEF Entries, Entry
  <2> QED
    BY <2>1, <2>2 DEF Whole
<1> QED
  BY <1>1, <1>2, <1>3

LEMMA ShownWrite ==
  ASSUME Base, Shown, Write
  PROVE  Shown'
<1>1. call'.at = "chain" /\ UNCHANGED <<store, held, frag, ask>>
  BY DEF Write, Resting
<1>2. Planned'
  BY <1>1 DEF Planned
<1>3. Showing'
  BY <1>1, StaysShown DEF Shown, Showing
<1>4. HeldWhole' /\ Parted'
  BY <1>1 DEF Shown, HeldWhole, Whole, Parted, Apart
<1> QED
  BY <1>2, <1>3, <1>4 DEF Shown, Showing, Parted

LEMMA ShownWriteChecks ==
  ASSUME Base, Shown, WriteChecks
  PROVE  Shown'
<1>1. /\ UNCHANGED <<store, held, frag, ask>> /\ call \in Callings /\ call.next \in Entries
  BY DEF WriteChecks, Base, Typing, Callings
<1>2. Planned'
  <2>1. CASE call' = Resting
    BY <2>1 DEF Planned, Resting
  <2>2. CASE call' = [call EXCEPT !.next = Absent, !.values = Blank.values,
                                  !.replace = Absent, !.at = "store"]
    <3>1. call'.next = Absent /\ call'.at = "store"
      BY <1>1, <2>2 DEF Callings
    <3> QED
      BY <3>1 DEF Planned, Absent
  <2>3. CASE LET p == Plan(call.next, store)
             IN  call' = [call EXCEPT !.next = p.entry, !.values = p.values,
                            !.replace = p.replace,
                            !.at = IF p.replace = Absent THEN "store" ELSE "after"]
    <3> DEFINE p == Plan(call.next, store)
    <3>1. /\ p.replace = Absent /\ p.entry.kind = "local" => p.entry.what = store.what
          /\ Whole(p.values, p.replace)
      BY <1>1, PlanWhole
    <3>2. /\ call'.next = p.entry /\ call'.values = p.values /\ call'.replace = p.replace
          /\ call'.at = IF p.replace = Absent THEN "store" ELSE "after"
      BY <1>1, <2>3 DEF Callings
    <3> HIDE DEF p
    <3>3. CASE p.replace = Absent
      BY <1>1, <3>1, <3>2, <3>3 DEF Planned
    <3>4. CASE p.replace # Absent
      BY <1>1, <3>1, <3>2, <3>4 DEF Planned, Whole
    <3> QED
      BY <3>3, <3>4
  <2> QED
    BY <2>1, <2>2, <2>3, WriteChecked
<1>3. Showing'
  BY <1>1, StaysShown DEF Shown, Showing
<1>4. HeldWhole' /\ Parted'
  BY <1>1 DEF Shown, HeldWhole, Whole, Parted, Apart
<1> QED
  BY <1>2, <1>3, <1>4, ShownIs DEF Shown, Showing, Parted

LEMMA ShownWriteStores ==
  ASSUME Base, Unlinked, Shown, WriteStores
  PROVE  Shown'
<1>1. /\ First("write") /\ call.at = "store" /\ UNCHANGED ask /\ call \in Callings
      /\ frag \in [FragIds -> Frags]
  BY DEF WriteStores, Base, Typing
<1>2. Parted'
  BY <1>1 DEF Shown, Parted, Apart
<1>3. CASE Mutate(call.next) /\ call' = [call EXCEPT !.at = "after"]
  <2>1. store' = call.next /\ held' = 0 /\ frag' = Kept(frag, 0, ask)
    BY <1>3 DEF Mutate
  <2>2. call'.at = "after" /\ call'.replace = call.replace
    BY <1>1, <1>3 DEF Callings
  <2>3. call.replace = Absent
    BY <1>1 DEF Unlinked, WriteFree
  <2>4. Planned'
    BY <2>2, <2>3 DEF Planned, Whole
  <2>5. \A e \in Asks : ask[e].at # "idle" => frag'[ask[e].frag] = frag[ask[e].frag]
    BY <1>1, <2>1 DEF Kept, Used, Base, Asking
  <2>6. \A e \in Asks : ask[e].at # "store"
    BY <1>1, Only, HeldAssumption DEF Calls, Working
  <2>7. Showing'
    BY <1>1, <2>5, <2>6, StaysShown DEF Shown, Showing
  <2> QED
    BY <1>2, <2>1, <2>4, <2>7 DEF Shown, Showing, Parted, HeldWhole
<1>4. CASE call' = Resting /\ UNCHANGED <<store, held, frag>>
  <2>1. Planned'
    BY <1>4 DEF Planned, Resting
  <2>2. Showing'
    BY <1>1, <1>4, StaysShown DEF Shown, Showing
  <2>3. HeldWhole'
    BY <1>4 DEF Shown, HeldWhole, Whole
  <2> QED
    BY <1>2, <2>1, <2>2, <2>3 DEF Shown, Showing, Parted
<1> QED
  BY <1>3, <1>4 DEF WriteStores, Dismissed

LEMMA ShownWriteHolds ==
  ASSUME Base, Shown, WriteHolds
  PROVE  Shown'
<1>1. call.at = "after" /\ call' = Resting /\ UNCHANGED <<store, ask>>
  BY DEF WriteHolds
<1>2. Showing'
  BY <1>1, WriteHeld, StaysShown DEF Shown, Showing
<1>3. HeldWhole'
  <2>1. Whole(call.values, call.replace)
    BY <1>1 DEF Shown, Planned
  <2> QED
    BY <1>1, <2>1, WriteHeld DEF Shown, HeldWhole, Whole
<1>4. Parted' /\ Planned'
  BY <1>1 DEF Shown, Parted, Apart, Planned, Resting
<1> QED
  BY <1>2, <1>3, <1>4 DEF Shown, Showing, Parted

(* A confirmation that is over takes its fields with it; the others keep     *)
(* theirs.                                                                   *)
LEMMA ShownLeaves ==
  ASSUME Base, Shown, NEW d \in Asks, ask' = [ask EXCEPT ![d] = Silent],
         \A e \in Asks \ {d} : ask[e].at # "idle" => frag'[ask[e].frag] = frag[ask[e].frag],
         UNCHANGED <<store, call>>, HeldWhole'
  PROVE  Shown'
<1>1. ask'[d] = Silent /\ \A e \in Asks \ {d} : ask'[e] = ask[e]
  BY DEF Base, Typing
<1>2. \A e \in Asks : ask'[e].at # "idle" => Shows(e)'
  <2>1. ask'[d].at = "idle"
    BY <1>1 DEF Silent
  <2>2. \A e \in Asks \ {d} : ask'[e].at # "idle" => Shows(e)'
    BY <1>1, StaysShown DEF Shown
  <2> QED
    BY <2>1, <2>2
<1>3. \A e \in Asks : ask'[e].at = "idle" \/ ask'[e] = ask[e]
  BY <1>1 DEF Silent
<1>4. Parted'
  BY <1>3, StaysParted, ShownIs
<1>5. Planned'
  BY StaysPlanned DEF Shown
<1> QED
  BY <1>2, <1>4, <1>5 DEF Shown, Parted

LEMMA ShownKept ==
  ASSUME Base, Shown, NEW d \in Asks, ask' = [ask EXCEPT ![d] = Silent],
         frag' = Kept(frag, held, ask'), UNCHANGED <<store, held, call>>
  PROVE  Shown'
<1>1. frag \in [FragIds -> Frags] /\ held \in FragIds \cup {0}
  BY DEF Base, Typing
<1>2. \A e \in Asks \ {d} : ask[e].at # "idle" => frag'[ask[e].frag] = frag[ask[e].frag]
  BY <1>1, Others
<1>3. held # 0 => frag'[held] = frag[held]
  BY <1>1, KeptTyped
<1>4. HeldWhole'
  BY <1>3 DEF Shown, HeldWhole, Whole
<1> QED
  BY <1>2, <1>4, ShownLeaves

LEMMA ShownAsk ==
  ASSUME Base, Shown, NEW d \in Asks, Ask(d), "names" \notin Races
  PROVE  Shown'
<1>1. /\ UNCHANGED <<store, held, frag, call>> /\ ask \in [Asks -> Askings] /\ held \in FragIds
      /\ frag \in [FragIds -> Frags] /\ ask[d].at = "idle"
  BY DEF Ask, Base, Typing
<1>2. PICK fields \in (SUBSET Names(frag[held].values)) \ {{}} :
        /\ frag[held].replace # Absent => fields = Names(frag[held].values)
        /\ fields \cap Named(d) = {}
        /\ ask' = [ask EXCEPT ![d] = [Silent EXCEPT !.at = "read", !.frag = held,
                                        !.rev = frag[held].rev, !.fields = fields]]
  BY DEF Ask
<1>3. /\ ask'[d].at = "read" /\ ask'[d].frag = held /\ ask'[d].fields = fields
      /\ \A e \in Asks \ {d} : ask'[e] = ask[e]
  BY <1>1, <1>2 DEF Silent
<1>4. ask'[d].at # "idle" => Shows(d)'
  <2>1. /\ frag'[ask'[d].frag].values = frag[held].values
        /\ frag'[ask'[d].frag].replace = frag[held].replace
    BY <1>1, <1>3
  <2>2. fields # {} /\ fields \subseteq Names(frag[held].values)
    BY <1>2
  <2>3. ask'[d].fields # {} /\ ask'[d].fields \subseteq Names(frag'[ask'[d].frag].values)
    BY <1>3, <2>1, <2>2
  <2>4. frag'[ask'[d].frag].replace # Absent =>
          ask'[d].fields = Names(frag'[ask'[d].frag].values)
    BY <1>2, <1>3, <2>1
  <2> QED
    BY <1>3, <2>3, <2>4 DEF Shows, Names
<1>5. \A e \in Asks \ {d} : ask'[e].at # "idle" => Shows(e)'
  BY <1>1, <1>3, StaysShown DEF Shown
<1>6. \A x, y \in Asks : x # y => Apart(x, y)'
  <2>1. \A x, y \in Asks \ {d} : x # y => Apart(x, y)'
    BY <1>3 DEF Shown, Apart
  <2>2. \A e \in Asks \ {d} : ask[e].frag = held => ask[e].fields \subseteq Named(d)
    BY DEF Named
  <2>3. \A e \in Asks \ {d} : Apart(d, e)' /\ Apart(e, d)'
    BY <1>2, <1>3, <2>2 DEF Apart
  <2> QED
    BY <2>1, <2>3
<1>7. HeldWhole' /\ Planned'
  BY <1>1, StaysPlanned DEF Shown, HeldWhole, Whole
<1> QED
  BY <1>4, <1>5, <1>6, <1>7 DEF Shown

LEMMA ShownAskReads ==
  ASSUME Base, Shown, NEW d \in Asks, AskReads(d)
  PROVE  Shown'
<1>1. /\ UNCHANGED <<store, call>> /\ ask \in [Asks -> Askings] /\ frag \in [FragIds -> Frags]
      /\ ask[d].at = "read"
  BY DEF AskReads, Base, Typing
<1>2. CASE store # ask[d].rev
  <2>1. held' = 0 /\ ask' = [ask EXCEPT ![d] = Silent] /\ frag' = Kept(frag, 0, ask')
    BY <1>2 DEF AskReads
  <2>2. ASSUME NEW e \in Asks \ {d}, ask[e].at # "idle"
        PROVE  frag'[ask[e].frag] = frag[ask[e].frag]
    <3>1. 0 \in FragIds \cup {0}
      OBVIOUS
    <3> QED
      BY <1>1, <2>1, <2>2, <3>1, Others, ZenonT(40)
  <2> QED
    BY <1>1, <2>1, <2>2, ShownLeaves DEF HeldWhole
<1>3. CASE store = ask[d].rev
  <2> DEFINE i == ask[d].frag
             shown == [f \in Field |->
                         IF f \notin ask[d].fields THEN <<None, None>>
                         ELSE <<store.what[f],
                                IF frag[i].values[f] = NotHeld THEN None
                                ELSE frag[i].values[f]>>]
  <2>1. UNCHANGED <<held, frag>> /\ ask' = [ask EXCEPT ![d].at = "open", ![d].shown = shown]
    BY <1>1, <1>3 DEF AskReads
  <2>2. ask[d].fields \subseteq Names(frag[i].values) /\ ask[d].fields \subseteq Field
    BY <1>1 DEF Shown, Shows, Askings
  <2>3. \A f \in ask[d].fields : shown[f] = <<ask[d].rev.what[f], frag[i].values[f]>>
    BY <1>3, <2>2 DEF Names
  <2> HIDE DEF shown
  <2>4. /\ ask'[d].at = "open" /\ ask'[d].frag = i /\ ask'[d].fields = ask[d].fields
        /\ ask'[d].rev = ask[d].rev /\ ask'[d].shown = shown
        /\ \A e \in Asks \ {d} : ask'[e] = ask[e]
    BY <1>1, <2>1 DEF Askings
  <2>5. ask'[d].at # "idle" => Shows(d)'
    BY <1>1, <2>1, <2>3, <2>4 DEF Shown, Shows, Names
  <2>6. \A e \in Asks \ {d} : ask'[e].at # "idle" => Shows(e)'
    BY <1>1, <2>1, <2>4, StaysShown DEF Shown
  <2>7. Parted'
    BY <1>1, <2>4, StaysParted, ShownIs
  <2>8. HeldWhole' /\ Planned'
    BY <1>1, <2>1, StaysPlanned DEF Shown, HeldWhole, Whole
  <2> QED
    BY <2>5, <2>6, <2>7, <2>8 DEF Shown, Parted
<1> QED
  BY <1>2, <1>3

(* A denial takes the fields it showed, and no others, from its fragment.    *)
LEMMA ShownDeny ==
  ASSUME Base, Shown, NEW d \in Asks, Deny(d)
  PROVE  Shown'
<1> DEFINE i == ask[d].frag
           left == IF held # i THEN frag[i].values ELSE Left(d)
           g == [frag EXCEPT ![i].values = left]
<1>1. /\ i \in FragIds /\ ask[d].at = "open"
      /\ ask' = [ask EXCEPT ![d] = Silent] /\ UNCHANGED <<store, call>>
      /\ frag' = Kept(g, held', ask') /\ g \in [FragIds -> Frags]
      /\ \A j \in FragIds : /\ g[j].replace = frag[j].replace
                            /\ g[j].values = IF j = i THEN left ELSE frag[j].values
      /\ held' \in {0, held} /\ (held' # 0 => frag'[held'] = g[held'])
      /\ Names(left) = {} \/ frag[i].replace # Absent => held' = 0
  BY Denied
<1>2. \A f \in Field \ ask[d].fields : left[f] = frag[i].values[f]
  BY DEF Left
<1>3. held # i => left = frag[i].values
  OBVIOUS
<1> HIDE DEF g, left
<1>4. /\ held \in FragIds \cup {0} /\ ask \in [Asks -> Askings]
      /\ ask'[d] = Silent /\ \A e \in Asks \ {d} : ask'[e] = ask[e]
  BY <1>1 DEF Base, Typing
<1>5. ASSUME NEW e \in Asks \ {d}, ask[e].at # "idle"
      PROVE  Shows(e)'
  <2>0. held' \in FragIds \cup {0}
    BY <1>1, <1>4
  <2>1. ask[e].frag \in FragIds /\ frag'[ask[e].frag] = g[ask[e].frag] /\ ask'[e] = ask[e]
    BY <1>1, <1>5, <2>0, Others
  <2>2. Shows(e) /\ ask[e].fields \subseteq Field
    BY <1>4, <1>5 DEF Shown, Askings
  <2>3. CASE ask[e].frag # i
    <3>1. /\ frag'[ask[e].frag].values = frag[ask[e].frag].values
          /\ frag'[ask[e].frag].replace = frag[ask[e].frag].replace
      BY <1>1, <2>1, <2>3
    <3>2. ask'[e] = ask[e] /\ store' = store /\ Shows(e)
      BY <1>1, <2>1, <2>2
    <3> QED
      BY <3>1, <3>2 DEF Shows
  <2>4. CASE ask[e].frag = i
    <3>1. ask[e].fields \cap ask[d].fields = {} /\ Shows(d)
      BY <1>1, <1>5, <2>4 DEF Shown, Apart
    <3>2. frag[i].replace = Absent
      BY <2>2, <2>4, <3>1 DEF Shows
    <3>3. \A f \in ask[e].fields : left[f] = frag[i].values[f]
      BY <1>2, <2>2, <3>1
    <3>4. frag'[i].values = left /\ frag'[i].replace = Absent
      BY <1>1, <2>1, <2>4, <3>2
    <3>5. ask[e].fields \subseteq Names(left)
      BY <2>2, <2>4, <3>3 DEF Shows, Names
    <3>6. ask'[e] = ask[e] /\ store' = store /\ frag'[ask[e].frag].values = left
          /\ frag'[ask[e].frag].replace = Absent
      BY <1>1, <2>1, <2>4, <3>4
    <3> QED
      BY <2>2, <2>4, <3>3, <3>5, <3>6 DEF Shows, Names
  <2> QED
    BY <2>3, <2>4
<1>6. HeldWhole'
  <2> SUFFICES ASSUME held' # 0 PROVE Whole(frag[held].values, frag[held].replace)'
    BY <1>1 DEF HeldWhole
  <2>1. held' = held /\ held \in FragIds /\ frag'[held] = g[held]
    BY <1>1, <1>4
  <2>2. CASE held # i
    <3>1. /\ frag'[held].values = frag[held].values /\ frag'[held].replace = frag[held].replace
          /\ store' = store /\ held # 0
      BY <1>1, <2>1, <2>2
    <3>2. Whole(frag[held].values, frag[held].replace)
      BY <3>1 DEF Shown, HeldWhole
    <3> QED
      BY <2>1, <3>1, <3>2 DEF Whole
  <2>3. CASE held = i
    <3>1. frag'[held].replace = Absent
      BY <1>1, <2>1, <2>3
    <3> QED
      BY <2>1, <3>1 DEF Whole
  <2> QED
    BY <2>2, <2>3
<1>7. Parted'
  <2>1. \A e \in Asks : ask'[e].at = "idle" \/ ask'[e] = ask[e]
    BY <1>4 DEF Silent
  <2> QED
    BY <2>1, StaysParted, ShownIs
<1>8. \A e \in Asks : ask'[e].at # "idle" => Shows(e)'
  BY <1>4, <1>5 DEF Silent
<1> QED
  BY <1>1, <1>6, <1>7, <1>8, StaysPlanned DEF Shown, Parted

LEMMA ShownConfirm ==
  ASSUME Base, Shown, NEW d \in Asks, Confirm(d)
  PROVE  Shown'
<1>1. /\ UNCHANGED <<store, held, frag, call>> /\ ask[d].at = "open" /\ ask'[d].at = "chain"
      /\ ask'[d].frag = ask[d].frag /\ ask'[d].fields = ask[d].fields
      /\ ask'[d].rev = ask[d].rev /\ ask'[d].shown = ask[d].shown
      /\ \A e \in Asks \ {d} : ask'[e] = ask[e]
  BY DEF Confirm, Base, Typing, Askings
<1>2. ask'[d].at # "idle" => Shows(d)'
  <2>1. Shows(d)
    BY <1>1 DEF Shown
  <2> QED
    BY <1>1, <2>1 DEF Shows
<1>3. \A e \in Asks \ {d} : ask'[e].at # "idle" => Shows(e)'
  BY <1>1, StaysShown DEF Shown
<1>4. Parted'
  BY <1>1, StaysParted, ShownIs
<1>5. HeldWhole' /\ Planned'
  BY <1>1, StaysPlanned DEF Shown, HeldWhole, Whole
<1> QED
  BY <1>2, <1>3, <1>4, <1>5 DEF Shown, Parted

LEMMA ShownAskChecks ==
  ASSUME Base, Shown, NEW d \in Asks, AskChecks(d)
  PROVE  Shown'
<1> DEFINE i == ask[d].frag
           v == frag[i].values
<1>1. /\ UNCHANGED <<store, held, call>> /\ ask[d].at = "chain" /\ i \in FragIds /\ i # 0
      /\ store \in Entries /\ ask[d].fields \subseteq Field /\ Shows(d)
  BY DEF AskChecks, Base, Asking, Typing, Askings, FragIds, Shown
<1>2. CASE held # i \/ store # ask[d].rev
  BY <1>1, <1>2, ShownKept DEF AskChecks
<1>3. CASE held = i /\ store = ask[d].rev
  <2>1. UNCHANGED frag
    BY <1>3 DEF AskChecks
  <2>2. /\ \A e \in Asks \ {d} : ask'[e] = ask[e]
        /\ ask'[d].at = "store" /\ ask'[d].frag = i /\ ask'[d].fields = ask[d].fields
        /\ ask'[d].rev = ask[d].rev /\ ask'[d].shown = ask[d].shown
        /\ frag[i].replace # Absent => ask'[d].next = frag[i].replace
        /\ frag[i].replace = Absent =>
             \A f \in Field : ask'[d].next.what[f] =
               IF f \notin ask[d].fields THEN store.what[f]
               ELSE IF v[f] = NotHeld THEN None ELSE v[f]
    BY <1>3, AskChecked
  <2>3. /\ \A f \in ask[d].fields : ask'[d].next.what[f] = v[f]
        /\ \A f \in Field \ ask[d].fields : ask'[d].next.what[f] = store.what[f]
    <3>1. \A f \in ask[d].fields : v[f] # NotHeld
      BY <1>1 DEF Shows, Names
    <3>2. CASE frag[i].replace = Absent
      BY <1>1, <2>2, <3>1, <3>2
    <3>3. CASE frag[i].replace # Absent
      <4>1. /\ ask'[d].next = frag[i].replace /\ store.kind # "local"
            /\ \A f \in Field : v[f] = IF frag[i].replace.what[f] = None THEN NotHeld
                                       ELSE frag[i].replace.what[f]
        BY <1>1, <1>3, <2>2, <3>3 DEF Shown, HeldWhole, Whole
      <4>2. \A f \in Field : store.what[f] = None
        BY <1>1, <4>1 DEF Entries, Valid, Absent, Bare
      <4>3. \A f \in Field \ ask[d].fields : v[f] = NotHeld
        BY <1>1, <3>3 DEF Shows, Names
      <4>4. \A f \in Field \ ask[d].fields : frag[i].replace.what[f] = None
        <5>1. \A f \in Field : frag[i].replace.what[f] \in Text \cup {None}
          BY <1>1 DEF Base, Typing, Frags, Entries, Entry
        <5>2. NotHeld \notin Text \cup {None}
          BY DEF NotHeld, Text, None
        <5> QED
          BY <4>1, <4>3, <5>1, <5>2
      <4> QED
        BY <1>1, <3>1, <4>1, <4>2, <4>4
    <3> QED
      BY <3>2, <3>3
  <2>4. ask'[d].at # "idle" => Shows(d)'
    <3>1. frag'[ask'[d].frag] = frag[i] /\ store' = store
      BY <1>1, <2>1, <2>2
    <3>2. \A f \in ask[d].fields : ask[d].shown[f] = <<ask[d].rev.what[f], v[f]>>
      BY <1>1 DEF Shows
    <3>3. /\ ask[d].fields # {} /\ ask[d].fields \subseteq Names(v)
          /\ frag[i].replace # Absent => ask[d].fields = Names(v)
      BY <1>1 DEF Shows
    <3> QED
      BY <2>2, <2>3, <3>1, <3>2, <3>3 DEF Shows
  <2>5. \A e \in Asks \ {d} : ask'[e].at # "idle" => Shows(e)'
    BY <1>1, <2>1, <2>2, StaysShown DEF Shown
  <2>6. Parted'
    BY <1>1, <2>2, StaysParted, ShownIs
  <2>7. HeldWhole' /\ Planned'
    BY <1>1, <2>1, StaysPlanned DEF Shown, HeldWhole, Whole
  <2> QED
    BY <2>4, <2>5, <2>6, <2>7 DEF Shown, Parted
<1> QED
  BY <1>2, <1>3

LEMMA ShownAskStores ==
  ASSUME Base, Shown, NEW d \in Asks, AskStores(d)
  PROVE  Shown'
<1>1. /\ First(d) /\ ask[d].at = "store" /\ call' = call /\ d # "write" /\ d \in Calls
      /\ frag \in [FragIds -> Frags] /\ ask \in [Asks -> Askings]
  BY HeldAssumption DEF AskStores, Calls, Base, Typing
<1>2. CASE Lands(ask[d].next, ask[d].rev)
  <2>1. /\ held' = 0 /\ frag' = Kept(frag, 0, ask) /\ ask' = [ask EXCEPT ![d].at = "after"]
    BY <1>2 DEF AskStores, Mutate
  <2>2. /\ ask'[d].at = "after" /\ ask'[d].frag = ask[d].frag
        /\ ask'[d].fields = ask[d].fields /\ ask'[d].rev = ask[d].rev
        /\ \A e \in Asks \ {d} : ask'[e] = ask[e]
    BY <1>1, <2>1 DEF Askings
  <2>3. \A e \in Asks : ask[e].at # "idle" => frag'[ask[e].frag] = frag[ask[e].frag]
    BY <1>1, <2>1 DEF Kept, Used, Base, Asking
  <2>4. ask'[d].at # "idle" => Shows(d)'
    <3>1. frag'[ask'[d].frag] = frag[ask[d].frag] /\ Shows(d)
      BY <1>1, <2>2, <2>3 DEF Shown
    <3> QED
      BY <2>2, <3>1 DEF Shows
  <2>5. \A e \in Asks \ {d} : ask[e].at # "store"
    BY <1>1, Only DEF Working
  <2>6. \A e \in Asks \ {d} : ask'[e].at # "idle" => Shows(e)'
    BY <2>2, <2>3, <2>5, StaysShown DEF Shown
  <2>7. Parted'
    BY <1>1, <2>2, StaysParted, ShownIs
  <2>8. Planned'
    BY <1>1, Only, StaysPlanned DEF Shown
  <2> QED
    BY <2>1, <2>4, <2>6, <2>7, <2>8 DEF Shown, HeldWhole, Parted
<1>3. CASE ~Lands(ask[d].next, ask[d].rev)
  BY <1>3, ShownKept DEF AskStores
<1> QED
  BY <1>2, <1>3

LEMMA ShownAskHolds ==
  ASSUME Base, Shown, NEW d \in Asks, AskHolds(d)
  PROVE  Shown'
<1>1. /\ UNCHANGED <<store, call>> /\ ask' = [ask EXCEPT ![d] = Silent] /\ ask[d].at = "after"
      /\ Shows(d)
  BY DEF AskHolds, Shown
<1>2. CASE Names(Left(d)) = {} /\ held' = held /\ frag' = Kept(frag, held, ask')
  BY <1>1, <1>2, ShownKept
<1>3. CASE /\ Names(Left(d)) # {} /\ held' \in FragIds
           /\ frag'[held'].replace = frag[ask[d].frag].replace
  <2>1. frag[ask[d].frag].replace # Absent => Names(Left(d)) = {}
    BY <1>1 DEF Shows, Names, Left
  <2>2. HeldWhole'
    BY <1>3, <2>1 DEF HeldWhole, Whole
  <2> QED
    BY <1>1, <2>2, AskHeld, ShownLeaves
<1> QED
  BY <1>2, <1>3, AskHeld

LEMMA ShownUserEdit ==
  ASSUME Base, Shown, UserEdit, "edit" \notin Races
  PROVE  Shown'
<1>1. PICK e \in Entries : store' = e /\ held' = 0 /\ frag' = Kept(frag, 0, ask)
  BY DEF UserEdit, Typed, Mutate
<1>2. UNCHANGED <<call, ask>> /\ frag \in [FragIds -> Frags]
  BY DEF UserEdit, Base, Typing
<1>3. call.at \notin Working /\ \A d \in Asks : ask[d].at \notin Working
  BY DEF UserEdit, Storing, Working
<1>4. \A d \in Asks : ask[d].at # "idle" => frag'[ask[d].frag] = frag[ask[d].frag]
  BY <1>1, <1>2 DEF Kept, Used, Base, Asking
<1>5. \A d \in Asks : ask'[d].at # "idle" => Shows(d)'
  BY <1>2, <1>3, <1>4, StaysShown DEF Shown, Working
<1>6. Planned'
  BY <1>2, <1>3, StaysPlanned DEF Shown
<1>7. Parted'
  BY <1>2 DEF Shown, Parted, Apart
<1> QED
  BY <1>1, <1>5, <1>6, <1>7 DEF Shown, HeldWhole, Parted

LEMMA ShownRestart ==
  ASSUME Restart
  PROVE  Shown'
BY DEF Restart, Shown, HeldWhole, Planned, Apart, Resting, Silent

LEMMA ShownStep ==
  ASSUME Base, Unlinked, Shown, Races = {}, [Next]_vars
  PROVE  Shown'
<1>1. CASE UNCHANGED vars
  <2>1. UNCHANGED <<store, held, frag, call, ask>>
    BY <1>1 DEF vars
  <2>2. \A e \in Asks : ask'[e].at # "idle" => Shows(e)'
    BY <2>1, StaysShown DEF Shown
  <2>3. HeldWhole' /\ Planned' /\ Parted'
    BY <2>1, StaysPlanned DEF Shown, HeldWhole, Whole, Parted, Apart
  <2> QED
    BY <2>2, <2>3 DEF Shown, Parted
<1>2. "edit" \notin Races /\ "names" \notin Races
  OBVIOUS
<1> QED
  BY <1>1, <1>2, ShownWrite, ShownWriteChecks, ShownWriteStores, ShownWriteHolds, ShownAsk,
     ShownAskReads, ShownDeny, ShownConfirm, ShownAskChecks, ShownAskStores, ShownAskHolds,
     ShownUserEdit, ShownRestart
  DEF Next, WriteStep, AskStep

(* What lands of a confirmation, and what of a write.                        *)
Lawful ==
  \/ store'.what = store.what
  \/ \E d \in Asks :
       /\ ask[d].at = "store"
       /\ \A f \in ask[d].fields : ask[d].shown[f] = <<store.what[f], store'.what[f]>>
       /\ \A f \in Field \ ask[d].fields : store'.what[f] = store.what[f]

LEMMA StepShows ==
  ASSUME Base, Unlinked, Shown, [Next]_vars, ~UserEdit, store' # store, store'.kind = "local"
  PROVE  Lawful
<1>1. WriteStores \/ \E d \in Asks : AskStores(d)
  BY DEF Next, WriteStep, AskStep, vars, Write, WriteChecks, WriteHolds, Ask, AskReads, Deny,
         Confirm, AskChecks, AskHolds, Restart
<1>2. CASE WriteStores
  <2>1. call.at = "store" /\ store' = call.next
    BY <1>2 DEF WriteStores, Mutate
  <2> QED
    BY <2>1 DEF Shown, Planned, Lawful
<1>3. CASE \E d \in Asks : AskStores(d)
  <2>1. PICK d \in Asks : AskStores(d)
    BY <1>3
  <2>2. ask[d].at = "store" /\ store' = ask[d].next
    BY <2>1 DEF AskStores, Mutate
  <2>3. ask[d].rev = store /\ Shows(d)
    BY <2>2 DEF Unlinked, AskFree, Shown
  <2>4. \A f \in ask[d].fields : ask[d].shown[f] = <<store.what[f], store'.what[f]>>
    BY <2>2, <2>3 DEF Shows
  <2>5. \A f \in Field \ ask[d].fields : store'.what[f] = store.what[f]
    BY <2>2, <2>3 DEF Shows
  <2> QED
    BY <2>2, <2>4, <2>5 DEF Lawful
<1> QED
  BY <1>1, <1>2, <1>3

(* What runs on the user's machine changes only by the user's own save, or   *)
(* by a confirmation that showed just this change; for any number of writes, *)
(* confirmations, denials, saves and restarts, when neither of the Races is  *)
(* open.                                                                     *)
THEOREM WhatLandsWasShown ==
  ASSUME Races = {}
  PROVE  Spec => LandsAsShown
<1> DEFINE I == Base /\ Unlinked /\ Shown
<1>1. Init => I
  BY BaseInit, FreeInit, ShownInit
<1>2. I /\ [Next]_vars => I'
  <2>1. "edit" \notin Races
    OBVIOUS
  <2> QED
    BY <2>1, BaseStep, FreeStep, ShownStep
<1>3. I /\ [Next]_vars => [~UserEdit /\ store' # store /\ store'.kind = "local" => Lawful]_vars
  BY StepShows
<1>4. [~UserEdit /\ store' # store /\ store'.kind = "local" => Lawful]_vars =>
        [~UserEdit /\ store' # store /\ store'.kind = "local" =>
           \/ store'.what = store.what
           \/ \E d \in Asks :
                /\ ask[d].at = "store"
                /\ \A f \in ask[d].fields : ask[d].shown[f] = <<store.what[f], store'.what[f]>>
                /\ \A f \in Field \ ask[d].fields : store'.what[f] = store.what[f]]_vars
  BY DEF Lawful
<1> QED
  BY <1>1, <1>2, <1>3, <1>4, PTL DEF Spec, LandsAsShown
=============================================================================
