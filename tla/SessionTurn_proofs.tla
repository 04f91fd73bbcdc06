------------------------- MODULE SessionTurn_proofs -------------------------
(***************************************************************************)
(* Theorems about SessionTurn, for any number of messages, failed writes   *)
(* and crashes.                                                            *)
(***************************************************************************)
EXTENDS SessionTurn, SequenceTheorems, WellFoundedInduction, TLAPS

-----------------------------------------------------------------------------
(* Induction over the naturals, for a set instead of a predicate.          *)

LEMMA LessThanNat == \E R : IsWellFoundedOn(R, Nat) /\ \A x, y \in Nat : <<y, x>> \in R <=> y < x
<1>1. IsWellFoundedOn(OpToRel(<, Nat), Nat)
  BY NatLessThanWellFounded
<1>2. \A x, y \in Nat : <<y, x>> \in OpToRel(<, Nat) <=> y < x
  BY DEF OpToRel
<1> QED BY <1>1, <1>2, Zenon

LEMMA LeastNat == ASSUME NEW T, T \subseteq Nat, T # {} PROVE \E x \in T : \A y \in T : x <= y
<1>1. PICK R : IsWellFoundedOn(R, Nat) /\ \A x, y \in Nat : <<y, x>> \in R <=> y < x
  BY LessThanNat
<1>2. PICK x \in T : \A y \in T : ~ (<<y, x>> \in R)
  BY WFMin, <1>1
<1>3. \A y \in T : ~(y < x) /\ x \in Nat /\ y \in Nat
  BY <1>1, <1>2
<1> QED BY <1>3

LEMMA NatBySteps == ASSUME NEW T, 0 \in T, \A n \in Nat : n \in T => n + 1 \in T PROVE Nat \subseteq T
<1>1. SUFFICES ASSUME Nat \ T # {} PROVE FALSE
  OBVIOUS
<1>2. PICK x \in Nat \ T : \A y \in Nat \ T : x <= y
  BY <1>1, LeastNat
<1>3. x # 0 /\ x - 1 \in Nat /\ (x - 1) + 1 = x
  BY <1>2
<1>4. x - 1 \in T
  BY <1>2, <1>3
<1> QED BY <1>2, <1>3, <1>4

Step(q, e, f, i) ==
  IF i = 0 THEN <<>> ELSE IF q[i] = e THEN f[i - 1] ELSE Append(f[i - 1], q[i])

LEMMA KeptExists ==
  ASSUME NEW q, NEW e, NEW m \in Nat
  PROVE  \E f : f = [i \in 0..m |-> Step(q, e, f, i)]
<1> DEFINE T == {n \in Nat : \E f : f = [i \in 0..n |-> f[i]] /\ \A i \in 0..n : f[i] = Step(q, e, f, i)}
<1>1. 0 \in T
  <2> DEFINE f == [i \in 0..0 |-> <<>>]
  <2>1. f = [i \in 0..0 |-> f[i]] /\ \A i \in 0..0 : f[i] = Step(q, e, f, i)
    BY DEF Step
  <2> QED BY <2>1
<1>2. ASSUME NEW n \in Nat, n \in T PROVE n + 1 \in T
  <2>1. PICK f : f = [i \in 0..n |-> f[i]] /\ \A i \in 0..n : f[i] = Step(q, e, f, i)
    BY <1>2
  <2> DEFINE g == [i \in 0..(n + 1) |-> IF i = n + 1 THEN Step(q, e, f, n + 1) ELSE f[i]]
  <2>2. \A i \in 0..n : g[i] = f[i]
    OBVIOUS
  <2>3. ASSUME NEW i \in 0..(n + 1) PROVE g[i] = Step(q, e, g, i)
    <3>1. CASE i = 0
      <4>1. g[0] = f[0] /\ 0 \in 0..n
        BY <2>2
      <4>2. f[0] = <<>>
        BY <4>1, <2>1 DEF Step
      <4> HIDE DEF g
      <4> QED BY <3>1, <4>1, <4>2 DEF Step
    <3>2. CASE i # 0
      <4>1. i - 1 \in 0..n /\ g[i - 1] = f[i - 1]
        BY <3>2, <2>2
      <4>2. Step(q, e, g, i) = Step(q, e, f, i)
        BY <4>1, <3>2 DEF Step
      <4> QED BY <4>2, <2>1, <2>2
    <3> QED BY <3>1, <3>2
  <2>4. g = [i \in 0..(n + 1) |-> g[i]]
    OBVIOUS
  <2> HIDE DEF g
  <2>5. \E z : z = [i \in 0..(n + 1) |-> z[i]] /\ \A i \in 0..(n + 1) : z[i] = Step(q, e, z, i)
    BY <2>3, <2>4
  <2> QED BY <2>5
<1>3. m \in T
  <2> HIDE DEF T
  <2> QED BY <1>1, <1>2, NatBySteps
<1>4. PICK f : f = [i \in 0..m |-> f[i]] /\ \A i \in 0..m : f[i] = Step(q, e, f, i)
  BY <1>3
<1>5. f = [i \in 0..m |-> Step(q, e, f, i)]
  <2>1. [i \in 0..m |-> Step(q, e, f, i)] = [i \in 0..m |-> f[i]]
    BY <1>4
  <2> QED BY <1>4, <2>1, Zenon
<1> QED BY <1>5

LEMMA WithoutIs ==
  ASSUME NEW S, NEW q \in Seq(S), NEW e
  PROVE  \E f : /\ Without(q, e) = f[Len(q)]
               /\ \A i \in 0..Len(q) : f[i] = Step(q, e, f, i)
<1> DEFINE K == CHOOSE g : g = [n \in 0..Len(q) |-> Step(q, e, g, n)]
<1>1. Without(q, e) = K[Len(q)]
  BY Zenon DEF Without, Step
<1>2. Len(q) \in Nat
  OBVIOUS
<1>3. K = [n \in 0..Len(q) |-> Step(q, e, K, n)]
  BY KeptExists, <1>2, Zenon
<1> HIDE DEF K
<1>4. \A i \in 0..Len(q) : K[i] = Step(q, e, K, i)
  BY <1>3, Zenon
<1> QED BY <1>1, <1>4

(* h tells where the entries of s are among the first n of q. *)
Places(q, e, s, n, h) ==
  /\ h \in [1..Len(s) -> 1..n]
  /\ \A i, j \in 1..Len(s) : i < j => h[i] < h[j]
  /\ \A i \in 1..Len(s) : s[i] = q[h[i]] /\ q[h[i]] # e
  /\ \A k \in 1..n : q[k] # e => \E i \in 1..Len(s) : h[i] = k

(* A sequence without an entry is the others, in their order. *)
LEMMA WithoutKeeps ==
  ASSUME NEW S, NEW q \in Seq(S), NEW e
  PROVE  /\ Without(q, e) \in Seq(S)
         /\ \E h : Places(q, e, Without(q, e), Len(q), h)
<1>1. PICK f : /\ Without(q, e) = f[Len(q)]
               /\ \A i \in 0..Len(q) : f[i] = Step(q, e, f, i)
  BY WithoutIs
<1>2. Len(q) \in Nat
  OBVIOUS
<1> DEFINE Part(s, n) == s \in Seq(S) /\ \E h : Places(q, e, s, n, h)
<1> DEFINE T == {n \in Nat : n <= Len(q) => Part(f[n], n)}
<1>3. 0 \in T
  <2>1. f[0] = <<>>
    BY <1>1, <1>2 DEF Step
  <2>2. Part(<<>>, 0)
    <3>1. <<>> \in Seq(S) /\ Len(<<>>) = 0
      OBVIOUS
    <3>2. 1..0 = {}
      OBVIOUS
    <3>3. \E h : h \in [{} -> {}]
      <4>1. [i \in {} |-> i] \in [{} -> {}]
        OBVIOUS
      <4> QED BY <4>1, Zenon
    <3>4. \E h : Places(q, e, <<>>, 0, h)
      BY <3>1, <3>2, <3>3 DEF Places
    <3> QED BY <3>1, <3>4
  <2> QED BY <2>1, <2>2
<1>4. ASSUME NEW n \in Nat, n \in T PROVE n + 1 \in T
  <2>1. SUFFICES ASSUME n + 1 <= Len(q) PROVE Part(f[n + 1], n + 1)
    OBVIOUS
  <2>2. Part(f[n], n)
    BY <1>4, <2>1, <1>2
  <2>3. f[n + 1] = IF q[n + 1] = e THEN f[n] ELSE Append(f[n], q[n + 1])
    <3>1. n + 1 \in 0..Len(q) /\ n + 1 # 0 /\ (n + 1) - 1 = n
      BY <2>1, <1>2
    <3> QED BY <3>1, <1>1 DEF Step
  <2> DEFINE s == f[n]
  <2>4. PICK h : Places(q, e, s, n, h)
    BY <2>2
  <2>5. s \in Seq(S) /\ q[n + 1] \in S
    BY <2>2, <2>1
  <2> HIDE DEF s
  <2>6. CASE q[n + 1] = e
    <3>1. f[n + 1] = s
      BY <2>3, <2>6 DEF s
    <3>2. Len(s) \in Nat
      BY <2>5
    <3>3. Places(q, e, s, n + 1, h)
      BY <2>4, <2>6, <3>2 DEF Places
    <3> QED BY <3>1, <3>3, <2>5
  <2>7. CASE q[n + 1] # e
    <3> DEFINE t == Append(s, q[n + 1])
    <3> DEFINE g == [i \in 1..(Len(s) + 1) |-> IF i = Len(s) + 1 THEN n + 1 ELSE h[i]]
    <3>1. f[n + 1] = t
      BY <2>3, <2>7 DEF s
    <3>2. /\ t \in Seq(S) /\ Len(t) = Len(s) + 1 /\ t[Len(s) + 1] = q[n + 1]
          /\ \A i \in 1..Len(s) : t[i] = s[i]
      BY <2>5, AppendProperties
    <3>3. Len(s) \in Nat
      BY <2>5
    <3> HIDE DEF t
    <3>4. g \in [1..Len(t) -> 1..(n + 1)]
      BY <2>4, <3>2, <3>3 DEF Places
    <3>5. ASSUME NEW i \in 1..Len(t), NEW j \in 1..Len(t), i < j PROVE g[i] < g[j]
      <4>1. i \in 1..Len(s) /\ g[i] = h[i] /\ h[i] \in 1..n
        BY <2>4, <3>2, <3>3, <3>5 DEF Places
      <4>2. CASE j = Len(s) + 1
        BY <4>1, <4>2, <3>2
      <4>3. CASE j # Len(s) + 1
        BY <4>1, <4>3, <3>2, <3>3, <3>5, <2>4 DEF Places
      <4> QED BY <4>2, <4>3
    <3>6. \A i \in 1..Len(t) : t[i] = q[g[i]] /\ q[g[i]] # e
      BY <2>4, <3>2, <3>3, <2>7 DEF Places
    <3>7. \A k \in 1..(n + 1) : q[k] # e => \E i \in 1..Len(t) : g[i] = k
      <4> TAKE k \in 1..(n + 1)
      <4> HAVE q[k] # e
      <4>1. CASE k = n + 1
        BY <4>1, <3>2, <3>3
      <4>2. CASE k \in 1..n
        <5>1. PICK i \in 1..Len(s) : h[i] = k
          BY <2>4, <4>2 DEF Places
        <5> QED BY <5>1, <3>2, <3>3
      <4> QED BY <4>1, <4>2
    <3> HIDE DEF g
    <3>8. Places(q, e, t, n + 1, g)
      BY <3>4, <3>5, <3>6, <3>7 DEF Places
    <3> QED BY <3>1, <3>2, <3>8
  <2> QED BY <2>6, <2>7
<1>5. Len(q) \in T
  <2> HIDE DEF T
  <2> QED BY <1>2, <1>3, <1>4, NatBySteps
<1>6. Part(f[Len(q)], Len(q))
  BY <1>5, <1>2
<1> QED BY <1>6, <1>1

-----------------------------------------------------------------------------
(* Sequences.                                                              *)

LEMMA AppendElements ==
  ASSUME NEW S, NEW s \in Seq(S), NEW e \in S
  PROVE  /\ Append(s, e) \in Seq(S) /\ Append(s, e) # <<>>
         /\ DOMAIN Append(s, e) = DOMAIN s \cup {Len(s) + 1}
         /\ Len(s) + 1 \notin DOMAIN s /\ Append(s, e)[Len(s) + 1] = e
         /\ \A i \in DOMAIN s : i < Len(s) + 1 /\ Append(s, e)[i] = s[i]
         /\ DOMAIN s \subseteq Nat /\ Len(s) + 1 \in Nat
BY AppendProperties

LEMMA TailElements ==
  ASSUME NEW S, NEW s \in Seq(S), s # <<>>
  PROVE  /\ Head(s) \in S /\ Tail(s) \in Seq(S)
         /\ 1 \in DOMAIN s /\ Head(s) = s[1]
         /\ \A i \in DOMAIN Tail(s) :
              i + 1 \in DOMAIN s /\ i \in Nat /\ 1 <= i /\ Tail(s)[i] = s[i + 1]
BY HeadTailProperties

LEMMA WithoutElements ==
  ASSUME NEW S, NEW q \in Seq(S), NEW e
  PROVE  /\ Without(q, e) \in Seq(S)
         /\ \A x : x \in Range(Without(q, e)) <=> x \in Range(q) /\ x # e
<1>1. Without(q, e) \in Seq(S)
  BY WithoutKeeps
<1>2. PICK h : Places(q, e, Without(q, e), Len(q), h)
  BY WithoutKeeps
<1> DEFINE w == Without(q, e)
<1>3. w \in Seq(S) /\ DOMAIN w = 1..Len(w) /\ DOMAIN q = 1..Len(q)
  BY <1>1
<1> HIDE DEF w
<1>4. Places(q, e, w, Len(q), h)
  BY <1>2 DEF w
<1>5. ASSUME NEW x, x \in Range(w) PROVE x \in Range(q) /\ x # e
  BY <1>3, <1>4, <1>5 DEF Range, Places
<1>6. ASSUME NEW x, x \in Range(q), x # e PROVE x \in Range(w)
  <2>1. PICK k \in 1..Len(q) : x = q[k]
    BY <1>3, <1>6 DEF Range
  <2>2. PICK i \in 1..Len(w) : h[i] = k
    BY <1>4, <1>6, <2>1 DEF Places
  <2>3. w[i] = x
    BY <1>4, <2>1, <2>2 DEF Places
  <2> QED BY <1>3, <2>2, <2>3 DEF Range
<1> QED BY <1>1, <1>5, <1>6 DEF w

-----------------------------------------------------------------------------
(* What the process does to its memory.                                    *)

Bys == Owners \cup Prompts \cup {"resume", "timer"}

ByRecord == [by : Bys, record : Record]

LEMMA SnapshotRecord ==
  ASSUME NEW m \in Memory
  PROVE  /\ Snapshot(m) \in Record
         /\ Snapshot(m).state = m.state /\ Snapshot(m).contract = m.contract
         /\ Snapshot(m).pending = m.pending /\ Snapshot(m).interrupted = m.interrupted
BY DEF Memory, Record, Snapshot

(* A write is asked for: nothing but the chain changes. *)
LEMMA WriteAsks ==
  ASSUME NEW m \in Memory, NEW by \in Bys
  PROVE  /\ Write(m, by) \in Memory
         /\ Write(m, by).writes = Append(m.writes, [by |-> by, record |-> Snapshot(m)])
         /\ [by |-> by, record |-> Snapshot(m)] \in ByRecord
         /\ m.writes \in Seq(ByRecord)
         /\ Write(m, by) = [m EXCEPT !.writes = Write(m, by).writes]
<1>1. [by |-> by, record |-> Snapshot(m)] \in ByRecord
  BY SnapshotRecord DEF ByRecord
<1>2. m.writes \in Seq(ByRecord)
  BY DEF Memory, ByRecord, Bys
<1>3. Append(m.writes, [by |-> by, record |-> Snapshot(m)]) \in Seq(ByRecord)
  BY <1>1, <1>2, AppendElements
<1>4. Write(m, by) \in Memory
  BY <1>3 DEF Memory, Write, ByRecord, Bys
<1> QED BY <1>1, <1>2, <1>4 DEF Write, Memory

(* Everything but the turn, its marker and the chain. *)
SameQueue(m, n) ==
  /\ n.state = m.state /\ n.contract = m.contract /\ n.pending = m.pending
  /\ n.recovering = m.recovering /\ n.resuming = m.resuming /\ n.previous = m.previous
  /\ n.blocked = m.blocked /\ n.persist = m.persist /\ n.draining = m.draining

(* The marker of a turn of f is asked for. *)
Marks(m, n, f) ==
  /\ n.busy /\ n.interrupted /\ ~n.incomplete /\ ~n.turnComplete
  /\ n.announced = m.announced \cup {f}
  /\ n.run[f].at = "mark"
  /\ \E r \in ByRecord :
       /\ n.writes = Append(m.writes, r) /\ r.by = f
       /\ r.record.state = m.state /\ r.record.contract = m.contract
       /\ r.record.pending = m.pending /\ r.record.interrupted

LEMMA MarkTurnMarks ==
  ASSUME NEW m \in Memory, NEW f \in Owners
  PROVE  LET n == MarkTurn(m, f)
         IN  /\ n \in Memory /\ SameQueue(m, n) /\ Marks(m, n, f)
             /\ n.run = [m.run EXCEPT ![f].at = "mark"]
<1> DEFINE k == [m EXCEPT !.busy = TRUE, !.interrupted = TRUE, !.incomplete = FALSE,
                          !.turnComplete = FALSE, !.announced = @ \cup {f},
                          !.run[f].at = "mark"]
<1> DEFINE n == MarkTurn(m, f)
<1>1. m.run \in [Owners -> Run] /\ m.run[f] \in Run
  BY DEF Memory
<1>2. [m.run[f] EXCEPT !.at = "mark"] \in Run
  BY <1>1 DEF Run
<1>3. k.run \in [Owners -> Run] /\ k.run = [m.run EXCEPT ![f].at = "mark"]
  BY <1>1, <1>2 DEF Memory
<1>4. /\ k \in Memory /\ SameQueue(m, k) /\ k.busy /\ k.interrupted /\ ~k.incomplete
      /\ ~k.turnComplete /\ k.announced = m.announced \cup {f} /\ k.writes = m.writes
  <2>1. k \in Memory
    BY <1>3 DEF Memory
  <2> QED BY <2>1 DEF Memory, SameQueue
<1> HIDE DEF k
<1>5. n = Write(k, f) /\ f \in Bys
  BY DEF MarkTurn, k, Bys
<1>6. /\ n \in Memory /\ n.writes = Append(k.writes, [by |-> f, record |-> Snapshot(k)])
      /\ [by |-> f, record |-> Snapshot(k)] \in ByRecord
      /\ n = [k EXCEPT !.writes = n.writes]
  BY <1>4, <1>5, WriteAsks
<1>7. SameQueue(m, n) /\ n.run = k.run
  BY <1>4, <1>6 DEF SameQueue, Memory
<1>8. Marks(m, n, f)
  <2>1. /\ n.busy /\ n.interrupted /\ ~n.incomplete /\ ~n.turnComplete
        /\ n.announced = m.announced \cup {f}
    BY <1>4, <1>6 DEF Memory
  <2>2. n.run[f].at = "mark"
    BY <1>1, <1>3, <1>7 DEF Run
  <2>3. Snapshot(k).state = m.state /\ Snapshot(k).contract = m.contract
        /\ Snapshot(k).pending = m.pending /\ Snapshot(k).interrupted
    BY <1>4, SnapshotRecord DEF SameQueue
  <2> QED BY <2>1, <2>2, <2>3, <1>4, <1>6 DEF Marks
<1> QED BY <1>3, <1>6, <1>7, <1>8

(* A turn of f begins: masking its prompt, or marked at once. *)
Begins(m, n, f, p, nudge) ==
  /\ SameQueue(m, n)
  /\ \A g \in Owners \ {f} : n.run[g] = m.run[g]
  /\ n.run[f].prompt = p /\ n.run[f].nudge = nudge /\ ~n.run[f].done
  /\ \/ /\ n.run[f].at = "mask" /\ n.writes = m.writes
        /\ n.busy = m.busy /\ n.interrupted = m.interrupted /\ n.incomplete = m.incomplete
        /\ n.turnComplete = m.turnComplete /\ n.announced = m.announced
     \/ Marks(m, n, f)

LEMMA SendTurnBegins ==
  ASSUME NEW m \in Memory, NEW f \in Owners, NEW p \in Entries, NEW nudge \in BOOLEAN
  PROVE  LET n == SendTurn(m, f, p, nudge)
         IN  n \in Memory /\ Begins(m, n, f, p, nudge)
<1> DEFINE r == [NoRun EXCEPT !.at = "mask", !.prompt = p, !.nudge = nudge]
<1> DEFINE k == [m EXCEPT !.run[f] = r]
<1> DEFINE n == SendTurn(m, f, p, nudge)
<1>1. r \in Run /\ r.at = "mask" /\ r.prompt = p /\ r.nudge = nudge /\ ~r.done
  BY DEF NoRun, Run
<1>2. r = [NoRun EXCEPT !.at = "mask", !.prompt = p, !.nudge = nudge]
  OBVIOUS
<1> HIDE DEF r
<1>3. m.run \in [Owners -> Run]
  BY DEF Memory
<1>4. k \in Memory /\ k.run = [m.run EXCEPT ![f] = r] /\ SameQueue(m, k)
      /\ k.writes = m.writes /\ k.busy = m.busy /\ k.interrupted = m.interrupted
      /\ k.incomplete = m.incomplete /\ k.turnComplete = m.turnComplete
      /\ k.announced = m.announced
  <2>1. k.run \in [Owners -> Run] /\ k.run = [m.run EXCEPT ![f] = r]
    BY <1>1, <1>3 DEF Memory
  <2>2. k \in Memory
    BY <2>1 DEF Memory
  <2> QED BY <2>1, <2>2 DEF Memory, SameQueue
<1>5. n = IF Masking THEN k ELSE MarkTurn(k, f)
  BY <1>2 DEF SendTurn
<1> HIDE DEF k
<1>6. CASE Masking
  BY <1>1, <1>3, <1>4, <1>5, <1>6 DEF Begins
<1>7. CASE ~Masking
  <2>1. /\ n = MarkTurn(k, f) /\ n \in Memory /\ SameQueue(k, n) /\ Marks(k, n, f)
        /\ n.run = [k.run EXCEPT ![f].at = "mark"]
    <3>1. n = MarkTurn(k, f)
      BY <1>5, <1>7
    <3> HIDE DEF n
    <3> QED BY <3>1, <1>4, MarkTurnMarks
  <2>2. SameQueue(m, n) /\ Marks(m, n, f)
    BY <1>4, <2>1 DEF SameQueue, Marks
  <2>3. n.run[f].prompt = p /\ n.run[f].nudge = nudge /\ ~n.run[f].done
        /\ \A g \in Owners \ {f} : n.run[g] = m.run[g]
    BY <1>1, <1>3, <1>4, <2>1 DEF Run
  <2> QED BY <2>1, <2>2, <2>3 DEF Begins
<1> QED BY <1>6, <1>7

(* The drain loop takes the message at the head of the queue. *)
Takes(m, n) ==
  \E k \in Memory :
    /\ m.pending # <<>> /\ k = [m EXCEPT !.pending = Tail(@), !.interrupted = TRUE]
    /\ n \in Memory /\ Begins(k, n, "drain", Head(m.pending), FALSE)

LEMMA TakeNextTakes ==
  ASSUME NEW m \in Memory, m.pending # <<>>
  PROVE  Takes(m, TakeNext(m))
<1> DEFINE k == [m EXCEPT !.pending = Tail(@), !.interrupted = TRUE]
<1>1. m.pending \in Seq(Entries)
  BY DEF Memory
<1>2. Head(m.pending) \in Entries /\ Tail(m.pending) \in Seq(Entries)
  BY <1>1, TailElements
<1>3. k \in Memory
  BY <1>2 DEF Memory
<1>4. TakeNext(m) = SendTurn(k, "drain", Head(m.pending), FALSE)
  BY DEF TakeNext
<1> HIDE DEF k
<1>5. "drain" \in Owners /\ FALSE \in BOOLEAN
  BY DEF Owners
<1>6. TakeNext(m) \in Memory /\ Begins(k, TakeNext(m), "drain", Head(m.pending), FALSE)
  BY <1>2, <1>3, <1>4, <1>5, SendTurnBegins
<1> QED BY <1>3, <1>6 DEF Takes, k

-----------------------------------------------------------------------------
(* The chain of writes and the two coroutines.                             *)

(* A coroutine has one write in the chain, the one it awaits; only the loop  *)
(* runs the drain's turns, and the start's are those of its first prompt.    *)
Chain(m) ==
  /\ \A i, j \in DOMAIN m.writes :
       m.writes[i].by \in Owners /\ m.writes[i].by = m.writes[j].by => i = j
  /\ \A i \in DOMAIN m.writes :
       m.writes[i].by \in Owners => m.run[m.writes[i].by].at \in {"mark", "clear"}
  /\ m.run["drain"].at # "none" => m.draining
  /\ m.run["start"].at # "none" => m.run["start"].prompt = "first"

Base(m) == m \in Memory /\ Chain(m)

(* The memory without f's turn: what is left of it while f goes on. *)
Rest(m, f) == [m EXCEPT !.run[f] = NoRun]

LEMMA RestMemory ==
  ASSUME NEW m \in Memory, NEW f \in Owners
  PROVE  /\ Rest(m, f) \in Memory /\ SameQueue(m, Rest(m, f))
         /\ Rest(m, f).run[f] = NoRun /\ Rest(m, f).run[f].at = "none"
         /\ \A g \in Owners \ {f} : Rest(m, f).run[g] = m.run[g]
         /\ Rest(m, f).writes = m.writes /\ Rest(m, f).busy = m.busy
         /\ Rest(m, f).interrupted = m.interrupted /\ Rest(m, f).incomplete = m.incomplete
         /\ Rest(m, f).turnComplete = m.turnComplete
         /\ Rest(m, f).announced = m.announced
<1>1. NoRun \in Run /\ NoRun.at = "none"
  BY DEF NoRun, Run, Entries
<1>2. Rest(m, f).run = [m.run EXCEPT ![f] = NoRun] /\ m.run \in [Owners -> Run]
  BY DEF Rest, Memory
<1>3. Rest(m, f) \in Memory
  BY <1>1, <1>2 DEF Rest, Memory
<1> QED BY <1>1, <1>2, <1>3 DEF Rest, Memory, SameQueue

LEMMA BeginsChain ==
  ASSUME NEW m \in Memory, NEW n \in Memory, NEW f \in Owners, NEW p, NEW nudge,
         Begins(m, n, f, p, nudge), Chain(Rest(m, f)),
         f = "drain" => m.draining, f = "start" => p = "first"
  PROVE  Chain(n)
<1>1. /\ Rest(m, f).run[f].at = "none" /\ Rest(m, f).writes = m.writes
      /\ \A g \in Owners \ {f} : Rest(m, f).run[g] = m.run[g]
      /\ Rest(m, f).draining = m.draining
  BY RestMemory DEF SameQueue
<1>2. \A i \in DOMAIN m.writes : m.writes[i].by # f
  BY <1>1 DEF Chain
<1>3. n.draining = m.draining /\ \A g \in Owners \ {f} : n.run[g] = m.run[g]
  BY DEF Begins, SameQueue
<1>4. /\ n.run["drain"].at # "none" => n.draining
      /\ n.run["start"].at # "none" => n.run["start"].prompt = "first"
  BY <1>1, <1>3 DEF Chain, Begins, Owners
<1>5. CASE n.writes = m.writes
  BY <1>1, <1>2, <1>3, <1>4, <1>5 DEF Chain
<1>6. CASE Marks(m, n, f)
  <2>1. PICK r \in ByRecord : n.writes = Append(m.writes, r) /\ r.by = f
    BY <1>6 DEF Marks
  <2>2. m.writes \in Seq(ByRecord)
    BY DEF Memory, ByRecord, Bys
  <2>3. /\ DOMAIN n.writes = DOMAIN m.writes \cup {Len(m.writes) + 1}
        /\ n.writes[Len(m.writes) + 1] = r
        /\ \A i \in DOMAIN m.writes : n.writes[i] = m.writes[i]
    BY <2>1, <2>2, AppendElements
  <2>4. n.run[f].at = "mark"
    BY <1>6 DEF Marks
  <2> QED BY <1>1, <1>2, <1>3, <1>4, <2>1, <2>3, <2>4 DEF Chain
<1> QED BY <1>5, <1>6 DEF Begins

LEMMA TakesChain ==
  ASSUME NEW m \in Memory, NEW n, Chain(m), m.run["drain"].at = "none", m.draining,
         Takes(m, n)
  PROVE  Base(n)
<1>1. PICK k \in Memory :
        /\ k = [m EXCEPT !.pending = Tail(@), !.interrupted = TRUE]
        /\ n \in Memory /\ Begins(k, n, "drain", Head(m.pending), FALSE)
  BY DEF Takes
<1>2. k.run = m.run /\ k.writes = m.writes /\ k.draining
  BY <1>1 DEF Memory
<1>3. "drain" \in Owners
  BY DEF Owners
<1>4. /\ Rest(k, "drain").run["drain"].at = "none" /\ Rest(k, "drain").writes = m.writes
      /\ \A g \in Owners \ {"drain"} : Rest(k, "drain").run[g] = m.run[g]
  BY <1>2, <1>3, RestMemory
<1>5. Chain(Rest(k, "drain"))
  BY <1>4 DEF Chain, Owners
<1> QED BY <1>1, <1>2, <1>3, <1>5, BeginsChain DEF Base

LEMMA DrainChain ==
  ASSUME NEW m, Base(m)
  PROVE  Base(Drain(m))
<1> DEFINE k == [m EXCEPT !.draining = TRUE]
<1>1. CASE ~m.draining /\ ~m.recovering /\ Ready(m)
  <2>1. m \in Memory /\ Chain(m)
    BY DEF Base
  <2>2. k \in Memory /\ k.run = m.run /\ k.writes = m.writes /\ k.draining
        /\ k.pending = m.pending
    BY <2>1 DEF Memory
  <2>3. Drain(m) = TakeNext(k)
    BY <1>1 DEF Drain
  <2> HIDE DEF k
  <2>4. k.run["drain"].at = "none" /\ k.pending # <<>>
    BY <1>1, <2>1, <2>2 DEF Chain, Ready
  <2>5. Chain(k)
    BY <2>1, <2>2 DEF Chain
  <2> QED BY <2>2, <2>3, <2>4, <2>5, TakeNextTakes, TakesChain
<1>2. CASE ~(~m.draining /\ ~m.recovering /\ Ready(m))
  BY <1>2 DEF Drain
<1> QED BY <1>1, <1>2

LEMMA DrainOnChain ==
  ASSUME NEW m, Base(m), m.run["drain"].at = "none", m.draining
  PROVE  Base(DrainOn(m))
<1>1. m \in Memory /\ Chain(m)
  BY DEF Base
<1>2. CASE Ready(m)
  BY <1>1, <1>2, TakeNextTakes, TakesChain DEF DrainOn, Ready
<1>3. CASE ~Ready(m)
  <2>1. DrainOn(m) = [m EXCEPT !.draining = FALSE]
    BY <1>3 DEF DrainOn
  <2>2. DrainOn(m) \in Memory /\ DrainOn(m).run = m.run /\ DrainOn(m).writes = m.writes
    BY <1>1, <2>1 DEF Memory
  <2> QED BY <1>1, <2>2 DEF Base, Chain
<1> QED BY <1>2, <1>3

LEMMA ReturnChain ==
  ASSUME NEW m \in Memory, NEW f \in Owners, Chain(Rest(m, f)), f = "drain" => m.draining
  PROVE  Base(Return(m, f))
<1>1. /\ Base(Rest(m, f)) /\ Rest(m, f).run[f].at = "none"
      /\ Rest(m, f).draining = m.draining
  BY RestMemory DEF Base, SameQueue
<1>2. Return(m, f) = IF f = "drain" THEN DrainOn(Rest(m, f)) ELSE Drain(Rest(m, f))
  BY DEF Return, Rest
<1> QED BY <1>1, <1>2, DrainChain, DrainOnChain

LEMMA ThrowChain ==
  ASSUME NEW m \in Memory, NEW f \in Owners, Chain(Rest(m, f))
  PROVE  Base(Throw(m, f))
<1>1. Base(Rest(m, f)) /\ Rest(m, f).run[f].at = "none"
  BY RestMemory DEF Base
<1>2. CASE f = "drain"
  <2>1. Throw(m, f) = [Rest(m, f) EXCEPT !.draining = FALSE]
    BY <1>2 DEF Throw, Rest
  <2>2. /\ Throw(m, f) \in Memory /\ Throw(m, f).run = Rest(m, f).run
        /\ Throw(m, f).writes = Rest(m, f).writes
    BY <1>1, <2>1 DEF Base, Memory
  <2> QED BY <1>1, <1>2, <2>2 DEF Base, Chain
<1>3. CASE f # "drain"
  <2>1. Throw(m, f) = [Drain(Rest(m, f)) EXCEPT !.state = "draft", !.persist = TRUE]
    BY <1>3 DEF Throw, Rest
  <2>2. Base(Drain(Rest(m, f)))
    BY <1>1, DrainChain
  <2> DEFINE d == Drain(Rest(m, f))
  <2>3. /\ Throw(m, f) \in Memory /\ Throw(m, f).run = d.run
        /\ Throw(m, f).writes = d.writes /\ Throw(m, f).draining = d.draining
    BY <2>1, <2>2 DEF Base, Memory
  <2> HIDE DEF d
  <2> QED BY <2>2, <2>3 DEF Base, Chain, d
<1> QED BY <1>2, <1>3

(* A turn is over, and the marker's second write is asked for. *)
Clears(m, n, f) ==
  /\ SameQueue(m, n) /\ ~n.busy /\ ~n.interrupted
  /\ n.incomplete = m.incomplete /\ n.turnComplete = m.turnComplete
  /\ n.announced = m.announced
  /\ \A g \in Owners \ {f} : n.run[g] = m.run[g]
  /\ n.run[f].at = "clear" /\ n.run[f].prompt = m.run[f].prompt
  /\ n.run[f].nudge = m.run[f].nudge /\ n.run[f].done = m.run[f].done
  /\ \E r \in ByRecord :
       /\ n.writes = Append(m.writes, r) /\ r.by = f
       /\ r.record.state = m.state /\ r.record.contract = m.contract
       /\ r.record.pending = m.pending

Outcomes == {"none", "end_turn", "stopped", "threw", "limited"}

LEMMA ClearTurnClears ==
  ASSUME NEW m \in Memory, NEW f \in Owners, NEW o \in Outcomes
  PROVE  ClearTurn(m, f, o) \in Memory /\ Clears(m, ClearTurn(m, f, o), f)
<1> DEFINE k == [m EXCEPT !.busy = FALSE, !.interrupted = FALSE, !.run[f].at = "clear",
                          !.run[f].outcome = o]
<1> DEFINE n == ClearTurn(m, f, o)
<1>1. m.run \in [Owners -> Run] /\ m.run[f] \in Run
  BY DEF Memory
<1>2. [m.run[f] EXCEPT !.at = "clear", !.outcome = o] \in Run
  BY <1>1 DEF Run, Outcomes
<1>3. /\ k.run \in [Owners -> Run]
      /\ k.run = [m.run EXCEPT ![f] = [m.run[f] EXCEPT !.at = "clear", !.outcome = o]]
  BY <1>1, <1>2 DEF Memory
<1>4. /\ k \in Memory /\ SameQueue(m, k) /\ ~k.busy /\ ~k.interrupted
      /\ k.incomplete = m.incomplete /\ k.turnComplete = m.turnComplete
      /\ k.announced = m.announced /\ k.writes = m.writes
  <2>1. k \in Memory
    BY <1>3 DEF Memory
  <2> QED BY <2>1 DEF Memory, SameQueue
<1> HIDE DEF k
<1>5. n = Write(k, f) /\ f \in Bys
  BY DEF ClearTurn, k, Bys
<1> HIDE DEF n
<1>6. /\ n \in Memory /\ n.writes = Append(k.writes, [by |-> f, record |-> Snapshot(k)])
      /\ [by |-> f, record |-> Snapshot(k)] \in ByRecord
      /\ n = [k EXCEPT !.writes = n.writes]
  BY <1>4, <1>5, WriteAsks
<1>7. /\ SameQueue(m, n) /\ ~n.busy /\ ~n.interrupted /\ n.incomplete = m.incomplete
      /\ n.turnComplete = m.turnComplete /\ n.announced = m.announced /\ n.run = k.run
  BY <1>4, <1>6 DEF SameQueue, Memory
<1>8. /\ \A g \in Owners \ {f} : n.run[g] = m.run[g]
      /\ n.run[f].at = "clear" /\ n.run[f].prompt = m.run[f].prompt
      /\ n.run[f].nudge = m.run[f].nudge /\ n.run[f].done = m.run[f].done
  BY <1>1, <1>3, <1>7 DEF Run
<1>9. Snapshot(k).state = m.state /\ Snapshot(k).contract = m.contract
      /\ Snapshot(k).pending = m.pending
  BY <1>4, SnapshotRecord DEF SameQueue
<1> QED BY <1>4, <1>6, <1>7, <1>8, <1>9 DEF Clears, n

LEMMA ClearTurnChain ==
  ASSUME NEW m, Base(m), NEW f \in Owners, m.run[f].at \notin {"none", "mark", "clear"},
         NEW o \in Outcomes
  PROVE  Base(ClearTurn(m, f, o))
<1> DEFINE n == ClearTurn(m, f, o)
<1>1. m \in Memory /\ Chain(m)
  BY DEF Base
<1>2. n \in Memory /\ Clears(m, n, f)
  BY <1>1, ClearTurnClears
<1> HIDE DEF n
<1>3. PICK r \in ByRecord : n.writes = Append(m.writes, r) /\ r.by = f
  BY <1>2 DEF Clears
<1>4. m.writes \in Seq(ByRecord)
  BY <1>1 DEF Memory, ByRecord, Bys
<1>5. /\ DOMAIN n.writes = DOMAIN m.writes \cup {Len(m.writes) + 1}
      /\ n.writes[Len(m.writes) + 1] = r
      /\ \A i \in DOMAIN m.writes : n.writes[i] = m.writes[i]
  BY <1>3, <1>4, AppendElements
<1>6. \A i \in DOMAIN m.writes : m.writes[i].by # f
  BY <1>1 DEF Chain
<1>7. /\ \A g \in Owners \ {f} : n.run[g] = m.run[g]
      /\ n.run[f].at = "clear" /\ n.run[f].prompt = m.run[f].prompt /\ n.draining = m.draining
  BY <1>2 DEF Clears, SameQueue
<1>8. \A i, j \in DOMAIN n.writes :
        n.writes[i].by \in Owners /\ n.writes[i].by = n.writes[j].by => i = j
  BY <1>1, <1>3, <1>5, <1>6 DEF Chain
<1>9. \A i \in DOMAIN n.writes :
        n.writes[i].by \in Owners => n.run[n.writes[i].by].at \in {"mark", "clear"}
  BY <1>1, <1>3, <1>5, <1>6, <1>7 DEF Chain
<1>10. /\ n.run["drain"].at # "none" => n.draining
       /\ n.run["start"].at # "none" => n.run["start"].prompt = "first"
  BY <1>1, <1>7 DEF Chain, Owners
<1> QED BY <1>2, <1>8, <1>9, <1>10 DEF Base, Chain, n

(* A turn that is over leaves this behind, before its coroutine goes on. *)
Unfinished(m, f) ==
  m.contract /\ m.run[f].outcome = "end_turn" /\ ~m.turnComplete

Ended(m, k, f) ==
  /\ k \in Memory /\ k.run = m.run /\ k.writes = m.writes
  /\ k.announced = m.announced \ {f}
  /\ k.state = m.state /\ k.contract = m.contract /\ k.draining = m.draining
  /\ k.busy = m.busy /\ k.interrupted = m.interrupted
  /\ k.recovering = m.recovering /\ k.resuming = m.resuming
  /\ k.previous = m.previous /\ k.turnComplete = m.turnComplete
  /\ \/ k.pending = m.pending /\ k.blocked = m.blocked
     \/ k.blocked /\ k.pending = IF m.pending = <<>> THEN <<"auto">> ELSE m.pending
  /\ k.incomplete <=> m.incomplete \/ (Unfinished(m, f) /\ m.run[f].nudge)

LEMMA TurnOverEnds ==
  ASSUME NEW m \in Memory, NEW f \in Owners
  PROVE  \E k : /\ Ended(m, k, f)
                /\ TurnOver(m, f) = IF Unfinished(m, f) /\ ~m.run[f].nudge
                                      THEN SendTurn(k, f, m.run[f].prompt, TRUE)
                                      ELSE Return(k, f)
<1> DEFINE n == [m EXCEPT !.announced = @ \ {f}, !.persist = TRUE]
           l == [n EXCEPT !.blocked = TRUE, !.pending = IF @ = <<>> THEN <<"auto">> ELSE @]
           i == [n EXCEPT !.incomplete = TRUE]
<1>1. m.run[f] \in Run /\ m.run[f].nudge \in BOOLEAN /\ m.incomplete \in BOOLEAN
  BY DEF Memory, Run
<1>2. /\ n \in Memory /\ n.pending = m.pending /\ n.run = m.run /\ n.writes = m.writes
      /\ n.announced = m.announced \ {f} /\ n.state = m.state /\ n.contract = m.contract
      /\ n.draining = m.draining /\ n.busy = m.busy /\ n.interrupted = m.interrupted
      /\ n.recovering = m.recovering /\ n.resuming = m.resuming /\ n.previous = m.previous
      /\ n.turnComplete = m.turnComplete /\ n.blocked = m.blocked
      /\ n.incomplete = m.incomplete
  <2>1. n \in Memory
    BY DEF Memory
  <2> QED BY <2>1 DEF Memory
<1> DEFINE unfinished == m.contract /\ m.run[f].outcome = "end_turn" /\ ~m.turnComplete
<1>3. TurnOver(m, f) =
        CASE m.run[f].outcome = "limited" -> Return(l, f)
          [] unfinished /\ ~m.run[f].nudge -> SendTurn(n, f, m.run[f].prompt, TRUE)
          [] unfinished /\ m.run[f].nudge  -> Return(i, f)
          [] OTHER                  -> Return(n, f)
  BY DEF TurnOver
<1>4. unfinished <=> Unfinished(m, f)
  BY DEF Unfinished
<1> HIDE DEF n
<1>5. /\ l \in Memory /\ l.blocked
      /\ l.pending = IF m.pending = <<>> THEN <<"auto">> ELSE m.pending
      /\ l.run = n.run /\ l.writes = n.writes /\ l.incomplete = n.incomplete
      /\ l.announced = n.announced /\ l.state = n.state /\ l.contract = n.contract
      /\ l.draining = n.draining /\ l.busy = n.busy /\ l.interrupted = n.interrupted
      /\ l.recovering = n.recovering /\ l.resuming = n.resuming /\ l.previous = n.previous
      /\ l.turnComplete = n.turnComplete
  <2>1. <<"auto">> \in Seq(Entries) /\ m.pending \in Seq(Entries)
    BY DEF Memory, Entries
  <2> DEFINE q == IF m.pending = <<>> THEN <<"auto">> ELSE m.pending
  <2>2. q \in Seq(Entries)
    BY <2>1
  <2>3. l = [n EXCEPT !.blocked = TRUE, !.pending = q]
    BY <1>2
  <2> HIDE DEF l, q
  <2>4. l \in Memory
    BY <1>2, <2>2, <2>3 DEF Memory
  <2>5. l.pending = q
    BY <1>2, <2>3 DEF Memory
  <2>6. /\ l.blocked
        /\ l.run = n.run /\ l.writes = n.writes /\ l.incomplete = n.incomplete
        /\ l.announced = n.announced /\ l.state = n.state /\ l.contract = n.contract
        /\ l.draining = n.draining /\ l.busy = n.busy /\ l.interrupted = n.interrupted
        /\ l.recovering = n.recovering /\ l.resuming = n.resuming /\ l.previous = n.previous
        /\ l.turnComplete = n.turnComplete
    BY <1>2, <2>3 DEF Memory
  <2> QED BY <2>4, <2>5, <2>6 DEF q
<1>10. /\ i \in Memory /\ i.pending = n.pending /\ i.blocked = n.blocked /\ i.incomplete
      /\ i.run = n.run /\ i.writes = n.writes
      /\ i.announced = n.announced /\ i.state = n.state /\ i.contract = n.contract
      /\ i.draining = n.draining /\ i.busy = n.busy /\ i.interrupted = n.interrupted
      /\ i.recovering = n.recovering /\ i.resuming = n.resuming /\ i.previous = n.previous
      /\ i.turnComplete = n.turnComplete
  <2>1. i \in Memory
    BY <1>2 DEF Memory
  <2> QED BY <1>2, <2>1 DEF Memory
<1> HIDE DEF l, i
<1>6. CASE m.run[f].outcome = "limited"
  <2>1. Ended(m, l, f) /\ ~Unfinished(m, f)
    BY <1>2, <1>5, <1>6 DEF Ended, Unfinished
  <2>2. TurnOver(m, f) = Return(l, f)
    BY <1>3, <1>6, <2>1, <1>4
  <2> QED BY <2>1, <2>2
<1>7. CASE m.run[f].outcome # "limited" /\ unfinished /\ ~m.run[f].nudge
  <2>1. Ended(m, n, f)
    BY <1>2, <1>7 DEF Ended, Unfinished
  <2>2. TurnOver(m, f) = SendTurn(n, f, m.run[f].prompt, TRUE)
    BY <1>3, <1>7
  <2> QED BY <2>1, <2>2, <1>7, <1>4
<1>8. CASE m.run[f].outcome # "limited" /\ unfinished /\ m.run[f].nudge
  <2>1. Ended(m, i, f)
    BY <1>2, <1>4, <1>10, <1>8 DEF Ended
  <2>2. TurnOver(m, f) = Return(i, f)
    BY <1>3, <1>8
  <2> QED BY <2>1, <2>2, <1>8, <1>4
<1>9. CASE m.run[f].outcome # "limited" /\ ~unfinished
  <2>1. Ended(m, n, f)
    BY <1>2, <1>4, <1>9 DEF Ended
  <2>2. TurnOver(m, f) = Return(n, f)
    BY <1>3, <1>9
  <2> QED BY <2>1, <2>2, <1>9, <1>4
<1> QED BY <1>6, <1>7, <1>8, <1>9

LEMMA EndedChain ==
  ASSUME NEW m \in Memory, NEW k, NEW f \in Owners, Ended(m, k, f), Chain(Rest(m, f))
  PROVE  Chain(Rest(k, f))
<1>1. k \in Memory /\ k.run = m.run /\ k.writes = m.writes /\ k.draining = m.draining
  BY DEF Ended
<1>2. /\ Rest(k, f).writes = Rest(m, f).writes /\ Rest(k, f).draining = Rest(m, f).draining
      /\ \A g \in Owners : Rest(k, f).run[g] = Rest(m, f).run[g]
  BY <1>1, RestMemory DEF SameQueue
<1> QED BY <1>2 DEF Chain, Owners

LEMMA TurnOverChain ==
  ASSUME NEW m \in Memory, NEW f \in Owners, Chain(Rest(m, f)),
         f = "drain" => m.draining, f = "start" => m.run[f].prompt = "first"
  PROVE  Base(TurnOver(m, f))
<1>1. PICK k : /\ Ended(m, k, f)
               /\ TurnOver(m, f) = IF Unfinished(m, f) /\ ~m.run[f].nudge
                                     THEN SendTurn(k, f, m.run[f].prompt, TRUE)
                                     ELSE Return(k, f)
  BY TurnOverEnds
<1>2. /\ k \in Memory /\ k.draining = m.draining /\ Chain(Rest(k, f))
      /\ m.run[f].prompt \in Entries
  BY <1>1, EndedChain DEF Ended, Memory, Run
<1>3. CASE Unfinished(m, f) /\ ~m.run[f].nudge
  <2> DEFINE n == SendTurn(k, f, m.run[f].prompt, TRUE)
  <2>1. n \in Memory /\ Begins(k, n, f, m.run[f].prompt, TRUE)
    BY <1>2, SendTurnBegins
  <2> HIDE DEF n
  <2>2. Chain(n)
    BY <1>2, <2>1, BeginsChain
  <2> QED BY <1>1, <1>3, <2>1, <2>2 DEF Base, n
<1>4. CASE ~(Unfinished(m, f) /\ ~m.run[f].nudge)
  BY <1>1, <1>2, <1>4, ReturnChain
<1> QED BY <1>3, <1>4

(* The memory with the head of the chain off. *)
Shorter(m) == [m EXCEPT !.writes = Tail(@)]

LEMMA HeadOff ==
  ASSUME NEW m, Base(m), m.writes # <<>>
  PROVE  LET w == Head(m.writes)
             n == Shorter(m)
         IN  /\ n \in Memory /\ w \in ByRecord /\ 1 \in DOMAIN m.writes /\ w = m.writes[1]
             /\ SameQueue(m, n) /\ n.run = m.run /\ n.busy = m.busy
             /\ n.interrupted = m.interrupted /\ n.incomplete = m.incomplete
             /\ n.turnComplete = m.turnComplete /\ n.announced = m.announced
             /\ \A i \in DOMAIN n.writes :
                  i + 1 \in DOMAIN m.writes /\ i \in Nat /\ 1 <= i
                  /\ n.writes[i] = m.writes[i + 1]
             /\ w.by \in Owners =>
                  Chain(Rest(n, w.by)) /\ m.run[w.by].at \in {"mark", "clear"}
             /\ w.by \notin Owners => Chain(n)
<1> DEFINE w == Head(m.writes)
           n == Shorter(m)
<1>1. m \in Memory /\ Chain(m) /\ m.writes \in Seq(ByRecord)
  BY DEF Base, Memory, ByRecord, Bys
<1>2. /\ w \in ByRecord /\ Tail(m.writes) \in Seq(ByRecord)
      /\ 1 \in DOMAIN m.writes /\ w = m.writes[1]
      /\ \A i \in DOMAIN Tail(m.writes) :
           i + 1 \in DOMAIN m.writes /\ i \in Nat /\ 1 <= i
           /\ Tail(m.writes)[i] = m.writes[i + 1]
  BY <1>1, TailElements
<1>3. n \in Memory /\ n.writes = Tail(m.writes)
  BY <1>1, <1>2 DEF Shorter, Memory, ByRecord, Bys
<1>4. /\ SameQueue(m, n) /\ n.run = m.run /\ n.busy = m.busy
      /\ n.interrupted = m.interrupted /\ n.incomplete = m.incomplete
      /\ n.turnComplete = m.turnComplete /\ n.announced = m.announced
  BY <1>1, <1>3 DEF Shorter, Memory, SameQueue
<1> HIDE DEF w, n
<1>5. /\ \A i, j \in DOMAIN n.writes :
           n.writes[i].by \in Owners /\ n.writes[i].by = n.writes[j].by => i = j
      /\ \A i \in DOMAIN n.writes :
           n.writes[i].by \in Owners =>
             m.run[n.writes[i].by].at \in {"mark", "clear"} /\ n.writes[i].by # w.by
  <2>1. ASSUME NEW i \in DOMAIN n.writes, NEW j \in DOMAIN n.writes,
               n.writes[i].by \in Owners, n.writes[i].by = n.writes[j].by
        PROVE  i = j
    <3>1. i + 1 = j + 1
      BY <1>1, <1>2, <1>3, <2>1 DEF Chain
    <3> QED BY <1>2, <1>3, <3>1
  <2>2. ASSUME NEW i \in DOMAIN n.writes, n.writes[i].by \in Owners
        PROVE  m.run[n.writes[i].by].at \in {"mark", "clear"} /\ n.writes[i].by # w.by
    <3>1. i + 1 \in DOMAIN m.writes /\ n.writes[i] = m.writes[i + 1] /\ i + 1 # 1
      BY <1>2, <1>3
    <3> QED BY <1>1, <1>2, <2>2, <3>1 DEF Chain
  <2> QED BY <2>1, <2>2
<1>6. ASSUME w.by \in Owners
      PROVE  Chain(Rest(n, w.by)) /\ m.run[w.by].at \in {"mark", "clear"}
  <2>1. m.run[w.by].at \in {"mark", "clear"}
    BY <1>1, <1>2, <1>6 DEF Chain
  <2>2. /\ Rest(n, w.by).writes = n.writes /\ Rest(n, w.by).draining = m.draining
        /\ Rest(n, w.by).run[w.by].at = "none"
        /\ \A g \in Owners \ {w.by} : Rest(n, w.by).run[g] = m.run[g]
    BY <1>3, <1>4, <1>6, RestMemory DEF SameQueue
  <2> DEFINE c == Rest(n, w.by)
  <2>3. \A i \in DOMAIN n.writes :
          n.writes[i].by \in Owners => c.run[n.writes[i].by].at \in {"mark", "clear"}
    BY <1>5, <2>2
  <2>4. /\ c.run["drain"].at # "none" => c.draining
        /\ c.run["start"].at # "none" => c.run["start"].prompt = "first"
    BY <1>1, <1>6, <2>2 DEF Chain, Owners
  <2>5. c.writes = n.writes
    BY <2>2
  <2> HIDE DEF c
  <2>6. Chain(c)
    BY <1>5, <2>3, <2>4, <2>5 DEF Chain
  <2> QED BY <2>1, <2>6 DEF c
<1>7. ASSUME w.by \notin Owners PROVE Chain(n)
  BY <1>1, <1>4, <1>5 DEF Chain, SameQueue
<1> QED BY <1>2, <1>3, <1>4, <1>6, <1>7 DEF w, n

(* What the callers of the writes do, one by one. *)
LEMMA KindOfWrite ==
  ASSUME Base(mem), mem.writes # <<>>
  PROVE  LET w == Head(mem.writes)
         IN  \/ w.by \in Owners /\ Kind(w) = mem.run[w.by].at /\ Kind(w) \in {"mark", "clear"}
             \/ w.by \in Prompts /\ w.by \notin Owners /\ Kind(w) = "prompt"
             \/ w.by = "resume" /\ w.by \notin Owners /\ w.by \notin Prompts /\ Kind(w) = "resume"
             \/ w.by = "timer" /\ w.by \notin Owners /\ w.by \notin Prompts /\ Kind(w) = "timer"
<1> DEFINE w == Head(mem.writes)
<1>1. w \in ByRecord /\ (w.by \in Owners => mem.run[w.by].at \in {"mark", "clear"})
  BY HeadOff
<1> HIDE DEF w
<1>2. w.by \in Owners \cup Prompts \cup {"resume", "timer"}
  BY <1>1 DEF ByRecord, Bys
<1>3. Prompts \cap (Owners \cup {"resume", "timer"}) = {}
  BY TurnAssumption DEF Owners
<1>4. Kind(w) = IF w.by \in Owners THEN mem.run[w.by].at
                ELSE IF w.by \in Prompts THEN "prompt" ELSE w.by
  BY DEF Kind
<1>5. "resume" \notin Owners /\ "timer" \notin Owners
  BY DEF Owners
<1>6. \/ w.by \in Owners /\ Kind(w) = mem.run[w.by].at /\ Kind(w) \in {"mark", "clear"}
      \/ w.by \in Prompts /\ w.by \notin Owners /\ Kind(w) = "prompt"
      \/ w.by = "resume" /\ w.by \notin Owners /\ w.by \notin Prompts /\ Kind(w) = "resume"
      \/ w.by = "timer" /\ w.by \notin Owners /\ w.by \notin Prompts /\ Kind(w) = "timer"
  BY <1>1, <1>2, <1>3, <1>4, <1>5
<1> QED BY <1>6 DEF w

LEMMA LandedIs ==
  ASSUME NEW m, NEW by
  PROVE  /\ Landed(m, by, "mark") = [m EXCEPT !.run[by].at = "attach"]
         /\ Landed(m, by, "clear") = TurnOver(m, by)
         /\ Landed(m, by, "prompt") = Drain([m EXCEPT !.recovering = FALSE])
         /\ Landed(m, by, "resume") = Drain([m EXCEPT !.recovering = FALSE, !.resuming = FALSE])
         /\ Landed(m, by, "timer") = m
BY DEF Landed

LEMMA RejectedIs ==
  ASSUME NEW m, NEW by
  PROVE  /\ Rejected(m, by, "mark") = Throw([m EXCEPT !.busy = FALSE, !.recovering = TRUE], by)
         /\ Rejected(m, by, "clear") = Throw(m, by)
         /\ Rejected(m, by, "prompt") = m
         /\ Rejected(m, by, "resume") =
              [m EXCEPT !.pending = m.previous.pending,
                        !.interrupted = m.previous.interrupted, !.resuming = FALSE]
         /\ Rejected(m, by, "timer") = m
BY DEF Rejected

(* The marker is on disk: its turn goes on to attach. *)
Attaches(m, n, f) ==
  /\ SameQueue(m, n) /\ n.busy = m.busy /\ n.interrupted = m.interrupted
  /\ n.incomplete = m.incomplete /\ n.turnComplete = m.turnComplete
  /\ n.announced = m.announced /\ n.writes = m.writes
  /\ \A g \in Owners \ {f} : n.run[g] = m.run[g]
  /\ n.run[f].at = "attach" /\ n.run[f].prompt = m.run[f].prompt
  /\ n.run[f].nudge = m.run[f].nudge /\ n.run[f].done = m.run[f].done

LEMMA MarkLands ==
  ASSUME NEW m \in Memory, NEW f \in Owners
  PROVE  LET n == [m EXCEPT !.run[f].at = "attach"]
         IN  n \in Memory /\ Attaches(m, n, f)
<1> DEFINE n == [m EXCEPT !.run[f].at = "attach"]
<1>1. m.run \in [Owners -> Run] /\ m.run[f] \in Run
  BY DEF Memory
<1>2. [m.run[f] EXCEPT !.at = "attach"] \in Run
  BY <1>1 DEF Run
<1>3. n.run \in [Owners -> Run] /\ n.run = [m.run EXCEPT ![f].at = "attach"]
  BY <1>1, <1>2 DEF Memory
<1>4. n \in Memory
  BY <1>3 DEF Memory
<1>5. /\ SameQueue(m, n) /\ n.busy = m.busy /\ n.interrupted = m.interrupted
      /\ n.incomplete = m.incomplete /\ n.turnComplete = m.turnComplete
      /\ n.announced = m.announced /\ n.writes = m.writes
  BY <1>4 DEF Memory, SameQueue
<1> HIDE DEF n
<1>6. /\ \A g \in Owners \ {f} : n.run[g] = m.run[g]
      /\ n.run[f].at = "attach" /\ n.run[f].prompt = m.run[f].prompt
      /\ n.run[f].nudge = m.run[f].nudge /\ n.run[f].done = m.run[f].done
  BY <1>1, <1>3 DEF Run
<1> QED BY <1>4, <1>5, <1>6 DEF Attaches, n

LEMMA AttachesChain ==
  ASSUME NEW m \in Memory, NEW n \in Memory, NEW f \in Owners, Attaches(m, n, f),
         Chain(Rest(m, f)), f = "drain" => m.draining,
         f = "start" => m.run[f].prompt = "first"
  PROVE  Chain(n)
<1>1. /\ Rest(m, f).run[f].at = "none" /\ Rest(m, f).writes = m.writes
      /\ \A g \in Owners \ {f} : Rest(m, f).run[g] = m.run[g]
      /\ Rest(m, f).draining = m.draining
  BY RestMemory DEF SameQueue
<1>2. \A i \in DOMAIN m.writes : m.writes[i].by # f
  BY <1>1 DEF Chain
<1>3. /\ n.draining = m.draining /\ n.writes = m.writes
      /\ n.run[f].prompt = m.run[f].prompt
      /\ \A g \in Owners \ {f} : n.run[g] = m.run[g]
  BY DEF Attaches, SameQueue
<1>4. /\ n.run["drain"].at # "none" => n.draining
      /\ n.run["start"].at # "none" => n.run["start"].prompt = "first"
  BY <1>1, <1>3 DEF Chain, Owners
<1>5. \A i, j \in DOMAIN n.writes :
        n.writes[i].by \in Owners /\ n.writes[i].by = n.writes[j].by => i = j
  BY <1>1, <1>3 DEF Chain
<1>6. \A i \in DOMAIN n.writes :
        n.writes[i].by \in Owners => n.run[n.writes[i].by].at \in {"mark", "clear"}
  BY <1>1, <1>2, <1>3 DEF Chain
<1> QED BY <1>4, <1>5, <1>6 DEF Chain

LEMMA LandsBase ==
  ASSUME Base(mem), mem.writes # <<>>
  PROVE  LET w == Head(mem.writes)
         IN  Base(Landed(Shorter(mem), w.by, Kind(w)))
<1> DEFINE w == Head(mem.writes)
           m == Shorter(mem)
           n == Landed(m, w.by, Kind(w))
<1> SUFFICES Base(n)
  OBVIOUS
<1>1. /\ m \in Memory /\ SameQueue(mem, m) /\ m.run = mem.run
      /\ w.by \in Owners => Chain(Rest(m, w.by))
      /\ w.by \notin Owners => Chain(m)
  BY HeadOff
<1>2. /\ w.by = "drain" => w.by \in Owners /\ mem.run[w.by].at # "none" /\ m.draining
      /\ w.by = "start" => w.by \in Owners /\ m.run[w.by].prompt = "first"
  <2>1. w.by \in Owners => mem.run[w.by].at \in {"mark", "clear"}
    BY HeadOff
  <2> QED BY <1>1, <2>1 DEF Base, Chain, SameQueue, Owners
<1>3. \/ w.by \in Owners /\ Kind(w) = mem.run[w.by].at /\ Kind(w) \in {"mark", "clear"}
      \/ w.by \notin Owners /\ Kind(w) = "prompt"
      \/ w.by \notin Owners /\ Kind(w) = "resume"
      \/ w.by \notin Owners /\ Kind(w) = "timer"
  BY KindOfWrite
<1> HIDE DEF w, m
<1>4. CASE w.by \in Owners /\ Kind(w) = "mark"
  <2>1. n = [m EXCEPT !.run[w.by].at = "attach"]
    BY <1>4, LandedIs DEF Landed
  <2>2. n \in Memory /\ Attaches(m, n, w.by)
    BY <1>1, <1>4, <2>1, MarkLands
  <2> HIDE DEF n
  <2> QED BY <1>1, <1>2, <1>4, <2>2, AttachesChain DEF Base
<1>5. CASE w.by \in Owners /\ Kind(w) = "clear"
  <2>1. n = TurnOver(m, w.by)
    BY <1>5, LandedIs DEF Landed
  <2> QED BY <1>1, <1>2, <1>5, <2>1, TurnOverChain
<1>6. CASE w.by \notin Owners /\ Kind(w) = "prompt"
  <2> DEFINE k == [m EXCEPT !.recovering = FALSE]
  <2>1. n = Drain(k)
    BY <1>6, LandedIs, Zenon
  <2>2. k \in Memory /\ k.run = m.run /\ k.writes = m.writes /\ k.draining = m.draining
    BY <1>1 DEF Memory
  <2> HIDE DEF k
  <2>3. Base(k)
    BY <1>1, <1>6, <2>2 DEF Base, Chain
  <2> QED BY <2>1, <2>3, DrainChain
<1>7. CASE w.by \notin Owners /\ Kind(w) = "resume"
  <2> DEFINE k == [m EXCEPT !.recovering = FALSE, !.resuming = FALSE]
  <2>1. n = Drain(k)
    BY <1>7, LandedIs, Zenon
  <2>2. k \in Memory /\ k.run = m.run /\ k.writes = m.writes /\ k.draining = m.draining
    BY <1>1 DEF Memory
  <2> HIDE DEF k
  <2>3. Base(k)
    BY <1>1, <1>7, <2>2 DEF Base, Chain
  <2> QED BY <2>1, <2>3, DrainChain
<1>8. CASE w.by \notin Owners /\ Kind(w) = "timer"
  <2>1. n = m
    BY <1>8, LandedIs, Zenon
  <2> QED BY <1>1, <1>8, <2>1 DEF Base
<1> QED BY <1>3, <1>4, <1>5, <1>6, <1>7, <1>8


LEMMA RejectsBase ==
  ASSUME Base(mem), mem.writes # <<>>
  PROVE  LET w == Head(mem.writes)
         IN  Base(Rejected(Shorter(mem), w.by, Kind(w)))
<1> DEFINE w == Head(mem.writes)
           m == Shorter(mem)
           n == Rejected(m, w.by, Kind(w))
<1> SUFFICES Base(n)
  OBVIOUS
<1>1. /\ m \in Memory /\ SameQueue(mem, m) /\ m.run = mem.run
      /\ w.by \in Owners => Chain(Rest(m, w.by))
      /\ w.by \notin Owners => Chain(m)
  BY HeadOff
<1>3. \/ w.by \in Owners /\ Kind(w) = mem.run[w.by].at /\ Kind(w) \in {"mark", "clear"}
      \/ w.by \notin Owners /\ Kind(w) = "prompt"
      \/ w.by \notin Owners /\ Kind(w) = "resume"
      \/ w.by \notin Owners /\ Kind(w) = "timer"
  BY KindOfWrite
<1> HIDE DEF w, m
<1>4. CASE w.by \in Owners /\ Kind(w) = "mark"
  <2> DEFINE k == [m EXCEPT !.busy = FALSE, !.recovering = TRUE]
  <2>1. n = Throw(k, w.by)
    BY <1>4, RejectedIs DEF Rejected
  <2>2. k \in Memory /\ k.run = m.run /\ k.writes = m.writes /\ k.draining = m.draining
    BY <1>1 DEF Memory
  <2> HIDE DEF k
  <2>3. /\ Rest(k, w.by).writes = Rest(m, w.by).writes
        /\ Rest(k, w.by).draining = Rest(m, w.by).draining
        /\ \A g \in Owners : Rest(k, w.by).run[g] = Rest(m, w.by).run[g]
    BY <1>1, <1>4, <2>2, RestMemory DEF SameQueue
  <2>4. Chain(Rest(k, w.by))
    BY <1>1, <1>4, <2>3 DEF Chain, Owners
  <2> QED BY <1>4, <2>1, <2>2, <2>4, ThrowChain
<1>5. CASE w.by \in Owners /\ Kind(w) = "clear"
  <2>1. n = Throw(m, w.by)
    BY <1>5, RejectedIs DEF Rejected
  <2> QED BY <1>1, <1>5, <2>1, ThrowChain
<1>6. CASE w.by \notin Owners /\ Kind(w) \in {"prompt", "timer"}
  <2>1. n = m
    BY <1>6, RejectedIs, Zenon
  <2> QED BY <1>1, <1>6, <2>1 DEF Base
<1>7. CASE w.by \notin Owners /\ Kind(w) = "resume"
  <2>1. n = [m EXCEPT !.pending = m.previous.pending,
                      !.interrupted = m.previous.interrupted, !.resuming = FALSE]
    BY <1>7, RejectedIs, Zenon
  <2>2. m.previous.pending \in Seq(Entries) /\ m.previous.interrupted \in BOOLEAN
    BY <1>1 DEF Memory, Record
  <2>3. n \in Memory /\ n.run = m.run /\ n.writes = m.writes /\ n.draining = m.draining
    BY <1>1, <2>1, <2>2 DEF Memory
  <2> QED BY <1>1, <1>7, <2>3 DEF Base, Chain
<1> QED BY <1>3, <1>4, <1>5, <1>6, <1>7


LEMMA RestChain ==
  ASSUME NEW m, Base(m), NEW f \in Owners, m.run[f].at \notin {"mark", "clear"}
  PROVE  Chain(Rest(m, f))
<1>1. m \in Memory /\ Chain(m)
  BY DEF Base
<1>2. /\ Rest(m, f).writes = m.writes /\ Rest(m, f).draining = m.draining
      /\ Rest(m, f).run[f].at = "none"
      /\ \A g \in Owners \ {f} : Rest(m, f).run[g] = m.run[g]
  BY <1>1, RestMemory DEF SameQueue
<1>3. \A i \in DOMAIN m.writes : m.writes[i].by # f
  BY <1>1 DEF Chain
<1> DEFINE c == Rest(m, f)
<1>4. c.writes = m.writes /\ c.draining = m.draining
  BY <1>2
<1>5. \A i \in DOMAIN m.writes :
        m.writes[i].by \in Owners => c.run[m.writes[i].by].at \in {"mark", "clear"}
  BY <1>1, <1>2, <1>3 DEF Chain
<1>6. /\ c.run["drain"].at # "none" => c.draining
      /\ c.run["start"].at # "none" => c.run["start"].prompt = "first"
  BY <1>1, <1>2 DEF Chain, Owners
<1> HIDE DEF c
<1>7. Chain(c)
  BY <1>1, <1>4, <1>5, <1>6 DEF Chain
<1> QED BY <1>7 DEF c

LEMMA AskChain ==
  ASSUME NEW m, Base(m), NEW by \in Bys \ Owners
  PROVE  Base(Write(m, by))
<1>1. m \in Memory /\ Chain(m)
  BY DEF Base
<1> DEFINE n == Write(m, by)
           r == [by |-> by, record |-> Snapshot(m)]
<1>2. /\ n \in Memory /\ n.writes = Append(m.writes, r) /\ r \in ByRecord
      /\ m.writes \in Seq(ByRecord) /\ n = [m EXCEPT !.writes = n.writes]
  BY <1>1, WriteAsks
<1>3. r.by \notin Owners
  OBVIOUS
<1> HIDE DEF n, r
<1>4. n.run = m.run /\ n.draining = m.draining
  BY <1>1, <1>2 DEF Memory
<1>5. /\ DOMAIN n.writes = DOMAIN m.writes \cup {Len(m.writes) + 1}
      /\ n.writes[Len(m.writes) + 1] = r
      /\ \A i \in DOMAIN m.writes : n.writes[i] = m.writes[i]
  BY <1>2, AppendElements
<1>6. \A i \in DOMAIN n.writes :
        n.writes[i].by \in Owners => i \in DOMAIN m.writes /\ n.writes[i] = m.writes[i]
  BY <1>3, <1>5
<1>7. Chain(n)
  BY <1>1, <1>4, <1>5, <1>6 DEF Chain
<1> QED BY <1>2, <1>7 DEF Base, n

(* Chain reads the coroutines, the chain and the loop, and nothing else. *)
LEMMA BaseFrame ==
  ASSUME NEW m, Base(m), NEW n \in Memory,
         n.run = m.run, n.writes = m.writes, n.draining = m.draining
  PROVE  Base(n)
BY DEF Base, Chain

LEMMA MarksChain ==
  ASSUME NEW m, Base(m), NEW f \in Owners, m.run[f].at = "mask"
  PROVE  Base(MarkTurn(m, f))
<1> DEFINE n == MarkTurn(m, f)
<1>1. m \in Memory /\ Chain(m) /\ m.run \in [Owners -> Run] /\ m.writes \in Seq(ByRecord)
  BY DEF Base, Memory, ByRecord, Bys
<1>2. /\ n \in Memory /\ SameQueue(m, n) /\ Marks(m, n, f)
      /\ n.run = [m.run EXCEPT ![f].at = "mark"]
  BY <1>1, MarkTurnMarks
<1> HIDE DEF n
<1>3. PICK r \in ByRecord : n.writes = Append(m.writes, r) /\ r.by = f
  BY <1>2 DEF Marks
<1>4. /\ DOMAIN n.writes = DOMAIN m.writes \cup {Len(m.writes) + 1}
      /\ n.writes[Len(m.writes) + 1] = r
      /\ \A i \in DOMAIN m.writes : n.writes[i] = m.writes[i]
  BY <1>1, <1>3, AppendElements
<1>5. /\ \A g \in Owners \ {f} : n.run[g] = m.run[g]
      /\ n.run[f].at = "mark" /\ n.run[f].prompt = m.run[f].prompt
      /\ n.draining = m.draining
  BY <1>1, <1>2 DEF Run, SameQueue
<1>6. \A i \in DOMAIN m.writes : m.writes[i].by # f
  BY <1>1 DEF Chain
<1>7. \A i, j \in DOMAIN n.writes :
        n.writes[i].by \in Owners /\ n.writes[i].by = n.writes[j].by => i = j
  BY <1>1, <1>3, <1>4, <1>6 DEF Chain
<1>8. \A i \in DOMAIN n.writes :
        n.writes[i].by \in Owners => n.run[n.writes[i].by].at \in {"mark", "clear"}
  BY <1>1, <1>3, <1>4, <1>5, <1>6 DEF Chain
<1>9. /\ n.run["drain"].at # "none" => n.draining
      /\ n.run["start"].at # "none" => n.run["start"].prompt = "first"
  BY <1>1, <1>5 DEF Chain, Owners
<1> QED BY <1>2, <1>7, <1>8, <1>9 DEF Base, Chain, n

-----------------------------------------------------------------------------
(* The actions keep the memory typed and the chain in shape.               *)

LEMMA RunNowBase ==
  ASSUME Base(mem), RunNow
  PROVE  Base(mem')
<1> DEFINE r == [NoRun EXCEPT !.at = "open", !.prompt = "first"]
<1>1. mem \in Memory /\ Chain(mem) /\ mem.run \in [Owners -> Run]
  BY DEF Base, Memory
<1>2. r \in Run /\ r.at = "open" /\ r.prompt = "first"
  BY DEF NoRun, Run, Entries
<1>3. mem' = [mem EXCEPT !.state = "started", !.run["start"] = r]
      /\ mem.run["start"].at = "none"
  BY DEF RunNow
<1> HIDE DEF r
<1>4. /\ mem' \in Memory /\ mem'.writes = mem.writes /\ mem'.draining = mem.draining
      /\ mem'.run = [mem.run EXCEPT !["start"] = r]
  <2>1. mem'.run = [mem.run EXCEPT !["start"] = r] /\ mem'.run \in [Owners -> Run]
    BY <1>1, <1>2, <1>3 DEF Memory
  <2>2. mem' \in Memory
    BY <1>1, <1>3, <2>1 DEF Memory
  <2> QED BY <1>1, <1>3, <2>1, <2>2 DEF Memory
<1>5. \A i \in DOMAIN mem.writes : mem.writes[i].by # "start"
  BY <1>1, <1>3 DEF Chain, Owners
<1>6. mem'.run["start"] = r /\ mem'.run["drain"] = mem.run["drain"]
  BY <1>1, <1>4 DEF Owners
<1> QED BY <1>1, <1>2, <1>4, <1>5, <1>6 DEF Base, Chain, Owners

LEMMA OpenedBase ==
  ASSUME Base(mem), Opened
  PROVE  Base(mem')
<1> DEFINE k == [mem EXCEPT !.persist = TRUE]
<1>1. k \in Memory /\ k.run = mem.run /\ k.writes = mem.writes /\ k.draining = mem.draining
  BY DEF Base, Memory
<1>2. mem' = SendTurn(k, "start", "first", FALSE) /\ mem.run["start"].at = "open"
  BY DEF Opened
<1> HIDE DEF k
<1>3. Base(k) /\ "start" \in Owners /\ "first" \in Entries
  BY <1>1, BaseFrame DEF Owners, Entries
<1>4. Chain(Rest(k, "start"))
  BY <1>1, <1>2, <1>3, RestChain
<1>5. mem' \in Memory /\ Begins(k, mem', "start", "first", FALSE)
  BY <1>1, <1>2, <1>3, SendTurnBegins
<1> QED BY <1>1, <1>3, <1>4, <1>5, BeginsChain DEF Base

(* One field of a turn changes. *)
LEMMA StepRun ==
  ASSUME NEW m, Base(m), NEW n \in Memory, NEW f \in Owners,
         n.writes = m.writes, n.draining = m.draining,
         \A g \in Owners \ {f} : n.run[g] = m.run[g],
         n.run[f].at = m.run[f].at \/ m.run[f].at \notin {"none", "mark", "clear"},
         n.run[f].prompt = m.run[f].prompt
  PROVE  Base(n)
<1>1. m \in Memory /\ Chain(m)
  BY DEF Base
<1>2. \A i \in DOMAIN m.writes :
        m.writes[i].by \in Owners => n.run[m.writes[i].by].at \in {"mark", "clear"}
  BY <1>1 DEF Chain
<1>3. /\ n.run["drain"].at # "none" => n.draining
      /\ n.run["start"].at # "none" => n.run["start"].prompt = "first"
  BY <1>1 DEF Chain, Owners
<1> QED BY <1>1, <1>2, <1>3 DEF Base, Chain

LEMMA AttachedBase ==
  ASSUME Base(mem), NEW f \in Owners, Attached(f)
  PROVE  /\ Base(mem') /\ SameQueue(mem, mem')
         /\ mem'.writes = mem.writes /\ mem'.busy = mem.busy
         /\ mem'.interrupted = mem.interrupted /\ mem'.incomplete = mem.incomplete
         /\ mem'.turnComplete = mem.turnComplete /\ mem'.announced = mem.announced
         /\ \A g \in Owners \ {f} : mem'.run[g] = mem.run[g]
         /\ mem.run[f].at = "attach" /\ mem'.run[f].at = "agent"
         /\ mem'.run[f].prompt = mem.run[f].prompt /\ mem'.run[f].nudge = mem.run[f].nudge
         /\ mem'.run[f].done = mem.run[f].done
<1>1. mem \in Memory /\ mem.run \in [Owners -> Run] /\ mem.run[f] \in Run
  BY DEF Base, Memory
<1>2. mem' = [mem EXCEPT !.run[f].at = "agent"] /\ mem.run[f].at = "attach"
  BY DEF Attached
<1>3. [mem.run[f] EXCEPT !.at = "agent"] \in Run
  BY <1>1 DEF Run
<1>4. mem'.run = [mem.run EXCEPT ![f].at = "agent"] /\ mem'.run \in [Owners -> Run]
  BY <1>1, <1>2, <1>3 DEF Memory
<1>5. mem' \in Memory
  BY <1>1, <1>2, <1>4 DEF Memory
<1>6. /\ SameQueue(mem, mem')
      /\ mem'.writes = mem.writes /\ mem'.busy = mem.busy
      /\ mem'.interrupted = mem.interrupted /\ mem'.incomplete = mem.incomplete
      /\ mem'.turnComplete = mem.turnComplete /\ mem'.announced = mem.announced
  BY <1>1, <1>2, <1>5 DEF Memory, SameQueue
<1>7. /\ \A g \in Owners \ {f} : mem'.run[g] = mem.run[g]
      /\ mem'.run[f].at = "agent"
      /\ mem'.run[f].prompt = mem.run[f].prompt /\ mem'.run[f].nudge = mem.run[f].nudge
      /\ mem'.run[f].done = mem.run[f].done
  BY <1>1, <1>4 DEF Run
<1>8. Base(mem')
  BY <1>2, <1>5, <1>6, <1>7, StepRun DEF SameQueue
<1> QED BY <1>2, <1>6, <1>7, <1>8

LEMMA CompletesBase ==
  ASSUME Base(mem), NEW f \in Owners, Completes(f)
  PROVE  /\ Base(mem') /\ SameQueue(mem, mem')
         /\ mem'.writes = mem.writes /\ mem'.busy = mem.busy
         /\ mem'.interrupted = mem.interrupted /\ mem'.incomplete = mem.incomplete
         /\ mem'.turnComplete /\ mem'.announced = mem.announced
         /\ \A g \in Owners \ {f} : mem'.run[g] = mem.run[g]
         /\ mem'.run[f].at = mem.run[f].at /\ mem.run[f].at \in {"agent", "clear"}
         /\ mem'.run[f].prompt = mem.run[f].prompt /\ mem'.run[f].nudge = mem.run[f].nudge
         /\ mem'.run[f].done /\ mem'.run[f].outcome = mem.run[f].outcome
<1>1. mem \in Memory /\ mem.run \in [Owners -> Run] /\ mem.run[f] \in Run
  BY DEF Base, Memory
<1>2. /\ mem' = [mem EXCEPT !.turnComplete = TRUE, !.run[f].done = TRUE]
      /\ mem.run[f].at \in {"agent", "clear"}
  BY DEF Completes
<1>3. [mem.run[f] EXCEPT !.done = TRUE] \in Run
  BY <1>1 DEF Run
<1>4. mem'.run = [mem.run EXCEPT ![f].done = TRUE] /\ mem'.run \in [Owners -> Run]
  BY <1>1, <1>2, <1>3 DEF Memory
<1>5. mem' \in Memory
  BY <1>1, <1>2, <1>4 DEF Memory
<1>6. /\ SameQueue(mem, mem')
      /\ mem'.writes = mem.writes /\ mem'.busy = mem.busy
      /\ mem'.interrupted = mem.interrupted /\ mem'.incomplete = mem.incomplete
      /\ mem'.turnComplete /\ mem'.announced = mem.announced
  BY <1>1, <1>2, <1>5 DEF Memory, SameQueue
<1>7. /\ \A g \in Owners \ {f} : mem'.run[g] = mem.run[g]
      /\ mem'.run[f].at = mem.run[f].at /\ mem'.run[f].outcome = mem.run[f].outcome
      /\ mem'.run[f].prompt = mem.run[f].prompt /\ mem'.run[f].nudge = mem.run[f].nudge
      /\ mem'.run[f].done
  BY <1>1, <1>4 DEF Run
<1>8. Base(mem')
  BY <1>5, <1>6, <1>7, StepRun DEF SameQueue
<1> QED BY <1>2, <1>6, <1>7, <1>8

(* The queue of an action that only edits it. *)
LEMMA EditedBase ==
  ASSUME Base(mem), NEW q \in Seq(Entries), NEW b \in BOOLEAN,
         mem' = [mem EXCEPT !.pending = q, !.blocked = b, !.persist = TRUE]
  PROVE  /\ Base(mem') /\ mem'.pending = q
         /\ mem'.state = mem.state /\ mem'.contract = mem.contract
         /\ mem'.recovering = mem.recovering /\ mem'.resuming = mem.resuming
         /\ mem'.previous = mem.previous /\ mem'.draining = mem.draining
         /\ mem'.run = mem.run /\ mem'.writes = mem.writes /\ mem'.busy = mem.busy
         /\ mem'.interrupted = mem.interrupted /\ mem'.incomplete = mem.incomplete
         /\ mem'.turnComplete = mem.turnComplete /\ mem'.announced = mem.announced
<1>1. mem \in Memory
  BY DEF Base
<1>2. mem' \in Memory
  BY <1>1 DEF Memory
<1>3. /\ mem'.pending = q
      /\ mem'.state = mem.state /\ mem'.contract = mem.contract
      /\ mem'.recovering = mem.recovering /\ mem'.resuming = mem.resuming
      /\ mem'.previous = mem.previous /\ mem'.draining = mem.draining
      /\ mem'.run = mem.run /\ mem'.writes = mem.writes /\ mem'.busy = mem.busy
      /\ mem'.interrupted = mem.interrupted /\ mem'.incomplete = mem.incomplete
      /\ mem'.turnComplete = mem.turnComplete /\ mem'.announced = mem.announced
  BY <1>1 DEF Memory
<1> QED BY <1>2, <1>3, BaseFrame

LEMMA ClearPendingEdits ==
  ASSUME Base(mem), ClearPending
  PROVE  \E b \in BOOLEAN :
           mem' = [mem EXCEPT !.pending = <<>>, !.blocked = b, !.persist = TRUE]
<1>1. mem.blocked \in BOOLEAN
  BY DEF Base, Memory
<1> QED BY <1>1 DEF ClearPending

LEMMA CancelPendingEdits ==
  ASSUME Base(mem), NEW p, CancelPending(p)
  PROVE  \E b \in BOOLEAN :
           mem' = [mem EXCEPT !.pending = Without(mem.pending, p), !.blocked = b,
                              !.persist = TRUE]
<1>1. mem.blocked \in BOOLEAN
  BY DEF Base, Memory
<1> QED BY <1>1 DEF CancelPending

(* The user's message, or the recovery, in the queue. *)
LEMMA PromptAsks ==
  ASSUME Base(mem), NEW p \in Prompts, Prompt(p)
  PROVE  \E k : /\ Base(k) /\ mem' = Write(k, p) /\ p \in Bys \ Owners
                /\ k = [mem EXCEPT !.pending = Append(Without(@, "auto"), p)]
                /\ k.pending = Append(Without(mem.pending, "auto"), p)
                /\ k.state = mem.state /\ k.contract = mem.contract
                /\ k.recovering = mem.recovering /\ k.resuming = mem.resuming
                /\ k.previous = mem.previous /\ k.draining = mem.draining
                /\ k.blocked = mem.blocked
                /\ k.run = mem.run /\ k.writes = mem.writes /\ k.busy = mem.busy
                /\ k.interrupted = mem.interrupted /\ k.incomplete = mem.incomplete
                /\ k.turnComplete = mem.turnComplete /\ k.announced = mem.announced
<1> DEFINE q == Append(Without(mem.pending, "auto"), p)
           k == [mem EXCEPT !.pending = q]
<1>1. mem \in Memory /\ mem.pending \in Seq(Entries) /\ p \in Entries
  BY DEF Base, Memory, Entries
<1>2. q \in Seq(Entries)
  BY <1>1, WithoutElements, AppendElements
<1>3. p \in Bys \ Owners
  BY TurnAssumption DEF Bys, Owners
<1>4. mem' = Write(k, p) /\ k = [mem EXCEPT !.pending = Append(Without(@, "auto"), p)]
  BY DEF Prompt
<1> HIDE DEF q
<1>5. k \in Memory
  BY <1>1, <1>2 DEF Memory
<1>6. /\ k.pending = q
      /\ k.state = mem.state /\ k.contract = mem.contract
      /\ k.recovering = mem.recovering /\ k.resuming = mem.resuming
      /\ k.previous = mem.previous /\ k.draining = mem.draining
      /\ k.blocked = mem.blocked
      /\ k.run = mem.run /\ k.writes = mem.writes /\ k.busy = mem.busy
      /\ k.interrupted = mem.interrupted /\ k.incomplete = mem.incomplete
      /\ k.turnComplete = mem.turnComplete /\ k.announced = mem.announced
  BY <1>1, <1>2 DEF Memory
<1> HIDE DEF k
<1>7. Base(k)
  BY <1>5, <1>6, BaseFrame
<1> QED BY <1>3, <1>4, <1>6, <1>7 DEF q

LEMMA ResumeAsks ==
  ASSUME Base(mem), ResumeInterrupted
  PROVE  \E k : /\ Base(k) /\ mem' = Write(k, "resume") /\ "resume" \in Bys \ Owners
                /\ k.pending = IF mem.interrupted THEN <<"auto">> \o mem.pending
                               ELSE mem.pending
                /\ k.state = mem.state /\ k.contract = mem.contract
                /\ k.recovering = mem.recovering /\ k.resuming
                /\ k.draining = mem.draining /\ k.blocked = mem.blocked
                /\ k.run = mem.run /\ k.writes = mem.writes /\ k.busy = mem.busy
                /\ ~k.interrupted /\ k.incomplete = mem.incomplete
                /\ k.turnComplete = mem.turnComplete /\ k.announced = mem.announced
<1> DEFINE q == IF mem.interrupted THEN <<"auto">> \o mem.pending ELSE mem.pending
           k == [mem EXCEPT !.resuming = TRUE, !.previous = Snapshot(mem),
                            !.interrupted = FALSE, !.pending = q]
<1>1. mem \in Memory /\ mem.pending \in Seq(Entries) /\ <<"auto">> \in Seq(Entries)
  BY DEF Base, Memory, Entries
<1>2. q \in Seq(Entries)
  BY <1>1, ConcatProperties
<1>3. "resume" \in Bys \ Owners
  BY DEF Bys, Owners
<1>4. mem' = Write(k, "resume")
  BY DEF ResumeInterrupted
<1>5. Snapshot(mem) \in Record
  BY <1>1, SnapshotRecord
<1> HIDE DEF q
<1>6. k \in Memory
  BY <1>1, <1>2, <1>5 DEF Memory
<1>7. /\ k.pending = q
      /\ k.state = mem.state /\ k.contract = mem.contract
      /\ k.recovering = mem.recovering /\ k.resuming
      /\ k.draining = mem.draining /\ k.blocked = mem.blocked
      /\ k.run = mem.run /\ k.writes = mem.writes /\ k.busy = mem.busy
      /\ ~k.interrupted /\ k.incomplete = mem.incomplete
      /\ k.turnComplete = mem.turnComplete /\ k.announced = mem.announced
  BY <1>1, <1>2, <1>5 DEF Memory
<1> HIDE DEF k
<1>8. Base(k)
  BY <1>6, <1>7, BaseFrame
<1> QED BY <1>3, <1>4, <1>7, <1>8 DEF q

LEMMA TimerAsks ==
  ASSUME Base(mem), PersistTimer
  PROVE  \E k : /\ Base(k) /\ mem' = Write(k, "timer") /\ "timer" \in Bys \ Owners
                /\ k.pending = mem.pending
                /\ k.state = mem.state /\ k.contract = mem.contract
                /\ k.recovering = mem.recovering /\ k.resuming = mem.resuming
                /\ k.draining = mem.draining /\ k.blocked = mem.blocked
                /\ k.run = mem.run /\ k.writes = mem.writes /\ k.busy = mem.busy
                /\ k.interrupted = mem.interrupted /\ k.incomplete = mem.incomplete
                /\ k.turnComplete = mem.turnComplete /\ k.announced = mem.announced
<1> DEFINE k == [mem EXCEPT !.persist = FALSE]
<1>1. mem \in Memory
  BY DEF Base
<1>2. "timer" \in Bys \ Owners
  BY DEF Bys, Owners
<1>3. mem' = Write(k, "timer")
  BY DEF PersistTimer
<1>4. k \in Memory
  BY <1>1 DEF Memory
<1>5. /\ k.pending = mem.pending
      /\ k.state = mem.state /\ k.contract = mem.contract
      /\ k.recovering = mem.recovering /\ k.resuming = mem.resuming
      /\ k.draining = mem.draining /\ k.blocked = mem.blocked
      /\ k.run = mem.run /\ k.writes = mem.writes /\ k.busy = mem.busy
      /\ k.interrupted = mem.interrupted /\ k.incomplete = mem.incomplete
      /\ k.turnComplete = mem.turnComplete /\ k.announced = mem.announced
  BY <1>1 DEF Memory
<1> HIDE DEF k
<1>6. Base(k)
  BY <1>4, <1>5, BaseFrame
<1> QED BY <1>2, <1>3, <1>5, <1>6

(* The session is held, or let go. *)
LEMMA HeldBase ==
  ASSUME NEW m, Base(m), NEW b \in BOOLEAN
  PROVE  LET n == [m EXCEPT !.blocked = b]
         IN  /\ Base(n) /\ n.pending = m.pending /\ n.blocked = b
             /\ n.state = m.state /\ n.contract = m.contract
             /\ n.recovering = m.recovering /\ n.resuming = m.resuming
             /\ n.draining = m.draining
             /\ n.run = m.run /\ n.writes = m.writes /\ n.busy = m.busy
             /\ n.interrupted = m.interrupted /\ n.incomplete = m.incomplete
             /\ n.turnComplete = m.turnComplete /\ n.announced = m.announced
<1> DEFINE n == [m EXCEPT !.blocked = b]
<1>1. m \in Memory
  BY DEF Base
<1>2. n \in Memory
  BY <1>1 DEF Memory
<1>3. /\ n.pending = m.pending /\ n.blocked = b
      /\ n.state = m.state /\ n.contract = m.contract
      /\ n.recovering = m.recovering /\ n.resuming = m.resuming
      /\ n.draining = m.draining
      /\ n.run = m.run /\ n.writes = m.writes /\ n.busy = m.busy
      /\ n.interrupted = m.interrupted /\ n.incomplete = m.incomplete
      /\ n.turnComplete = m.turnComplete /\ n.announced = m.announced
  BY <1>1 DEF Memory
<1> HIDE DEF n
<1>4. Base(n)
  BY <1>2, <1>3, BaseFrame
<1> QED BY <1>3, <1>4 DEF n

LEMMA RestoredBase ==
  ASSUME NEW d \in Record
  PROVE  /\ Base(Restored(d)) /\ Restored(d).writes = <<>>
         /\ Restored(d).pending = d.pending /\ Restored(d).state = d.state
         /\ Restored(d).contract = d.contract /\ Restored(d).interrupted = d.interrupted
         /\ Restored(d).announced = {} /\ ~Restored(d).draining /\ ~Restored(d).busy
         /\ ~Restored(d).turnComplete /\ ~Restored(d).incomplete /\ ~Restored(d).resuming
         /\ \A f \in Owners : Restored(d).run[f].at = "none"
         /\ Restored(d).recovering <=> d.interrupted \/ d.pending # <<>>
<1> DEFINE m == Restored(d)
           c == d.interrupted \/ d.pending # <<>>
<1>1. NoRun \in Run /\ NoRun.at = "none"
  BY DEF NoRun, Run, Entries
<1>2. /\ d.state \in {"draft", "started"} /\ d.contract \in BOOLEAN
      /\ d.pending \in Seq(Entries) /\ d.interrupted \in BOOLEAN
  BY DEF Record
<1>3. m = [state |-> d.state, contract |-> d.contract, pending |-> d.pending,
           interrupted |-> d.interrupted, draining |-> FALSE, busy |-> FALSE,
           recovering |-> c, resuming |-> FALSE,
           previous |-> d, turnComplete |-> FALSE, incomplete |-> FALSE,
           blocked |-> FALSE, persist |-> FALSE, announced |-> {},
           run |-> [f \in Owners |-> NoRun], writes |-> <<>>]
  BY DEF Restored
<1> HIDE DEF c, m
<1>4. m.recovering = c
  BY <1>3
<1>5. /\ m.state = d.state /\ m.contract = d.contract /\ m.pending = d.pending
      /\ m.interrupted = d.interrupted /\ ~m.draining /\ ~m.busy /\ ~m.resuming
      /\ ~m.turnComplete /\ ~m.incomplete /\ m.announced = {}
      /\ m.run = [f \in Owners |-> NoRun] /\ m.writes = <<>>
  BY <1>3
<1>6. m \in Memory
  <2>1. <<>> \in Seq([by : Owners \cup Prompts \cup {"resume", "timer"}, record : Record])
    OBVIOUS
  <2>2. [f \in Owners |-> NoRun] \in [Owners -> Run]
    BY <1>1
  <2>3. c \in BOOLEAN
    BY DEF c
  <2> QED BY <1>2, <1>3, <2>1, <2>2, <2>3 DEF Memory
<1>7. \A f \in Owners : m.run[f].at = "none"
  BY <1>1, <1>5
<1>8. Chain(m)
  BY <1>5, <1>7 DEF Chain, Owners
<1> QED BY <1>4, <1>5, <1>6, <1>7, <1>8 DEF Base, m, c

-----------------------------------------------------------------------------
(* The memory and the file are typed, and the chain is in shape.           *)

LEMMA NextKeepsBase ==
  ASSUME Base(mem), disk \in Record, Next
  PROVE  Base(mem') /\ disk' \in Record
<1>1. CASE RunNow
  BY <1>1, RunNowBase DEF RunNow
<1>2. CASE Opened
  BY <1>2, OpenedBase DEF Opened
<1>3. CASE ResumeInterrupted
  <2>1. Base(mem')
    BY <1>3, ResumeAsks, AskChain
  <2> QED BY <1>3, <2>1 DEF ResumeInterrupted
<1>4. CASE ClearPending
  <2>1. PICK b \in BOOLEAN :
          mem' = [mem EXCEPT !.pending = <<>>, !.blocked = b, !.persist = TRUE]
    BY <1>4, ClearPendingEdits
  <2>2. <<>> \in Seq(Entries)
    OBVIOUS
  <2>3. Base(mem')
    BY <2>1, <2>2, EditedBase
  <2> QED BY <1>4, <2>3 DEF ClearPending
<1>5. ASSUME NEW p \in Prompts, Prompt(p) PROVE Base(mem') /\ disk' \in Record
  <2>1. Base(mem')
    BY <1>5, PromptAsks, AskChain
  <2> QED BY <1>5, <2>1 DEF Prompt
<1>6. ASSUME NEW p, CancelPending(p) PROVE Base(mem') /\ disk' \in Record
  <2>1. PICK b \in BOOLEAN :
          mem' = [mem EXCEPT !.pending = Without(mem.pending, p), !.blocked = b,
                             !.persist = TRUE]
    BY <1>6, CancelPendingEdits
  <2>2. Without(mem.pending, p) \in Seq(Entries)
    BY WithoutElements DEF Base, Memory
  <2>3. Base(mem')
    BY <2>1, <2>2, EditedBase
  <2> QED BY <1>6, <2>3 DEF CancelPending
<1>7. ASSUME NEW f \in Owners, Turn(f) \/ Completes(f) PROVE Base(mem') /\ disk' \in Record
  <2>1. CASE Masked(f)
    BY <2>1, MarksChain DEF Masked
  <2>2. CASE Attached(f)
    <3>1. Base(mem')
      BY <2>2, AttachedBase
    <3> QED BY <2>2, <3>1 DEF Attached
  <2>3. CASE AttachFails(f)
    BY <2>3, ClearTurnChain DEF AttachFails, Outcomes
  <2>4. CASE TurnStops(f)
    BY <2>4, ClearTurnChain DEF TurnStops, Outcomes
  <2>5. CASE Completes(f)
    <3>1. Base(mem')
      BY <2>5, CompletesBase
    <3> QED BY <2>5, <3>1 DEF Completes
  <2> QED BY <1>7, <2>1, <2>2, <2>3, <2>4, <2>5 DEF Turn
<1>8. CASE Block
  BY <1>8, HeldBase DEF Block
<1>9. CASE Unblock
  BY <1>9, HeldBase, DrainChain DEF Unblock
<1>10. CASE Pass
  BY <1>10, DrainChain DEF Pass
<1>11. CASE PersistTimer
  <2>1. Base(mem')
    BY <1>11, TimerAsks, AskChain
  <2> QED BY <1>11, <2>1 DEF PersistTimer
<1>12. CASE WriteLands
  <2>1. mem.writes # <<>> /\ disk' = Head(mem.writes).record
        /\ mem' = Landed(Shorter(mem), Head(mem.writes).by, Kind(Head(mem.writes)))
    BY <1>12 DEF WriteLands, Shorter
  <2>2. Head(mem.writes) \in ByRecord
    BY <2>1, HeadOff
  <2> QED BY <2>1, <2>2, LandsBase DEF ByRecord
<1>13. CASE WriteFails
  <2>1. mem.writes # <<>> /\ disk' \in {disk, Head(mem.writes).record}
        /\ mem' = Rejected(Shorter(mem), Head(mem.writes).by, Kind(Head(mem.writes)))
    BY <1>13 DEF WriteFails, Shorter
  <2>2. Head(mem.writes) \in ByRecord
    BY <2>1, HeadOff
  <2> QED BY <2>1, <2>2, RejectsBase DEF ByRecord
<1>14. CASE Crash
  <2>1. disk' \in Record
    <3>1. CASE mem.writes = <<>>
      BY <1>14, <3>1 DEF Crash
    <3>2. CASE mem.writes # <<>>
      <4>1. Head(mem.writes) \in ByRecord
        BY <3>2, HeadOff
      <4> QED BY <1>14, <3>2, <4>1 DEF Crash, ByRecord
    <3> QED BY <3>1, <3>2
  <2> QED BY <1>14, <2>1, RestoredBase DEF Crash
<1> QED BY <1>1, <1>2, <1>3, <1>4, <1>5, <1>6, <1>7, <1>8, <1>9, <1>10, <1>11,
           <1>12, <1>13, <1>14 DEF Next

LEMMA InitBase ==
  ASSUME Init
  PROVE  disk \in Record /\ disk.pending = <<>> /\ ~disk.interrupted /\ Base(mem)
<1>1. PICK start \in Starts :
        disk = [state |-> IF start.fresh THEN "draft" ELSE "started",
                contract |-> start.contract, pending |-> <<>>, interrupted |-> FALSE]
  BY DEF Init
<1>2. start.fresh \in BOOLEAN /\ start.contract \in BOOLEAN
  BY TurnAssumption
<1>3. disk \in Record /\ disk.pending = <<>> /\ ~disk.interrupted
  <2> DEFINE s == IF start.fresh THEN "draft" ELSE "started"
  <2>1. s \in {"draft", "started"} /\ <<>> \in Seq(Entries)
    OBVIOUS
  <2>2. disk = [state |-> s, contract |-> start.contract, pending |-> <<>>, interrupted |-> FALSE]
    BY <1>1
  <2> HIDE DEF s
  <2> QED BY <1>2, <2>1, <2>2 DEF Record
<1> QED BY <1>3, RestoredBase DEF Init

(* The chain is in order, always. *)
LEMMA AlwaysBase == Spec => [](Base(mem) /\ disk \in Record)
<1>1. Init => Base(mem) /\ disk \in Record
  BY InitBase
<1>2. Base(mem) /\ disk \in Record /\ [Next]_vars => (Base(mem) /\ disk \in Record)'
  <2>1. CASE Next
    BY <2>1, NextKeepsBase
  <2>2. CASE UNCHANGED vars
    <3>1. Base(mem) => Base(mem)'
      BY <2>2 DEF vars, Base, Chain
    <3> QED BY <2>2, <3>1 DEF vars
  <2> QED BY <2>1, <2>2
<1> QED BY <1>1, <1>2, PTL DEF Spec

(* What the user typed and the agent got are typed too. *)
Told == /\ typed \in Seq(Prompts) /\ sent \in Seq(Prompts)
        /\ accepted \cup refused \cup taken \cup told \subseteq Prompts
        /\ failures \in 0..MaxFailures /\ restarts \in 0..MaxRestarts

(* The types of the model hold in every reachable state.                   *)
THEOREM TurnTypeCorrect == Spec => []TypeOK
<1>1. Init => Told
  BY TurnAssumption DEF Init, Told
<1>2. Told /\ Next => Told'
  <2> SUFFICES ASSUME Told, Next PROVE Told'
    OBVIOUS
  <2> USE DEF Told, history, bounds
  <2>1. CASE RunNow \/ Opened \/ ResumeInterrupted \/ Block \/ Unblock \/ Pass \/ PersistTimer
    BY <2>1 DEF RunNow, Opened, ResumeInterrupted, Block, Unblock, Pass, PersistTimer
  <2>2. CASE ClearPending
    BY <2>2 DEF ClearPending
  <2>3. ASSUME NEW p \in Prompts, Prompt(p) PROVE Told'
    BY <2>3 DEF Prompt
  <2>4. ASSUME NEW p, CancelPending(p) PROVE Told'
    BY <2>4 DEF CancelPending
  <2>5. ASSUME NEW f \in Owners, Turn(f) \/ Completes(f) PROVE Told'
    <3>1. CASE Masked(f) \/ TurnStops(f) \/ Completes(f)
      BY <3>1 DEF Masked, TurnStops, Completes
    <3>2. CASE Attached(f)
      <4>1. CASE sent' = Append(sent, mem.run[f].prompt) /\ mem.run[f].prompt \in Prompts
        BY <3>2, <4>1 DEF Attached
      <4>2. CASE sent' = sent
        BY <3>2, <4>2 DEF Attached
      <4> QED BY <3>2, <4>1, <4>2 DEF Attached
    <3>3. CASE AttachFails(f)
      BY <3>3 DEF AttachFails
    <3> QED BY <2>5, <3>1, <3>2, <3>3 DEF Turn
  <2>6. CASE WriteLands
    BY <2>6 DEF WriteLands
  <2>7. CASE WriteFails
    BY <2>7, TurnAssumption DEF WriteFails
  <2>8. CASE Crash
    BY <2>8, TurnAssumption DEF Crash
  <2> QED BY <2>1, <2>2, <2>3, <2>4, <2>5, <2>6, <2>7, <2>8 DEF Next
<1>3. Told /\ UNCHANGED vars => Told'
  BY DEF Told, vars, history, bounds
<1>4. Base(mem) /\ disk \in Record /\ Told => TypeOK
  BY DEF Base, Told, TypeOK
<1> QED BY <1>1, <1>2, <1>3, <1>4, AlwaysBase, PTL DEF Spec

-----------------------------------------------------------------------------
(* What a coroutine that goes on does to the queue and the chain.          *)

(* Nothing ... *)
Quiet(m, n) ==
  /\ n.pending = m.pending /\ n.writes = m.writes /\ n.run = m.run
  /\ n.busy = m.busy /\ n.interrupted = m.interrupted /\ n.incomplete = m.incomplete
  /\ n.turnComplete = m.turnComplete /\ n.announced = m.announced

(* ... or the loop takes the head of the queue. *)
Pulls(m, n) ==
  /\ Ready(m) /\ m.run["drain"].at = "none"
  /\ n.pending = Tail(m.pending) /\ n.interrupted
  /\ n.run["start"] = m.run["start"]
  /\ n.run["drain"].prompt = Head(m.pending)
  /\ ~n.run["drain"].nudge /\ ~n.run["drain"].done
  /\ \/ /\ n.run["drain"].at = "mask" /\ n.writes = m.writes
        /\ n.busy = m.busy /\ n.incomplete = m.incomplete
        /\ n.turnComplete = m.turnComplete /\ n.announced = m.announced
     \/ /\ n.run["drain"].at = "mark" /\ n.busy /\ ~n.incomplete /\ ~n.turnComplete
        /\ n.announced = m.announced \cup {"drain"}
        /\ \E r \in ByRecord :
             /\ n.writes = Append(m.writes, r) /\ r.by = "drain"
             /\ r.record.state = m.state /\ r.record.contract = m.contract
             /\ r.record.pending = n.pending /\ r.record.interrupted

Drains(m, n, state) ==
  /\ n \in Memory /\ n.state = state /\ n.contract = m.contract
  /\ n.recovering = m.recovering /\ n.resuming = m.resuming
  /\ n.previous = m.previous /\ n.blocked = m.blocked
  /\ Quiet(m, n) \/ Pulls(m, n)

LEMMA TakesPulls ==
  ASSUME NEW m \in Memory, NEW n, Ready(m), m.run["drain"].at = "none", Takes(m, n)
  PROVE  Drains(m, n, m.state) /\ Pulls(m, n) /\ n.draining = m.draining
<1>1. PICK k \in Memory :
        /\ k = [m EXCEPT !.pending = Tail(@), !.interrupted = TRUE]
        /\ n \in Memory /\ Begins(k, n, "drain", Head(m.pending), FALSE)
  BY DEF Takes
<1>2. /\ k.pending = Tail(m.pending) /\ k.interrupted /\ k.run = m.run
      /\ k.writes = m.writes /\ k.state = m.state /\ k.contract = m.contract
      /\ k.recovering = m.recovering /\ k.resuming = m.resuming
      /\ k.previous = m.previous /\ k.blocked = m.blocked /\ k.draining = m.draining
      /\ k.busy = m.busy /\ k.incomplete = m.incomplete
      /\ k.turnComplete = m.turnComplete /\ k.announced = m.announced
  BY <1>1 DEF Memory
<1>3. SameQueue(k, n) /\ n.run["start"] = m.run["start"] /\ n.interrupted
  <2>1. k.interrupted \in BOOLEAN /\ n.interrupted \in BOOLEAN
    BY <1>1 DEF Memory
  <2>2. n.interrupted
    BY <1>1, <1>2, <2>1 DEF Begins, Marks
  <2>3. SameQueue(k, n) /\ n.run["start"] = k.run["start"]
    BY <1>1 DEF Begins, Owners
  <2> QED BY <1>2, <2>2, <2>3
<1>4. Pulls(m, n)
  <2>1. /\ n.pending = Tail(m.pending) /\ n.run["drain"].prompt = Head(m.pending)
        /\ ~n.run["drain"].nudge /\ ~n.run["drain"].done
    BY <1>1, <1>2 DEF Begins, SameQueue
  <2>2. CASE Marks(k, n, "drain")
    <3>1. /\ n.run["drain"].at = "mark" /\ n.busy /\ ~n.incomplete /\ ~n.turnComplete
          /\ n.announced = m.announced \cup {"drain"}
      BY <1>2, <2>2 DEF Marks
    <3>2. \E r \in ByRecord :
            /\ n.writes = Append(m.writes, r) /\ r.by = "drain"
            /\ r.record.state = m.state /\ r.record.contract = m.contract
            /\ r.record.pending = n.pending /\ r.record.interrupted
      BY <1>2, <2>1, <2>2 DEF Marks
    <3> QED BY <1>3, <2>1, <3>1, <3>2 DEF Pulls
  <2>3. CASE ~Marks(k, n, "drain")
    BY <1>1, <1>2, <1>3, <2>1, <2>3 DEF Pulls, Begins
  <2> QED BY <2>2, <2>3
<1> QED BY <1>1, <1>2, <1>3, <1>4 DEF Drains, SameQueue

LEMMA DrainDrains ==
  ASSUME NEW m, Base(m)
  PROVE  /\ Drains(m, Drain(m), m.state)
         /\ IF ~m.draining /\ ~m.recovering /\ Ready(m)
              THEN Pulls(m, Drain(m)) /\ Drain(m).draining ELSE Drain(m) = m
<1> DEFINE k == [m EXCEPT !.draining = TRUE]
<1>1. CASE ~m.draining /\ ~m.recovering /\ Ready(m)
  <2>1. m \in Memory /\ Chain(m)
    BY DEF Base
  <2>2. /\ k \in Memory /\ k.run = m.run /\ k.writes = m.writes /\ k.draining
        /\ k.pending = m.pending /\ k.busy = m.busy /\ k.state = m.state
        /\ k.blocked = m.blocked /\ k.interrupted = m.interrupted
        /\ k.contract = m.contract /\ k.recovering = m.recovering
        /\ k.resuming = m.resuming /\ k.previous = m.previous
        /\ k.incomplete = m.incomplete /\ k.turnComplete = m.turnComplete
        /\ k.announced = m.announced
    BY <2>1 DEF Memory
  <2>3. Drain(m) = TakeNext(k)
    BY <1>1 DEF Drain
  <2> HIDE DEF k
  <2>4. k.run["drain"].at = "none" /\ k.pending # <<>> /\ Ready(k)
    BY <1>1, <2>1, <2>2 DEF Chain, Ready
  <2> DEFINE n == Drain(m)
  <2>5. Drains(k, n, k.state) /\ Pulls(k, n) /\ n.draining
    BY <2>2, <2>3, <2>4, TakeNextTakes, TakesPulls
  <2> HIDE DEF n
  <2>6. Pulls(m, n)
    BY <1>1, <2>2, <2>4, <2>5 DEF Pulls
  <2>7. Drains(m, n, m.state)
    BY <2>2, <2>5, <2>6 DEF Drains
  <2> QED BY <1>1, <2>5, <2>6, <2>7 DEF n
<1>2. CASE ~(~m.draining /\ ~m.recovering /\ Ready(m))
  <2>1. Drain(m) = m
    BY <1>2 DEF Drain
  <2> QED BY <1>2, <2>1 DEF Drains, Quiet, Base
<1> QED BY <1>1, <1>2

LEMMA DrainOnDrains ==
  ASSUME NEW m, Base(m), m.run["drain"].at = "none"
  PROVE  /\ Drains(m, DrainOn(m), m.state)
         /\ Ready(m) => Pulls(m, DrainOn(m)) /\ DrainOn(m).draining = m.draining
         /\ ~Ready(m) => Quiet(m, DrainOn(m)) /\ ~DrainOn(m).draining
<1>1. m \in Memory
  BY DEF Base
<1>2. CASE Ready(m)
  BY <1>1, <1>2, TakeNextTakes, TakesPulls DEF DrainOn, Ready
<1>3. CASE ~Ready(m)
  <2> DEFINE n == DrainOn(m)
  <2>1. n = [m EXCEPT !.draining = FALSE]
    BY <1>3 DEF DrainOn
  <2> HIDE DEF n
  <2>2. n \in Memory /\ Quiet(m, n) /\ ~n.draining
    BY <1>1, <2>1 DEF Memory, Quiet
  <2>3. Drains(m, n, m.state)
    BY <1>1, <2>1, <2>2 DEF Memory, Drains
  <2> QED BY <1>3, <2>2, <2>3 DEF n
<1> QED BY <1>2, <1>3

LEMMA ReturnDrains ==
  ASSUME NEW m \in Memory, NEW f \in Owners, Chain(Rest(m, f))
  PROVE  Drains(Rest(m, f), Return(m, f), m.state)
<1>1. /\ Base(Rest(m, f)) /\ Rest(m, f).run[f].at = "none" /\ Rest(m, f).state = m.state
  BY RestMemory DEF Base, SameQueue
<1>2. Return(m, f) = IF f = "drain" THEN DrainOn(Rest(m, f)) ELSE Drain(Rest(m, f))
  BY DEF Return, Rest
<1> QED BY <1>1, <1>2, DrainDrains, DrainOnDrains

LEMMA ThrowDrains ==
  ASSUME NEW m \in Memory, NEW f \in Owners, Chain(Rest(m, f))
  PROVE  /\ Drains(Rest(m, f), Throw(m, f), IF f = "start" THEN "draft" ELSE m.state)
         /\ f = "drain" => Quiet(Rest(m, f), Throw(m, f))
<1> DEFINE k == Rest(m, f)
           n == Throw(m, f)
<1>1. Base(k) /\ k \in Memory /\ k.state = m.state
  BY RestMemory DEF Base, SameQueue
<1>2. CASE f = "drain"
  <2>1. n = [k EXCEPT !.draining = FALSE]
    BY <1>2 DEF Throw, Rest
  <2> HIDE DEF k, n
  <2>2. n \in Memory
    BY <1>1, <2>1 DEF Memory
  <2>3. Quiet(k, n) /\ n.state = k.state
    BY <1>1, <2>1 DEF Memory, Quiet
  <2>4. Drains(k, n, m.state)
    BY <1>1, <2>1, <2>2, <2>3 DEF Memory, Drains
  <2> QED BY <1>2, <2>3, <2>4 DEF k, n
<1>3. CASE f = "start"
  <2> DEFINE d == Drain(k)
  <2>1. n = [d EXCEPT !.state = "draft", !.persist = TRUE]
    BY <1>3 DEF Throw, Rest
  <2>2. Drains(k, d, k.state)
    BY <1>1, DrainDrains
  <2> HIDE DEF k, n, d
  <2>3. d \in Memory
    BY <2>2 DEF Drains
  <2>4. n \in Memory
    BY <2>1, <2>3 DEF Memory
  <2>5. /\ n.pending = d.pending /\ n.writes = d.writes /\ n.run = d.run
        /\ n.busy = d.busy /\ n.interrupted = d.interrupted
        /\ n.incomplete = d.incomplete /\ n.turnComplete = d.turnComplete
        /\ n.announced = d.announced /\ n.state = "draft" /\ n.contract = d.contract
        /\ n.recovering = d.recovering /\ n.resuming = d.resuming
        /\ n.previous = d.previous /\ n.blocked = d.blocked
    BY <2>1, <2>3 DEF Memory
  <2>6. Quiet(k, n) \/ Pulls(k, n)
    <3>1. CASE Quiet(k, d)
      BY <2>5, <3>1 DEF Quiet
    <3>2. CASE Pulls(k, d)
      BY <2>5, <3>2 DEF Pulls
    <3> QED BY <2>2, <3>1, <3>2 DEF Drains
  <2>7. Drains(k, n, "draft")
    BY <2>2, <2>4, <2>5, <2>6 DEF Drains
  <2> QED BY <1>3, <2>7 DEF k, n
<1> QED BY <1>2, <1>3 DEF Owners

(* Nothing of the queue, the turns or the chain changes. *)
SameWork(m, k) ==
  /\ k \in Memory /\ k.pending = m.pending /\ k.writes = m.writes /\ k.run = m.run
  /\ k.state = m.state /\ k.contract = m.contract /\ k.blocked = m.blocked
  /\ k.interrupted = m.interrupted /\ k.incomplete = m.incomplete
  /\ k.turnComplete = m.turnComplete /\ k.announced = m.announced
  /\ k.draining = m.draining /\ k.previous = m.previous

LEMMA RecoveredWork ==
  ASSUME NEW m \in Memory, NEW b \in BOOLEAN, NEW r \in BOOLEAN
  PROVE  LET k == [m EXCEPT !.recovering = b, !.resuming = r]
         IN  SameWork(m, k) /\ k.recovering = b /\ k.resuming = r /\ k.busy = m.busy
<1> DEFINE k == [m EXCEPT !.recovering = b, !.resuming = r]
<1>1. k \in Memory
  BY DEF Memory
<1> QED BY <1>1 DEF Memory, SameWork

LEMMA LandsHow ==
  ASSUME Base(mem), WriteLands
  PROVE  LET w == Head(mem.writes)
             m == Shorter(mem)
             f == w.by
         IN  /\ mem.writes # <<>> /\ disk' = w.record
             /\ accepted' = accepted \cup ({f} \cap Prompts)
             /\ UNCHANGED <<typed, sent>>
             /\ \/ f \in Owners /\ mem.run[f].at = "mark" /\ Attaches(m, mem', f)
                \/ /\ f \in Owners /\ mem.run[f].at = "clear"
                   /\ \E k : /\ Ended(m, k, f) /\ Chain(Rest(k, f))
                             /\ IF Unfinished(m, f) /\ ~m.run[f].nudge
                                  THEN Begins(k, mem', f, m.run[f].prompt, TRUE)
                                  ELSE /\ mem' = Return(k, f)
                                       /\ Drains(Rest(k, f), mem', m.state)
                \/ /\ f \in Prompts \cup {"resume"} /\ f \notin Owners
                   /\ \E k : /\ SameWork(m, k) /\ k.busy = m.busy /\ ~k.recovering
                             /\ k.resuming = (f \in Prompts /\ m.resuming) /\ Base(k)
                             /\ mem' = Drain(k) /\ Drains(k, mem', m.state)
                \/ f = "timer" /\ f \notin Owners \cup Prompts /\ mem' = m
<1> DEFINE w == Head(mem.writes)
           m == Shorter(mem)
           f == w.by
           n == Landed(m, f, Kind(w))
<1>1. /\ mem.writes # <<>> /\ disk' = w.record /\ mem' = n
      /\ accepted' = accepted \cup ({f} \cap Prompts) /\ UNCHANGED <<typed, sent>>
  BY DEF WriteLands, Shorter
<1>2. /\ m \in Memory /\ m.run = mem.run
      /\ f \in Owners => Chain(Rest(m, f))
      /\ f \notin Owners => Chain(m)
  BY <1>1, HeadOff
<1>3. \/ f \in Owners /\ Kind(w) = mem.run[f].at /\ Kind(w) \in {"mark", "clear"}
      \/ f \in Prompts /\ f \notin Owners /\ Kind(w) = "prompt"
      \/ f = "resume" /\ f \notin Owners /\ f \notin Prompts /\ Kind(w) = "resume"
      \/ f = "timer" /\ f \notin Owners /\ f \notin Prompts /\ Kind(w) = "timer"
  BY <1>1, KindOfWrite
<1>0. mem' \in Memory
  BY <1>1, LandsBase DEF Base
<1> HIDE DEF w, m, f
<1>4. CASE f \in Owners /\ Kind(w) = "mark"
  <2>1. n = [m EXCEPT !.run[f].at = "attach"]
    BY <1>4, LandedIs DEF Landed
  <2>2. Attaches(m, n, f)
    BY <1>2, <1>4, <2>1, MarkLands
  <2>3. f \in Owners /\ mem.run[f].at = "mark"
    BY <1>3, <1>4
  <2> QED BY <1>1, <2>2, <2>3 DEF w, m, f
<1>5. CASE f \in Owners /\ Kind(w) = "clear"
  <2>1. n = TurnOver(m, f)
    BY <1>5, LandedIs DEF Landed
  <2>2. PICK k : /\ Ended(m, k, f)
                 /\ n = IF Unfinished(m, f) /\ ~m.run[f].nudge
                          THEN SendTurn(k, f, m.run[f].prompt, TRUE)
                          ELSE Return(k, f)
    BY <1>2, <1>5, <2>1, TurnOverEnds
  <2>3. k \in Memory /\ Chain(Rest(k, f)) /\ k.state = m.state
    BY <1>2, <1>5, <2>2, EndedChain DEF Ended
  <2>4. m.run[f].prompt \in Entries
    BY <1>2, <1>5 DEF Memory, Run
  <2>5. IF Unfinished(m, f) /\ ~m.run[f].nudge
          THEN Begins(k, n, f, m.run[f].prompt, TRUE)
          ELSE n = Return(k, f) /\ Drains(Rest(k, f), n, m.state)
    BY <1>5, <2>2, <2>3, <2>4, SendTurnBegins, ReturnDrains
  <2>6. f \in Owners /\ mem.run[f].at = "clear"
    BY <1>3, <1>5
  <2> HIDE DEF n
  <2> QED BY <1>1, <2>2, <2>3, <2>5, <2>6 DEF w, m, f
<1>6. CASE f \notin Owners /\ Kind(w) \in {"prompt", "resume"}
  <2> DEFINE r == f \in Prompts /\ m.resuming
             k == [m EXCEPT !.recovering = FALSE, !.resuming = r]
  <2>1. n = Drain(k)
    <3>1. CASE Kind(w) = "prompt"
      <4>1. n = Drain([m EXCEPT !.recovering = FALSE]) /\ r = m.resuming
        <5>1. n = Drain([m EXCEPT !.recovering = FALSE])
          BY <3>1, LandedIs, Zenon
        <5>2. m.resuming \in BOOLEAN /\ f \in Prompts
          BY <1>2, <1>3, <3>1 DEF Memory
        <5> QED BY <5>1, <5>2
      <4>2. [m EXCEPT !.recovering = FALSE, !.resuming = m.resuming]
              = [m EXCEPT !.recovering = FALSE]
        BY <1>2 DEF Memory
      <4> QED BY <4>1, <4>2
    <3>2. CASE Kind(w) = "resume"
      <4>1. n = Drain([m EXCEPT !.recovering = FALSE, !.resuming = FALSE])
        BY <3>2, LandedIs, Zenon
      <4>2. r = FALSE
        BY <1>3, <3>2
      <4> QED BY <4>1, <4>2
    <3> QED BY <1>6, <3>1, <3>2
  <2>2. r \in BOOLEAN
    OBVIOUS
  <2> HIDE DEF r
  <2>3. SameWork(m, k) /\ ~k.recovering /\ k.resuming = r /\ k.busy = m.busy
    BY <1>2, <2>2, RecoveredWork
  <2> HIDE DEF k, n
  <2>4. Base(k) /\ k.state = m.state
    BY <1>2, <1>6, <2>3 DEF SameWork, Base, Chain
  <2>5. Drains(k, n, m.state)
    BY <2>1, <2>4, DrainDrains
  <2>6. f \in Prompts \cup {"resume"}
    BY <1>3, <1>6
  <2> QED BY <1>1, <1>6, <2>1, <2>3, <2>4, <2>5, <2>6 DEF w, m, f, r
<1>7. CASE f \notin Owners /\ Kind(w) = "timer"
  <2>1. n = m
    BY <1>7, LandedIs, Zenon
  <2> QED BY <1>1, <1>3, <1>7, <2>1 DEF w, m, f
<1> QED BY <1>3, <1>4, <1>5, <1>6, <1>7

LEMMA FailsHow ==
  ASSUME Base(mem), WriteFails
  PROVE  LET w == Head(mem.writes)
             m == Shorter(mem)
             f == w.by
         IN  /\ mem.writes # <<>> /\ disk' \in {disk, w.record}
             /\ UNCHANGED <<typed, sent, accepted>>
             /\ \/ /\ f \in Owners /\ mem.run[f].at = "mark" /\ "mark" \in FailingWrites
                   /\ \E k : /\ SameWork(m, k) /\ ~k.busy /\ k.recovering
                             /\ k.resuming = m.resuming /\ Chain(Rest(k, f))
                             /\ Drains(Rest(k, f), mem', IF f = "start" THEN "draft" ELSE m.state)
                             /\ f = "drain" => Quiet(Rest(k, f), mem')
                \/ /\ f \in Owners /\ mem.run[f].at = "clear" /\ "clear" \in FailingWrites
                   /\ Chain(Rest(m, f))
                   /\ Drains(Rest(m, f), mem', IF f = "start" THEN "draft" ELSE m.state)
                \/ f \notin Owners /\ f \in Prompts /\ "prompt" \in FailingWrites /\ mem' = m
                \/ f \notin Owners /\ f = "timer" /\ mem' = m
                \/ f = "resume" /\ "resume" \in FailingWrites
<1> DEFINE w == Head(mem.writes)
           m == Shorter(mem)
           f == w.by
           n == Rejected(m, f, Kind(w))
<1>1. /\ mem.writes # <<>> /\ disk' \in {disk, w.record} /\ mem' = n
      /\ UNCHANGED <<typed, sent, accepted>> /\ Kind(w) \in FailingWrites
  BY DEF WriteFails, Shorter
<1>2. /\ m \in Memory /\ m.run = mem.run
      /\ f \in Owners => Chain(Rest(m, f))
      /\ f \notin Owners => Chain(m)
  BY <1>1, HeadOff
<1>3. \/ f \in Owners /\ Kind(w) = mem.run[f].at /\ Kind(w) \in {"mark", "clear"}
      \/ f \in Prompts /\ f \notin Owners /\ Kind(w) = "prompt"
      \/ f = "resume" /\ f \notin Owners /\ f \notin Prompts /\ Kind(w) = "resume"
      \/ f = "timer" /\ f \notin Owners /\ f \notin Prompts /\ Kind(w) = "timer"
  BY <1>1, KindOfWrite
<1> HIDE DEF w, m, f
<1>4. CASE f \in Owners /\ Kind(w) = "mark"
  <2> DEFINE k == [m EXCEPT !.busy = FALSE, !.recovering = TRUE]
  <2>1. n = Throw(k, f)
    BY <1>4, RejectedIs DEF Rejected
  <2>2. SameWork(m, k) /\ ~k.busy /\ k.recovering /\ k.resuming = m.resuming
    <3>1. k \in Memory
      BY <1>2 DEF Memory
    <3> QED BY <1>2, <3>1 DEF Memory, SameWork
  <2> HIDE DEF k, n
  <2>3. k \in Memory /\ k.state = m.state
    BY <2>2 DEF SameWork
  <2>4. /\ Rest(k, f).writes = Rest(m, f).writes
        /\ Rest(k, f).draining = Rest(m, f).draining
        /\ \A g \in Owners : Rest(k, f).run[g] = Rest(m, f).run[g]
    BY <1>2, <1>4, <2>2, RestMemory DEF SameQueue, SameWork
  <2>5. Chain(Rest(k, f))
    BY <1>2, <1>4, <2>4 DEF Chain, Owners
  <2>6. /\ Drains(Rest(k, f), n, IF f = "start" THEN "draft" ELSE m.state)
        /\ f = "drain" => Quiet(Rest(k, f), n)
    BY <1>4, <2>1, <2>3, <2>5, ThrowDrains
  <2>7. f \in Owners /\ mem.run[f].at = "mark"
    BY <1>3, <1>4
  <2> QED BY <1>1, <1>4, <2>2, <2>5, <2>6, <2>7 DEF w, m, f
<1>5. CASE f \in Owners /\ Kind(w) = "clear"
  <2>1. n = Throw(m, f)
    BY <1>5, RejectedIs DEF Rejected
  <2> HIDE DEF n
  <2>2. Drains(Rest(m, f), n, IF f = "start" THEN "draft" ELSE m.state)
    BY <1>2, <1>5, <2>1, ThrowDrains
  <2>3. f \in Owners /\ mem.run[f].at = "clear"
    BY <1>3, <1>5
  <2> QED BY <1>1, <1>2, <1>5, <2>2, <2>3 DEF w, m, f
<1>6. CASE f \notin Owners /\ Kind(w) \in {"prompt", "timer"}
  <2>1. n = m
    BY <1>6, RejectedIs, Zenon
  <2> QED BY <1>1, <1>3, <1>6, <2>1 DEF w, m, f
<1>7. CASE f \notin Owners /\ Kind(w) = "resume"
  BY <1>1, <1>3, <1>7 DEF w, m, f
<1> QED BY <1>3, <1>4, <1>5, <1>6, <1>7

-----------------------------------------------------------------------------
(* What was accepted is safe.                                              *)

(* A message has one write, and is accepted by it; from then on the file    *)
(* and every write to come hold it for as long as it is queued.             *)
Safe(m, d, acc, t) ==
  /\ acc \subseteq Range(t) \cap Prompts
  /\ \A i \in DOMAIN m.writes :
       m.writes[i].by \in Prompts => m.writes[i].by \in Range(t) /\ m.writes[i].by \notin acc
  /\ \A i, j \in DOMAIN m.writes :
       m.writes[i].by \in Prompts /\ m.writes[i].by = m.writes[j].by => i = j
  /\ \A p \in acc \cap Range(m.pending) :
       /\ p \in Range(d.pending)
       /\ \A i \in DOMAIN m.writes : p \in Range(m.writes[i].record.pending)
  /\ \A i, j \in DOMAIN m.writes :
       i <= j /\ m.writes[i].by \in Prompts /\ m.writes[i].by \in Range(m.pending)
         => m.writes[i].by \in Range(m.writes[j].record.pending)

(* No message joins the queue. *)
Less(m, n) == Range(n.pending) \cap Prompts \subseteq Range(m.pending)

LEMMA SafeLess ==
  ASSUME NEW m, NEW n, NEW d, NEW acc, NEW t, Safe(m, d, acc, t),
         n.writes = m.writes, Less(m, n)
  PROVE  Safe(n, d, acc, t)
BY DEF Safe, Less

LEMMA SafeAsks ==
  ASSUME NEW m \in Memory, NEW n, NEW d, NEW acc, NEW t, NEW u, NEW r \in ByRecord,
         Safe(m, d, acc, t), n.writes = Append(m.writes, r),
         r.record.pending = n.pending, Range(t) \subseteq Range(u),
         Range(n.pending) \cap Prompts \subseteq Range(m.pending) \cup {r.by},
         r.by \in Prompts => r.by \in Range(u) /\ r.by \notin Range(t)
  PROVE  Safe(n, d, acc, u)
<1>1. m.writes \in Seq(ByRecord)
  BY DEF Memory, ByRecord, Bys
<1>2. /\ DOMAIN n.writes = DOMAIN m.writes \cup {Len(m.writes) + 1}
      /\ n.writes[Len(m.writes) + 1] = r
      /\ \A i \in DOMAIN m.writes : i < Len(m.writes) + 1 /\ n.writes[i] = m.writes[i]
      /\ DOMAIN m.writes \subseteq Nat /\ Len(m.writes) + 1 \in Nat
  BY <1>1, AppendElements
<1>3. /\ acc \subseteq Range(u) \cap Prompts
      /\ \A i \in DOMAIN n.writes :
           n.writes[i].by \in Prompts =>
             n.writes[i].by \in Range(u) /\ n.writes[i].by \notin acc
  BY <1>2 DEF Safe
<1>4. \A i, j \in DOMAIN n.writes :
        n.writes[i].by \in Prompts /\ n.writes[i].by = n.writes[j].by => i = j
  BY <1>2 DEF Safe
<1>5. ASSUME NEW p \in acc \cap Range(n.pending)
      PROVE  /\ p \in Range(d.pending)
             /\ \A i \in DOMAIN n.writes : p \in Range(n.writes[i].record.pending)
  <2>1. p \in Range(m.pending)
    BY DEF Safe
  <2> QED BY <1>2, <2>1 DEF Safe
<1>6. ASSUME NEW i \in DOMAIN n.writes, NEW j \in DOMAIN n.writes, i <= j,
             n.writes[i].by \in Prompts, n.writes[i].by \in Range(n.pending)
      PROVE  n.writes[i].by \in Range(n.writes[j].record.pending)
  <2>1. CASE j = Len(m.writes) + 1
    BY <1>2, <1>6, <2>1
  <2>2. CASE j # Len(m.writes) + 1
    <3>1. /\ j \in DOMAIN m.writes /\ i \in DOMAIN m.writes /\ n.writes[i] = m.writes[i]
          /\ n.writes[j] = m.writes[j]
      BY <1>2, <1>6, <2>2
    <3>2. m.writes[i].by \in Range(m.pending)
      BY <1>6, <3>1 DEF Safe
    <3> QED BY <1>6, <3>1, <3>2 DEF Safe
  <2> QED BY <2>1, <2>2
<1> QED BY <1>3, <1>4, <1>5, <1>6 DEF Safe

LEMMA SafeTurn ==
  ASSUME NEW m \in Memory, NEW n, NEW d, NEW acc, NEW t, NEW f \in Owners,
         Safe(m, d, acc, t), n.pending = m.pending,
         n.writes = m.writes \/ \E r \in ByRecord : /\ n.writes = Append(m.writes, r)
                                                    /\ r.by = f /\ r.record.pending = m.pending
  PROVE  Safe(n, d, acc, t)
<1>1. f \notin Prompts /\ Less(m, n)
  BY TurnAssumption DEF Owners, Less
<1>2. CASE n.writes = m.writes
  BY <1>1, <1>2, SafeLess
<1>3. CASE \E r \in ByRecord : /\ n.writes = Append(m.writes, r)
                               /\ r.by = f /\ r.record.pending = m.pending
  BY <1>1, <1>3, SafeAsks DEF Less
<1> QED BY <1>2, <1>3

LEMMA SafeDrains ==
  ASSUME NEW m \in Memory, NEW n, NEW d, NEW acc, NEW t, NEW state,
         Safe(m, d, acc, t), Drains(m, n, state)
  PROVE  Safe(n, d, acc, t)
<1>1. CASE Quiet(m, n)
  BY <1>1, SafeLess DEF Quiet, Less
<1>2. CASE Pulls(m, n)
  <2>1. Less(m, n)
    <3>1. m.pending \in Seq(Entries) /\ m.pending # <<>> /\ n.pending = Tail(m.pending)
      BY <1>2 DEF Memory, Pulls, Ready
    <3> QED BY <3>1, TailElements DEF Less, Range
  <2>2. CASE n.writes = m.writes
    BY <2>1, <2>2, SafeLess
  <2>3. CASE \E r \in ByRecord : /\ n.writes = Append(m.writes, r) /\ r.by = "drain"
                                 /\ r.record.pending = n.pending
    <3>1. "drain" \notin Prompts
      BY TurnAssumption
    <3> QED BY <2>1, <2>3, <3>1, SafeAsks DEF Less
  <2> QED BY <1>2, <2>2, <2>3 DEF Pulls
<1> QED BY <1>1, <1>2 DEF Drains

(* The write at the head of the chain is on disk, and its caller knows ... *)
LEMMA SafeLanded ==
  ASSUME Base(mem), mem.writes # <<>>, Safe(mem, disk, accepted, typed)
  PROVE  LET w == Head(mem.writes)
         IN  Safe(Shorter(mem), w.record, accepted \cup ({w.by} \cap Prompts), typed)
<1> DEFINE w == Head(mem.writes)
           m == Shorter(mem)
           acc == accepted \cup ({w.by} \cap Prompts)
<1> SUFFICES Safe(m, w.record, acc, typed)
  OBVIOUS
<1>1. /\ 1 \in DOMAIN mem.writes /\ w = mem.writes[1] /\ m.pending = mem.pending
      /\ \A i \in DOMAIN m.writes :
           i + 1 \in DOMAIN mem.writes /\ i \in Nat /\ 1 <= i
           /\ m.writes[i] = mem.writes[i + 1]
  BY HeadOff DEF SameQueue
<1> HIDE DEF w, m
<1>2. \A i \in DOMAIN m.writes : i + 1 # 1 /\ 1 <= i + 1
  BY <1>1
<1>3. acc \subseteq Range(typed) \cap Prompts
  BY <1>1 DEF Safe
<1>4. \A i \in DOMAIN m.writes :
        m.writes[i].by \in Prompts => m.writes[i].by \in Range(typed) /\ m.writes[i].by \notin acc
  BY <1>1, <1>2 DEF Safe
<1>5. ASSUME NEW i \in DOMAIN m.writes, NEW j \in DOMAIN m.writes,
             m.writes[i].by \in Prompts, m.writes[i].by = m.writes[j].by
      PROVE  i = j
  <2>1. i + 1 = j + 1
    BY <1>1, <1>5 DEF Safe
  <2> QED BY <1>1, <2>1
<1>6. ASSUME NEW p \in acc \cap Range(m.pending)
      PROVE  /\ p \in Range(w.record.pending)
             /\ \A i \in DOMAIN m.writes : p \in Range(m.writes[i].record.pending)
  <2>1. CASE p \in accepted
    BY <1>1, <1>6, <2>1 DEF Safe
  <2>2. CASE p = w.by /\ p \in Prompts
    <3>1. 1 <= 1
      OBVIOUS
    <3> QED BY <1>1, <1>2, <2>2, <3>1 DEF Safe
  <2> QED BY <2>1, <2>2
<1>7. ASSUME NEW i \in DOMAIN m.writes, NEW j \in DOMAIN m.writes, i <= j,
             m.writes[i].by \in Prompts, m.writes[i].by \in Range(m.pending)
      PROVE  m.writes[i].by \in Range(m.writes[j].record.pending)
  <2>1. i + 1 <= j + 1
    BY <1>1, <1>7
  <2> QED BY <1>1, <1>7, <2>1 DEF Safe
<1> QED BY <1>3, <1>4, <1>5, <1>6, <1>7 DEF Safe

(* ... or it failed, and may be on disk all the same. *)
LEMMA SafeFailed ==
  ASSUME Base(mem), mem.writes # <<>>, Safe(mem, disk, accepted, typed),
         NEW d \in {disk, Head(mem.writes).record}
  PROVE  Safe(Shorter(mem), d, accepted, typed)
<1> DEFINE w == Head(mem.writes)
           m == Shorter(mem)
<1>1. /\ m.pending = mem.pending /\ 1 \in DOMAIN mem.writes /\ w = mem.writes[1]
  BY HeadOff DEF SameQueue
<1>2. Safe(m, w.record, accepted \cup ({w.by} \cap Prompts), typed)
  BY SafeLanded
<1> HIDE DEF w, m
<1>3. \A p \in accepted \cap Range(m.pending) : p \in Range(d.pending)
  <2>1. \A p \in accepted \cap Range(mem.pending) :
          p \in Range(disk.pending) /\ p \in Range(w.record.pending)
    BY <1>1 DEF Safe
  <2> QED BY <1>1, <2>1 DEF w
<1> QED BY <1>2, <1>3 DEF Safe, m

(* A write that no turn asks for, seen from the queue. *)
LEMMA AskIs ==
  ASSUME NEW k, Base(k), NEW by \in Bys, NEW n, n = Write(k, by)
  PROVE  /\ n \in Memory /\ SameQueue(k, n) /\ n.run = k.run /\ n.busy = k.busy
         /\ n.interrupted = k.interrupted /\ n.incomplete = k.incomplete
         /\ n.turnComplete = k.turnComplete /\ n.announced = k.announced
         /\ \E r \in ByRecord :
              /\ n.writes = Append(k.writes, r) /\ r.by = by
              /\ r.record.state = k.state /\ r.record.contract = k.contract
              /\ r.record.pending = k.pending /\ r.record.interrupted = k.interrupted
<1>1. k \in Memory
  BY DEF Base
<1>2. /\ n \in Memory /\ n.writes = Append(k.writes, [by |-> by, record |-> Snapshot(k)])
      /\ [by |-> by, record |-> Snapshot(k)] \in ByRecord
      /\ n = [k EXCEPT !.writes = n.writes]
  BY <1>1, WriteAsks
<1>3. /\ SameQueue(k, n) /\ n.run = k.run /\ n.busy = k.busy
      /\ n.interrupted = k.interrupted /\ n.incomplete = k.incomplete
      /\ n.turnComplete = k.turnComplete /\ n.announced = k.announced
  BY <1>1, <1>2 DEF SameQueue, Memory
<1>4. /\ Snapshot(k).state = k.state /\ Snapshot(k).contract = k.contract
      /\ Snapshot(k).pending = k.pending /\ Snapshot(k).interrupted = k.interrupted
  BY <1>1, SnapshotRecord
<1> QED BY <1>2, <1>3, <1>4

(* The continuation goes first. *)
LEMMA AutoFirst ==
  ASSUME NEW q \in Seq(Entries)
  PROVE  LET s == <<"auto">> \o q
         IN  /\ s \in Seq(Entries) /\ Range(s) \cap Prompts \subseteq Range(q)
             /\ Len(s) = Len(q) + 1 /\ s[1] = "auto"
             /\ \A i \in DOMAIN q : s[i + 1] = q[i]
             /\ \A i \in DOMAIN s : i # 1 => i - 1 \in DOMAIN q /\ s[i] = q[i - 1]
<1> DEFINE s == <<"auto">> \o q
<1>1. <<"auto">> \in Seq(Entries)
  BY DEF Entries
<1>2. s \in Seq(Entries)
  BY <1>1, ConcatProperties
<1>3. /\ Len(s) = Len(q) + 1 /\ s[1] = "auto"
      /\ \A i \in DOMAIN q : s[i + 1] = q[i]
      /\ \A i \in DOMAIN s : i # 1 => i - 1 \in DOMAIN q /\ s[i] = q[i - 1]
  OBVIOUS
<1>4. Range(s) \cap Prompts \subseteq Range(q)
  BY <1>3, TurnAssumption DEF Range
<1> QED BY <1>2, <1>3, <1>4

LEMMA QueueOfPrompt ==
  ASSUME NEW q \in Seq(Entries), NEW p \in Prompts
  PROVE  Range(Append(Without(q, "auto"), p)) \subseteq Range(q) \cup {p}
<1>1. Without(q, "auto") \in Seq(Entries) /\ Range(Without(q, "auto")) \subseteq Range(q)
  BY WithoutElements
<1> DEFINE w == Without(q, "auto")
<1>2. w \in Seq(Entries) /\ p \in Entries
  BY <1>1 DEF Entries
<1> HIDE DEF w
<1>3. /\ DOMAIN Append(w, p) = DOMAIN w \cup {Len(w) + 1} /\ Append(w, p)[Len(w) + 1] = p
      /\ \A i \in DOMAIN w : Append(w, p)[i] = w[i]
  BY <1>2, AppendElements
<1>4. Range(Append(w, p)) \subseteq Range(w) \cup {p}
  BY <1>3 DEF Range
<1> QED BY <1>1, <1>4 DEF w

LEMMA NextKeepsSafe ==
  ASSUME "resume" \notin FailingWrites, Base(mem), disk \in Record, typed \in Seq(Prompts),
         Safe(mem, disk, accepted, typed), Next
  PROVE  Safe(mem', disk', accepted', typed')
<1> USE DEF history, bounds
<1>0. mem \in Memory /\ mem' \in Memory /\ mem.pending \in Seq(Entries)
  BY NextKeepsBase DEF Base, Memory
<1>1. CASE RunNow
  <2>1. mem'.writes = mem.writes /\ mem'.pending = mem.pending
    BY <1>0, <1>1 DEF RunNow, Memory
  <2>2. Safe(mem', disk, accepted, typed)
    BY <2>1, SafeLess DEF Less
  <2> QED BY <1>1, <2>2 DEF RunNow
<1>2. CASE Opened
  <2> DEFINE k == [mem EXCEPT !.persist = TRUE]
  <2>1. k \in Memory /\ k.pending = mem.pending /\ k.writes = mem.writes
    BY <1>0 DEF Memory
  <2>2. mem' = SendTurn(k, "start", "first", FALSE)
    BY <1>2 DEF Opened
  <2> HIDE DEF k
  <2>3. Begins(k, mem', "start", "first", FALSE) /\ "start" \in Owners
    BY <2>1, <2>2, SendTurnBegins DEF Owners, Entries
  <2>4. Safe(k, disk, accepted, typed)
    BY <2>1, SafeLess DEF Less
  <2>5. Safe(mem', disk, accepted, typed)
    BY <2>1, <2>3, <2>4, SafeTurn DEF Begins, Marks, SameQueue
  <2> QED BY <1>2, <2>5 DEF Opened
<1>3. CASE ResumeInterrupted
  <2>1. PICK k : /\ Base(k) /\ mem' = Write(k, "resume") /\ "resume" \in Bys \ Owners
                 /\ k.pending = IF mem.interrupted THEN <<"auto">> \o mem.pending
                                ELSE mem.pending
                 /\ k.writes = mem.writes
    BY <1>3, ResumeAsks
  <2>2. Less(mem, k)
    BY <1>0, <2>1, AutoFirst DEF Less
  <2>3. Safe(k, disk, accepted, typed) /\ "resume" \notin Prompts
    BY <2>1, <2>2, SafeLess, TurnAssumption
  <2>4. PICK r \in ByRecord :
          /\ mem'.writes = Append(k.writes, r) /\ r.by = "resume"
          /\ r.record.pending = k.pending /\ mem'.pending = k.pending
    BY <2>1, AskIs DEF SameQueue
  <2>5. Safe(mem', disk, accepted, typed)
    BY <2>1, <2>3, <2>4, SafeAsks DEF Base
  <2> QED BY <1>3, <2>5 DEF ResumeInterrupted
<1>4. CASE ClearPending
  <2>1. PICK b \in BOOLEAN :
          mem' = [mem EXCEPT !.pending = <<>>, !.blocked = b, !.persist = TRUE]
    BY <1>4, ClearPendingEdits
  <2>2. mem'.pending = <<>> /\ mem'.writes = mem.writes
    BY <1>0, <2>1 DEF Memory
  <2>3. Less(mem, mem')
    BY <2>2 DEF Less, Range
  <2> QED BY <1>4, <2>2, <2>3, SafeLess DEF ClearPending
<1>5. ASSUME NEW p \in Prompts, Prompt(p) PROVE Safe(mem', disk', accepted', typed')
  <2>1. PICK k : /\ Base(k) /\ mem' = Write(k, p) /\ p \in Bys \ Owners
                 /\ k.pending = Append(Without(mem.pending, "auto"), p)
                 /\ k.writes = mem.writes
    BY <1>5, PromptAsks
  <2>2. PICK r \in ByRecord :
          /\ mem'.writes = Append(k.writes, r) /\ r.by = p /\ r.record.pending = k.pending
          /\ mem'.pending = k.pending
    BY <2>1, AskIs DEF SameQueue
  <2>3. Range(mem'.pending) \subseteq Range(mem.pending) \cup {p}
    BY <1>0, <2>1, <2>2, QueueOfPrompt
  <2>4. Range(typed) \subseteq Range(typed') /\ p \in Range(typed') /\ p \notin Range(typed)
    BY <1>5, AppendElements DEF Prompt, Range
  <2>5. Safe(mem', disk, accepted, typed')
    BY <1>0, <2>1, <2>2, <2>3, <2>4, SafeAsks
  <2> QED BY <1>5, <2>5 DEF Prompt
<1>6. ASSUME NEW p, CancelPending(p) PROVE Safe(mem', disk', accepted', typed')
  <2>1. PICK b \in BOOLEAN :
          mem' = [mem EXCEPT !.pending = Without(mem.pending, p), !.blocked = b,
                             !.persist = TRUE]
    BY <1>6, CancelPendingEdits
  <2>2. mem'.pending = Without(mem.pending, p) /\ mem'.writes = mem.writes
    BY <1>0, <2>1 DEF Memory
  <2>3. Less(mem, mem')
    BY <1>0, <2>2, WithoutElements DEF Less
  <2> QED BY <1>6, <2>2, <2>3, SafeLess DEF CancelPending
<1>7. ASSUME NEW f \in Owners, Turn(f) \/ Completes(f)
      PROVE  Safe(mem', disk', accepted', typed')
  <2>1. CASE Masked(f)
    <3>1. SameQueue(mem, mem') /\ Marks(mem, mem', f)
      BY <1>0, <2>1, MarkTurnMarks DEF Masked
    <3>2. Safe(mem', disk, accepted, typed)
      BY <1>0, <3>1, SafeTurn DEF Marks, SameQueue
    <3> QED BY <2>1, <3>2 DEF Masked
  <2>2. CASE Attached(f)
    <3>1. mem'.pending = mem.pending /\ mem'.writes = mem.writes
      BY <2>2, AttachedBase DEF SameQueue
    <3> QED BY <2>2, <3>1, SafeLess DEF Attached, Less
  <2>3. CASE AttachFails(f) \/ TurnStops(f)
    <3>1. PICK o \in Outcomes : mem' = ClearTurn(mem, f, o)
      BY <2>3 DEF AttachFails, TurnStops, Outcomes
    <3>2. Clears(mem, mem', f)
      BY <1>0, <3>1, ClearTurnClears
    <3>3. Safe(mem', disk, accepted, typed)
      BY <1>0, <3>2, SafeTurn DEF Clears, SameQueue
    <3> QED BY <2>3, <3>3 DEF AttachFails, TurnStops
  <2>4. CASE Completes(f)
    <3>1. mem'.pending = mem.pending /\ mem'.writes = mem.writes
      BY <2>4, CompletesBase DEF SameQueue
    <3>2. Safe(mem', disk, accepted, typed)
      BY <3>1, SafeLess DEF Less
    <3> QED BY <2>4, <3>2 DEF Completes
  <2> QED BY <1>7, <2>1, <2>2, <2>3, <2>4 DEF Turn
<1>8. CASE Block
  <2>1. mem'.writes = mem.writes /\ mem'.pending = mem.pending
    BY <1>8, HeldBase DEF Block
  <2> QED BY <1>8, <2>1, SafeLess DEF Block, Less
<1>9. CASE Unblock
  <2> DEFINE k == [mem EXCEPT !.blocked = FALSE]
  <2>1. Base(k) /\ k.pending = mem.pending /\ k.writes = mem.writes
    BY HeldBase
  <2>2. mem' = Drain(k)
    BY <1>9 DEF Unblock
  <2> HIDE DEF k
  <2>3. Safe(k, disk, accepted, typed)
    BY <2>1, SafeLess DEF Less
  <2>4. Safe(mem', disk, accepted, typed)
    BY <2>1, <2>2, <2>3, DrainDrains, SafeDrains DEF Base
  <2> QED BY <1>9, <2>4 DEF Unblock
<1>10. CASE Pass
  <2>1. Safe(mem', disk, accepted, typed)
    BY <1>0, <1>10, DrainDrains, SafeDrains DEF Pass
  <2> QED BY <1>10, <2>1 DEF Pass
<1>11. CASE PersistTimer
  <2>1. PICK k : /\ Base(k) /\ mem' = Write(k, "timer") /\ "timer" \in Bys \ Owners
                 /\ k.pending = mem.pending /\ k.writes = mem.writes
    BY <1>11, TimerAsks
  <2>2. Safe(k, disk, accepted, typed) /\ "timer" \notin Prompts
    BY <2>1, SafeLess, TurnAssumption DEF Less
  <2>3. PICK r \in ByRecord :
          /\ mem'.writes = Append(k.writes, r) /\ r.by = "timer"
          /\ r.record.pending = k.pending /\ mem'.pending = k.pending
    BY <2>1, AskIs DEF SameQueue
  <2>4. Safe(mem', disk, accepted, typed)
    BY <2>1, <2>2, <2>3, SafeAsks DEF Base
  <2> QED BY <1>11, <2>4 DEF PersistTimer
<1>12. CASE WriteLands
  <2> DEFINE w == Head(mem.writes)
             m == Shorter(mem)
             f == w.by
  <2>1. /\ mem.writes # <<>> /\ disk' = w.record /\ UNCHANGED typed
        /\ accepted' = accepted \cup ({f} \cap Prompts)
    BY <1>12, LandsHow
  <2>2. Safe(m, disk', accepted', typed') /\ m \in Memory
    BY <2>1, SafeLanded, HeadOff
  <2>3. \/ f \in Owners /\ Attaches(m, mem', f)
        \/ /\ f \in Owners
           /\ \E k : /\ Ended(m, k, f)
                     /\ \/ Begins(k, mem', f, m.run[f].prompt, TRUE)
                        \/ Drains(Rest(k, f), mem', m.state)
        \/ \E k : SameWork(m, k) /\ Drains(k, mem', m.state)
        \/ mem' = m
    BY <1>12, LandsHow
  <2> HIDE DEF w, m, f
  <2>4. CASE f \in Owners /\ Attaches(m, mem', f)
    BY <2>2, <2>4, SafeLess DEF Attaches, SameQueue, Less
  <2>5. ASSUME f \in Owners, NEW k, Ended(m, k, f),
               \/ Begins(k, mem', f, m.run[f].prompt, TRUE)
               \/ Drains(Rest(k, f), mem', m.state)
        PROVE  Safe(mem', disk', accepted', typed')
    <3>1. k \in Memory /\ k.writes = m.writes
          /\ k.pending \in {m.pending, <<"auto">>}
      BY <2>5 DEF Ended
    <3>2. Less(m, k)
      BY <3>1, TurnAssumption DEF Less, Range
    <3>3. Safe(k, disk', accepted', typed')
      BY <2>2, <3>1, <3>2, SafeLess
    <3>4. CASE Begins(k, mem', f, m.run[f].prompt, TRUE)
      BY <2>5, <3>1, <3>3, <3>4, SafeTurn DEF Begins, Marks, SameQueue
    <3>5. CASE Drains(Rest(k, f), mem', m.state)
      <4>1. Rest(k, f) \in Memory /\ Rest(k, f).pending = k.pending
            /\ Rest(k, f).writes = k.writes
        BY <2>5, <3>1, RestMemory DEF SameQueue
      <4>2. Safe(Rest(k, f), disk', accepted', typed')
        BY <3>3, <4>1, SafeLess DEF Less
      <4> QED BY <3>5, <4>1, <4>2, SafeDrains
    <3> QED BY <2>5, <3>4, <3>5
  <2>6. ASSUME NEW k, SameWork(m, k), Drains(k, mem', m.state)
        PROVE  Safe(mem', disk', accepted', typed')
    <3>1. Safe(k, disk', accepted', typed') /\ k \in Memory
      BY <2>2, <2>6, SafeLess DEF SameWork, Less
    <3> QED BY <2>6, <3>1, SafeDrains
  <2> QED BY <2>2, <2>3, <2>4, <2>5, <2>6
<1>13. CASE WriteFails
  <2> DEFINE w == Head(mem.writes)
             m == Shorter(mem)
             f == w.by
  <2>1. /\ mem.writes # <<>> /\ disk' \in {disk, w.record} /\ UNCHANGED <<typed, accepted>>
    BY <1>13, FailsHow
  <2>2. Safe(m, disk', accepted', typed') /\ m \in Memory
    BY <2>1, SafeFailed, HeadOff
  <2>3. \/ f \in Owners /\ \E k, s : SameWork(m, k) /\ Drains(Rest(k, f), mem', s)
        \/ f \in Owners /\ \E s : Drains(Rest(m, f), mem', s)
        \/ mem' = m
    BY <1>13, FailsHow
  <2> HIDE DEF w, m, f
  <2>4. ASSUME f \in Owners, NEW k, NEW s, SameWork(m, k) \/ k = m, Drains(Rest(k, f), mem', s)
        PROVE  Safe(mem', disk', accepted', typed')
    <3>1. k \in Memory /\ k.pending = m.pending /\ k.writes = m.writes
      BY <2>2, <2>4 DEF SameWork
    <3>2. Rest(k, f) \in Memory /\ Rest(k, f).pending = k.pending
          /\ Rest(k, f).writes = k.writes
      BY <2>4, <3>1, RestMemory DEF SameQueue
    <3>3. Safe(Rest(k, f), disk', accepted', typed')
      BY <2>2, <3>1, <3>2, SafeLess DEF Less
    <3> QED BY <2>4, <3>2, <3>3, SafeDrains
  <2> QED BY <2>2, <2>3, <2>4
<1>14. CASE Crash
  <2>1. mem'.writes = <<>> /\ mem'.pending = disk'.pending
    BY <1>14, NextKeepsBase, RestoredBase DEF Crash
  <2>2. UNCHANGED <<accepted, typed>>
    BY <1>14 DEF Crash
  <2> QED BY <2>1, <2>2 DEF Safe
<1> QED BY <1>1, <1>2, <1>3, <1>4, <1>5, <1>6, <1>7, <1>8, <1>9, <1>10, <1>11,
           <1>12, <1>13, <1>14 DEF Next

(* Once prompt() has returned, a crash brings the message back for as long   *)
(* as its turn has not begun, however the writes of the turns, the queue and *)
(* the timer are mixed and fail.  The write of a recovery is the exception:  *)
(* when it fails, the queue of before it comes back and what the user        *)
(* cancelled or the loop sent in between with it, while the file has moved   *)
(* on.                                                                       *)
THEOREM AcceptedStaySafe ==
  ASSUME "resume" \notin FailingWrites
  PROVE  Spec => []AcceptedIsSafe
<1> DEFINE Inv == Safe(mem, disk, accepted, typed)
<1>1. Init => Inv
  <2> SUFFICES ASSUME Init PROVE Inv
    OBVIOUS
  <2>1. mem.writes = <<>> /\ accepted = {}
    BY InitBase, RestoredBase DEF Init
  <2> QED BY <2>1 DEF Safe
<1>2. Inv /\ Base(mem) /\ disk \in Record /\ TypeOK /\ [Next]_vars => Inv'
  <2> SUFFICES ASSUME Inv, Base(mem), disk \in Record, TypeOK, [Next]_vars PROVE Inv'
    OBVIOUS
  <2>1. CASE Next
    BY <2>1, NextKeepsSafe DEF TypeOK
  <2>2. CASE UNCHANGED vars
    BY <2>2 DEF vars, history, Safe
  <2> QED BY <2>1, <2>2
<1>3. Inv => AcceptedIsSafe
  BY DEF Safe, AcceptedIsSafe
<1> QED BY <1>1, <1>2, <1>3, AlwaysBase, TurnTypeCorrect, PTL DEF Spec

-----------------------------------------------------------------------------
(* The disk says that a turn is under way.                                 *)

(* The session is no draft.  A turn of the loop is none of a session that    *)
(* waits to be recovered; from its marker on, every write in the chain       *)
(* keeps the marker, and from its attach on so does the file.                *)
Marked(m, d) ==
  /\ m.state = "started" /\ d.state = "started" /\ m.run["start"].at = "none"
  /\ \A i \in DOMAIN m.writes : m.writes[i].record.state = "started"
  /\ m.run["drain"].at # "none" => ~m.recovering
  /\ m.run["drain"].at \in {"mark", "attach", "agent"} => m.interrupted
  /\ m.run["drain"].at = "mark" =>
       \A i, j \in DOMAIN m.writes :
         i <= j /\ m.writes[i].by = "drain" => m.writes[j].record.interrupted
  /\ m.run["drain"].at \in {"attach", "agent"} =>
       d.interrupted /\ \A i \in DOMAIN m.writes : m.writes[i].record.interrupted

LEMMA MarkedSame ==
  ASSUME NEW m, NEW n, NEW d, Marked(m, d), n.state = m.state, n.writes = m.writes,
         \A f \in Owners : n.run[f].at = m.run[f].at,
         n.recovering => m.recovering, m.interrupted => n.interrupted
  PROVE  Marked(n, d)
<1>1. n.run["start"].at = m.run["start"].at /\ n.run["drain"].at = m.run["drain"].at
  BY DEF Owners
<1> QED BY <1>1 DEF Marked

(* A write joins the chain that is no marker. *)
LEMMA MarkedAsks ==
  ASSUME NEW m \in Memory, NEW n, NEW d, NEW r \in ByRecord, Marked(m, d),
         n.writes = Append(m.writes, r), n.state = m.state, n.recovering = m.recovering,
         n.run = m.run, n.interrupted = m.interrupted,
         r.record.state = m.state, r.record.interrupted = n.interrupted, r.by # "drain"
  PROVE  Marked(n, d)
<1>1. m.writes \in Seq(ByRecord)
  BY DEF Memory, ByRecord, Bys
<1>2. /\ DOMAIN n.writes = DOMAIN m.writes \cup {Len(m.writes) + 1}
      /\ n.writes[Len(m.writes) + 1] = r
      /\ \A i \in DOMAIN m.writes : n.writes[i] = m.writes[i]
  BY <1>1, AppendElements
<1> QED BY <1>2 DEF Marked

(* The marker of the loop's turn, or no turn of it at all. *)
LEMMA MarkedWrites ==
  ASSUME NEW m, Base(m), NEW n, NEW d, NEW r \in ByRecord, Marked(m, d),
         m.run["drain"].at \notin {"mark", "clear"},
         n.writes = Append(m.writes, r), n.state = m.state, n.recovering = m.recovering,
         n.run["start"].at = "none", r.by = "drain", r.record.state = m.state,
         ~m.recovering,
         \/ n.interrupted /\ r.record.interrupted /\ n.run["drain"].at = "mark"
         \/ n.run["drain"].at = "clear"
  PROVE  Marked(n, d)
<1>1. m \in Memory /\ Chain(m) /\ m.writes \in Seq(ByRecord)
  BY DEF Base, Memory, ByRecord, Bys
<1>2. /\ DOMAIN n.writes = DOMAIN m.writes \cup {Len(m.writes) + 1}
      /\ n.writes[Len(m.writes) + 1] = r
      /\ \A i \in DOMAIN m.writes : i < Len(m.writes) + 1 /\ n.writes[i] = m.writes[i]
      /\ DOMAIN m.writes \subseteq Nat /\ Len(m.writes) + 1 \in Nat
  BY <1>1, AppendElements
<1>3. \A i \in DOMAIN m.writes : m.writes[i].by # "drain"
  BY <1>1 DEF Chain, Owners
<1>4. \A i \in DOMAIN n.writes : n.writes[i].record.state = "started"
  BY <1>2 DEF Marked
<1>5. ASSUME n.run["drain"].at = "mark"
      PROVE  \A i, j \in DOMAIN n.writes :
               i <= j /\ n.writes[i].by = "drain" => n.writes[j].record.interrupted
  <2>1. \A i \in DOMAIN n.writes : n.writes[i].by = "drain" => i = Len(m.writes) + 1
    BY <1>2, <1>3
  <2>2. \A j \in DOMAIN n.writes : Len(m.writes) + 1 <= j => j = Len(m.writes) + 1
    BY <1>2
  <2> QED BY <1>2, <1>5, <2>1, <2>2
<1> QED BY <1>4, <1>5 DEF Marked

LEMMA MarkedDrains ==
  ASSUME NEW m, Base(m), NEW n, NEW d, Marked(m, d), Drains(m, n, m.state),
         Pulls(m, n) => ~m.recovering
  PROVE  Marked(n, d)
<1>1. n.state = m.state /\ n.recovering = m.recovering
  BY DEF Drains
<1>2. CASE Quiet(m, n)
  BY <1>1, <1>2, MarkedSame DEF Quiet
<1>3. CASE Pulls(m, n)
  <2>1. /\ n.run["start"].at = "none" /\ n.interrupted /\ m.run["drain"].at = "none"
        /\ n.run["drain"].at \in {"mask", "mark"} /\ ~m.recovering
    BY <1>3 DEF Pulls, Marked
  <2>2. CASE n.run["drain"].at = "mask"
    <3>1. n.writes = m.writes
      BY <1>3, <2>2 DEF Pulls
    <3> QED BY <1>1, <2>1, <2>2, <3>1 DEF Marked
  <2>3. CASE n.run["drain"].at = "mark"
    <3>1. PICK r \in ByRecord :
            /\ n.writes = Append(m.writes, r) /\ r.by = "drain"
            /\ r.record.state = m.state /\ r.record.interrupted
      BY <1>3, <2>3 DEF Pulls
    <3> QED BY <1>1, <2>1, <2>3, <3>1, MarkedWrites
  <2> QED BY <2>1, <2>2, <2>3
<1> QED BY <1>2, <1>3 DEF Drains

(* The head of the chain is on disk, or not: its caller's turn apart, ... *)
LEMMA MarkedHead ==
  ASSUME Base(mem), mem.writes # <<>>, Marked(mem, disk),
         NEW d \in {disk, Head(mem.writes).record}
  PROVE  LET w == Head(mem.writes)
             m == Shorter(mem)
         IN  /\ Marked(Rest(m, "drain"), d)
             /\ w.by # "drain" => Marked(m, d)
             /\ w.by = "drain" => ~m.recovering
             /\ w.by = "drain" /\ mem.run["drain"].at = "mark" =>
                  /\ w.record.interrupted /\ m.interrupted
                  /\ \A i \in DOMAIN m.writes : m.writes[i].record.interrupted
<1> DEFINE w == Head(mem.writes)
           m == Shorter(mem)
           k == Rest(m, "drain")
<1>1. /\ 1 \in DOMAIN mem.writes /\ w = mem.writes[1] /\ m \in Memory
      /\ SameQueue(mem, m) /\ m.run = mem.run /\ m.interrupted = mem.interrupted
      /\ \A i \in DOMAIN m.writes :
           i + 1 \in DOMAIN mem.writes /\ i \in Nat /\ 1 <= i
           /\ m.writes[i] = mem.writes[i + 1]
      /\ w.by \in Owners => Chain(Rest(m, w.by)) /\ m.run[w.by].at \in {"mark", "clear"}
      /\ w.by \notin Owners => Chain(m)
      /\ "drain" \in Owners /\ "start" \in Owners
  BY HeadOff DEF Owners
<1>2. /\ k \in Memory /\ SameQueue(m, k) /\ k.run["drain"].at = "none"
      /\ k.run["start"] = m.run["start"] /\ k.writes = m.writes
      /\ k.interrupted = m.interrupted
  BY <1>1, RestMemory DEF Owners
<1> HIDE DEF w, m, k
<1>3. /\ m.state = "started" /\ d.state = "started" /\ m.run["start"].at = "none"
      /\ \A i \in DOMAIN m.writes : m.writes[i].record.state = "started"
      /\ m.run["drain"].at # "none" => ~m.recovering
  <2>1. w.record.state = "started" /\ mem.state = "started" /\ disk.state = "started"
    BY <1>1 DEF Marked
  <2>2. d.state = "started"
    BY <2>1 DEF w
  <2> QED BY <1>1, <2>1, <2>2 DEF Marked, SameQueue
<1>4. Marked(k, d)
  BY <1>2, <1>3 DEF Marked, SameQueue
<1>5. w.by # "drain" => Marked(m, d)
  <2>1. \A i \in DOMAIN m.writes : i <= i + 1
    BY <1>1
  <2>2. \A i, j \in DOMAIN m.writes : i <= j => i + 1 <= j + 1
    BY <1>1
  <2>3. m.run["drain"].at \in {"mark", "attach", "agent"} => m.interrupted
    BY <1>1 DEF Marked
  <2>4. m.run["drain"].at = "mark" =>
          \A i, j \in DOMAIN m.writes :
            i <= j /\ m.writes[i].by = "drain" => m.writes[j].record.interrupted
    BY <1>1, <2>2 DEF Marked
  <2>5. m.run["drain"].at \in {"attach", "agent"} =>
          /\ w.record.interrupted /\ disk.interrupted
          /\ \A i \in DOMAIN m.writes : m.writes[i].record.interrupted
    BY <1>1 DEF Marked
  <2>6. m.run["drain"].at \in {"attach", "agent"} => d.interrupted
    BY <2>5 DEF w
  <2> QED BY <1>3, <2>3, <2>4, <2>5, <2>6 DEF Marked
<1>6. ASSUME w.by = "drain"
      PROVE  /\ ~m.recovering
             /\ mem.run["drain"].at = "mark" =>
                  /\ w.record.interrupted /\ m.interrupted
                  /\ \A i \in DOMAIN m.writes : m.writes[i].record.interrupted
  <2>1. ~m.recovering
    BY <1>1, <1>3, <1>6
  <2>2. 1 <= 1 /\ \A i \in DOMAIN m.writes : 1 <= i + 1
    BY <1>1
  <2> QED BY <1>1, <1>6, <2>1, <2>2 DEF Marked
<1> QED BY <1>4, <1>5, <1>6 DEF w, m, k

LEMMA NextKeepsMarked ==
  ASSUME "resume" \notin FailingWrites, Base(mem), disk \in Record, Marked(mem, disk), Next
  PROVE  Marked(mem', disk')
<1> USE DEF history, bounds
<1>0. mem \in Memory /\ Base(mem')
  BY NextKeepsBase DEF Base
<1>1. CASE RunNow \/ Opened
  BY <1>1 DEF RunNow, Opened, Marked
<1>3. CASE ResumeInterrupted
  <2>1. PICK k : /\ Base(k) /\ mem' = Write(k, "resume") /\ "resume" \in Bys \ Owners
                 /\ k.state = mem.state /\ k.writes = mem.writes /\ k.run = mem.run
                 /\ k.recovering = mem.recovering
    BY <1>3, ResumeAsks
  <2>2. mem.run["drain"].at = "none"
    BY <1>3 DEF ResumeInterrupted, Marked
  <2>3. Marked(k, disk)
    BY <2>1, <2>2 DEF Marked
  <2>4. PICK r \in ByRecord :
          /\ mem'.writes = Append(k.writes, r) /\ r.by = "resume" /\ mem'.run = k.run
          /\ mem'.state = k.state /\ mem'.recovering = k.recovering
          /\ mem'.interrupted = k.interrupted
          /\ r.record.state = k.state /\ r.record.interrupted = k.interrupted
    BY <2>1, AskIs DEF SameQueue
  <2>5. Marked(mem', disk)
    BY <2>1, <2>3, <2>4, MarkedAsks DEF Base
  <2> QED BY <1>3, <2>5 DEF ResumeInterrupted
<1>4. ASSUME NEW q \in Seq(Entries), NEW b \in BOOLEAN,
             mem' = [mem EXCEPT !.pending = q, !.blocked = b, !.persist = TRUE]
      PROVE  Marked(mem', disk)
  <2>1. /\ mem'.state = mem.state /\ mem'.writes = mem.writes /\ mem'.run = mem.run
        /\ mem'.recovering = mem.recovering /\ mem'.interrupted = mem.interrupted
    BY <1>4, EditedBase
  <2> QED BY <2>1, MarkedSame
<1>5. CASE ClearPending
  <2>1. PICK b \in BOOLEAN :
          mem' = [mem EXCEPT !.pending = <<>>, !.blocked = b, !.persist = TRUE]
    BY <1>5, ClearPendingEdits
  <2>2. <<>> \in Seq(Entries)
    OBVIOUS
  <2>3. Marked(mem', disk)
    BY <1>4, <2>1, <2>2
  <2> QED BY <1>5, <2>3 DEF ClearPending
<1>6. ASSUME NEW p, CancelPending(p) PROVE Marked(mem', disk')
  <2>1. PICK b \in BOOLEAN :
          mem' = [mem EXCEPT !.pending = Without(mem.pending, p), !.blocked = b,
                             !.persist = TRUE]
    BY <1>6, CancelPendingEdits
  <2>2. Without(mem.pending, p) \in Seq(Entries)
    BY <1>0, WithoutElements DEF Memory
  <2>3. Marked(mem', disk)
    BY <1>4, <2>1, <2>2
  <2> QED BY <1>6, <2>3 DEF CancelPending
<1>7. ASSUME NEW p \in Prompts, Prompt(p) PROVE Marked(mem', disk')
  <2>1. PICK k : /\ Base(k) /\ mem' = Write(k, p) /\ p \in Bys \ Owners
                 /\ k.state = mem.state /\ k.writes = mem.writes /\ k.run = mem.run
                 /\ k.recovering = mem.recovering /\ k.interrupted = mem.interrupted
    BY <1>7, PromptAsks
  <2>2. Marked(k, disk)
    BY <2>1, MarkedSame
  <2>3. PICK r \in ByRecord :
          /\ mem'.writes = Append(k.writes, r) /\ r.by = p /\ mem'.run = k.run
          /\ mem'.state = k.state /\ mem'.recovering = k.recovering
          /\ mem'.interrupted = k.interrupted
          /\ r.record.state = k.state /\ r.record.interrupted = k.interrupted
    BY <2>1, AskIs DEF SameQueue
  <2>4. Marked(mem', disk)
    BY <2>1, <2>2, <2>3, MarkedAsks DEF Base, Owners
  <2> QED BY <1>7, <2>4 DEF Prompt
<1>8. CASE PersistTimer
  <2>1. PICK k : /\ Base(k) /\ mem' = Write(k, "timer") /\ "timer" \in Bys \ Owners
                 /\ k.state = mem.state /\ k.writes = mem.writes /\ k.run = mem.run
                 /\ k.recovering = mem.recovering /\ k.interrupted = mem.interrupted
    BY <1>8, TimerAsks
  <2>2. Marked(k, disk)
    BY <2>1, MarkedSame
  <2>3. PICK r \in ByRecord :
          /\ mem'.writes = Append(k.writes, r) /\ r.by = "timer" /\ mem'.run = k.run
          /\ mem'.state = k.state /\ mem'.recovering = k.recovering
          /\ mem'.interrupted = k.interrupted
          /\ r.record.state = k.state /\ r.record.interrupted = k.interrupted
    BY <2>1, AskIs DEF SameQueue
  <2>4. Marked(mem', disk)
    BY <2>1, <2>2, <2>3, MarkedAsks DEF Base
  <2> QED BY <1>8, <2>4 DEF PersistTimer
<1>9. ASSUME NEW f \in Owners, Turn(f) \/ Completes(f) PROVE Marked(mem', disk')
  <2>1. f = "drain" /\ ~mem.recovering
    BY <1>9 DEF Turn, Completes, Masked, Attached, AttachFails, TurnStops, Marked, Owners
  <2>2. CASE Masked(f)
    <3>1. SameQueue(mem, mem') /\ Marks(mem, mem', f) /\ mem.run[f].at = "mask"
          /\ mem'.run = [mem.run EXCEPT ![f].at = "mark"]
      BY <1>0, <2>2, MarkTurnMarks DEF Masked
    <3>2. mem'.run["start"].at = "none"
      BY <1>0, <2>1, <3>1 DEF Marked, Memory, Owners
    <3>3. Marked(mem', disk)
      BY <2>1, <3>1, <3>2, MarkedWrites DEF Marks, SameQueue
    <3> QED BY <2>2, <3>3 DEF Masked
  <2>3. CASE Attached(f)
    <3>1. /\ SameQueue(mem, mem') /\ mem'.writes = mem.writes
          /\ mem'.interrupted = mem.interrupted
          /\ mem.run[f].at = "attach" /\ mem'.run[f].at = "agent"
          /\ mem'.run["start"] = mem.run["start"]
      BY <2>1, <2>3, AttachedBase DEF Owners
    <3>2. Marked(mem', disk)
      BY <2>1, <3>1 DEF Marked, SameQueue
    <3> QED BY <2>3, <3>2 DEF Attached
  <2>4. CASE AttachFails(f) \/ TurnStops(f)
    <3>1. PICK o \in Outcomes : mem' = ClearTurn(mem, f, o)
      BY <2>4 DEF AttachFails, TurnStops, Outcomes
    <3>2. Clears(mem, mem', f) /\ mem.run[f].at \in {"attach", "agent"}
      BY <1>0, <2>4, <3>1, ClearTurnClears DEF AttachFails, TurnStops
    <3>3. mem'.run["start"].at = "none"
      BY <2>1, <3>2 DEF Marked, Clears, Owners
    <3>4. Marked(mem', disk)
      BY <2>1, <3>2, <3>3, MarkedWrites DEF Clears, SameQueue
    <3> QED BY <2>4, <3>4 DEF AttachFails, TurnStops
  <2>5. CASE Completes(f)
    <3>1. /\ SameQueue(mem, mem') /\ mem'.writes = mem.writes
          /\ mem'.interrupted = mem.interrupted
          /\ \A g \in Owners : mem'.run[g].at = mem.run[g].at
      BY <2>5, CompletesBase
    <3>2. Marked(mem', disk)
      BY <3>1, MarkedSame DEF SameQueue
    <3> QED BY <2>5, <3>2 DEF Completes
  <2> QED BY <1>9, <2>2, <2>3, <2>4, <2>5 DEF Turn
<1>10. ASSUME NEW k, Base(k), Marked(k, disk'), mem' = Drain(k) PROVE Marked(mem', disk')
  <2>1. Pulls(k, mem') => ~k.recovering
    <3>1. CASE k.recovering
      <4>1. mem' = k
        BY <1>10, <3>1, DrainDrains
      <4>2. ~Pulls(k, k)
        BY <1>10 DEF Pulls, Ready, Base, Memory
      <4> QED BY <4>1, <4>2
    <3> QED BY <3>1
  <2> QED BY <1>10, <2>1, DrainDrains, MarkedDrains
<1>11. CASE Block
  <2>1. /\ mem'.state = mem.state /\ mem'.writes = mem.writes /\ mem'.run = mem.run
        /\ mem'.recovering = mem.recovering /\ mem'.interrupted = mem.interrupted
    BY <1>11, HeldBase DEF Block
  <2>2. Marked(mem', disk)
    BY <2>1, MarkedSame
  <2> QED BY <1>11, <2>2 DEF Block
<1>12. CASE Unblock
  <2> DEFINE k == [mem EXCEPT !.blocked = FALSE]
  <2>1. /\ Base(k) /\ k.state = mem.state /\ k.writes = mem.writes /\ k.run = mem.run
        /\ k.recovering = mem.recovering /\ k.interrupted = mem.interrupted
    BY HeldBase
  <2>2. mem' = Drain(k) /\ disk' = disk
    BY <1>12 DEF Unblock
  <2> HIDE DEF k
  <2>3. Marked(k, disk')
    BY <2>1, <2>2, MarkedSame
  <2> QED BY <1>10, <2>1, <2>2, <2>3
<1>13. CASE Pass
  BY <1>10, <1>13 DEF Pass
<1>14. CASE WriteLands
  <2> DEFINE w == Head(mem.writes)
             m == Shorter(mem)
             f == w.by
  <2>1. mem.writes # <<>> /\ disk' = w.record
    BY <1>14, LandsHow
  <2>2. /\ Marked(Rest(m, "drain"), disk')
        /\ f # "drain" => Marked(m, disk')
        /\ f = "drain" => ~m.recovering
        /\ f = "drain" /\ mem.run["drain"].at = "mark" =>
             /\ disk'.interrupted /\ m.interrupted
             /\ \A i \in DOMAIN m.writes : m.writes[i].record.interrupted
    BY <2>1, MarkedHead
  <2>3. m \in Memory /\ m.run = mem.run /\ m.state = mem.state
    BY <2>1, HeadOff DEF SameQueue
  <2>4. \/ f \in Owners /\ mem.run[f].at = "mark" /\ Attaches(m, mem', f)
        \/ /\ f \in Owners /\ mem.run[f].at = "clear"
           /\ \E k : /\ Ended(m, k, f) /\ Chain(Rest(k, f))
                     /\ \/ Begins(k, mem', f, m.run[f].prompt, TRUE)
                        \/ Drains(Rest(k, f), mem', m.state)
        \/ /\ f \notin Owners
           /\ \E k : SameWork(m, k) /\ ~k.recovering /\ Base(k) /\ mem' = Drain(k)
        \/ f \notin Owners /\ mem' = m
    BY <1>14, LandsHow
  <2> HIDE DEF w, m, f
  <2>5. f \in Owners => f = "drain" /\ mem.run[f].at # "none"
    <3>1. mem.run["start"].at = "none"
      BY DEF Marked
    <3> QED BY <2>4, <3>1 DEF Owners
  <2>6. m.run["start"].at = "none"
    BY <2>3 DEF Marked
  <2>7. CASE f = "drain" /\ mem.run[f].at = "mark" /\ Attaches(m, mem', f)
    <3>1. /\ mem'.state = m.state /\ mem'.writes = m.writes
          /\ mem'.recovering = m.recovering /\ mem'.interrupted = m.interrupted
          /\ mem'.run["drain"].at = "attach" /\ mem'.run["start"] = m.run["start"]
      BY <2>7 DEF Attaches, SameQueue, Owners
    <3>2. Rest(m, "drain").writes = m.writes /\ Rest(m, "drain").state = m.state
      BY <2>3, <2>5, <2>7, RestMemory DEF SameQueue, Owners
    <3> QED BY <2>2, <2>6, <2>7, <3>1, <3>2 DEF Marked
  <2>8. ASSUME f = "drain", NEW k, Ended(m, k, f), Chain(Rest(k, f)),
               \/ Begins(k, mem', f, m.run[f].prompt, TRUE)
               \/ Drains(Rest(k, f), mem', m.state)
        PROVE  Marked(mem', disk')
    <3>1. /\ k \in Memory /\ k.writes = m.writes /\ k.run = m.run /\ k.state = m.state
          /\ k.recovering = m.recovering /\ k.interrupted = m.interrupted
          /\ f \in Owners
      BY <2>8 DEF Ended, Owners
    <3> DEFINE l == Rest(k, f)
    <3>2. /\ l \in Memory /\ l.writes = m.writes /\ l.state = m.state
          /\ l.run["start"] = m.run["start"] /\ l.run["drain"].at = "none"
          /\ l.recovering = m.recovering /\ l.interrupted = m.interrupted
      BY <2>8, <3>1, RestMemory DEF SameQueue, Owners
    <3>3. Base(l)
      BY <2>8, <3>2 DEF Base
    <3>4. /\ Rest(m, "drain").writes = m.writes /\ Rest(m, "drain").state = m.state
          /\ Rest(m, "drain").run["start"] = m.run["start"]
      BY <2>3, RestMemory DEF SameQueue, Owners
    <3> HIDE DEF l
    <3>5. Marked(l, disk') /\ ~l.recovering
      BY <2>2, <2>8, <3>2, <3>4 DEF Marked
    <3>6. CASE Drains(Rest(k, f), mem', m.state)
      BY <3>2, <3>3, <3>5, <3>6, MarkedDrains DEF l
    <3>7. CASE Begins(k, mem', f, m.run[f].prompt, TRUE)
      <4>1. /\ mem'.state = l.state /\ mem'.recovering = l.recovering
            /\ mem'.run["start"].at = "none"
        BY <2>6, <2>8, <3>1, <3>2, <3>7 DEF Begins, SameQueue, Owners
      <4>2. CASE mem'.run[f].at = "mask" /\ mem'.writes = k.writes
        BY <2>8, <3>1, <3>2, <3>5, <4>1, <4>2 DEF Marked
      <4>3. CASE Marks(k, mem', f)
        <5>1. PICK r \in ByRecord :
                /\ mem'.writes = Append(l.writes, r) /\ r.by = "drain"
                /\ r.record.state = l.state /\ r.record.interrupted
                /\ mem'.interrupted /\ mem'.run["drain"].at = "mark"
          BY <2>8, <3>1, <3>2, <4>3 DEF Marks
        <5> QED BY <3>2, <3>3, <3>5, <4>1, <5>1, MarkedWrites
      <4> QED BY <3>7, <4>2, <4>3 DEF Begins
    <3> QED BY <2>8, <3>6, <3>7
  <2>9. ASSUME f \notin Owners, NEW k, SameWork(m, k), ~k.recovering, Base(k), mem' = Drain(k)
        PROVE  Marked(mem', disk')
    <3>1. f # "drain"
      BY <2>9 DEF Owners
    <3>2. Marked(k, disk')
      BY <2>2, <2>9, <3>1, MarkedSame DEF SameWork
    <3> QED BY <1>10, <2>9, <3>2
  <2>10. CASE f \notin Owners /\ mem' = m
    BY <2>2, <2>10 DEF Owners
  <2> QED BY <2>4, <2>5, <2>7, <2>8, <2>9, <2>10
<1>15. CASE WriteFails
  <2> DEFINE w == Head(mem.writes)
             m == Shorter(mem)
             f == w.by
  <2>1. mem.writes # <<>> /\ disk' \in {disk, w.record}
    BY <1>15, FailsHow
  <2>2. /\ Marked(Rest(m, "drain"), disk')
        /\ f # "drain" => Marked(m, disk')
        /\ f = "drain" => ~m.recovering
    BY <2>1, MarkedHead
  <2>3. m \in Memory /\ m.run = mem.run /\ m.state = mem.state
    BY <2>1, HeadOff DEF SameQueue
  <2>4. \/ f \in Owners /\ mem.run[f].at \in {"mark", "clear"}
           /\ \E k : /\ SameWork(m, k) /\ Chain(Rest(k, f))
                     /\ Drains(Rest(k, f), mem', IF f = "start" THEN "draft" ELSE m.state)
                     /\ f = "drain" => Quiet(Rest(k, f), mem')
        \/ f \in Owners /\ mem.run[f].at \in {"mark", "clear"} /\ Chain(Rest(m, f))
           /\ Drains(Rest(m, f), mem', IF f = "start" THEN "draft" ELSE m.state)
        \/ f \notin Owners /\ mem' = m
    BY <1>15, FailsHow
  <2> HIDE DEF w, m, f
  <2>5. f \in Owners => f = "drain"
    <3>1. mem.run["start"].at = "none"
      BY DEF Marked
    <3> QED BY <2>4, <3>1 DEF Owners
  <2>6. ASSUME f = "drain", NEW k \in Memory, k.writes = m.writes, k.state = m.state,
               k.run = m.run, Chain(Rest(k, f)), Drains(Rest(k, f), mem', m.state),
               ~k.recovering \/ Quiet(Rest(k, f), mem')
        PROVE  Marked(mem', disk')
    <3> DEFINE l == Rest(k, f)
    <3>1. /\ l \in Memory /\ l.writes = m.writes /\ l.state = m.state
          /\ l.run["start"] = m.run["start"] /\ l.run["drain"].at = "none"
          /\ l.recovering = k.recovering
      BY <2>6, RestMemory DEF SameQueue, Owners
    <3>2. /\ Rest(m, "drain").writes = m.writes /\ Rest(m, "drain").state = m.state
          /\ Rest(m, "drain").run["start"] = m.run["start"]
      BY <2>3, RestMemory DEF SameQueue, Owners
    <3>3. Base(l)
      BY <2>6, <3>1 DEF Base
    <3> HIDE DEF l
    <3>4. Marked(l, disk')
      BY <2>2, <3>1, <3>2 DEF Marked
    <3>5. Pulls(l, mem') => ~l.recovering
      <4>1. CASE Quiet(l, mem')
        BY <3>1, <4>1 DEF Quiet, Pulls, Ready, Memory
      <4> QED BY <2>6, <3>1, <4>1 DEF l
    <3> QED BY <2>6, <3>1, <3>3, <3>4, <3>5, MarkedDrains DEF l
  <2>7. ASSUME f = "drain", NEW k, SameWork(m, k), Chain(Rest(k, f)),
               Drains(Rest(k, f), mem', IF f = "start" THEN "draft" ELSE m.state),
               Quiet(Rest(k, f), mem')
        PROVE  Marked(mem', disk')
    BY <2>6, <2>7 DEF SameWork
  <2>8. ASSUME f = "drain", Chain(Rest(m, f)),
               Drains(Rest(m, f), mem', IF f = "start" THEN "draft" ELSE m.state)
        PROVE  Marked(mem', disk')
    BY <2>2, <2>3, <2>6, <2>8
  <2>9. CASE f \notin Owners /\ mem' = m
    BY <2>2, <2>9 DEF Owners
  <2> QED BY <2>4, <2>5, <2>7, <2>8, <2>9
<1>16. CASE Crash
  <2>1. disk' \in Record /\ mem' = Restored(disk') /\ disk'.state = "started"
    <3>1. CASE mem.writes = <<>>
      BY <1>16, <3>1, NextKeepsBase DEF Crash, Marked
    <3>2. CASE mem.writes # <<>>
      BY <1>16, <3>2, NextKeepsBase, HeadOff DEF Crash, Marked
    <3> QED BY <3>1, <3>2
  <2>2. /\ mem'.state = "started" /\ mem'.writes = <<>>
        /\ \A f \in Owners : mem'.run[f].at = "none"
    BY <2>1, RestoredBase
  <2> QED BY <2>1, <2>2 DEF Marked, Owners
<1> QED BY <1>1, <1>3, <1>5, <1>6, <1>7, <1>8, <1>9, <1>11, <1>12, <1>13, <1>14,
           <1>15, <1>16 DEF Next

(* Whatever the agent does, the disk already says that a turn is under way,  *)
(* so a crash leaves a session that can be resumed; no write that was asked   *)
(* for before the marker and lands after it takes the marker away.  The turns *)
(* are the loop's: the first turn of a draft shares the marker with them,     *)
(* and a loop's turn that ends takes it away from a start that still masks    *)
(* its prompt.  And a recovery whose write fails puts back the marker of      *)
(* before, which says that no turn is under way.                              *)
THEOREM MarkerIsThere ==
  ASSUME \A start \in Starts : ~start.fresh, "resume" \notin FailingWrites
  PROVE  Spec => []MarkedWhileWorking
<1> DEFINE Inv == Marked(mem, disk)
<1>1. Init => Inv
  <2> SUFFICES ASSUME Init PROVE Inv
    OBVIOUS
  <2>1. disk.state = "started" /\ disk \in Record /\ mem = Restored(disk)
    <3>1. PICK start \in Starts :
            disk = [state |-> IF start.fresh THEN "draft" ELSE "started",
                    contract |-> start.contract, pending |-> <<>>, interrupted |-> FALSE]
      BY DEF Init
    <3> QED BY <3>1, InitBase DEF Init
  <2>2. /\ mem.state = "started" /\ mem.writes = <<>>
        /\ \A f \in Owners : mem.run[f].at = "none"
    BY <2>1, RestoredBase
  <2> QED BY <2>1, <2>2 DEF Marked, Owners
<1>2. Inv /\ Base(mem) /\ disk \in Record /\ [Next]_vars => Inv'
  <2> SUFFICES ASSUME Inv, Base(mem), disk \in Record, [Next]_vars PROVE Inv'
    OBVIOUS
  <2>1. CASE Next
    BY <2>1, NextKeepsMarked
  <2>2. CASE UNCHANGED vars
    BY <2>2 DEF vars, Marked
  <2> QED BY <2>1, <2>2
<1>3. Inv => MarkedWhileWorking
  BY DEF Marked, MarkedWhileWorking, Owners
<1> QED BY <1>1, <1>2, <1>3, AlwaysBase, PTL DEF Spec

-----------------------------------------------------------------------------
(* The messages reach the agent in the order they were typed.              *)

Earlier(t, x, y) == \E k, l \in DOMAIN t : k < l /\ t[k] = x /\ t[l] = y

(* x was typed before every message of the queue. *)
Ahead(t, x, q) == \A y \in Range(q) \cap Prompts : Earlier(t, x, y)

(* The messages of the queue are typed, in order, and after all of s. *)
Waits(t, s, q) ==
  /\ Range(q) \cap Prompts \subseteq Range(t)
  /\ \A i, j \in DOMAIN q :
       i < j /\ q[i] \in Prompts /\ q[j] \in Prompts => Earlier(t, q[i], q[j])
  /\ \A x \in Range(s) : Ahead(t, x, q)

LEMMA WaitsTail ==
  ASSUME NEW t, NEW s, NEW q \in Seq(Entries), q # <<>>, Waits(t, s, q)
  PROVE  /\ Waits(t, s, Tail(q)) /\ Range(Tail(q)) \subseteq Range(q)
         /\ Head(q) \in Prompts =>
              /\ Head(q) \in Range(t) /\ Ahead(t, Head(q), Tail(q))
              /\ \A y \in Range(s) : Earlier(t, y, Head(q))
<1>1. /\ 1 \in DOMAIN q /\ Head(q) = q[1]
      /\ \A i \in DOMAIN Tail(q) :
           i + 1 \in DOMAIN q /\ i \in Nat /\ 1 <= i /\ Tail(q)[i] = q[i + 1]
  BY TailElements
<1> DEFINE r == Tail(q)
           h == Head(q)
<1> HIDE DEF r, h
<1>2. /\ \A i \in DOMAIN r : i + 1 \in DOMAIN q /\ 1 < i + 1 /\ r[i] = q[i + 1]
      /\ \A i, j \in DOMAIN r : i < j => i + 1 < j + 1
  BY <1>1 DEF r
<1>3. Range(r) \subseteq Range(q) /\ h = q[1] /\ h \in Range(q)
  BY <1>1, <1>2 DEF Range, h
<1>4. Waits(t, s, r)
  <2>1. ASSUME NEW i \in DOMAIN r, NEW j \in DOMAIN r, i < j, r[i] \in Prompts, r[j] \in Prompts
        PROVE  Earlier(t, r[i], r[j])
    BY <1>2, <2>1 DEF Waits
  <2>2. Range(r) \cap Prompts \subseteq Range(t) /\ \A x \in Range(s) : Ahead(t, x, r)
    BY <1>3 DEF Waits, Ahead
  <2> QED BY <2>1, <2>2 DEF Waits
<1>5. ASSUME h \in Prompts
      PROVE  Ahead(t, h, r) /\ h \in Range(t) /\ \A y \in Range(s) : Earlier(t, y, h)
  <2>1. ASSUME NEW y \in Range(r) \cap Prompts PROVE Earlier(t, h, y)
    <3>1. PICK i \in DOMAIN r : y = r[i]
      BY <2>1 DEF Range
    <3> QED BY <1>1, <1>2, <1>3, <1>5, <2>1, <3>1 DEF Waits
  <2>2. h \in Range(t) /\ \A y \in Range(s) : Earlier(t, y, h)
    BY <1>3, <1>5 DEF Waits, Ahead
  <2> QED BY <2>1, <2>2 DEF Ahead
<1> QED BY <1>3, <1>4, <1>5 DEF r, h

LEMMA WaitsWithout ==
  ASSUME NEW t, NEW s, NEW q \in Seq(Entries), NEW e, Waits(t, s, q)
  PROVE  Waits(t, s, Without(q, e)) /\ \A x : Ahead(t, x, q) => Ahead(t, x, Without(q, e))
<1> DEFINE w == Without(q, e)
<1>1. w \in Seq(Entries) /\ Range(w) \subseteq Range(q)
  BY WithoutElements
<1>2. PICK h : Places(q, e, w, Len(q), h)
  BY WithoutKeeps
<1> HIDE DEF w
<1>3. DOMAIN w = 1..Len(w) /\ DOMAIN q = 1..Len(q)
  BY <1>1
<1>4. \A i, j \in DOMAIN w :
        i < j => /\ h[i] \in DOMAIN q /\ h[j] \in DOMAIN q /\ h[i] < h[j]
                 /\ w[i] = q[h[i]] /\ w[j] = q[h[j]]
  BY <1>2, <1>3 DEF Places
<1>5. \A x : Ahead(t, x, q) => Ahead(t, x, w)
  BY <1>1 DEF Ahead
<1>6. ASSUME NEW i \in DOMAIN w, NEW j \in DOMAIN w, i < j, w[i] \in Prompts, w[j] \in Prompts
      PROVE  Earlier(t, w[i], w[j])
  BY <1>4, <1>6 DEF Waits
<1> QED BY <1>1, <1>5, <1>6 DEF Waits, w

LEMMA WaitsAuto ==
  ASSUME NEW t, NEW s, NEW q \in Seq(Entries), Waits(t, s, q)
  PROVE  /\ Waits(t, s, <<"auto">> \o q)
         /\ \A x : Ahead(t, x, q) => Ahead(t, x, <<"auto">> \o q)
<1> DEFINE a == <<"auto">> \o q
<1>1. /\ a \in Seq(Entries) /\ Range(a) \cap Prompts \subseteq Range(q) /\ a[1] = "auto"
      /\ \A i \in DOMAIN a : i # 1 => i - 1 \in DOMAIN q /\ a[i] = q[i - 1]
  BY AutoFirst
<1> HIDE DEF a
<1>2. \A x : Ahead(t, x, q) => Ahead(t, x, a)
  BY <1>1 DEF Ahead
<1>3. ASSUME NEW i \in DOMAIN a, NEW j \in DOMAIN a, i < j, a[i] \in Prompts, a[j] \in Prompts
      PROVE  Earlier(t, a[i], a[j])
  <2>1. i # 1 /\ j # 1
    BY <1>1, <1>3, TurnAssumption
  <2>2. i - 1 < j - 1
    BY <1>1, <1>3
  <2> QED BY <1>1, <1>3, <2>1, <2>2 DEF Waits
<1> QED BY <1>1, <1>2, <1>3 DEF Waits, a

LEMMA WaitsNone ==
  ASSUME NEW t, NEW s
  PROVE  /\ Waits(t, s, <<>>) /\ Waits(t, s, <<"auto">>)
         /\ \A x : Ahead(t, x, <<>>) /\ Ahead(t, x, <<"auto">>)
<1>1. Range(<<>>) \cap Prompts = {} /\ Range(<<"auto">>) \cap Prompts = {}
  BY TurnAssumption DEF Range
<1>2. \A i, j \in DOMAIN <<"auto">> : ~(i < j)
  OBVIOUS
<1>3. DOMAIN <<>> = {}
  OBVIOUS
<1> QED BY <1>1, <1>2, <1>3 DEF Waits, Ahead

(* Another message is typed. *)
LEMMA EarlierTyped ==
  ASSUME NEW t \in Seq(Prompts), NEW p \in Prompts
  PROVE  LET u == Append(t, p)
         IN  /\ Range(u) = Range(t) \cup {p}
             /\ \A x, y : Earlier(t, x, y) => Earlier(u, x, y)
             /\ \A x \in Range(t) : Earlier(u, x, p)
<1> DEFINE u == Append(t, p)
<1>1. /\ DOMAIN u = DOMAIN t \cup {Len(t) + 1} /\ u[Len(t) + 1] = p
      /\ \A i \in DOMAIN t : i < Len(t) + 1 /\ u[i] = t[i]
  BY AppendElements
<1> HIDE DEF u
<1>2. Range(u) = Range(t) \cup {p}
  BY <1>1 DEF Range
<1>3. \A x, y : Earlier(t, x, y) => Earlier(u, x, y)
  BY <1>1 DEF Earlier
<1>4. \A x \in Range(t) : Earlier(u, x, p)
  BY <1>1 DEF Earlier, Range
<1> QED BY <1>2, <1>3, <1>4 DEF u

LEMMA WaitsTyped ==
  ASSUME NEW t \in Seq(Prompts), NEW p \in Prompts, NEW s
  PROVE  LET u == Append(t, p)
         IN  /\ \A q : Waits(t, s, q) => Waits(u, s, q)
             /\ \A x, q : Ahead(t, x, q) => Ahead(u, x, q)
<1> DEFINE u == Append(t, p)
<1>1. Range(t) \subseteq Range(u) /\ \A x, y : Earlier(t, x, y) => Earlier(u, x, y)
  BY EarlierTyped
<1> HIDE DEF u
<1>2. \A x, q : Ahead(t, x, q) => Ahead(u, x, q)
  BY <1>1 DEF Ahead
<1>3. \A q : Waits(t, s, q) => Waits(u, s, q)
  BY <1>1, <1>2 DEF Waits
<1> QED BY <1>2, <1>3 DEF u

LEMMA WaitsPrompt ==
  ASSUME NEW t \in Seq(Prompts), NEW p \in Prompts, NEW s, Range(s) \subseteq Range(t),
         NEW q \in Seq(Entries), Waits(t, s, q)
  PROVE  LET u == Append(t, p)
         IN  /\ Waits(u, s, Append(q, p))
             /\ \A x \in Range(t) : Ahead(t, x, q) => Ahead(u, x, Append(q, p))
<1> DEFINE u == Append(t, p)
           a == Append(q, p)
<1>1. /\ Range(u) = Range(t) \cup {p}
      /\ \A x, y : Earlier(t, x, y) => Earlier(u, x, y)
      /\ \A x \in Range(t) : Earlier(u, x, p)
  BY EarlierTyped
<1>2. /\ DOMAIN a = DOMAIN q \cup {Len(q) + 1} /\ a[Len(q) + 1] = p
      /\ \A i \in DOMAIN q : i < Len(q) + 1 /\ a[i] = q[i]
      /\ DOMAIN q \subseteq Nat /\ Len(q) + 1 \in Nat
  BY AppendElements DEF Entries
<1> HIDE DEF u, a
<1>3. Range(a) = Range(q) \cup {p}
  BY <1>2 DEF Range
<1>4. \A x \in Range(t) : Ahead(t, x, q) => Ahead(u, x, a)
  BY <1>1, <1>3 DEF Ahead
<1>5. ASSUME NEW i \in DOMAIN a, NEW j \in DOMAIN a, i < j, a[i] \in Prompts, a[j] \in Prompts
      PROVE  Earlier(u, a[i], a[j])
  <2>1. i \in DOMAIN q /\ a[i] = q[i]
    BY <1>2, <1>5
  <2>2. a[i] \in Range(t)
    BY <1>5, <2>1 DEF Waits, Range
  <2>3. CASE j \in DOMAIN q
    BY <1>1, <1>2, <1>5, <2>1, <2>3 DEF Waits
  <2>4. CASE j = Len(q) + 1
    BY <1>1, <1>2, <2>2, <2>4
  <2> QED BY <1>2, <2>3, <2>4
<1>6. Range(a) \cap Prompts \subseteq Range(u) /\ \A x \in Range(s) : Ahead(u, x, a)
  BY <1>1, <1>3, <1>4 DEF Waits
<1> QED BY <1>4, <1>5, <1>6 DEF Waits, u, a

(* A message is sent. *)
LEMMA WaitsSent ==
  ASSUME NEW t, NEW s \in Seq(Prompts), NEW x \in Prompts, NEW q, Waits(t, s, q), Ahead(t, x, q)
  PROVE  Waits(t, Append(s, x), q)
<1>1. Range(Append(s, x)) = Range(s) \cup {x}
  BY EarlierTyped
<1> QED BY <1>1 DEF Waits

(* The loop's turn has a message that is still to be sent. *)
Coming(m) ==
  /\ m.run["drain"].at \in {"mask", "mark", "attach"} /\ ~m.run["drain"].nudge
  /\ m.run["drain"].prompt \in Prompts

(* It was typed after all that were sent and before all that wait: in the    *)
(* queue, in the chain from its marker on, and in the file once that is      *)
(* there.                                                                    *)
Comes(m, d, t, s) ==
  LET x == m.run["drain"].prompt
  IN  /\ x \in Range(t) /\ Ahead(t, x, m.pending) /\ \A y \in Range(s) : Earlier(t, y, x)
      /\ m.run["drain"].at = "mark" =>
           \A i, j \in DOMAIN m.writes :
             i <= j /\ m.writes[i].by = "drain" => Ahead(t, x, m.writes[j].record.pending)
      /\ m.run["drain"].at = "attach" =>
           /\ Ahead(t, x, d.pending)
           /\ \A i \in DOMAIN m.writes : Ahead(t, x, m.writes[i].record.pending)

Ordered(m, d, t, s) ==
  /\ Waits(t, s, m.pending) /\ Waits(t, s, d.pending)
  /\ \A i \in DOMAIN m.writes : Waits(t, s, m.writes[i].record.pending)
  /\ Coming(m) => Comes(m, d, t, s)

(* The loop's turn stays where it is, or has nothing to send. *)
SameComing(m, n) ==
  \/ ~Coming(n)
  \/ /\ n.run["drain"].at = m.run["drain"].at /\ n.run["drain"].nudge = m.run["drain"].nudge
     /\ n.run["drain"].prompt = m.run["drain"].prompt

LEMMA OrderedSame ==
  ASSUME NEW m, NEW n, NEW d, NEW t, NEW s, Ordered(m, d, t, s),
         n.pending = m.pending, n.writes = m.writes, SameComing(m, n)
  PROVE  Ordered(n, d, t, s)
<1>1. Coming(n) => Comes(n, d, t, s)
  BY DEF Ordered, SameComing, Coming, Comes
<1> QED BY <1>1 DEF Ordered

LEMMA OrderedQueue ==
  ASSUME NEW m, NEW n, NEW d, NEW t, NEW s, Ordered(m, d, t, s),
         n.writes = m.writes, SameComing(m, n), Waits(t, s, n.pending),
         \A x : Ahead(t, x, m.pending) => Ahead(t, x, n.pending)
  PROVE  Ordered(n, d, t, s)
<1>1. Coming(n) => Comes(n, d, t, s)
  BY DEF Ordered, SameComing, Coming, Comes
<1> QED BY <1>1 DEF Ordered

(* The queue is written, for whoever asks but the loop. *)
LEMMA OrderedAsks ==
  ASSUME NEW m \in Memory, NEW n, NEW d, NEW t, NEW s, NEW r \in ByRecord,
         Ordered(m, d, t, s), n.pending = m.pending, SameComing(m, n),
         n.writes = Append(m.writes, r), r.record.pending = m.pending, r.by # "drain" \/ ~Coming(n)
  PROVE  Ordered(n, d, t, s)
<1>1. m.writes \in Seq(ByRecord)
  BY DEF Memory, ByRecord, Bys
<1>2. /\ DOMAIN n.writes = DOMAIN m.writes \cup {Len(m.writes) + 1}
      /\ n.writes[Len(m.writes) + 1] = r
      /\ \A i \in DOMAIN m.writes : i < Len(m.writes) + 1 /\ n.writes[i] = m.writes[i]
  BY <1>1, AppendElements
<1>3. \A i \in DOMAIN n.writes : Waits(t, s, n.writes[i].record.pending)
  BY <1>2 DEF Ordered
<1>4. ASSUME Coming(n) PROVE Comes(n, d, t, s)
  <2> DEFINE x == m.run["drain"].prompt
  <2>1. /\ Comes(m, d, t, s) /\ n.run["drain"].prompt = x
        /\ n.run["drain"].at = m.run["drain"].at /\ r.by # "drain"
    BY <1>4 DEF SameComing, Coming, Ordered
  <2>2. x \in Range(t) /\ Ahead(t, x, n.pending) /\ \A y \in Range(s) : Earlier(t, y, x)
    BY <2>1 DEF Comes
  <2>3. ASSUME m.run["drain"].at = "mark", NEW i \in DOMAIN n.writes, NEW j \in DOMAIN n.writes,
               i <= j, n.writes[i].by = "drain"
        PROVE  Ahead(t, x, n.writes[j].record.pending)
    <3>1. CASE j = Len(m.writes) + 1
      BY <1>2, <2>2, <3>1
    <3>2. CASE j \in DOMAIN m.writes
      <4>1. i \in DOMAIN m.writes /\ m.writes[i].by = "drain"
        BY <1>2, <2>1, <2>3
      <4> QED BY <1>2, <2>1, <2>3, <3>2, <4>1 DEF Comes
    <3> QED BY <1>2, <3>1, <3>2
  <2>4. ASSUME m.run["drain"].at = "attach"
        PROVE  /\ Ahead(t, x, d.pending)
               /\ \A i \in DOMAIN n.writes : Ahead(t, x, n.writes[i].record.pending)
    BY <1>2, <2>1, <2>2, <2>4 DEF Comes
  <2> HIDE DEF x
  <2> QED BY <2>1, <2>2, <2>3, <2>4 DEF Comes
<1> QED BY <1>3, <1>4 DEF Ordered

(* The loop's marker is asked for. *)
LEMMA OrderedMark ==
  ASSUME NEW m, Base(m), NEW n, NEW d, NEW t, NEW s, NEW r \in ByRecord,
         Waits(t, s, n.pending), Waits(t, s, d.pending),
         \A i \in DOMAIN m.writes : Waits(t, s, m.writes[i].record.pending),
         m.run["drain"].at \notin {"mark", "clear"}, n.run["drain"].at = "mark",
         n.writes = Append(m.writes, r), r.by = "drain", r.record.pending = n.pending,
         Coming(n) => /\ n.run["drain"].prompt \in Range(t)
                      /\ Ahead(t, n.run["drain"].prompt, n.pending)
                      /\ \A y \in Range(s) : Earlier(t, y, n.run["drain"].prompt)
  PROVE  Ordered(n, d, t, s)
<1>1. m \in Memory /\ Chain(m) /\ m.writes \in Seq(ByRecord)
  BY DEF Base, Memory, ByRecord, Bys
<1>2. /\ DOMAIN n.writes = DOMAIN m.writes \cup {Len(m.writes) + 1}
      /\ n.writes[Len(m.writes) + 1] = r
      /\ \A i \in DOMAIN m.writes : i < Len(m.writes) + 1 /\ n.writes[i] = m.writes[i]
      /\ DOMAIN m.writes \subseteq Nat /\ Len(m.writes) + 1 \in Nat
  BY <1>1, AppendElements
<1>3. \A i \in DOMAIN m.writes : m.writes[i].by # "drain"
  BY <1>1 DEF Chain, Owners
<1>4. \A i, j \in DOMAIN n.writes : i <= j /\ n.writes[i].by = "drain" => n.writes[j] = r
  <2>1. \A i \in DOMAIN n.writes : n.writes[i].by = "drain" => i = Len(m.writes) + 1
    BY <1>2, <1>3
  <2>2. \A j \in DOMAIN n.writes : Len(m.writes) + 1 <= j => j = Len(m.writes) + 1
    BY <1>2
  <2> QED BY <1>2, <2>1, <2>2
<1>5. Coming(n) => Comes(n, d, t, s)
  BY <1>4 DEF Comes
<1>6. \A i \in DOMAIN n.writes : Waits(t, s, n.writes[i].record.pending)
  BY <1>2
<1> QED BY <1>5, <1>6 DEF Ordered

LEMMA OrderedDrains ==
  ASSUME NEW m, Base(m), NEW n, NEW d, NEW t, NEW s, NEW state,
         Ordered(m, d, t, s), Drains(m, n, state)
  PROVE  Ordered(n, d, t, s)
<1>1. CASE Quiet(m, n)
  BY <1>1, OrderedSame DEF Quiet, SameComing
<1>2. CASE Pulls(m, n)
  <2> DEFINE h == Head(m.pending)
  <2>1. /\ m.pending \in Seq(Entries) /\ m.pending # <<>> /\ n.pending = Tail(m.pending)
        /\ n.run["drain"].prompt = h /\ m.run["drain"].at = "none"
    BY <1>2 DEF Pulls, Ready, Base, Memory
  <2>2. /\ Waits(t, s, n.pending) /\ Waits(t, s, d.pending)
        /\ \A i \in DOMAIN m.writes : Waits(t, s, m.writes[i].record.pending)
        /\ h \in Prompts => /\ h \in Range(t) /\ Ahead(t, h, n.pending)
                            /\ \A y \in Range(s) : Earlier(t, y, h)
    BY <2>1, WaitsTail DEF Ordered
  <2> HIDE DEF h
  <2>3. CASE n.run["drain"].at = "mask" /\ n.writes = m.writes
    <3>1. Coming(n) => Comes(n, d, t, s)
      BY <2>1, <2>2, <2>3 DEF Coming, Comes
    <3> QED BY <2>2, <2>3, <3>1 DEF Ordered
  <2>4. ASSUME n.run["drain"].at = "mark", NEW r \in ByRecord,
               n.writes = Append(m.writes, r), r.by = "drain", r.record.pending = n.pending
        PROVE  Ordered(n, d, t, s)
    <3>1. Coming(n) => h \in Prompts
      BY <2>1 DEF Coming
    <3> QED BY <2>1, <2>2, <2>4, <3>1, OrderedMark
  <2> QED BY <1>2, <2>3, <2>4 DEF Pulls
<1> QED BY <1>1, <1>2 DEF Drains

(* The head of the chain is on disk, or not. *)
LEMMA OrderedHead ==
  ASSUME Base(mem), mem.writes # <<>>, NEW t, NEW s, Ordered(mem, disk, t, s),
         NEW d \in {disk, Head(mem.writes).record}
  PROVE  LET w == Head(mem.writes)
             m == Shorter(mem)
         IN  /\ Ordered(Rest(m, "drain"), d, t, s)
             /\ w.by # "drain" => Ordered(m, d, t, s)
             /\ w.by = "drain" /\ Coming(mem) /\ mem.run["drain"].at = "mark" =>
                  /\ Comes(mem, disk, t, s)
                  /\ Ahead(t, mem.run["drain"].prompt, w.record.pending)
                  /\ \A i \in DOMAIN m.writes :
                       Ahead(t, mem.run["drain"].prompt, m.writes[i].record.pending)
<1> DEFINE w == Head(mem.writes)
           m == Shorter(mem)
           k == Rest(m, "drain")
           x == mem.run["drain"].prompt
<1>1. /\ 1 \in DOMAIN mem.writes /\ w = mem.writes[1] /\ m \in Memory
      /\ m.pending = mem.pending /\ m.run = mem.run
      /\ \A i \in DOMAIN m.writes :
           i + 1 \in DOMAIN mem.writes /\ i \in Nat /\ 1 <= i
           /\ m.writes[i] = mem.writes[i + 1]
  BY HeadOff DEF SameQueue
<1>2. /\ k.run["drain"].at = "none" /\ k.pending = m.pending /\ k.writes = m.writes
  BY <1>1, RestMemory DEF Owners, SameQueue
<1> HIDE DEF w, m, k, x
<1>3. \A i, j \in DOMAIN m.writes : i <= j => i + 1 <= j + 1 /\ 1 <= j + 1
  BY <1>1
<1>4. /\ Waits(t, s, m.pending) /\ Waits(t, s, d.pending)
      /\ \A i \in DOMAIN m.writes : Waits(t, s, m.writes[i].record.pending)
  <2>1. Waits(t, s, disk.pending) /\ Waits(t, s, w.record.pending)
    BY <1>1 DEF Ordered
  <2>2. Waits(t, s, d.pending)
    BY <2>1 DEF w
  <2> QED BY <1>1, <2>2 DEF Ordered
<1>5. Ordered(k, d, t, s)
  BY <1>2, <1>4 DEF Ordered, Coming
<1>6. ASSUME w.by # "drain" PROVE Ordered(m, d, t, s)
  <2>1. ASSUME Coming(m) PROVE Comes(m, d, t, s)
    <3>1. Comes(mem, disk, t, s)
      BY <1>1, <2>1 DEF Ordered, Coming
    <3>2. m.run["drain"].at = "attach" => Ahead(t, x, w.record.pending) /\ Ahead(t, x, disk.pending)
      BY <1>1, <3>1 DEF Comes, x
    <3>3. m.run["drain"].at = "attach" => Ahead(t, x, d.pending)
      BY <3>2 DEF w
    <3>4. m.run["drain"].at = "mark" =>
            \A i, j \in DOMAIN m.writes :
              i <= j /\ m.writes[i].by = "drain" => Ahead(t, x, m.writes[j].record.pending)
      BY <1>1, <1>3, <3>1 DEF Comes, x
    <3>5. m.run["drain"].at = "attach" =>
            \A i \in DOMAIN m.writes : Ahead(t, x, m.writes[i].record.pending)
      BY <1>1, <3>1 DEF Comes, x
    <3>6. x \in Range(t) /\ Ahead(t, x, m.pending) /\ \A y \in Range(s) : Earlier(t, y, x)
      BY <1>1, <3>1 DEF Comes, x
    <3>7. m.run["drain"].prompt = x
      BY <1>1 DEF x
    <3> QED BY <3>3, <3>4, <3>5, <3>6, <3>7 DEF Comes
  <2> QED BY <1>4, <2>1 DEF Ordered
<1>7. ASSUME w.by = "drain", Coming(mem), mem.run["drain"].at = "mark"
      PROVE  /\ Comes(mem, disk, t, s) /\ Ahead(t, x, w.record.pending)
             /\ \A i \in DOMAIN m.writes : Ahead(t, x, m.writes[i].record.pending)
  <2>1. Comes(mem, disk, t, s)
    BY <1>7 DEF Ordered
  <2>2. 1 <= 1 /\ \A i \in DOMAIN m.writes : 1 <= i + 1
    BY <1>1
  <2> QED BY <1>1, <1>7, <2>1, <2>2 DEF Comes, x
<1> QED BY <1>5, <1>6, <1>7 DEF w, m, k, x

(* The process goes on from what is in the chain or leaves it. *)
LEMMA OrderedGoes ==
  ASSUME NEW m \in Memory, NEW n, NEW d, NEW t, NEW s, NEW f \in Owners,
         Ordered(m, d, t, s), n.pending = m.pending, SameComing(m, n),
         f # "drain" \/ ~Coming(n),
         \/ n.writes = m.writes
         \/ \E r \in ByRecord : /\ n.writes = Append(m.writes, r) /\ r.by = f
                                /\ r.record.pending = m.pending
  PROVE  Ordered(n, d, t, s)
<1>1. CASE n.writes = m.writes
  BY <1>1, OrderedSame
<1>2. ASSUME NEW r \in ByRecord, n.writes = Append(m.writes, r), r.by = f,
             r.record.pending = m.pending
      PROVE  Ordered(n, d, t, s)
  BY <1>2, OrderedAsks
<1> QED BY <1>1, <1>2

LEMMA OrderedTyped ==
  ASSUME NEW m, NEW n, NEW d, NEW t \in Seq(Prompts), NEW s, NEW p \in Prompts,
         Ordered(m, d, t, s), n.writes = m.writes, n.run = m.run,
         Waits(Append(t, p), s, n.pending),
         \A x \in Range(t) : Ahead(t, x, m.pending) => Ahead(Append(t, p), x, n.pending)
  PROVE  Ordered(n, d, Append(t, p), s)
<1> DEFINE u == Append(t, p)
<1>1. /\ Range(t) \subseteq Range(u) /\ \A x, y : Earlier(t, x, y) => Earlier(u, x, y)
      /\ \A q : Waits(t, s, q) => Waits(u, s, q)
      /\ \A x, q : Ahead(t, x, q) => Ahead(u, x, q)
  BY EarlierTyped, WaitsTyped
<1> HIDE DEF u
<1>2. Waits(u, s, n.pending) /\ Waits(u, s, d.pending)
      /\ \A i \in DOMAIN n.writes : Waits(u, s, n.writes[i].record.pending)
  BY <1>1 DEF Ordered, u
<1>3. ASSUME Coming(n) PROVE Comes(n, d, u, s)
  <2> DEFINE x == m.run["drain"].prompt
  <2>1. Comes(m, d, t, s)
    BY <1>3 DEF Ordered, Coming
  <2>2. /\ x \in Range(u) /\ Ahead(u, x, n.pending)
        /\ \A y \in Range(s) : Earlier(u, y, x)
    BY <1>1, <2>1 DEF Comes, u
  <2>3. m.run["drain"].at = "mark" =>
          \A i, j \in DOMAIN m.writes :
            i <= j /\ m.writes[i].by = "drain" => Ahead(u, x, m.writes[j].record.pending)
    BY <1>1, <2>1 DEF Comes
  <2>4. m.run["drain"].at = "attach" =>
          /\ Ahead(u, x, d.pending)
          /\ \A i \in DOMAIN m.writes : Ahead(u, x, m.writes[i].record.pending)
    BY <1>1, <2>1 DEF Comes
  <2> HIDE DEF x
  <2>5. n.run["drain"].prompt = x
    BY DEF x
  <2> QED BY <2>2, <2>3, <2>4, <2>5 DEF Comes
<1> QED BY <1>2, <1>3 DEF Ordered, u

LEMMA OrderedSent ==
  ASSUME NEW m, NEW n, NEW d, NEW t, NEW s \in Seq(Prompts), NEW x \in Prompts,
         Ordered(m, d, t, s), n.pending = m.pending, n.writes = m.writes, ~Coming(n),
         Coming(m), m.run["drain"].at = "attach", x = m.run["drain"].prompt
  PROVE  Ordered(n, d, t, Append(s, x))
<1>1. Comes(m, d, t, s)
  BY DEF Ordered
<1>2. /\ Ahead(t, x, m.pending) /\ Ahead(t, x, d.pending)
      /\ \A i \in DOMAIN m.writes : Ahead(t, x, m.writes[i].record.pending)
  BY <1>1 DEF Comes
<1> QED BY <1>2, WaitsSent DEF Ordered

(* What was sent was typed, in that order, and nothing was typed twice. *)
SentOrder(t, s) ==
  /\ Range(s) \subseteq Range(t) /\ \A i, j \in DOMAIN s : i < j => Earlier(t, s[i], s[j])

Once(t) == \A k, l \in DOMAIN t : t[k] = t[l] => k = l

InOrder == Ordered(mem, disk, typed, sent) /\ SentOrder(typed, sent) /\ Once(typed)

LEMMA SentOrderTyped ==
  ASSUME NEW t \in Seq(Prompts), NEW s, NEW p \in Prompts, SentOrder(t, s), Once(t),
         p \notin Range(t)
  PROVE  SentOrder(Append(t, p), s) /\ Once(Append(t, p))
<1> DEFINE u == Append(t, p)
<1>1. /\ Range(t) \subseteq Range(u) /\ \A x, y : Earlier(t, x, y) => Earlier(u, x, y)
  BY EarlierTyped
<1>2. /\ DOMAIN u = DOMAIN t \cup {Len(t) + 1} /\ u[Len(t) + 1] = p
      /\ \A i \in DOMAIN t : i < Len(t) + 1 /\ u[i] = t[i]
  BY AppendElements
<1> HIDE DEF u
<1>3. SentOrder(u, s)
  BY <1>1 DEF SentOrder
<1>4. Once(u)
  <2>1. \A i \in DOMAIN t : u[i] # p
    BY <1>2 DEF Range
  <2>2. ASSUME NEW k \in DOMAIN u, NEW l \in DOMAIN u, u[k] = u[l] PROVE k = l
    <3>1. CASE k \in DOMAIN t /\ l \in DOMAIN t
      BY <1>2, <2>2, <3>1 DEF Once
    <3>2. CASE k = Len(t) + 1 \/ l = Len(t) + 1
      BY <1>2, <2>1, <2>2, <3>2
    <3> QED BY <1>2, <3>1, <3>2
  <2> QED BY <2>2 DEF Once
<1> QED BY <1>3, <1>4 DEF u

LEMMA SentOrderSent ==
  ASSUME NEW t, NEW s \in Seq(Prompts), NEW x \in Prompts, SentOrder(t, s),
         x \in Range(t), \A y \in Range(s) : Earlier(t, y, x)
  PROVE  SentOrder(t, Append(s, x))
<1> DEFINE r == Append(s, x)
<1>1. /\ DOMAIN r = DOMAIN s \cup {Len(s) + 1} /\ r[Len(s) + 1] = x
      /\ \A i \in DOMAIN s : i < Len(s) + 1 /\ r[i] = s[i]
      /\ DOMAIN s \subseteq Nat /\ Len(s) + 1 \in Nat
  BY AppendElements
<1> HIDE DEF r
<1>2. Range(r) \subseteq Range(t)
  BY <1>1 DEF Range, SentOrder
<1>3. ASSUME NEW i \in DOMAIN r, NEW j \in DOMAIN r, i < j PROVE Earlier(t, r[i], r[j])
  <2>1. i \in DOMAIN s /\ r[i] = s[i] /\ s[i] \in Range(s)
    BY <1>1, <1>3 DEF Range
  <2>2. CASE j \in DOMAIN s
    BY <1>1, <1>3, <2>1, <2>2 DEF SentOrder
  <2>3. CASE j = Len(s) + 1
    BY <1>1, <2>1, <2>3
  <2> QED BY <1>1, <2>2, <2>3
<1> QED BY <1>2, <1>3 DEF SentOrder, r

LEMMA NextKeepsOrder ==
  ASSUME "resume" \notin FailingWrites, Base(mem), disk \in Record, Told, InOrder, Next
  PROVE  InOrder'
<1> USE DEF history, bounds
<1> DEFINE Goal == Ordered(mem', disk', typed, sent)
<1>0. /\ mem \in Memory /\ Base(mem') /\ typed \in Seq(Prompts) /\ sent \in Seq(Prompts)
      /\ Ordered(mem, disk, typed, sent) /\ SentOrder(typed, sent) /\ Once(typed)
  BY NextKeepsBase DEF Base, Told, InOrder
<1>a. ASSUME Goal, UNCHANGED <<typed, sent>> PROVE InOrder'
  BY <1>0, <1>a DEF InOrder
<1> HIDE DEF Goal
<1>1. CASE RunNow
  <2>1. mem'.pending = mem.pending /\ mem'.writes = mem.writes /\ SameComing(mem, mem')
    BY <1>0, <1>1 DEF RunNow, Memory, SameComing
  <2>2. Ordered(mem', disk, typed, sent)
    BY <1>0, <2>1, OrderedSame
  <2> QED BY <1>1, <1>a, <2>2 DEF RunNow, Goal
<1>2. CASE Opened
  <2> DEFINE k == [mem EXCEPT !.persist = TRUE]
  <2>1. k \in Memory /\ k.pending = mem.pending /\ k.writes = mem.writes /\ k.run = mem.run
    BY <1>0 DEF Memory
  <2>2. mem' = SendTurn(k, "start", "first", FALSE) /\ disk' = disk /\ UNCHANGED <<typed, sent>>
    BY <1>2 DEF Opened
  <2> HIDE DEF k
  <2>3. "start" \in Owners /\ "first" \in Entries /\ FALSE \in BOOLEAN
    BY DEF Owners, Entries
  <2>4. Begins(k, mem', "start", "first", FALSE)
    BY <2>1, <2>2, <2>3, SendTurnBegins
  <2>5. Ordered(k, disk, typed, sent)
    BY <1>0, <2>1, OrderedSame DEF SameComing
  <2>6. mem'.pending = k.pending /\ SameComing(k, mem')
        /\ \/ mem'.writes = k.writes
           \/ \E r \in ByRecord : /\ mem'.writes = Append(k.writes, r) /\ r.by = "start"
                                  /\ r.record.pending = k.pending
    BY <2>4 DEF Begins, SameQueue, SameComing, Owners, Marks
  <2>7. Ordered(mem', disk, typed, sent)
    BY <2>1, <2>3, <2>5, <2>6, OrderedGoes
  <2> QED BY <1>a, <2>2, <2>7 DEF Goal
<1>3. ASSUME NEW k, Base(k), Ordered(k, disk, typed, sent), NEW by \in Bys \ Owners,
             mem' = Write(k, by)
      PROVE  Ordered(mem', disk, typed, sent)
  <2>1. /\ SameQueue(k, mem') /\ mem'.run = k.run
        /\ \E r \in ByRecord : /\ mem'.writes = Append(k.writes, r) /\ r.by = by
                               /\ r.record.pending = k.pending
    BY <1>3, AskIs
  <2>2. PICK r \in ByRecord : /\ mem'.writes = Append(k.writes, r) /\ r.by = by
                              /\ r.record.pending = k.pending
    BY <2>1
  <2>3. k \in Memory /\ mem'.pending = k.pending /\ SameComing(k, mem') /\ r.by # "drain"
    BY <1>3, <2>1, <2>2 DEF SameQueue, SameComing, Base, Owners
  <2> QED BY <1>3, <2>2, <2>3, OrderedAsks
<1>4. CASE ResumeInterrupted
  <2>1. PICK k : /\ Base(k) /\ mem' = Write(k, "resume") /\ "resume" \in Bys \ Owners
                 /\ k.pending = IF mem.interrupted THEN <<"auto">> \o mem.pending
                                ELSE mem.pending
                 /\ k.run = mem.run /\ k.writes = mem.writes
    BY <1>4, ResumeAsks
  <2>2. mem.pending \in Seq(Entries)
    BY <1>0 DEF Memory
  <2>3. Waits(typed, sent, k.pending)
        /\ \A x : Ahead(typed, x, mem.pending) => Ahead(typed, x, k.pending)
    BY <1>0, <2>1, <2>2, WaitsAuto DEF Ordered
  <2>4. Ordered(k, disk, typed, sent)
    BY <1>0, <2>1, <2>3, OrderedQueue DEF SameComing
  <2>5. Ordered(mem', disk, typed, sent)
    BY <1>3, <2>1, <2>4
  <2> QED BY <1>4, <1>a, <2>5 DEF ResumeInterrupted, Goal
<1>5. CASE PersistTimer
  <2>1. PICK k : /\ Base(k) /\ mem' = Write(k, "timer") /\ "timer" \in Bys \ Owners
                 /\ k.pending = mem.pending
                 /\ k.run = mem.run /\ k.writes = mem.writes
    BY <1>5, TimerAsks
  <2>2. Ordered(k, disk, typed, sent)
    BY <1>0, <2>1, OrderedSame DEF SameComing
  <2>3. Ordered(mem', disk, typed, sent)
    BY <1>3, <2>1, <2>2
  <2> QED BY <1>5, <1>a, <2>3 DEF PersistTimer, Goal
<1>6. ASSUME NEW p \in Prompts, Prompt(p) PROVE InOrder'
  <2> DEFINE u == Append(typed, p)
             w == Without(mem.pending, "auto")
  <2>1. PICK k : /\ Base(k) /\ mem' = Write(k, p) /\ p \in Bys \ Owners
                 /\ k.pending = Append(w, p) /\ k.run = mem.run /\ k.writes = mem.writes
    BY <1>6, PromptAsks
  <2>2. typed' = u /\ p \notin Range(typed) /\ UNCHANGED <<disk, sent>>
    BY <1>6 DEF Prompt
  <2>3. mem.pending \in Seq(Entries)
    BY <1>0 DEF Memory
  <2>4. /\ w \in Seq(Entries) /\ Waits(typed, sent, w)
        /\ \A x : Ahead(typed, x, mem.pending) => Ahead(typed, x, w)
    BY <1>0, <2>3, WithoutElements, WaitsWithout DEF Ordered
  <2> HIDE DEF w
  <2>5. /\ Waits(u, sent, k.pending)
        /\ \A x \in Range(typed) : Ahead(typed, x, w) => Ahead(u, x, k.pending)
    BY <1>0, <1>6, <2>1, <2>4, WaitsPrompt DEF SentOrder
  <2>6. Ordered(k, disk, u, sent)
    BY <1>0, <1>6, <2>1, <2>4, <2>5, OrderedTyped
  <2>7. /\ SameQueue(k, mem') /\ mem'.run = k.run
        /\ \E r \in ByRecord : /\ mem'.writes = Append(k.writes, r) /\ r.by = p
                               /\ r.record.pending = k.pending
    BY <2>1, AskIs
  <2>8. PICK r \in ByRecord : /\ mem'.writes = Append(k.writes, r) /\ r.by = p
                              /\ r.record.pending = k.pending
    BY <2>7
  <2>9. k \in Memory /\ mem'.pending = k.pending /\ SameComing(k, mem') /\ r.by # "drain"
    BY <2>1, <2>7, <2>8 DEF SameQueue, SameComing, Base, Owners
  <2>10. Ordered(mem', disk, u, sent)
    BY <2>6, <2>8, <2>9, OrderedAsks
  <2>11. SentOrder(u, sent) /\ Once(u)
    BY <1>0, <1>6, <2>2, SentOrderTyped
  <2> QED BY <2>2, <2>10, <2>11 DEF InOrder
<1>7. ASSUME NEW q \in Seq(Entries), NEW b \in BOOLEAN,
             mem' = [mem EXCEPT !.pending = q, !.blocked = b, !.persist = TRUE],
             Waits(typed, sent, q), \A x : Ahead(typed, x, mem.pending) => Ahead(typed, x, q)
      PROVE  Ordered(mem', disk, typed, sent)
  <2>1. mem'.pending = q /\ mem'.writes = mem.writes /\ mem'.run = mem.run
    BY <1>7, EditedBase
  <2>2. SameComing(mem, mem')
    BY <2>1 DEF SameComing
  <2>3. \A x : Ahead(typed, x, mem.pending) => Ahead(typed, x, mem'.pending)
    BY <1>7, <2>1
  <2>4. Waits(typed, sent, mem'.pending) /\ mem'.writes = mem.writes
    BY <1>7, <2>1
  <2> QED BY <1>0, <2>2, <2>3, <2>4, OrderedQueue
<1>8. CASE ClearPending
  <2>1. PICK b \in BOOLEAN :
          mem' = [mem EXCEPT !.pending = <<>>, !.blocked = b, !.persist = TRUE]
    BY <1>8, ClearPendingEdits
  <2>2. <<>> \in Seq(Entries)
    OBVIOUS
  <2>3. Ordered(mem', disk, typed, sent)
    BY <1>7, <2>1, <2>2, WaitsNone
  <2> QED BY <1>8, <1>a, <2>3 DEF ClearPending, Goal
<1>9. ASSUME NEW p, CancelPending(p) PROVE InOrder'
  <2>1. PICK b \in BOOLEAN :
          mem' = [mem EXCEPT !.pending = Without(mem.pending, p), !.blocked = b,
                             !.persist = TRUE]
    BY <1>9, CancelPendingEdits
  <2>2. mem.pending \in Seq(Entries) /\ Waits(typed, sent, mem.pending)
    BY <1>0 DEF Memory, Ordered
  <2>3. Without(mem.pending, p) \in Seq(Entries)
    BY <2>2, WithoutElements
  <2>4. Ordered(mem', disk, typed, sent)
    BY <1>7, <2>1, <2>2, <2>3, WaitsWithout
  <2> QED BY <1>9, <1>a, <2>4 DEF CancelPending, Goal
<1>10. ASSUME NEW f \in Owners, Turn(f) \/ Completes(f) PROVE InOrder'
  <2>1. CASE Masked(f)
    <3>1. /\ SameQueue(mem, mem') /\ Marks(mem, mem', f) /\ mem.run[f].at = "mask"
          /\ mem'.run = [mem.run EXCEPT ![f].at = "mark"]
      BY <1>0, <2>1, MarkTurnMarks DEF Masked
    <3>2. /\ mem'.pending = mem.pending /\ mem.run \in [Owners -> Run] /\ mem'.run[f].at = "mark"
      BY <1>0, <3>1 DEF SameQueue, Memory, Marks
    <3>3. mem'.run[f].prompt = mem.run[f].prompt /\ mem'.run[f].nudge = mem.run[f].nudge
          /\ \A g \in Owners \ {f} : mem'.run[g] = mem.run[g]
      BY <3>1, <3>2 DEF Run
    <3>4. PICK r \in ByRecord : /\ mem'.writes = Append(mem.writes, r) /\ r.by = f
                                /\ r.record.pending = mem.pending
      BY <3>1 DEF Marks
    <3>5. CASE f = "drain"
      <4>1. Coming(mem') => Comes(mem, disk, typed, sent)
        BY <1>0, <3>1, <3>3, <3>5 DEF Ordered, Coming
      <4>2. Coming(mem') => /\ mem'.run["drain"].prompt \in Range(typed)
                            /\ Ahead(typed, mem'.run["drain"].prompt, mem'.pending)
                            /\ \A y \in Range(sent) : Earlier(typed, y, mem'.run["drain"].prompt)
        BY <3>2, <3>3, <3>5, <4>1 DEF Comes
      <4>3. /\ Waits(typed, sent, mem'.pending) /\ Waits(typed, sent, disk.pending)
            /\ \A i \in DOMAIN mem.writes : Waits(typed, sent, mem.writes[i].record.pending)
        BY <1>0, <3>2 DEF Ordered
      <4>4. Ordered(mem', disk, typed, sent)
        BY <3>1, <3>2, <3>4, <3>5, <4>2, <4>3, OrderedMark
      <4> QED BY <1>a, <2>1, <4>4 DEF Masked, Goal
    <3>6. CASE f = "start"
      <4>1. SameComing(mem, mem')
        BY <3>3, <3>6 DEF SameComing, Owners
      <4>2. Ordered(mem', disk, typed, sent)
        BY <1>0, <3>2, <3>4, <3>6, <4>1, OrderedGoes
      <4> QED BY <1>a, <2>1, <4>2 DEF Masked, Goal
    <3> QED BY <3>5, <3>6 DEF Owners
  <2>2. CASE Attached(f)
    <3>1. /\ mem'.pending = mem.pending /\ mem'.writes = mem.writes
          /\ \A g \in Owners \ {f} : mem'.run[g] = mem.run[g]
          /\ mem.run[f].at = "attach" /\ mem'.run[f].at = "agent"
      BY <2>2, AttachedBase DEF SameQueue
    <3>2. CASE mem.run[f].prompt \in Prompts /\ ~mem.run[f].nudge
      <4>1. f = "drain"
        BY <3>1, <3>2, TurnAssumption DEF Owners, Base, Chain
      <4>2. Coming(mem) /\ ~Coming(mem')
        BY <3>1, <3>2, <4>1 DEF Coming
      <4> DEFINE x == mem.run[f].prompt
      <4>3. x \in Prompts /\ sent' = Append(sent, x) /\ UNCHANGED <<disk, typed>>
        BY <2>2, <3>2 DEF Attached
      <4>4. Comes(mem, disk, typed, sent)
        BY <1>0, <4>2 DEF Ordered
      <4>5. x \in Range(typed) /\ \A y \in Range(sent) : Earlier(typed, y, x)
        BY <4>1, <4>4 DEF Comes
      <4>6. Ordered(mem', disk, typed, Append(sent, x))
        BY <1>0, <3>1, <4>1, <4>2, <4>3, OrderedSent
      <4> HIDE DEF x
      <4>7. SentOrder(typed, Append(sent, x))
        BY <1>0, <4>3, <4>5, SentOrderSent
      <4> QED BY <1>0, <4>3, <4>6, <4>7 DEF InOrder
    <3>3. CASE ~(mem.run[f].prompt \in Prompts /\ ~mem.run[f].nudge)
      <4>1. SameComing(mem, mem')
        BY <3>1 DEF SameComing, Coming, Owners
      <4>2. Ordered(mem', disk, typed, sent)
        BY <1>0, <3>1, <4>1, OrderedSame
      <4>3. UNCHANGED <<disk, typed, sent>>
        BY <2>2, <3>3 DEF Attached
      <4> QED BY <1>a, <4>2, <4>3 DEF Goal
    <3> QED BY <3>2, <3>3
  <2>3. CASE AttachFails(f) \/ TurnStops(f)
    <3>1. PICK o \in Outcomes : mem' = ClearTurn(mem, f, o)
      BY <2>3 DEF AttachFails, TurnStops, Outcomes
    <3>2. Clears(mem, mem', f)
      BY <1>0, <3>1, ClearTurnClears
    <3>3. mem'.pending = mem.pending /\ SameComing(mem, mem') /\ (f # "drain" \/ ~Coming(mem'))
      BY <3>2 DEF Clears, SameQueue, SameComing, Coming, Owners
    <3>4. \E r \in ByRecord : /\ mem'.writes = Append(mem.writes, r) /\ r.by = f
                              /\ r.record.pending = mem.pending
      BY <3>2 DEF Clears
    <3>5. Ordered(mem', disk, typed, sent)
      BY <1>0, <3>3, <3>4, OrderedGoes
    <3> QED BY <1>a, <2>3, <3>5 DEF AttachFails, TurnStops, Goal
  <2>4. CASE Completes(f)
    <3>1. /\ mem'.pending = mem.pending /\ mem'.writes = mem.writes /\ SameComing(mem, mem')
      BY <2>4, CompletesBase DEF SameQueue, SameComing, Owners
    <3>2. Ordered(mem', disk, typed, sent)
      BY <1>0, <3>1, OrderedSame
    <3> QED BY <1>a, <2>4, <3>2 DEF Completes, Goal
  <2> QED BY <1>10, <2>1, <2>2, <2>3, <2>4 DEF Turn
<1>11. ASSUME NEW k, Base(k), Ordered(k, disk', typed, sent), mem' = Drain(k) PROVE Goal
  BY <1>11, DrainDrains, OrderedDrains DEF Goal
<1>12. CASE Block
  <2>1. /\ mem'.writes = mem.writes /\ mem'.run = mem.run /\ mem'.pending = mem.pending
    BY <1>12, HeldBase DEF Block
  <2>2. Ordered(mem', disk, typed, sent)
    BY <1>0, <2>1, OrderedSame DEF SameComing
  <2> QED BY <1>12, <1>a, <2>2 DEF Block, Goal
<1>13. CASE Unblock
  <2> DEFINE k == [mem EXCEPT !.blocked = FALSE]
  <2>1. /\ Base(k) /\ k.writes = mem.writes /\ k.run = mem.run /\ k.pending = mem.pending
    BY HeldBase
  <2>2. mem' = Drain(k) /\ disk' = disk /\ UNCHANGED <<typed, sent>>
    BY <1>13 DEF Unblock
  <2> HIDE DEF k
  <2>3. Ordered(k, disk', typed, sent)
    BY <1>0, <2>1, <2>2, OrderedSame DEF SameComing
  <2>4. Goal
    BY <1>11, <2>1, <2>2, <2>3
  <2> QED BY <1>a, <2>2, <2>4
<1>14. CASE Pass
  <2>1. mem' = Drain(mem) /\ disk' = disk /\ UNCHANGED <<typed, sent>>
    BY <1>14 DEF Pass
  <2> QED BY <1>0, <1>11, <1>a, <2>1
<1>15. CASE WriteLands
  <2> DEFINE w == Head(mem.writes)
             m == Shorter(mem)
             f == w.by
  <2>1. mem.writes # <<>> /\ disk' = w.record /\ UNCHANGED <<typed, sent>>
    BY <1>15, LandsHow
  <2> SUFFICES Goal
    BY <1>a, <2>1
  <2>2. /\ Ordered(Rest(m, "drain"), disk', typed, sent)
        /\ f # "drain" => Ordered(m, disk', typed, sent)
        /\ f = "drain" /\ Coming(mem) /\ mem.run["drain"].at = "mark" =>
             /\ Comes(mem, disk, typed, sent)
             /\ Ahead(typed, mem.run["drain"].prompt, disk'.pending)
             /\ \A i \in DOMAIN m.writes :
                  Ahead(typed, mem.run["drain"].prompt, m.writes[i].record.pending)
    BY <1>0, <2>1, OrderedHead
  <2>3. m \in Memory /\ m.run = mem.run /\ m.pending = mem.pending
    BY <2>1, HeadOff DEF SameQueue
  <2>4. \/ f \in Owners /\ mem.run[f].at = "mark" /\ Attaches(m, mem', f)
        \/ /\ f \in Owners
           /\ \E k : /\ Ended(m, k, f) /\ Chain(Rest(k, f))
                     /\ \/ Begins(k, mem', f, m.run[f].prompt, TRUE)
                        \/ Drains(Rest(k, f), mem', m.state)
        \/ /\ f \notin Owners
           /\ \E k : SameWork(m, k) /\ Base(k) /\ mem' = Drain(k)
        \/ f \notin Owners /\ mem' = m
    BY <1>15, LandsHow
  <2> HIDE DEF w, m, f
  <2>5. ASSUME NEW g \in Owners, g = f PROVE Ordered(Rest(m, g), disk', typed, sent)
    <3>1. CASE g = "drain"
      BY <2>2, <3>1
    <3>2. CASE g = "start"
      <4>1. /\ Rest(m, g).pending = m.pending /\ Rest(m, g).writes = m.writes
            /\ Rest(m, g).run["drain"] = m.run["drain"]
        BY <2>3, <3>2, RestMemory DEF SameQueue, Owners
      <4>2. SameComing(m, Rest(m, g))
        BY <4>1 DEF SameComing
      <4> QED BY <2>2, <2>5, <3>2, <4>1, <4>2, OrderedSame
    <3> QED BY <3>1, <3>2 DEF Owners
  <2>6. CASE f \in Owners /\ mem.run[f].at = "mark" /\ Attaches(m, mem', f)
    <3>1. /\ mem'.pending = m.pending /\ mem'.writes = m.writes
          /\ \A g \in Owners \ {f} : mem'.run[g] = m.run[g]
          /\ mem'.run[f].at = "attach" /\ mem'.run[f].prompt = m.run[f].prompt
          /\ mem'.run[f].nudge = m.run[f].nudge
      BY <2>6 DEF Attaches, SameQueue
    <3>2. CASE f = "start"
      <4>1. SameComing(m, mem')
        BY <3>1, <3>2 DEF SameComing, Owners
      <4> QED BY <2>2, <3>1, <3>2, <4>1, OrderedSame DEF Goal
    <3>3. CASE f = "drain"
      <4>1. ASSUME Coming(mem') PROVE Comes(mem', disk', typed, sent)
        <5>1. Coming(mem)
          BY <2>3, <2>6, <3>1, <3>3, <4>1 DEF Coming
        <5>2. /\ Comes(mem, disk, typed, sent)
              /\ Ahead(typed, mem.run["drain"].prompt, disk'.pending)
              /\ \A i \in DOMAIN m.writes :
                   Ahead(typed, mem.run["drain"].prompt, m.writes[i].record.pending)
          BY <2>2, <2>6, <3>3, <5>1
        <5>3. mem'.run["drain"].prompt = mem.run["drain"].prompt /\ mem'.run["drain"].at = "attach"
          BY <2>3, <3>1, <3>3
        <5> QED BY <2>3, <3>1, <5>2, <5>3 DEF Comes
      <4>2. /\ Waits(typed, sent, m.pending) /\ Waits(typed, sent, disk'.pending)
            /\ \A i \in DOMAIN m.writes : Waits(typed, sent, m.writes[i].record.pending)
        <5>1. Rest(m, "drain").pending = m.pending /\ Rest(m, "drain").writes = m.writes
          BY <2>3, RestMemory DEF SameQueue, Owners
        <5> QED BY <2>2, <5>1 DEF Ordered
      <4> QED BY <3>1, <4>1, <4>2 DEF Ordered, Goal
    <3> QED BY <2>6, <3>2, <3>3 DEF Owners
  <2>7. ASSUME NEW g \in Owners, g = f, NEW k, Ended(m, k, g), Chain(Rest(k, g)),
               \/ Begins(k, mem', g, m.run[g].prompt, TRUE)
               \/ Drains(Rest(k, g), mem', m.state)
        PROVE  Goal
    <3> DEFINE l == Rest(k, g)
    <3>1. /\ k \in Memory /\ k.writes = m.writes /\ k.run = m.run
          /\ k.pending = m.pending \/ k.pending = <<"auto">>
      BY <2>7 DEF Ended
    <3>2. /\ l \in Memory /\ l.writes = m.writes /\ l.pending = k.pending /\ Base(l)
          /\ l.run[g] = NoRun /\ \A h \in Owners \ {g} : l.run[h] = m.run[h]
      BY <2>7, <3>1, RestMemory DEF SameQueue, Base
    <3>3. /\ Rest(m, g).writes = m.writes /\ Rest(m, g).pending = m.pending
          /\ Rest(m, g).run[g] = NoRun /\ \A h \in Owners \ {g} : Rest(m, g).run[h] = m.run[h]
      BY <2>3, <2>7, RestMemory DEF SameQueue
    <3> HIDE DEF l
    <3>4. SameComing(Rest(m, g), l)
      BY <3>2, <3>3 DEF SameComing, Owners
    <3>5. Ordered(Rest(m, g), disk', typed, sent)
      BY <2>5, <2>7
    <3>6. Ordered(l, disk', typed, sent)
      <4>1. CASE k.pending = m.pending
        BY <3>2, <3>3, <3>4, <3>5, <4>1, OrderedSame
      <4>2. CASE k.pending = <<"auto">>
        BY <3>2, <3>3, <3>4, <3>5, <4>2, OrderedQueue, WaitsNone
      <4> QED BY <3>1, <4>1, <4>2
    <3>7. CASE Drains(Rest(k, g), mem', m.state)
      BY <3>2, <3>6, <3>7, OrderedDrains DEF l, Goal
    <3>8. CASE Begins(k, mem', g, m.run[g].prompt, TRUE)
      <4>1. mem'.pending = l.pending /\ SameComing(l, mem') /\ (g # "drain" \/ ~Coming(mem'))
        BY <3>1, <3>2, <3>8 DEF Begins, SameQueue, SameComing, Coming, Owners
      <4>2. \/ mem'.writes = l.writes
            \/ \E r \in ByRecord : /\ mem'.writes = Append(l.writes, r) /\ r.by = g
                                   /\ r.record.pending = l.pending
        BY <3>1, <3>2, <3>8 DEF Begins, Marks
      <4> QED BY <2>7, <3>2, <3>6, <4>1, <4>2, OrderedGoes DEF Goal
    <3> QED BY <2>7, <3>7, <3>8
  <2>8. ASSUME f \notin Owners, NEW k, SameWork(m, k), Base(k), mem' = Drain(k)
        PROVE  Goal
    <3>1. f # "drain"
      BY <2>8 DEF Owners
    <3>2. Ordered(k, disk', typed, sent)
      BY <2>2, <2>8, <3>1, OrderedSame DEF SameWork, SameComing
    <3> QED BY <1>11, <2>8, <3>2
  <2>9. CASE f \notin Owners /\ mem' = m
    BY <2>2, <2>9 DEF Owners, Goal
  <2> QED BY <2>4, <2>6, <2>7, <2>8, <2>9
<1>16. CASE WriteFails
  <2> DEFINE w == Head(mem.writes)
             m == Shorter(mem)
             f == w.by
  <2>1. mem.writes # <<>> /\ disk' \in {disk, w.record} /\ UNCHANGED <<typed, sent>>
    BY <1>16, FailsHow
  <2> SUFFICES Goal
    BY <1>a, <2>1
  <2>2. /\ Ordered(Rest(m, "drain"), disk', typed, sent)
        /\ f # "drain" => Ordered(m, disk', typed, sent)
    BY <1>0, <2>1, OrderedHead
  <2>3. m \in Memory
    BY <2>1, HeadOff
  <2>4. \/ f \in Owners
           /\ \E k : /\ SameWork(m, k) /\ Chain(Rest(k, f))
                     /\ Drains(Rest(k, f), mem', IF f = "start" THEN "draft" ELSE m.state)
        \/ f \in Owners /\ Chain(Rest(m, f))
           /\ Drains(Rest(m, f), mem', IF f = "start" THEN "draft" ELSE m.state)
        \/ f \notin Owners /\ mem' = m
    BY <1>16, FailsHow
  <2> HIDE DEF w, m, f
  <2>5. ASSUME NEW g \in Owners, g = f, NEW k \in Memory, NEW s,
               k.pending = m.pending, k.writes = m.writes, k.run = m.run,
               Chain(Rest(k, g)), Drains(Rest(k, g), mem', s)
        PROVE  Goal
    <3> DEFINE l == Rest(k, g)
    <3>1. /\ l \in Memory /\ l.writes = m.writes /\ l.pending = m.pending /\ Base(l)
          /\ l.run[g] = NoRun /\ \A h \in Owners \ {g} : l.run[h] = m.run[h]
      BY <2>5, RestMemory DEF SameQueue, Base
    <3>2. /\ Rest(m, g).writes = m.writes /\ Rest(m, g).pending = m.pending
          /\ Rest(m, g).run[g] = NoRun /\ \A h \in Owners \ {g} : Rest(m, g).run[h] = m.run[h]
      BY <2>3, <2>5, RestMemory DEF SameQueue
    <3> HIDE DEF l
    <3>3. SameComing(Rest(m, g), l) /\ (g = "start" => SameComing(m, l))
      BY <3>1, <3>2 DEF SameComing, Owners
    <3>4. Ordered(l, disk', typed, sent)
      <4>1. CASE g = "drain"
        BY <2>2, <3>1, <3>2, <3>3, <4>1, OrderedSame
      <4>2. CASE g = "start"
        BY <2>2, <2>5, <3>1, <3>3, <4>2, OrderedSame
      <4> QED BY <4>1, <4>2 DEF Owners
    <3> QED BY <2>5, <3>1, <3>4, OrderedDrains DEF l, Goal
  <2>6. ASSUME f \in Owners, NEW k, SameWork(m, k), Chain(Rest(k, f)),
               Drains(Rest(k, f), mem', IF f = "start" THEN "draft" ELSE m.state)
        PROVE  Goal
    BY <2>5, <2>6 DEF SameWork
  <2>7. CASE /\ f \in Owners /\ Chain(Rest(m, f))
             /\ Drains(Rest(m, f), mem', IF f = "start" THEN "draft" ELSE m.state)
    BY <2>3, <2>5, <2>7
  <2>8. CASE f \notin Owners /\ mem' = m
    BY <2>2, <2>8 DEF Owners, Goal
  <2> QED BY <2>4, <2>6, <2>7, <2>8
<1>17. CASE Crash
  <2>1. disk' \in Record /\ mem' = Restored(disk') /\ UNCHANGED <<typed, sent>>
    BY <1>17, NextKeepsBase DEF Crash
  <2>2. Waits(typed, sent, disk'.pending)
    <3>1. CASE mem.writes = <<>>
      BY <1>0, <1>17, <3>1 DEF Crash, Ordered
    <3>2. CASE mem.writes # <<>>
      <4>1. 1 \in DOMAIN mem.writes /\ Head(mem.writes) = mem.writes[1]
        BY <3>2, HeadOff
      <4>2. Waits(typed, sent, disk.pending) /\ Waits(typed, sent, Head(mem.writes).record.pending)
        BY <1>0, <4>1 DEF Ordered
      <4> QED BY <1>17, <3>2, <4>2 DEF Crash
    <3> QED BY <3>1, <3>2
  <2>3. /\ mem'.pending = disk'.pending /\ mem'.writes = <<>> /\ ~Coming(mem')
    BY <2>1, RestoredBase DEF Coming, Owners
  <2>4. Goal
    BY <2>2, <2>3 DEF Ordered, Goal
  <2> QED BY <1>a, <2>1, <2>4
<1> QED BY <1>1, <1>2, <1>4, <1>5, <1>6, <1>8, <1>9, <1>10, <1>12, <1>13, <1>14, <1>15,
           <1>16, <1>17 DEF Next

(* Messages reach the agent in the order they were typed and none of them    *)
(* twice, whatever the user takes back, however often other writes fail and  *)
(* the application restarts: a message under way is in no file that a crash   *)
(* could bring back once its turn was marked.  A recovery whose write fails  *)
(* is left out: it puts back a queue of before, which may hold a message that *)
(* was sent meanwhile.                                                        *)
THEOREM MessagesInOrder ==
  ASSUME "resume" \notin FailingWrites
  PROVE  Spec => []SentInOrder
<1>1. Init => InOrder
  <2> SUFFICES ASSUME Init PROVE InOrder
    OBVIOUS
  <2>1. /\ disk \in Record /\ disk.pending = <<>> /\ mem = Restored(disk)
        /\ typed = <<>> /\ sent = <<>>
    BY InitBase DEF Init
  <2>2. mem.pending = <<>> /\ mem.writes = <<>> /\ ~Coming(mem)
    BY <2>1, RestoredBase DEF Coming, Owners
  <2>3. Ordered(mem, disk, typed, sent)
    BY <2>1, <2>2, WaitsNone DEF Ordered
  <2>4. SentOrder(typed, sent) /\ Once(typed)
    BY <2>1 DEF SentOrder, Once, Range
  <2> QED BY <2>3, <2>4 DEF InOrder
<1>2. InOrder /\ TypeOK /\ Base(mem) /\ disk \in Record /\ [Next]_vars => InOrder'
  <2> SUFFICES ASSUME InOrder, TypeOK, Base(mem), disk \in Record, [Next]_vars PROVE InOrder'
    OBVIOUS
  <2>1. CASE Next
    BY <2>1, NextKeepsOrder DEF TypeOK, Told
  <2>2. CASE UNCHANGED vars
    BY <2>2 DEF vars, history, InOrder
  <2> QED BY <2>1, <2>2
<1>3. InOrder => SentInOrder
  BY DEF InOrder, SentOrder, Earlier, Once, SentInOrder
<1> QED BY <1>1, <1>2, <1>3, AlwaysBase, TurnTypeCorrect, PTL DEF Spec

-----------------------------------------------------------------------------
(* The contract judges a turn by its own `complete`.                       *)

(* A session with the contract was started long ago, and says so wherever it *)
(* is written; its loop's turn, from its marker on, begins unjudged, and what *)
(* the session holds of `complete` is what this turn did.                    *)
Judged(m, d) ==
  LET a == m.run["drain"]
  IN  /\ d.contract = m.contract
      /\ \A i \in DOMAIN m.writes : m.writes[i].record.contract = m.contract
      /\ m.contract =>
           /\ m.state = "started" /\ m.run["start"].at = "none" /\ d.state = "started"
           /\ \A i \in DOMAIN m.writes : m.writes[i].record.state = "started"
           /\ a.at \in {"mask", "mark", "attach"} => ~a.done
           /\ a.at \in {"mark", "attach"} => ~m.turnComplete
           /\ a.at \in {"agent", "clear"} => (m.turnComplete <=> a.done)
           /\ a.at \in {"mark", "attach", "agent", "clear"} => ~m.incomplete

(* The turns are as they were, or there is none. *)
SameJudged(m, n) ==
  /\ n.contract = m.contract
  /\ m.contract =>
       /\ n.state = m.state /\ n.run["start"].at = m.run["start"].at
       /\ \/ n.run["drain"].at = "none"
          \/ n.run["drain"].at = "mask" /\ ~n.run["drain"].done
          \/ /\ n.run["drain"].at = "mark" /\ ~n.run["drain"].done
             /\ ~n.turnComplete /\ ~n.incomplete
          \/ /\ n.run["drain"].at = m.run["drain"].at
             /\ n.run["drain"].done = m.run["drain"].done
             /\ n.turnComplete = m.turnComplete /\ n.incomplete = m.incomplete

LEMMA JudgedSame ==
  ASSUME NEW m, NEW n, NEW d, Judged(m, d), SameJudged(m, n), n.writes = m.writes
  PROVE  Judged(n, d)
BY DEF Judged, SameJudged

LEMMA JudgedAsks ==
  ASSUME NEW m \in Memory, NEW n, NEW d, Judged(m, d), SameJudged(m, n),
         NEW r \in ByRecord, n.writes = Append(m.writes, r),
         r.record.contract = m.contract, r.record.state = m.state
  PROVE  Judged(n, d)
<1>1. m.writes \in Seq(ByRecord)
  BY DEF Memory, ByRecord, Bys
<1>2. /\ DOMAIN n.writes = DOMAIN m.writes \cup {Len(m.writes) + 1}
      /\ n.writes[Len(m.writes) + 1] = r
      /\ \A i \in DOMAIN m.writes : n.writes[i] = m.writes[i]
  BY <1>1, AppendElements
<1> QED BY <1>2 DEF Judged, SameJudged

LEMMA JudgedDrains ==
  ASSUME NEW m \in Memory, NEW n, NEW d, NEW state, Judged(m, d), Drains(m, n, state),
         m.contract => state = m.state
  PROVE  Judged(n, d)
<1>1. n.contract = m.contract /\ (m.contract => n.state = m.state)
  BY DEF Drains
<1>2. CASE Quiet(m, n)
  BY <1>1, <1>2, JudgedSame DEF Quiet, SameJudged
<1>3. CASE Pulls(m, n) /\ n.writes = m.writes
  <2>1. SameJudged(m, n)
    BY <1>1, <1>3 DEF Pulls, SameJudged
  <2> QED BY <1>3, <2>1, JudgedSame
<1>4. ASSUME Pulls(m, n), n.writes # m.writes PROVE Judged(n, d)
  <2>1. SameJudged(m, n)
    BY <1>1, <1>4 DEF Pulls, SameJudged
  <2>2. PICK r \in ByRecord : /\ n.writes = Append(m.writes, r)
                              /\ r.record.state = m.state /\ r.record.contract = m.contract
    BY <1>4 DEF Pulls
  <2> QED BY <2>1, <2>2, JudgedAsks
<1> QED BY <1>2, <1>3, <1>4 DEF Drains

LEMMA JudgedHead ==
  ASSUME Base(mem), mem.writes # <<>>, Judged(mem, disk),
         NEW d \in {disk, Head(mem.writes).record}
  PROVE  Judged(Shorter(mem), d)
<1> DEFINE m == Shorter(mem)
<1>1. /\ 1 \in DOMAIN mem.writes /\ Head(mem.writes) = mem.writes[1] /\ m \in Memory
      /\ m.run = mem.run /\ m.state = mem.state /\ m.contract = mem.contract
      /\ m.turnComplete = mem.turnComplete /\ m.incomplete = mem.incomplete
      /\ \A i \in DOMAIN m.writes :
           i + 1 \in DOMAIN mem.writes /\ m.writes[i] = mem.writes[i + 1]
  BY HeadOff DEF SameQueue
<1> HIDE DEF m
<1>2. d.contract = mem.contract /\ (mem.contract => d.state = "started")
  BY <1>1 DEF Judged
<1>3. \A i \in DOMAIN m.writes : /\ m.writes[i].record.contract = mem.contract
                                 /\ mem.contract => m.writes[i].record.state = "started"
  BY <1>1 DEF Judged
<1>4. Judged(m, d)
  BY <1>1, <1>2, <1>3 DEF Judged
<1> QED BY <1>4 DEF m

LEMMA NextKeepsJudged ==
  ASSUME Base(mem), disk \in Record, Judged(mem, disk), Next
  PROVE  Judged(mem', disk')
<1> USE DEF history, bounds
<1>0. mem \in Memory /\ Base(mem') /\ mem' \in Memory
      /\ (mem.contract => mem.state = "started" /\ mem.run["start"].at = "none")
  BY NextKeepsBase DEF Base, Judged
<1>1. CASE RunNow
  <2>1. mem'.contract = mem.contract /\ mem'.writes = mem.writes /\ ~mem.contract
    BY <1>0, <1>1 DEF RunNow, Memory
  <2>2. Judged(mem', disk)
    BY <2>1, JudgedSame DEF SameJudged
  <2> QED BY <1>1, <2>2 DEF RunNow
<1>2. CASE Opened
  <2> DEFINE k == [mem EXCEPT !.persist = TRUE]
  <2>1. k \in Memory /\ k.contract = mem.contract /\ k.writes = mem.writes /\ k.state = mem.state
    BY <1>0 DEF Memory
  <2>2. mem' = SendTurn(k, "start", "first", FALSE) /\ disk' = disk /\ ~mem.contract
    BY <1>0, <1>2 DEF Opened
  <2> HIDE DEF k
  <2>3. "start" \in Owners /\ "first" \in Entries /\ FALSE \in BOOLEAN
    BY DEF Owners, Entries
  <2>4. Begins(k, mem', "start", "first", FALSE)
    BY <2>1, <2>2, <2>3, SendTurnBegins
  <2>5. SameJudged(mem, mem')
    BY <2>1, <2>2, <2>4 DEF Begins, SameQueue, SameJudged
  <2>6. CASE mem'.writes = k.writes
    BY <2>1, <2>2, <2>5, <2>6, JudgedSame
  <2>7. CASE Marks(k, mem', "start")
    <3>1. PICK r \in ByRecord : /\ mem'.writes = Append(k.writes, r)
                                /\ r.record.state = k.state /\ r.record.contract = k.contract
      BY <2>7 DEF Marks
    <3> QED BY <1>0, <2>1, <2>2, <2>5, <3>1, JudgedAsks
  <2> QED BY <2>4, <2>6, <2>7 DEF Begins
<1>3. ASSUME NEW k, Base(k), k.contract = mem.contract, k.state = mem.state,
             k.run = mem.run, k.writes = mem.writes, k.incomplete = mem.incomplete,
             k.turnComplete = mem.turnComplete, NEW by \in Bys, mem' = Write(k, by)
      PROVE  Judged(mem', disk)
  <2>1. PICK r \in ByRecord :
          /\ mem'.writes = Append(k.writes, r)
          /\ r.record.state = k.state /\ r.record.contract = k.contract
    BY <1>3, AskIs
  <2>2. SameJudged(mem, mem')
    BY <1>3, AskIs DEF SameQueue, SameJudged
  <2> QED BY <1>0, <1>3, <2>1, <2>2, JudgedAsks
<1>4. CASE ResumeInterrupted
  <2>1. PICK k : /\ Base(k) /\ mem' = Write(k, "resume") /\ "resume" \in Bys \ Owners
                 /\ k.state = mem.state /\ k.contract = mem.contract
                 /\ k.run = mem.run /\ k.writes = mem.writes
                 /\ k.incomplete = mem.incomplete /\ k.turnComplete = mem.turnComplete
    BY <1>4, ResumeAsks
  <2>2. Judged(mem', disk)
    BY <1>3, <2>1
  <2> QED BY <1>4, <2>2 DEF ResumeInterrupted
<1>5. CASE PersistTimer
  <2>1. PICK k : /\ Base(k) /\ mem' = Write(k, "timer") /\ "timer" \in Bys \ Owners
                 /\ k.state = mem.state /\ k.contract = mem.contract
                 /\ k.run = mem.run /\ k.writes = mem.writes
                 /\ k.incomplete = mem.incomplete /\ k.turnComplete = mem.turnComplete
    BY <1>5, TimerAsks
  <2>2. Judged(mem', disk)
    BY <1>3, <2>1
  <2> QED BY <1>5, <2>2 DEF PersistTimer
<1>6. ASSUME NEW p \in Prompts, Prompt(p) PROVE Judged(mem', disk')
  <2>1. PICK k : /\ Base(k) /\ mem' = Write(k, p) /\ p \in Bys \ Owners
                 /\ k.state = mem.state /\ k.contract = mem.contract
                 /\ k.run = mem.run /\ k.writes = mem.writes
                 /\ k.incomplete = mem.incomplete /\ k.turnComplete = mem.turnComplete
    BY <1>6, PromptAsks
  <2>2. Judged(mem', disk)
    BY <1>3, <2>1
  <2> QED BY <1>6, <2>2 DEF Prompt
<1>7. ASSUME NEW q \in Seq(Entries), NEW b \in BOOLEAN,
             mem' = [mem EXCEPT !.pending = q, !.blocked = b, !.persist = TRUE]
      PROVE  Judged(mem', disk)
  <2>1. /\ mem'.state = mem.state /\ mem'.contract = mem.contract
        /\ mem'.run = mem.run /\ mem'.writes = mem.writes
        /\ mem'.incomplete = mem.incomplete /\ mem'.turnComplete = mem.turnComplete
    BY <1>7, EditedBase
  <2> QED BY <2>1, JudgedSame DEF SameJudged
<1>8. CASE ClearPending
  <2>1. PICK b \in BOOLEAN :
          mem' = [mem EXCEPT !.pending = <<>>, !.blocked = b, !.persist = TRUE]
    BY <1>8, ClearPendingEdits
  <2>2. <<>> \in Seq(Entries)
    OBVIOUS
  <2>3. Judged(mem', disk)
    BY <1>7, <2>1, <2>2
  <2> QED BY <1>8, <2>3 DEF ClearPending
<1>9. ASSUME NEW p, CancelPending(p) PROVE Judged(mem', disk')
  <2>1. PICK b \in BOOLEAN :
          mem' = [mem EXCEPT !.pending = Without(mem.pending, p), !.blocked = b,
                             !.persist = TRUE]
    BY <1>9, CancelPendingEdits
  <2>2. Without(mem.pending, p) \in Seq(Entries)
    BY <1>0, WithoutElements DEF Memory
  <2>3. Judged(mem', disk)
    BY <1>7, <2>1, <2>2
  <2> QED BY <1>9, <2>3 DEF CancelPending
<1>10. ASSUME NEW f \in Owners, Turn(f) \/ Completes(f) PROVE Judged(mem', disk')
  <2>1. mem.contract => f = "drain"
    BY <1>0, <1>10 DEF Turn, Completes, Masked, Attached, AttachFails, TurnStops, Owners
  <2>2. CASE Masked(f)
    <3>1. /\ SameQueue(mem, mem') /\ Marks(mem, mem', f) /\ mem.run[f].at = "mask"
          /\ mem'.run = [mem.run EXCEPT ![f].at = "mark"]
      BY <1>0, <2>2, MarkTurnMarks DEF Masked
    <3>2. mem.run \in [Owners -> Run]
      BY <1>0 DEF Memory
    <3>3. mem'.run[f].done = mem.run[f].done /\ mem'.run[f].at = "mark"
          /\ \A g \in Owners \ {f} : mem'.run[g] = mem.run[g]
      BY <3>1, <3>2 DEF Run, Marks
    <3>4. SameJudged(mem, mem')
      BY <2>1, <3>1, <3>3 DEF SameJudged, SameQueue, Marks, Judged, Owners
    <3>5. PICK r \in ByRecord : /\ mem'.writes = Append(mem.writes, r)
                                /\ r.record.state = mem.state
                                /\ r.record.contract = mem.contract
      BY <3>1 DEF Marks
    <3>6. Judged(mem', disk)
      BY <1>0, <3>4, <3>5, JudgedAsks
    <3> QED BY <2>2, <3>6 DEF Masked
  <2>3. CASE Attached(f)
    <3>1. /\ SameQueue(mem, mem') /\ mem'.writes = mem.writes
          /\ mem'.incomplete = mem.incomplete /\ mem'.turnComplete = mem.turnComplete
          /\ \A g \in Owners \ {f} : mem'.run[g] = mem.run[g]
          /\ mem.run[f].at = "attach" /\ mem'.run[f].at = "agent"
          /\ mem'.run[f].done = mem.run[f].done
      BY <2>3, AttachedBase
    <3>2. Judged(mem', disk)
      BY <2>1, <3>1 DEF Judged, SameQueue, Owners
    <3> QED BY <2>3, <3>2 DEF Attached
  <2>4. CASE AttachFails(f) \/ TurnStops(f)
    <3>1. PICK o \in Outcomes : mem' = ClearTurn(mem, f, o)
      BY <2>4 DEF AttachFails, TurnStops, Outcomes
    <3>2. Clears(mem, mem', f) /\ mem.run[f].at \in {"attach", "agent"}
      BY <1>0, <2>4, <3>1, ClearTurnClears DEF AttachFails, TurnStops
    <3> DEFINE k == [mem EXCEPT !.run[f].at = "clear"]
    <3>3. /\ k.contract = mem.contract /\ k.state = mem.state /\ k.writes = mem.writes
          /\ k.incomplete = mem.incomplete /\ k.turnComplete = mem.turnComplete
          /\ k.run[f].at = "clear" /\ k.run[f].done = mem.run[f].done
          /\ \A g \in Owners \ {f} : k.run[g] = mem.run[g]
          /\ k \in Memory
      <4>1. mem.run \in [Owners -> Run] /\ mem.run[f] \in Run
        BY <1>0 DEF Memory
      <4>2. [mem.run[f] EXCEPT !.at = "clear"] \in Run
        BY <4>1 DEF Run
      <4>3. k.run = [mem.run EXCEPT ![f].at = "clear"] /\ k.run \in [Owners -> Run]
        BY <1>0, <4>1, <4>2 DEF Memory
      <4>4. k \in Memory
        BY <1>0, <4>3 DEF Memory
      <4>5. k.run[f].at = "clear" /\ k.run[f].done = mem.run[f].done
            /\ \A g \in Owners \ {f} : k.run[g] = mem.run[g]
        BY <4>1, <4>3 DEF Run
      <4> QED BY <1>0, <4>4, <4>5 DEF Memory
    <3> HIDE DEF k
    <3>4. Judged(k, disk)
      BY <2>1, <3>2, <3>3 DEF Judged, Owners
    <3>5. SameJudged(k, mem')
      BY <2>1, <3>2, <3>3 DEF SameJudged, Clears, SameQueue, Owners
    <3>6. PICK r \in ByRecord : /\ mem'.writes = Append(mem.writes, r)
                                /\ r.record.state = mem.state
                                /\ r.record.contract = mem.contract
      BY <3>2 DEF Clears
    <3>7. Judged(mem', disk)
      BY <3>3, <3>4, <3>5, <3>6, JudgedAsks
    <3> QED BY <2>4, <3>7 DEF AttachFails, TurnStops
  <2>5. CASE Completes(f)
    <3>1. /\ SameQueue(mem, mem') /\ mem'.writes = mem.writes
          /\ mem'.incomplete = mem.incomplete /\ mem'.turnComplete
          /\ \A g \in Owners \ {f} : mem'.run[g] = mem.run[g]
          /\ mem'.run[f].at = mem.run[f].at /\ mem.run[f].at \in {"agent", "clear"}
          /\ mem'.run[f].done
      BY <2>5, CompletesBase
    <3>2. Judged(mem', disk)
      BY <2>1, <3>1 DEF Judged, SameQueue, Owners
    <3> QED BY <2>5, <3>2 DEF Completes
  <2> QED BY <1>10, <2>2, <2>3, <2>4, <2>5 DEF Turn
<1>11. ASSUME NEW k, Base(k), Judged(k, disk'), mem' = Drain(k) PROVE Judged(mem', disk')
  BY <1>11, DrainDrains, JudgedDrains DEF Base
<1>12. CASE Block
  <2>1. /\ mem'.state = mem.state /\ mem'.contract = mem.contract
        /\ mem'.run = mem.run /\ mem'.writes = mem.writes
        /\ mem'.incomplete = mem.incomplete /\ mem'.turnComplete = mem.turnComplete
    BY <1>12, HeldBase DEF Block
  <2>2. Judged(mem', disk)
    BY <2>1, JudgedSame DEF SameJudged
  <2> QED BY <1>12, <2>2 DEF Block
<1>13. CASE Unblock
  <2> DEFINE k == [mem EXCEPT !.blocked = FALSE]
  <2>1. /\ Base(k) /\ k.state = mem.state /\ k.contract = mem.contract
        /\ k.run = mem.run /\ k.writes = mem.writes
        /\ k.incomplete = mem.incomplete /\ k.turnComplete = mem.turnComplete
    BY HeldBase
  <2>2. mem' = Drain(k) /\ disk' = disk
    BY <1>13 DEF Unblock
  <2> HIDE DEF k
  <2>3. Judged(k, disk')
    BY <2>1, <2>2, JudgedSame DEF SameJudged
  <2> QED BY <1>11, <2>1, <2>2, <2>3
<1>14. CASE Pass
  BY <1>11, <1>14 DEF Pass
<1>15. ASSUME NEW m, NEW k \in Memory, NEW g \in Owners, NEW state,
              Judged(m, disk'), m.contract => g = "drain",
              k.contract = m.contract, k.state = m.state, k.writes = m.writes, k.run = m.run,
              Drains(Rest(k, g), mem', state), m.contract => state = m.state
       PROVE  Judged(mem', disk')
  <2> DEFINE l == Rest(k, g)
  <2>1. /\ l \in Memory /\ l.contract = m.contract /\ l.state = m.state /\ l.writes = m.writes
        /\ l.run[g].at = "none" /\ \A h \in Owners \ {g} : l.run[h] = m.run[h]
    BY <1>15, RestMemory DEF SameQueue
  <2> HIDE DEF l
  <2>2. SameJudged(m, l)
    BY <1>15, <2>1 DEF SameJudged, Owners
  <2>3. Judged(l, disk')
    BY <1>15, <2>1, <2>2, JudgedSame
  <2> QED BY <1>15, <2>1, <2>3, JudgedDrains DEF l
<1>16. CASE WriteLands
  <2> DEFINE w == Head(mem.writes)
             m == Shorter(mem)
             f == w.by
  <2>1. mem.writes # <<>> /\ disk' = w.record
    BY <1>16, LandsHow
  <2>2. Judged(m, disk')
    BY <2>1, JudgedHead
  <2>3. m \in Memory /\ m.run = mem.run /\ m.contract = mem.contract /\ m.state = mem.state
    BY <2>1, HeadOff DEF SameQueue
  <2>4. \/ f \in Owners /\ mem.run[f].at = "mark" /\ Attaches(m, mem', f)
        \/ /\ f \in Owners /\ mem.run[f].at = "clear"
           /\ \E k : /\ Ended(m, k, f) /\ Chain(Rest(k, f))
                     /\ \/ Begins(k, mem', f, m.run[f].prompt, TRUE)
                        \/ Drains(Rest(k, f), mem', m.state)
        \/ /\ f \notin Owners
           /\ \E k : SameWork(m, k) /\ Base(k) /\ mem' = Drain(k)
        \/ f \notin Owners /\ mem' = m
    BY <1>16, LandsHow
  <2> HIDE DEF w, m, f
  <2>5. f \in Owners => (m.contract => f = "drain")
    BY <1>0, <2>3, <2>4 DEF Owners
  <2>6. CASE f \in Owners /\ mem.run[f].at = "mark" /\ Attaches(m, mem', f)
    <3>1. /\ mem'.contract = m.contract /\ mem'.state = m.state /\ mem'.writes = m.writes
          /\ mem'.incomplete = m.incomplete /\ mem'.turnComplete = m.turnComplete
          /\ mem'.run[f].at = "attach" /\ mem'.run[f].done = m.run[f].done
          /\ \A g \in Owners \ {f} : mem'.run[g] = m.run[g]
      BY <2>6 DEF Attaches, SameQueue
    <3> QED BY <2>2, <2>3, <2>5, <2>6, <3>1 DEF Judged, Owners
  <2>7. ASSUME f \in Owners, NEW k, Ended(m, k, f), Drains(Rest(k, f), mem', m.state)
        PROVE  Judged(mem', disk')
    BY <1>15, <2>2, <2>5, <2>7 DEF Ended
  <2>8. ASSUME f \in Owners, NEW k, Ended(m, k, f), Begins(k, mem', f, m.run[f].prompt, TRUE)
        PROVE  Judged(mem', disk')
    <3>1. /\ k \in Memory /\ k.writes = m.writes /\ k.run = m.run
          /\ k.contract = m.contract /\ k.state = m.state
      BY <2>8 DEF Ended
    <3>2. /\ mem'.contract = m.contract /\ mem'.state = m.state /\ ~mem'.run[f].done
          /\ \A g \in Owners \ {f} : mem'.run[g] = m.run[g]
      BY <2>8, <3>1 DEF Begins, SameQueue
    <3>3. CASE mem'.run[f].at = "mask" /\ mem'.writes = k.writes
      <4>1. SameJudged(m, mem')
        BY <2>5, <2>8, <3>2, <3>3 DEF SameJudged, Owners
      <4> QED BY <2>2, <3>1, <3>3, <4>1, JudgedSame
    <3>4. CASE Marks(k, mem', f)
      <4>1. SameJudged(m, mem')
        BY <2>5, <2>8, <3>2, <3>4 DEF SameJudged, Owners, Marks
      <4>2. PICK r \in ByRecord : /\ mem'.writes = Append(m.writes, r)
                                  /\ r.record.state = m.state
                                  /\ r.record.contract = m.contract
        BY <3>1, <3>4 DEF Marks
      <4> QED BY <2>2, <2>3, <4>1, <4>2, JudgedAsks
    <3> QED BY <2>8, <3>3, <3>4 DEF Begins
  <2>9. ASSUME f \notin Owners, NEW k, SameWork(m, k), Base(k), mem' = Drain(k)
        PROVE  Judged(mem', disk')
    <3>1. Judged(k, disk')
      BY <2>2, <2>9, JudgedSame DEF SameWork, SameJudged
    <3> QED BY <1>11, <2>9, <3>1
  <2>10. CASE f \notin Owners /\ mem' = m
    BY <2>2, <2>10
  <2> QED BY <2>4, <2>6, <2>7, <2>8, <2>9, <2>10
<1>17. CASE WriteFails
  <2> DEFINE w == Head(mem.writes)
             m == Shorter(mem)
             f == w.by
  <2>1. mem.writes # <<>> /\ disk' \in {disk, w.record}
    BY <1>17, FailsHow
  <2>2. Judged(m, disk')
    BY <2>1, JudgedHead
  <2>3. m \in Memory /\ m.run = mem.run /\ m.contract = mem.contract /\ m.state = mem.state
    BY <2>1, HeadOff DEF SameQueue
  <2>4. \/ /\ f \in Owners /\ mem.run[f].at # "none"
           /\ \E k : /\ SameWork(m, k)
                     /\ Drains(Rest(k, f), mem', IF f = "start" THEN "draft" ELSE m.state)
        \/ /\ f \in Owners /\ mem.run[f].at # "none"
           /\ Drains(Rest(m, f), mem', IF f = "start" THEN "draft" ELSE m.state)
        \/ mem' = m
        \/ f = "resume"
    BY <1>17, FailsHow
  <2>5. f = "resume" => mem' = [m EXCEPT !.pending = m.previous.pending,
                                        !.interrupted = m.previous.interrupted,
                                        !.resuming = FALSE]
    <3>1. mem' = Rejected(m, f, Kind(w))
      BY <1>17 DEF WriteFails, Shorter
    <3>2. f = "resume" => Kind(w) = "resume"
      BY <2>1, KindOfWrite, TurnAssumption DEF Owners
    <3> QED BY <3>1, <3>2, RejectedIs
  <2> HIDE DEF w, m, f
  <2>6. f \in Owners /\ mem.run[f].at # "none" => (m.contract => f = "drain")
    BY <1>0, <2>3 DEF Owners
  <2> DEFINE state == IF f = "start" THEN "draft" ELSE m.state
  <2>7. ASSUME f \in Owners, mem.run[f].at # "none", NEW k \in Memory,
               k.contract = m.contract, k.state = m.state, k.writes = m.writes, k.run = m.run,
               Drains(Rest(k, f), mem', state)
        PROVE  Judged(mem', disk')
    <3>1. m.contract => state = m.state
      BY <2>6, <2>7
    <3> HIDE DEF state
    <3> QED BY <1>15, <2>2, <2>6, <2>7, <3>1
  <2>8. CASE f = "resume"
    <3>1. /\ mem'.contract = m.contract /\ mem'.state = m.state /\ mem'.writes = m.writes
          /\ mem'.run = m.run /\ mem'.incomplete = m.incomplete
          /\ mem'.turnComplete = m.turnComplete
      BY <2>3, <2>5, <2>8 DEF Memory
    <3> QED BY <2>2, <3>1, JudgedSame DEF SameJudged
  <2>9. CASE mem' = m
    BY <2>2, <2>9
  <2>10. ASSUME f \in Owners, mem.run[f].at # "none", NEW k, SameWork(m, k),
                Drains(Rest(k, f), mem', state)
         PROVE  Judged(mem', disk')
    BY <2>7, <2>10 DEF SameWork
  <2>11. CASE f \in Owners /\ mem.run[f].at # "none" /\ Drains(Rest(m, f), mem', state)
    BY <2>3, <2>7, <2>11
  <2> QED BY <2>4, <2>8, <2>9, <2>10, <2>11
<1>18. CASE Crash
  <2>1. disk' \in Record /\ mem' = Restored(disk')
    BY <1>18, NextKeepsBase DEF Crash
  <2>2. mem.contract => disk'.state = "started"
    <3>1. CASE mem.writes = <<>>
      BY <1>18, <3>1 DEF Crash, Judged
    <3>2. CASE mem.writes # <<>>
      <4>1. 1 \in DOMAIN mem.writes /\ Head(mem.writes) = mem.writes[1]
        BY <3>2, HeadOff
      <4> QED BY <1>18, <3>2, <4>1 DEF Crash, Judged
    <3> QED BY <3>1, <3>2
  <2>3. disk'.contract = mem.contract
    <3>1. CASE mem.writes = <<>>
      BY <1>18, <3>1 DEF Crash, Judged
    <3>2. CASE mem.writes # <<>>
      <4>1. 1 \in DOMAIN mem.writes /\ Head(mem.writes) = mem.writes[1]
        BY <3>2, HeadOff
      <4> QED BY <1>18, <3>2, <4>1 DEF Crash, Judged
    <3> QED BY <3>1, <3>2
  <2>4. /\ mem'.contract = disk'.contract /\ mem'.state = disk'.state /\ mem'.writes = <<>>
        /\ mem'.run["start"].at = "none" /\ mem'.run["drain"].at = "none"
    BY <2>1, RestoredBase DEF Owners
  <2> QED BY <2>2, <2>3, <2>4 DEF Judged
<1> QED BY <1>1, <1>2, <1>4, <1>5, <1>6, <1>8, <1>9, <1>10, <1>12, <1>13, <1>14,
           <1>16, <1>17, <1>18 DEF Next

(* What the contract says of a turn that ends, as an action. *)
EndsJudged ==
  \A f \in Owners :
    /\ mem.run[f].at = "clear" /\ mem.run[f].outcome = "end_turn" /\ mem.contract
    /\ WriteLands /\ Head(mem.writes).by = f
    => LET nudged == mem'.run[f].nudge /\ ~mem.run[f].nudge
       IN  IF mem.run[f].done THEN ~nudged /\ ~mem'.incomplete
           ELSE nudged \/ mem.run[f].nudge

LEMMA ContractJudges ==
  ASSUME Base(mem), Judged(mem, disk)
  PROVE  EndsJudged
<1> SUFFICES ASSUME NEW f \in Owners,
                    mem.run[f].at = "clear", mem.run[f].outcome = "end_turn", mem.contract,
                    WriteLands, Head(mem.writes).by = f
             PROVE  IF mem.run[f].done
                      THEN ~(mem'.run[f].nudge /\ ~mem.run[f].nudge) /\ ~mem'.incomplete
                      ELSE (mem'.run[f].nudge /\ ~mem.run[f].nudge) \/ mem.run[f].nudge
  BY DEF EndsJudged
<1> DEFINE m == Shorter(mem)
<1>1. mem \in Memory /\ f = "drain" /\ (mem.turnComplete <=> mem.run[f].done) /\ ~mem.incomplete
  BY DEF Base, Judged, Owners
<1>2. mem.writes # <<>>
  BY LandsHow
<1>3. /\ m \in Memory /\ m.run = mem.run /\ m.contract = mem.contract
      /\ m.turnComplete = mem.turnComplete /\ m.incomplete = mem.incomplete
  BY <1>2, HeadOff DEF SameQueue
<1>4. PICK k : /\ Ended(m, k, f) /\ Chain(Rest(k, f))
               /\ IF Unfinished(m, f) /\ ~m.run[f].nudge
                    THEN Begins(k, mem', f, m.run[f].prompt, TRUE)
                    ELSE Drains(Rest(k, f), mem', m.state)
  BY LandsHow
<1> HIDE DEF m
<1>5. Unfinished(m, f) <=> ~mem.run[f].done
  BY <1>1, <1>3 DEF Unfinished
<1>6. CASE mem.run[f].done
  <2>1. k \in Memory /\ ~k.incomplete /\ Drains(Rest(k, f), mem', m.state)
    BY <1>1, <1>3, <1>4, <1>5, <1>6 DEF Ended
  <2> DEFINE l == Rest(k, f)
  <2>2. ~l.incomplete /\ l.run[f] = NoRun
    BY <2>1, RestMemory
  <2> HIDE DEF l
  <2>3. mem'.incomplete \in BOOLEAN /\ mem'.run[f].nudge \in BOOLEAN
    BY <2>1 DEF Drains, Memory, Run
  <2>4. CASE Quiet(l, mem')
    BY <1>6, <2>2, <2>4 DEF Quiet, NoRun
  <2>5. CASE Pulls(l, mem')
    BY <1>1, <1>6, <2>2, <2>5 DEF Pulls
  <2> QED BY <2>1, <2>4, <2>5 DEF Drains, l
<1>7. CASE ~mem.run[f].done
  BY <1>3, <1>4, <1>5, <1>7 DEF Begins
<1> QED BY <1>6, <1>7

(* The contract judges each turn by its own `complete`, however late it      *)
(* comes: a turn that called it is never nudged nor marked, and one that did  *)
(* not is nudged or already was.  Writes may fail and the application may     *)
(* restart.  A draft with the contract is left out: the loop's first turn and *)
(* the start's may then overlap, and they share what is known of `complete`.  *)
THEOREM EachTurnByItsOwn ==
  ASSUME \A start \in Starts : ~(start.fresh /\ start.contract)
  PROVE  Spec => ContractPerTurn
<1> DEFINE Inv == Judged(mem, disk)
<1>1. Init => Inv
  <2> SUFFICES ASSUME Init PROVE Inv
    OBVIOUS
  <2>1. disk \in Record /\ mem = Restored(disk) /\ (disk.contract => disk.state = "started")
    <3>1. PICK start \in Starts :
            disk = [state |-> IF start.fresh THEN "draft" ELSE "started",
                    contract |-> start.contract, pending |-> <<>>, interrupted |-> FALSE]
      BY DEF Init
    <3> QED BY <3>1, InitBase DEF Init
  <2>2. /\ mem.contract = disk.contract /\ mem.state = disk.state /\ mem.writes = <<>>
        /\ mem.run["start"].at = "none" /\ mem.run["drain"].at = "none"
    BY <2>1, RestoredBase DEF Owners
  <2> QED BY <2>1, <2>2 DEF Judged
<1>2. Inv /\ Base(mem) /\ disk \in Record /\ [Next]_vars => Inv'
  <2> SUFFICES ASSUME Inv, Base(mem), disk \in Record, [Next]_vars PROVE Inv'
    OBVIOUS
  <2>1. CASE Next
    BY <2>1, NextKeepsJudged
  <2>2. CASE UNCHANGED vars
    BY <2>2 DEF vars, Judged
  <2> QED BY <2>1, <2>2
<1>3. Inv /\ Base(mem) => [EndsJudged]_vars
  BY ContractJudges
<1>4. [][EndsJudged]_vars => ContractPerTurn
  BY DEF EndsJudged, ContractPerTurn
<1> QED BY <1>1, <1>2, <1>3, <1>4, AlwaysBase, PTL DEF Spec

-----------------------------------------------------------------------------
(* No wake-up is lost.                                                     *)

(* Without a crash nothing recovers; the session's own continuation never    *)
(* waits with a message, and a turn is announced as long as it is under way. *)
Still(m) ==
  /\ ~m.recovering /\ ~m.resuming
  /\ "auto" \in Range(m.pending) => m.pending = <<"auto">>
  /\ \A f \in m.announced : m.run[f].at # "none"

(* The loop is on a turn. *)
Loops(m) == m.draining => m.run["drain"].at # "none"

(* What can be sent has a turn, or a write, that will send it. *)
Goes(m) ==
  Ready(m) => \/ \E f \in Owners : m.run[f].at # "none"
              \/ \E i \in DOMAIN m.writes : m.writes[i].by \in Prompts

Moving(m) == Still(m) /\ Loops(m) /\ Goes(m)

LEMMA AutoAlone == Range(<<"auto">>) = {"auto"}
BY DEF Range

LEMMA MovingTurn ==
  ASSUME NEW m, NEW n, NEW f \in Owners, Still(m), Loops(m),
         n.recovering = m.recovering, n.resuming = m.resuming, n.draining = m.draining,
         n.pending = m.pending \/ n.pending = <<"auto">>,
         n.announced \subseteq m.announced \cup {f},
         n.run[f].at # "none", \A g \in Owners \ {f} : n.run[g].at = m.run[g].at,
         m.announced \subseteq Owners
  PROVE  Moving(n)
<1>1. Still(n)
  BY AutoAlone DEF Still
<1>2. Loops(n)
  BY DEF Loops, Owners
<1>3. Goes(n)
  BY DEF Goes
<1> QED BY <1>1, <1>2, <1>3 DEF Moving

LEMMA StillDrains ==
  ASSUME NEW m \in Memory, NEW n, NEW state, Still(m), Drains(m, n, state)
  PROVE  Still(n)
<1>1. n.recovering = m.recovering /\ n.resuming = m.resuming /\ m.announced \subseteq Owners
      /\ m.pending \in Seq(Entries)
  BY DEF Drains, Memory
<1>2. CASE Quiet(m, n)
  BY <1>1, <1>2 DEF Still, Quiet
<1>3. CASE Pulls(m, n)
  <2>1. /\ n.pending = Tail(m.pending) /\ m.pending # <<>>
        /\ n.run["drain"].at # "none" /\ n.run["start"] = m.run["start"]
        /\ n.announced \subseteq m.announced \cup {"drain"}
    BY <1>3 DEF Pulls, Ready
  <2>2. Range(Tail(m.pending)) \subseteq Range(m.pending)
    <3>1. \A i \in DOMAIN Tail(m.pending) :
            i + 1 \in DOMAIN m.pending /\ Tail(m.pending)[i] = m.pending[i + 1]
      BY <1>1, <2>1, TailElements
    <3> QED BY <3>1 DEF Range
  <2>3. "auto" \notin Range(n.pending)
    <3>1. CASE m.pending = <<"auto">>
      <4>1. n.pending = <<>>
        BY <2>1, <3>1
      <4> QED BY <4>1 DEF Range
    <3>2. CASE m.pending # <<"auto">>
      BY <2>1, <2>2, <3>2 DEF Still
    <3> QED BY <3>1, <3>2
  <2>4. \A f \in n.announced : n.run[f].at # "none"
    BY <1>1, <2>1 DEF Still, Owners
  <2> QED BY <1>1, <2>3, <2>4 DEF Still
<1> QED BY <1>2, <1>3 DEF Drains

LEMMA MovingDrain ==
  ASSUME NEW m, Base(m), Still(m), Loops(m)
  PROVE  Moving(Drain(m))
<1> DEFINE n == Drain(m)
<1>1. /\ Drains(m, n, m.state) /\ m \in Memory
      /\ IF ~m.draining /\ ~m.recovering /\ Ready(m) THEN Pulls(m, n) /\ n.draining ELSE n = m
  BY DrainDrains DEF Base
<1> HIDE DEF n
<1>2. Still(n)
  BY <1>1, StillDrains
<1>3. CASE ~m.draining /\ ~m.recovering /\ Ready(m)
  <2>1. n.run["drain"].at # "none"
    BY <1>1, <1>3 DEF Pulls
  <2> QED BY <1>2, <2>1 DEF Moving, Loops, Goes, Owners, n
<1>4. CASE ~(~m.draining /\ ~m.recovering /\ Ready(m))
  <2>1. n = m /\ ~m.recovering /\ m.draining \in BOOLEAN
    BY <1>1, <1>4 DEF Still, Memory
  <2>2. Goes(m)
    BY <1>4, <2>1 DEF Loops, Goes, Owners
  <2> QED BY <1>2, <2>1, <2>2 DEF Moving, n
<1> QED BY <1>3, <1>4

LEMMA MovingDrainOn ==
  ASSUME NEW m, Base(m), Still(m), m.run["drain"].at = "none"
  PROVE  Moving(DrainOn(m))
<1> DEFINE n == DrainOn(m)
<1>1. /\ Drains(m, n, m.state) /\ m \in Memory
      /\ Ready(m) => Pulls(m, n)
      /\ ~Ready(m) => Quiet(m, n) /\ ~n.draining
  BY DrainOnDrains DEF Base
<1> HIDE DEF n
<1>2. Still(n)
  BY <1>1, StillDrains
<1>3. CASE Ready(m)
  <2>1. n.run["drain"].at # "none"
    BY <1>1, <1>3 DEF Pulls
  <2> QED BY <1>2, <2>1 DEF Moving, Loops, Goes, Owners, n
<1>4. CASE ~Ready(m)
  <2>1. ~Ready(n)
    BY <1>1, <1>4 DEF Quiet, Drains, Ready
  <2> QED BY <1>1, <1>2, <1>4, <2>1 DEF Moving, Loops, Goes, n
<1> QED BY <1>3, <1>4

LEMMA MovingSame ==
  ASSUME NEW m, NEW n, Moving(m),
         n.recovering = m.recovering, n.resuming = m.resuming, n.draining = m.draining,
         n.pending = m.pending, n.announced = m.announced,
         \A g \in Owners : n.run[g].at = m.run[g].at, m.announced \subseteq Owners,
         Ready(n) => Ready(m),
         \A i \in DOMAIN m.writes : m.writes[i].by \in Prompts =>
           \E j \in DOMAIN n.writes : n.writes[j].by \in Prompts
  PROVE  Moving(n)
<1>1. Still(n)
  BY DEF Moving, Still
<1>2. Loops(n)
  BY DEF Moving, Loops, Owners
<1>3. Goes(n)
  BY DEF Moving, Goes
<1> QED BY <1>1, <1>2, <1>3 DEF Moving

LEMMA EmptyRange ==
  ASSUME NEW S, NEW s \in Seq(S), Range(s) = {}
  PROVE  s = <<>>
<1>1. SUFFICES ASSUME s # <<>> PROVE FALSE
  OBVIOUS
<1>2. 1 \in DOMAIN s
  BY <1>1, TailElements
<1> QED BY <1>2 DEF Range

LEMMA NextKeepsMoving ==
  ASSUME MaxRestarts = 0, FailingWrites \subseteq {"timer"},
         Base(mem), disk \in Record, Told, Moving(mem), Next
  PROVE  Moving(mem')
<1> USE DEF history, bounds
<1>0. /\ mem \in Memory /\ Base(mem') /\ mem' \in Memory /\ mem.announced \subseteq Owners
      /\ Still(mem) /\ Loops(mem) /\ mem.pending \in Seq(Entries)
  BY NextKeepsBase DEF Base, Memory, Moving
<1>1. CASE RunNow
  <2>1. /\ mem'.recovering = mem.recovering /\ mem'.resuming = mem.resuming
        /\ mem'.draining = mem.draining /\ mem'.pending = mem.pending
        /\ mem'.announced = mem.announced
    BY <1>0, <1>1 DEF RunNow, Memory
  <2>2. mem'.run = [mem.run EXCEPT !["start"] = [NoRun EXCEPT !.at = "open", !.prompt = "first"]]
        /\ mem.run \in [Owners -> Run]
    BY <1>0, <1>1 DEF RunNow, Memory
  <2>3. mem'.run["start"].at # "none" /\ \A g \in Owners \ {"start"} : mem'.run[g] = mem.run[g]
    BY <2>2 DEF NoRun, Owners
  <2>4. "start" \in Owners
    BY DEF Owners
  <2> QED BY <1>0, <2>1, <2>3, <2>4, MovingTurn
<1>2. CASE Opened
  <2> DEFINE k == [mem EXCEPT !.persist = TRUE]
  <2>1. /\ k \in Memory /\ k.run = mem.run /\ k.pending = mem.pending
        /\ k.announced = mem.announced /\ k.draining = mem.draining
        /\ k.recovering = mem.recovering /\ k.resuming = mem.resuming
    BY <1>0 DEF Memory
  <2>2. mem' = SendTurn(k, "start", "first", FALSE)
    BY <1>2 DEF Opened
  <2> HIDE DEF k
  <2>3. "start" \in Owners /\ "first" \in Entries /\ FALSE \in BOOLEAN
    BY DEF Owners, Entries
  <2>4. Begins(k, mem', "start", "first", FALSE)
    BY <2>1, <2>2, <2>3, SendTurnBegins
  <2>5. /\ mem'.run["start"].at # "none" /\ mem'.announced \subseteq mem.announced \cup {"start"}
        /\ \A g \in Owners \ {"start"} : mem'.run[g] = mem.run[g]
        /\ mem'.recovering = mem.recovering /\ mem'.resuming = mem.resuming
        /\ mem'.draining = mem.draining /\ mem'.pending = mem.pending
    BY <2>1, <2>4 DEF Begins, SameQueue, Marks
  <2> QED BY <1>0, <2>3, <2>5, MovingTurn
<1>3. ASSUME NEW f \in Owners, SameQueue(mem, mem'),
             mem'.announced \subseteq mem.announced \cup {f}, mem'.run[f].at # "none",
             \A g \in Owners \ {f} : mem'.run[g] = mem.run[g]
      PROVE  Moving(mem')
  BY <1>0, <1>3, MovingTurn DEF SameQueue
<1>4. CASE ResumeInterrupted
  BY <1>0, <1>4 DEF ResumeInterrupted, Still
<1>5. CASE PersistTimer
  <2>1. PICK k : /\ Base(k) /\ mem' = Write(k, "timer") /\ "timer" \in Bys \ Owners
                 /\ k.pending = mem.pending /\ k.state = mem.state
                 /\ k.recovering = mem.recovering /\ k.resuming = mem.resuming
                 /\ k.draining = mem.draining /\ k.blocked = mem.blocked
                 /\ k.run = mem.run /\ k.writes = mem.writes /\ k.busy = mem.busy
                 /\ k.announced = mem.announced
    BY <1>5, TimerAsks
  <2>2. /\ SameQueue(k, mem') /\ mem'.run = k.run /\ mem'.busy = k.busy
        /\ mem'.announced = k.announced
        /\ \E r \in ByRecord : mem'.writes = Append(k.writes, r)
    BY <2>1, AskIs
  <2>3. PICK r \in ByRecord : mem'.writes = Append(mem.writes, r)
    BY <2>1, <2>2
  <2>4. mem.writes \in Seq(ByRecord)
    BY <1>0 DEF Memory, ByRecord, Bys
  <2>5. \A i \in DOMAIN mem.writes : i \in DOMAIN mem'.writes /\ mem'.writes[i] = mem.writes[i]
    BY <2>3, <2>4, AppendElements
  <2>6. Ready(mem') => Ready(mem)
    BY <2>1, <2>2 DEF SameQueue, Ready
  <2> QED BY <1>0, <2>1, <2>2, <2>5, <2>6, MovingSame DEF SameQueue
<1>6. ASSUME NEW p \in Prompts, Prompt(p) PROVE Moving(mem')
  <2> DEFINE w == Without(mem.pending, "auto")
  <2>1. PICK k : /\ Base(k) /\ mem' = Write(k, p) /\ p \in Bys \ Owners
                 /\ k.pending = Append(w, p)
                 /\ k.recovering = mem.recovering /\ k.resuming = mem.resuming
                 /\ k.draining = mem.draining /\ k.run = mem.run
                 /\ k.announced = mem.announced
    BY <1>6, PromptAsks
  <2>2. /\ SameQueue(k, mem') /\ mem'.run = k.run /\ mem'.announced = k.announced
        /\ \E r \in ByRecord : mem'.writes = Append(k.writes, r) /\ r.by = p
    BY <2>1, AskIs
  <2>3. PICK r \in ByRecord : mem'.writes = Append(k.writes, r) /\ r.by = p
    BY <2>2
  <2>4. k.writes \in Seq(ByRecord)
    BY <2>1 DEF Base, Memory, ByRecord, Bys
  <2>5. \E i \in DOMAIN mem'.writes : mem'.writes[i].by = p
    BY <2>3, <2>4, AppendElements
  <2>6. w \in Seq(Entries) /\ "auto" \notin Range(w)
    BY <1>0, WithoutElements
  <2> HIDE DEF w
  <2>7. "auto" \notin Range(Append(w, p))
    <3>1. /\ DOMAIN Append(w, p) = DOMAIN w \cup {Len(w) + 1} /\ Append(w, p)[Len(w) + 1] = p
          /\ \A i \in DOMAIN w : Append(w, p)[i] = w[i]
      BY <2>6, AppendElements DEF Entries
    <3> QED BY <1>6, <2>6, <3>1, TurnAssumption DEF Range
  <2>8. Still(mem') /\ Loops(mem')
    BY <1>0, <2>1, <2>2, <2>7 DEF Still, Loops, SameQueue
  <2>9. Goes(mem')
    BY <1>6, <2>5 DEF Goes
  <2> QED BY <2>8, <2>9 DEF Moving
<1>7. CASE ClearPending
  <2>1. PICK b \in BOOLEAN :
          mem' = [mem EXCEPT !.pending = <<>>, !.blocked = b, !.persist = TRUE]
    BY <1>7, ClearPendingEdits
  <2>2. <<>> \in Seq(Entries)
    OBVIOUS
  <2>3. /\ mem'.pending = <<>> /\ mem'.recovering = mem.recovering
        /\ mem'.resuming = mem.resuming /\ mem'.draining = mem.draining
        /\ mem'.run = mem.run /\ mem'.announced = mem.announced
    BY <2>1, <2>2, EditedBase
  <2>4. Range(<<>>) = {}
    BY DEF Range
  <2> QED BY <1>0, <2>3, <2>4 DEF Moving, Still, Loops, Goes, Ready
<1>8. ASSUME NEW p, CancelPending(p) PROVE Moving(mem')
  <2> DEFINE w == Without(mem.pending, p)
  <2>1. PICK b \in {mem.blocked, mem.blocked /\ p # "auto"} :
          mem' = [mem EXCEPT !.pending = w, !.blocked = b, !.persist = TRUE]
    BY <1>8 DEF CancelPending
  <2>2. /\ w \in Seq(Entries) /\ b \in BOOLEAN
        /\ \A x : x \in Range(w) <=> x \in Range(mem.pending) /\ x # p
    <3>1. mem.blocked \in BOOLEAN /\ (mem.blocked /\ p # "auto") \in BOOLEAN
      BY <1>0 DEF Memory
    <3>2. b \in BOOLEAN
      BY <2>1, <3>1
    <3> QED BY <1>0, <3>2, WithoutElements
  <2> HIDE DEF w
  <2>3. /\ mem'.pending = w /\ mem'.recovering = mem.recovering
        /\ mem'.resuming = mem.resuming /\ mem'.draining = mem.draining
        /\ mem'.run = mem.run /\ mem'.announced = mem.announced
        /\ mem'.writes = mem.writes /\ mem'.state = mem.state /\ mem'.busy = mem.busy
    BY <2>1, <2>2, EditedBase
  <2>4. mem'.blocked = b
    BY <1>0, <2>1 DEF Memory
  <2>5. p \in Range(mem.pending)
    BY <1>8 DEF CancelPending
  <2>6. CASE mem.pending = <<"auto">>
    <3>1. Range(w) = {}
      BY <2>2, <2>5, <2>6, AutoAlone
    <3>2. w = <<>>
      BY <2>2, <3>1, EmptyRange
    <3> QED BY <1>0, <2>3, <3>1, <3>2 DEF Moving, Still, Loops, Goes, Ready
  <2>7. CASE mem.pending # <<"auto">>
    <3>1. "auto" \notin Range(mem.pending)
      BY <1>0, <2>7 DEF Still
    <3>2. "auto" \notin Range(w) /\ p # "auto"
      BY <2>2, <2>5, <3>1
    <3>3. mem'.blocked = mem.blocked
      BY <1>0, <2>1, <2>4, <3>2 DEF Memory
    <3>4. mem.pending # <<>>
      BY <2>5 DEF Range
    <3>5. Ready(mem') => Ready(mem)
      BY <2>3, <3>3, <3>4 DEF Ready
    <3>6. Still(mem') /\ Loops(mem')
      BY <1>0, <2>3, <3>2 DEF Still, Loops
    <3>7. Goes(mem')
      BY <2>3, <3>5 DEF Moving, Goes
    <3> QED BY <3>6, <3>7 DEF Moving
  <2> QED BY <2>6, <2>7
<1>9. ASSUME NEW f \in Owners, Turn(f) \/ Completes(f) PROVE Moving(mem')
  <2>1. CASE Masked(f)
    <3>1. /\ SameQueue(mem, mem') /\ Marks(mem, mem', f)
          /\ mem'.run = [mem.run EXCEPT ![f].at = "mark"]
      BY <1>0, <2>1, MarkTurnMarks DEF Masked
    <3>2. mem.run \in [Owners -> Run]
      BY <1>0 DEF Memory
    <3> QED BY <1>3, <3>1, <3>2 DEF Marks
  <2>2. CASE Attached(f)
    <3>1. /\ SameQueue(mem, mem') /\ mem'.announced = mem.announced
          /\ \A g \in Owners \ {f} : mem'.run[g] = mem.run[g]
          /\ mem'.run[f].at = "agent"
      BY <2>2, AttachedBase
    <3> QED BY <1>3, <3>1
  <2>3. CASE AttachFails(f) \/ TurnStops(f)
    <3>1. PICK o \in Outcomes : mem' = ClearTurn(mem, f, o)
      BY <2>3 DEF AttachFails, TurnStops, Outcomes
    <3>2. Clears(mem, mem', f)
      BY <1>0, <3>1, ClearTurnClears
    <3> QED BY <1>3, <3>2 DEF Clears
  <2>4. CASE Completes(f)
    <3>1. /\ SameQueue(mem, mem') /\ mem'.announced = mem.announced
          /\ \A g \in Owners \ {f} : mem'.run[g] = mem.run[g]
          /\ mem'.run[f].at = mem.run[f].at /\ mem.run[f].at \in {"agent", "clear"}
      BY <2>4, CompletesBase
    <3>2. mem'.run[f].at # "none"
      BY <3>1
    <3> QED BY <1>3, <3>1, <3>2
  <2> QED BY <1>9, <2>1, <2>2, <2>3, <2>4 DEF Turn
<1>10. CASE Block
  <2>1. /\ mem'.run = mem.run /\ mem'.blocked /\ mem'.pending = mem.pending
        /\ mem'.recovering = mem.recovering /\ mem'.resuming = mem.resuming
        /\ mem'.draining = mem.draining /\ mem'.announced = mem.announced
    BY <1>10, HeldBase DEF Block
  <2> QED BY <1>0, <2>1 DEF Moving, Still, Loops, Goes, Ready
<1>11. CASE Unblock
  <2> DEFINE k == [mem EXCEPT !.blocked = FALSE]
  <2>1. /\ Base(k) /\ k.run = mem.run /\ k.pending = mem.pending
        /\ k.recovering = mem.recovering /\ k.resuming = mem.resuming
        /\ k.draining = mem.draining /\ k.announced = mem.announced
    BY HeldBase
  <2>2. mem' = Drain(k)
    BY <1>11 DEF Unblock
  <2> HIDE DEF k
  <2>3. Still(k) /\ Loops(k)
    BY <1>0, <2>1 DEF Still, Loops
  <2> QED BY <2>1, <2>2, <2>3, MovingDrain
<1>12. CASE Pass
  BY <1>0, <1>12, MovingDrain DEF Pass
<1>13. CASE WriteLands
  <2> DEFINE w == Head(mem.writes)
             m == Shorter(mem)
             f == w.by
  <2>1. mem.writes # <<>>
    BY <1>13, LandsHow
  <2>2. /\ m \in Memory /\ SameQueue(mem, m) /\ m.run = mem.run /\ m.busy = mem.busy
        /\ m.announced = mem.announced
        /\ 1 \in DOMAIN mem.writes /\ w = mem.writes[1]
    BY <2>1, HeadOff
  <2>3. \A i \in DOMAIN mem.writes : i = 1 \/ \E j \in DOMAIN m.writes : m.writes[j] = mem.writes[i]
    <3>1. m.writes = Tail(mem.writes) /\ mem.writes \in Seq(ByRecord)
      BY <1>0 DEF Memory, Shorter, ByRecord, Bys
    <3> HIDE DEF m
    <3>2. ASSUME NEW i \in DOMAIN mem.writes, i # 1
          PROVE  \E j \in DOMAIN m.writes : m.writes[j] = mem.writes[i]
      <4>1. i - 1 \in DOMAIN m.writes /\ m.writes[i - 1] = mem.writes[i]
        BY <2>1, <3>1, <3>2
      <4> QED BY <4>1
    <3> QED BY <3>2
  <2>4. Still(m) /\ Loops(m) /\ m.announced \subseteq Owners
    BY <1>0, <2>2 DEF Still, Loops, SameQueue
  <2>5. \/ f \in Owners /\ mem.run[f].at = "mark" /\ Attaches(m, mem', f)
        \/ /\ f \in Owners /\ mem.run[f].at = "clear"
           /\ \E k : /\ Ended(m, k, f) /\ Chain(Rest(k, f))
                     /\ \/ Begins(k, mem', f, m.run[f].prompt, TRUE)
                        \/ mem' = Return(k, f)
        \/ /\ f \notin Owners
           /\ \E k : /\ SameWork(m, k) /\ ~k.recovering /\ Base(k) /\ mem' = Drain(k)
                     /\ ~k.resuming
        \/ f = "timer" /\ f \notin Prompts /\ mem' = m
    <3>1. ~m.resuming
      BY <2>4 DEF Still
    <3> QED BY <1>13, <3>1, LandsHow
  <2> HIDE DEF w, m, f
  <2>6. CASE f \in Owners /\ Attaches(m, mem', f)
    <3>1. /\ mem'.recovering = m.recovering /\ mem'.resuming = m.resuming
          /\ mem'.draining = m.draining /\ mem'.pending = m.pending
          /\ mem'.announced = m.announced /\ mem'.run[f].at = "attach"
          /\ \A g \in Owners \ {f} : mem'.run[g] = m.run[g]
      BY <2>6 DEF Attaches, SameQueue
    <3> QED BY <2>4, <2>6, <3>1, MovingTurn
  <2>7. ASSUME f \in Owners, NEW k, Ended(m, k, f), Begins(k, mem', f, m.run[f].prompt, TRUE)
        PROVE  Moving(mem')
    <3>1. /\ k.run = m.run /\ k.announced = m.announced \ {f} /\ k.draining = m.draining
          /\ k.recovering = m.recovering /\ k.resuming = m.resuming
          /\ k.pending = m.pending \/ k.pending = <<"auto">>
      BY <2>7 DEF Ended
    <3>2. /\ mem'.run[f].at # "none" /\ mem'.announced \subseteq m.announced \cup {f}
          /\ \A g \in Owners \ {f} : mem'.run[g] = m.run[g]
          /\ mem'.recovering = m.recovering /\ mem'.resuming = m.resuming
          /\ mem'.draining = m.draining /\ mem'.pending = k.pending
      BY <2>7, <3>1 DEF Begins, SameQueue, Marks
    <3> QED BY <2>4, <2>7, <3>1, <3>2, MovingTurn
  <2>8. ASSUME f \in Owners, NEW k, Ended(m, k, f), Chain(Rest(k, f)), mem' = Return(k, f)
        PROVE  Moving(mem')
    <3> DEFINE l == Rest(k, f)
    <3>1. /\ k \in Memory /\ k.run = m.run /\ k.announced = m.announced \ {f}
          /\ k.draining = m.draining
          /\ k.recovering = m.recovering /\ k.resuming = m.resuming
          /\ k.pending = m.pending \/ k.pending = <<"auto">>
      BY <2>8 DEF Ended
    <3>2. /\ l \in Memory /\ l.run[f].at = "none" /\ \A g \in Owners \ {f} : l.run[g] = m.run[g]
          /\ l.announced = m.announced \ {f} /\ l.draining = m.draining
          /\ l.recovering = m.recovering /\ l.resuming = m.resuming
          /\ l.pending = k.pending /\ Base(l)
      BY <2>8, <3>1, RestMemory DEF SameQueue, Base
    <3>3. mem' = IF f = "drain" THEN DrainOn(l) ELSE Drain(l)
      BY <2>8 DEF Return, Rest
    <3> HIDE DEF l
    <3>4. Still(l)
      BY <2>4, <3>1, <3>2, AutoAlone DEF Still
    <3>5. f # "drain" => Loops(l)
      BY <2>4, <2>8, <3>2 DEF Loops, Owners
    <3> QED BY <3>2, <3>3, <3>4, <3>5, MovingDrain, MovingDrainOn
  <2>9. ASSUME NEW k, SameWork(m, k), ~k.recovering, ~k.resuming, Base(k), mem' = Drain(k)
        PROVE  Moving(mem')
    <3>1. Still(k) /\ Loops(k)
      BY <2>4, <2>9 DEF SameWork, Still, Loops
    <3> QED BY <2>9, <3>1, MovingDrain
  <2>10. CASE f = "timer" /\ f \notin Prompts /\ mem' = m
    <3>1. Ready(m) => Ready(mem)
      BY <2>2 DEF Ready, SameQueue
    <3>2. Moving(m)
      <4>1. \A i \in DOMAIN mem.writes : mem.writes[i].by \in Prompts =>
              \E j \in DOMAIN m.writes : m.writes[j].by \in Prompts
        BY <2>2, <2>3, <2>10 DEF f
      <4> QED BY <1>0, <2>2, <3>1, <4>1, MovingSame DEF SameQueue
    <3> QED BY <2>10, <3>2
  <2> QED BY <2>5, <2>6, <2>7, <2>8, <2>9, <2>10
<1>14. CASE WriteFails
  <2> DEFINE w == Head(mem.writes)
             m == Shorter(mem)
             f == w.by
  <2>1. mem.writes # <<>>
    BY <1>14, FailsHow
  <2>2. /\ m \in Memory /\ SameQueue(mem, m) /\ m.run = mem.run /\ m.busy = mem.busy
        /\ m.announced = mem.announced
        /\ 1 \in DOMAIN mem.writes /\ w = mem.writes[1]
    BY <2>1, HeadOff
  <2>3. \A i \in DOMAIN mem.writes : i = 1 \/ \E j \in DOMAIN m.writes : m.writes[j] = mem.writes[i]
    <3>1. m.writes = Tail(mem.writes) /\ mem.writes \in Seq(ByRecord)
      BY <1>0 DEF Memory, Shorter, ByRecord, Bys
    <3> HIDE DEF m
    <3>2. ASSUME NEW i \in DOMAIN mem.writes, i # 1
          PROVE  \E j \in DOMAIN m.writes : m.writes[j] = mem.writes[i]
      <4>1. i - 1 \in DOMAIN m.writes /\ m.writes[i - 1] = mem.writes[i]
        BY <2>1, <3>1, <3>2
      <4> QED BY <4>1
    <3> QED BY <3>2
  <2>4. f = "timer" /\ mem' = m
    BY <1>14, FailsHow
  <2> HIDE DEF w, m, f
  <2>5. Ready(m) => Ready(mem)
    BY <2>2 DEF Ready, SameQueue
  <2>6. \A i \in DOMAIN mem.writes : mem.writes[i].by \in Prompts =>
          \E j \in DOMAIN m.writes : m.writes[j].by \in Prompts
    BY <2>2, <2>3, <2>4, TurnAssumption DEF f
  <2>7. Moving(m)
    BY <1>0, <2>2, <2>5, <2>6, MovingSame DEF SameQueue
  <2> QED BY <2>4, <2>7
<1>15. CASE Crash
  BY <1>15 DEF Crash, Told
<1> QED BY <1>1, <1>2, <1>4, <1>5, <1>6, <1>7, <1>8, <1>9, <1>10, <1>11, <1>12, <1>13,
           <1>14, <1>15 DEF Next

(* No wake-up is lost between the loop's end, a message that is typed, one   *)
(* that is taken back, a limit that comes or goes and the start's own end,    *)
(* and no turn's end goes without its event: a session that can send is       *)
(* sending or writes what will send, for any number of messages.  Without     *)
(* crashes, and as long as no other write than the debounced one fails: what  *)
(* the code does after those, a session that waits for its user, is none of   *)
(* this.                                                                      *)
THEOREM SendersKeepGoing ==
  ASSUME MaxRestarts = 0, FailingWrites \subseteq {"timer"}
  PROVE  Spec => []NothingStalls
<1> DEFINE Inv == Moving(mem)
<1>1. Init => Inv
  <2> SUFFICES ASSUME Init PROVE Inv
    OBVIOUS
  <2>1. disk \in Record /\ mem = Restored(disk) /\ disk.pending = <<>> /\ ~disk.interrupted
    BY InitBase DEF Init
  <2>2. /\ mem.pending = <<>> /\ mem.announced = {} /\ ~mem.draining /\ ~mem.resuming
        /\ ~mem.recovering
    BY <2>1, RestoredBase
  <2>3. Range(<<>>) = {}
    BY DEF Range
  <2> QED BY <2>2, <2>3 DEF Moving, Still, Loops, Goes, Ready
<1>2. Inv /\ TypeOK /\ Base(mem) /\ disk \in Record /\ [Next]_vars => Inv'
  <2> SUFFICES ASSUME Inv, TypeOK, Base(mem), disk \in Record, [Next]_vars PROVE Inv'
    OBVIOUS
  <2>1. CASE Next
    BY <2>1, NextKeepsMoving DEF TypeOK, Told
  <2>2. CASE UNCHANGED vars
    BY <2>2 DEF vars, Moving, Still, Loops, Goes, Ready
  <2> QED BY <2>1, <2>2
<1>3. Inv /\ Base(mem) => NothingStalls
  BY DEF Moving, Still, Goes, NothingStalls, Base, Memory
<1> QED BY <1>1, <1>2, <1>3, AlwaysBase, TurnTypeCorrect, PTL DEF Spec
=============================================================================
