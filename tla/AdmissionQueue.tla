--------------------------- MODULE AdmissionQueue ---------------------------
(***************************************************************************)
(* What the session queue promises, clone by clone: a readers-writer lock  *)
(* with a waiting line.  A session joins at the end of the line; it is let *)
(* in once nobody inside or already at work on one of its clones conflicts *)
(* with it, nobody it conflicts with waits in front of it, and the task    *)
(* has a slot.  Sessions whose account is over its limit are passed by.    *)
(*                                                                         *)
(* A session that has been in may work again without the line, and the     *)
(* user may let one in past it; how long sessions stay, fail or sleep is   *)
(* not the queue's to say.                                                 *)
(***************************************************************************)
EXTENDS CloneClaims, Naturals, FiniteSets

CONSTANT Caps   \* the task caps the user may set; 0 is "unlimited"

VARIABLES
  phase,    \* where each session is
  line,     \* <<s, t>> : both wait, s joined before t
  using,    \* sessions past their start that may touch their clones
  held,     \* sessions a plan limit holds
  cap       \* the task's cap

vars == <<phase, line, using, held, cap>>

Phases == {"out", "waiting", "in"}

Init ==
  /\ phase = [s \in Session |-> "out"] /\ line = {} /\ using = {}
  /\ held = {} /\ cap \in Caps

(* Who may be let in next to those inside and at work, within the cap.       *)
Fits(S) ==
  LET inside == S \cup {s \in Session : phase'[s] = "in"} IN
  /\ \A s \in S, t \in inside \cup using' : s # t => ~Conflict(s, t)
  /\ S # {} /\ cap' > 0 => Cardinality(inside \cup using') <= cap'

(* Some sessions leave the line or the inside, some join the line, and those *)
(* whose turn it then is are let in.                                         *)
Serve(left, joined, S) ==
  LET waiting == ({s \in Session : phase[s] = "waiting"} \ left) \cup joined
      order == {p \in line : {p[1], p[2]} \cap (left \cup joined) = {}}
               \cup {p \in waiting \X joined : p[1] # p[2]}
  IN /\ S \subseteq waiting \ held'
     /\ \A s \in S, t \in waiting \ held' : <<t, s>> \in order => ~Conflict(s, t)
     /\ phase' = [s \in Session |-> IF s \in S THEN "in"
                                    ELSE IF s \in waiting THEN "waiting"
                                    ELSE IF s \in left THEN "out" ELSE phase[s]]
     /\ line' = {p \in order : {p[1], p[2]} \cap S = {}}
     /\ Fits(S)

(* One session at a time joins the line.                                     *)
Turnstile ==
  \E left, S \in SUBSET Session :
     \E joined \in {{}} \cup {{s} : s \in Session} :
        /\ \A s \in joined : phase[s] # "waiting"
        /\ Serve(left, joined, S)

(* The user sends a waiting session to the end of the line.                  *)
Rejoins(s) == phase[s] = "waiting" /\ \E S \in SUBSET Session : Serve({}, {s}, S)

(* The user lets a session in that nobody inside or at work conflicts with.  *)
PassLine(s) ==
  /\ phase[s] # "in"
  /\ phase' = [phase EXCEPT ![s] = "in"]
  /\ line' = {p \in line : s \notin {p[1], p[2]}}
  /\ Fits({s})

Next ==
  /\ using' \in SUBSET Session /\ held' \in SUBSET Session /\ cap' \in Caps
  /\ Turnstile \/ \E s \in Session : Rejoins(s) \/ PassLine(s)

Spec == Init /\ [][Next]_vars
=============================================================================
