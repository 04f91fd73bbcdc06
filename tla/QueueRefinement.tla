--------------------------- MODULE QueueRefinement ---------------------------
(* The session queue as an AdmissionQueue: "starting" is inside, and whoever  *)
(* else the scheduler sees as active is at work.                              *)
EXTENDS SessionQueue

Phase == [s \in Session |-> CASE state[s] = "queued" -> "waiting"
                              [] state[s] = "starting" -> "in"
                              [] OTHER -> "out"]

Using == {s \in Session : state[s] # "starting" /\ Active(Now, s)}

Admission == INSTANCE AdmissionQueue WITH phase <- Phase, line <- before, using <- Using

(* Every step of the queue is one of the waiting line's: whatever enqueues,   *)
(* fails, stops, falls idle or changes a limit in one handler, the sessions it *)
(* starts are those next in line, and they fit.  Only the user's Run now lets  *)
(* one in past the line, and only the user's enqueue sends one to its end.     *)
ImplementsAdmission ==
  /\ Admission!Spec
  /\ [][\/ Admission!Turnstile
        \/ \E s \in Session : \/ Run(s) /\ Admission!PassLine(s)
                              \/ Enqueue(s) /\ Admission!Rejoins(s)]_(Admission!vars)
=============================================================================
