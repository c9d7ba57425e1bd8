----------------------------- MODULE RequestGate -----------------------------
(***************************************************************************)
(* What the HTTP front end of CoreTrace promises about its lifetime, said  *)
(* without threads, atomics or condition variables.  The server is open,   *)
(* then closing, then gone.  A request is let in only while the server is  *)
(* open and turned away only while it is closing; the process does not end *)
(* while a request that was let in still owes its client an answer.        *)
(*                                                                         *)
(* Module HttpServer describes the program and is shown to implement this  *)
(* one.                                                                    *)
(***************************************************************************)
CONSTANT Requests   \* the request slots (one per client connection)

VARIABLES
  phase,   \* "open", "closing" or "exited"
  stage    \* per request: "outside", "inside" or "refused"

gateVars == <<phase, stage>>

Init ==
  /\ phase = "open"
  /\ stage = [r \in Requests |-> "outside"]

Admit(r) ==
  /\ phase = "open"
  /\ stage[r] = "outside"
  /\ stage' = [stage EXCEPT ![r] = "inside"]
  /\ UNCHANGED phase

Refuse(r) ==
  /\ phase = "closing"
  /\ stage[r] = "outside"
  /\ stage' = [stage EXCEPT ![r] = "refused"]
  /\ UNCHANGED phase

Answer(r) ==
  /\ stage[r] # "outside"
  /\ stage' = [stage EXCEPT ![r] = "outside"]
  /\ UNCHANGED phase

Close ==
  /\ phase = "open"
  /\ phase' = "closing"
  /\ UNCHANGED stage

\* An open server ends too: it could not bind its port.
Exit ==
  /\ phase # "exited"
  /\ \A r \in Requests : stage[r] = "outside"
  /\ phase' = "exited"
  /\ UNCHANGED stage

Next ==
  \/ \E r \in Requests : Admit(r) \/ Refuse(r) \/ Answer(r)
  \/ Close
  \/ Exit

Spec == Init /\ [][Next]_gateVars
==============================================================================
