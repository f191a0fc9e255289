----------------------------- MODULE RemoteCall -----------------------------
(***************************************************************************)
(* What a connection promises its callers, without sockets: each call      *)
(* starts once, the server carries it out at most once, and the call       *)
(* settles at most once.  The outcome of a reliable call is the server's:  *)
(* it returns "ok" only for a request that was carried out, and after an   *)
(* "error" the request has not been, and never will be, carried out.  A    *)
(* call may become unreliable while it is pending, and never again         *)
(* reliable.                                                               *)
(***************************************************************************)
CONSTANT Calls

VARIABLES
  phase,      \* "idle", "pending", or the outcome "ok" or "error"
  answer,     \* the server's: "none", "ok" or "error"
  reliable    \* whether the outcome of the call is the server's

vars == <<phase, answer, reliable>>

Pending(c) == phase[c] = "pending"

Init ==
  /\ phase = [c \in Calls |-> "idle"]
  /\ answer = [c \in Calls |-> "none"]
  /\ reliable = [c \in Calls |-> FALSE]

\* A call starts, or fails before anything of it reaches the server.
Call(c) ==
  /\ phase[c] = "idle"
  /\ \E next \in {"pending", "error"} : phase' = [phase EXCEPT ![c] = next]
  /\ \E own \in BOOLEAN, S \in SUBSET Calls :
       reliable' = [d \in Calls |->
                      IF d = c THEN own
                      ELSE reliable[d] /\ ~(d \in S /\ Pending(d))]
  /\ UNCHANGED answer

\* The server carries out a call, or refuses it, once.
Execute(c, v) ==
  /\ answer[c] = "none"
  /\ Pending(c) \/ (phase[c] # "idle" /\ ~reliable[c])
  /\ answer' = [answer EXCEPT ![c] = v]
  /\ UNCHANGED <<phase, reliable>>

\* Something happens to the transport.
Disturbance ==
  /\ \E S \in SUBSET Calls :
       reliable' = [c \in Calls |-> reliable[c] /\ ~(c \in S /\ Pending(c))]
  /\ UNCHANGED <<phase, answer>>

Return(c, outcome) ==
  /\ Pending(c)
  /\ reliable[c] => (outcome = "ok" <=> answer[c] = "ok")
  /\ phase' = [phase EXCEPT ![c] = outcome]
  /\ UNCHANGED <<answer, reliable>>

Next ==
  \/ \E c \in Calls : Call(c)
  \/ \E c \in Calls, v \in {"ok", "error"} : Execute(c, v)
  \/ Disturbance
  \/ \E c \in Calls, outcome \in {"ok", "error"} : Return(c, outcome)

Spec == Init /\ [][Next]_vars
=============================================================================
