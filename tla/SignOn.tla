------------------------------- MODULE SignOn -------------------------------
(***************************************************************************)
(* What a login promises its caller, without sockets, seeds and bytes.     *)
(* Two servers are asked in turn, the signon server and the database       *)
(* server.  Each of them decides at most once on a password substitute of  *)
(* this login, whatever happens: an attempt is never repeated.  As long as *)
(* the login is reliable, the database server is asked only after the      *)
(* signon server has agreed, the login resolves only when both have, and   *)
(* no server decides once it has settled.  The login settles at most once, *)
(* and may become unreliable until then.                                   *)
(***************************************************************************)
VARIABLES
  outcome,   \* "pending", "resolved" or "rejected"
  granted,   \* granted[h]: what h decided, "none", "ok" or "error"
  reliable   \* whether the outcome of the login is the servers'

vars == <<outcome, granted, reliable>>

Hosts == {"signon", "database"}

Init ==
  /\ outcome = "pending"
  /\ granted = [h \in Hosts |-> "none"]
  /\ reliable = TRUE

Decide(h, v) ==
  /\ granted[h] = "none"
  /\ reliable => /\ outcome = "pending"
                 /\ h = "database" => granted["signon"] = "ok"
  /\ granted' = [granted EXCEPT ![h] = v]
  /\ UNCHANGED <<outcome, reliable>>

Resolve ==
  /\ outcome = "pending"
  /\ reliable => granted = [h \in Hosts |-> "ok"]
  /\ outcome' = "resolved"
  /\ UNCHANGED <<granted, reliable>>

Reject ==
  /\ outcome = "pending"
  /\ outcome' = "rejected"
  /\ UNCHANGED <<granted, reliable>>

Lapse ==
  /\ outcome = "pending" /\ reliable
  /\ reliable' = FALSE
  /\ UNCHANGED <<outcome, granted>>

Next ==
  \/ \E h \in Hosts, v \in {"ok", "error"} : Decide(h, v)
  \/ Resolve
  \/ Reject
  \/ Lapse

Spec == Init /\ [][Next]_vars
=============================================================================
