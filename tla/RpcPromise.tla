----------------------------- MODULE RpcPromise -----------------------------
(***************************************************************************)
(* What an RPC promises its caller, whichever of operator(), timed, async  *)
(* or timed_async issued it: the call ends at most once, and then for      *)
(* good; it ends with data only if the remote handler responded to that    *)
(* very call; it ends with thallium::timeout only if it was given one; and *)
(* it ends empty only if responses were disabled.                          *)
(***************************************************************************)
CONSTANTS Call

VARIABLES
  outcome,     \* what each call has ended with
  replied,     \* the calls whose handler has responded
  deadline,    \* the calls that were given a deadline
  oneway       \* the calls that expect no response

promise == <<outcome, replied, deadline, oneway>>

Init ==
  /\ outcome = [k \in Call |-> "unissued"]
  /\ replied = {} /\ deadline = {} /\ oneway = {}

Issue(k) ==
  /\ outcome[k] = "unissued"
  /\ outcome' = [outcome EXCEPT ![k] = "pending"]
  /\ deadline' \in {deadline, deadline \cup {k}}
  /\ oneway' \in {oneway, oneway \cup {k}}
  /\ UNCHANGED replied

\* The handler may respond late, when the caller has already given up.
Reply(k) ==
  /\ outcome[k] \in {"pending", "timeout"} /\ k \notin replied \cup oneway
  /\ replied' = replied \cup {k}
  /\ UNCHANGED <<outcome, deadline, oneway>>

End(k, result) ==
  /\ outcome[k] = "pending"
  /\ CASE result = "data"    -> k \in replied
       [] result = "timeout" -> k \in deadline
       [] result = "empty"   -> k \in oneway
  /\ outcome' = [outcome EXCEPT ![k] = result]
  /\ UNCHANGED <<replied, deadline, oneway>>

Next ==
  \E k \in Call :
    Issue(k) \/ Reply(k) \/ \E result \in {"data", "timeout", "empty"} : End(k, result)

Spec == Init /\ [][Next]_promise
=============================================================================
