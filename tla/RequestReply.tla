---------------------------- MODULE RequestReply ----------------------------
(***************************************************************************)
(* What a tunnel promises of ClientTransport.request (tunnel/transport.py: *)
(* "Send one frame and wait for the single reply frame"): a request ends   *)
(* once, with its own reply or with an error; the server handles it at     *)
(* most once, and before it is answered.  The reply may come too late, and *)
(* several requests may fail together.                                     *)
(***************************************************************************)
CONSTANT Requests

VARIABLES
    state,      \* what each caller sees
    handled     \* the requests the server's handler has finished with

vars == <<state, handled>>

Waiting == {r \in Requests : state[r] = "waiting"}

Ask(r) ==
    /\ state[r] = "new"
    /\ state' = [state EXCEPT ![r] = "waiting"]
    /\ UNCHANGED handled

Handle(r) ==
    /\ state[r] # "new" /\ r \notin handled
    /\ handled' = handled \cup {r}
    /\ UNCHANGED state

Answer(r) ==
    /\ r \in Waiting \cap handled
    /\ state' = [state EXCEPT ![r] = "answered"]
    /\ UNCHANGED handled

Fail ==
    /\ \E some \in (SUBSET Waiting) \ {{}} :
         state' = [r \in Requests |-> IF r \in some THEN "failed" ELSE state[r]]
    /\ UNCHANGED handled

Init ==
    /\ state = [r \in Requests |-> "new"]
    /\ handled = {}

Next ==
    \/ \E r \in Requests : Ask(r) \/ Handle(r) \/ Answer(r)
    \/ Fail

Spec == Init /\ [][Next]_vars
=============================================================================
