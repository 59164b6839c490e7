---------------------------- MODULE DocDirectory ----------------------------
(***************************************************************************)
(* What the store promises about the existence of documents: a document    *)
(* is in one namespace or in none, it comes into being in one step and     *)
(* goes in one step, it never moves to another namespace, and nothing else *)
(* happens, whatever the process goes through.                             *)
(***************************************************************************)
CONSTANTS Names, Namespaces

VARIABLE owners      (* the namespaces a document is in: one at most *)

Init == owners = [n \in Names |-> {}]

Create(n, ns) ==
  /\ owners[n] = {}
  /\ owners' = [owners EXCEPT ![n] = {ns}]

Delete(n) ==
  /\ owners[n] # {}
  /\ owners' = [owners EXCEPT ![n] = {}]

Next ==
  \E n \in Names : Delete(n) \/ \E ns \in Namespaces : Create(n, ns)

Spec == Init /\ [][Next]_owners
=============================================================================
