------------------------------- MODULE CULedger -------------------------------
(***************************************************************************)
(* What Allocate promises about compute units, without handlers, API calls *)
(* or locks: a ledger of the CUs each live pod holds, in which CUs are     *)
(* taken only when nobody holds them, and a mask is handed to a container  *)
(* only after its CUs are in the ledger.                                   *)
(***************************************************************************)
CONSTANTS Pods, GPUs

VARIABLES
  live,  \* pods on the node that have not ended
  held,  \* CUs per live pod and GPU
  told   \* masks of CU slices given to containers: [pod, ctr, mask]

vars == <<live, held, told>>

Init == live = {} /\ held = [p \in Pods |-> [g \in GPUs |-> {}]] /\ told = {}

Enter(p) == p \notin live /\ live' = live \cup {p} /\ UNCHANGED <<held, told>>

\* p takes CUs that no other pod holds, and keeps those it has.
Take(p) ==
  /\ p \in live
  /\ \A q \in Pods \ {p} : held'[q] = held[q]
  /\ \A g \in GPUs : /\ held[p][g] \subseteq held'[p][g]
                     /\ \A q \in Pods \ {p} : held'[p][g] \cap held[q][g] = {}
  /\ UNCHANGED <<live, told>>

\* A container of p gets CUs out of the ledger that no sibling was given.
Tell(p) ==
  /\ p \in live
  /\ \E a \in told' :
       /\ told' = told \cup {a} /\ a.pod = p
       /\ \A g \in GPUs : /\ a.mask[g] \subseteq held[p][g]
                          /\ \A b \in told : b.pod = p => a.mask[g] \cap b.mask[g] = {}
  /\ UNCHANGED <<live, held>>

\* p ends: its CUs are free again.
Leave(p) ==
  /\ p \in live /\ live' = live \ {p}
  /\ held' = [held EXCEPT ![p] = [g \in GPUs |-> {}]]
  /\ told' = {a \in told : a.pod # p}

Next == \E p \in Pods : Enter(p) \/ Take(p) \/ Tell(p) \/ Leave(p)

Spec == Init /\ [][Next]_vars

===============================================================================
