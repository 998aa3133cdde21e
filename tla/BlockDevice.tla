---------------------------- MODULE BlockDevice ----------------------------
(***************************************************************************)
(* What readSector promises load_FATSect and load_Cluster: the sectors of  *)
(* a request arrive in the buffer one after the other, from the first on,  *)
(* and the answer is TRUE once all have arrived, or FALSE behind any of    *)
(* them. A device that has failed once may no longer be trusted.           *)
(***************************************************************************)
EXTENDS Naturals

CONSTANTS
  Reach,    \* sectors that can be addressed
  Sectors,  \* what a sector may hold: its address on the device, and more
  Old       \* what a cell of the buffer holds that no sector arrived in

VARIABLES
  request,  \* the sectors asked for: how many, from which address
  buffer,   \* the sectors of the caller's buffer
  arrived,  \* how many sectors have arrived
  answer,   \* "none" while the request is pending
  trusted

vars == <<request, buffer, arrived, answer, trusted>>

Pending == answer = "none"

Init ==
  /\ request = [n |-> 0, lba |-> 0]
  /\ buffer \in [DOMAIN buffer -> {Old}]
  /\ arrived = 0
  /\ answer = "ok"
  /\ trusted = TRUE

Read ==
  /\ ~Pending
  /\ request' \in [n : 0 .. Reach, lba : Nat]
  /\ buffer' = [i \in DOMAIN buffer |-> Old]
  /\ arrived' = 0
  /\ answer' = "none"
  /\ UNCHANGED trusted

Arrive ==
  /\ Pending
  /\ arrived < request.n
  /\ buffer'[arrived] \in IF trusted THEN {(request.lba % Reach) + arrived} ELSE Sectors
  /\ DOMAIN buffer' = DOMAIN buffer
  /\ \A i \in DOMAIN buffer \ {arrived} : buffer'[i] = buffer[i]
  /\ arrived' = arrived + 1
  /\ UNCHANGED <<request, answer, trusted>>

Succeed ==
  /\ Pending
  /\ arrived = request.n
  /\ answer' = "ok"
  /\ UNCHANGED <<request, buffer, arrived, trusted>>

Fail ==
  /\ Pending
  /\ arrived < request.n
  /\ answer' = "failed"
  /\ trusted' \in {trusted, FALSE}
  /\ UNCHANGED <<request, buffer, arrived>>

Next == Read \/ Arrive \/ Succeed \/ Fail

Spec == Init /\ [][Next]_vars
=============================================================================
