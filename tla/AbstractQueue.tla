---------------------------- MODULE AbstractQueue ----------------------------
(***************************************************************************)
(* What a consumer may rely on: a message is with the broker or on its way *)
(* over one link, comes back when the link ends, and is deleted, one at a  *)
(* time, only when it was handled and is still on its way.                 *)
(***************************************************************************)
CONSTANTS Message, Link

VARIABLES ready, taken, handled, deleted

queue == <<ready, taken, handled, deleted>>

Init ==
  /\ ready = Message
  /\ taken = [l \in Link |-> {}]
  /\ handled = {}
  /\ deleted = {}

Take(l, m) ==
  /\ m \in ready
  /\ ready' = ready \ {m}
  /\ taken' = [taken EXCEPT ![l] = @ \cup {m}]
  /\ UNCHANGED <<handled, deleted>>

GiveBack(ended) ==
  /\ ready' = ready \cup UNION {taken[l] : l \in ended}
  /\ taken' = [l \in Link |-> IF l \in ended THEN {} ELSE taken[l]]
  /\ UNCHANGED <<handled, deleted>>

(* A message that came back may be handled again, also by a consumer that  *)
(* has not noticed the end of its link.                                    *)
Handle(m) ==
  /\ handled' = handled \cup {m}
  /\ UNCHANGED <<ready, taken, deleted>>

Delete(l, m) ==
  /\ m \in taken[l] \cap handled
  /\ taken' = [taken EXCEPT ![l] = @ \ {m}]
  /\ deleted' = deleted \cup {m}
  /\ UNCHANGED <<ready, handled>>

Next ==
  \/ \E l \in Link, m \in Message : Take(l, m) \/ Delete(l, m)
  \/ \E ended \in SUBSET Link : GiveBack(ended)
  \/ \E m \in Message : Handle(m)

Spec == Init /\ [][Next]_queue
=============================================================================
