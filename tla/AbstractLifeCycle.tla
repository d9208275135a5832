-------------------------- MODULE AbstractLifeCycle --------------------------
(***************************************************************************)
(* What an application manager promises to entities that use those added   *)
(* before them: they are opened one after the other in the order of Add,   *)
(* the application runs only with all of them, they are closed in the      *)
(* reverse order, none is opened again, and a clean end leaves none open.  *)
(***************************************************************************)
EXTENDS Naturals, Sequences

CONSTANTS
  Enity,
  Lasting \* entities that nothing closes

VARIABLES
  order, \* the entities in the order they were added
  open,  \* those that are open
  phase  \* "starting", "running", "closing", "ending"; or "clean", "error"

life == <<order, open, phase>>

Place == 1..Len(order)

Init ==
  /\ order = <<>>
  /\ open = {}
  /\ phase = "starting"

Add(e) ==
  /\ phase = "starting"
  /\ open = {}
  /\ \A i \in Place : order[i] # e
  /\ order' = Append(order, e)
  /\ UNCHANGED <<open, phase>>

(* Everything an entity may use is open; it may open and fail all the same. *)
Open(i) ==
  /\ phase = "starting"
  /\ \A j \in 1..i - 1 : order[j] \in open
  /\ open' = open \cup {order[i]}
  /\ phase' \in {phase, "error"}
  /\ UNCHANGED order

GiveUp == phase = "starting" /\ phase' = "error" /\ UNCHANGED <<order, open>>

Run ==
  /\ phase = "starting"
  /\ \A i \in Place : order[i] \in open
  /\ phase' = "running"
  /\ UNCHANGED <<order, open>>

Shut == phase = "running" /\ phase' = "closing" /\ UNCHANGED <<order, open>>

(* Nothing that may use the entity is open; its failing ends the walk. *)
Close(i) ==
  /\ phase = "closing"
  /\ order[i] \in open \ Lasting
  /\ \A j \in i + 1..Len(order) : order[j] \notin open \ Lasting
  /\ open' = open \ {order[i]}
  /\ phase' \in {phase, "ending"}
  /\ UNCHANGED order

End == phase \in {"running", "closing"} /\ phase' = "ending" /\ UNCHANGED <<order, open>>

Exit(how) ==
  /\ phase = "ending"
  /\ how = "clean" => open \subseteq Lasting
  /\ phase' = how
  /\ UNCHANGED <<order, open>>

Next ==
  \/ \E e \in Enity : Add(e)
  \/ \E i \in Place : Open(i) \/ Close(i)
  \/ GiveUp \/ Run \/ Shut \/ End
  \/ \E how \in {"clean", "error"} : Exit(how)

Spec == Init /\ [][Next]_life
=============================================================================
