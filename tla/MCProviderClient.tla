-------------------------- MODULE MCProviderClient --------------------------
(* Instances of ProviderClient for TLC. *)
EXTENDS ProviderClient, TLC

CONSTANTS e1, e2, e3, e4

\* a provider of each way to fail: migrations and a queue worker, a clean one,
\* a preallocated handle, a server
FourKinds == e1 :> "pq" @@ e2 :> "gopcua" @@ e3 :> "redis" @@ e4 :> "echo"
OnlyPq == e1 :> "pq"

NoEnity == [e \in Enity |-> FALSE]
FirstEnity == [e \in Enity |-> e = e1]
=============================================================================
