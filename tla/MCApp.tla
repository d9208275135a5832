------------------------------- MODULE MCApp -------------------------------
(* Instances of App for TLC. *)
EXTENDS App

CONSTANTS e1, e2, e3, e4, e5

\* an HTTP server, two databases, and two brokers, one with StartWatcher
FiveKinds ==
  e1 :> "echo" @@ e2 :> "pq" @@ e3 :> "rabbitmq" @@ e4 :> "rabbitmq" @@ e5 :> "pq"
UaAndServer == e1 :> "gopcua" @@ e2 :> "echo"

Named(letters, dash, upper) == [letters |-> letters, dash |-> dash, upper |-> upper]

\* the names of the databases differ in their case only
FiveNames ==
  e1 :> Named("http", FALSE, FALSE) @@ e2 :> Named("db", TRUE, FALSE) @@
  e3 :> Named("bus", FALSE, FALSE) @@ e4 :> Named("audit", FALSE, FALSE) @@
  e5 :> Named("db", TRUE, TRUE)
SomeNames == [e \in Enity |-> Named("x", FALSE, FALSE)]

\* the brokers share a publisher
SharedPublisher ==
  [e \in Enity |-> IF e \in {e3, e4} THEN {Named("orders", FALSE, FALSE)} ELSE {}]
NoPublishers == [e \in Enity |-> {}]
NoEnity == [e \in Enity |-> FALSE]
FirstEnity == [e \in Enity |-> e = e1]
FourthEnity == [e \in Enity |-> e = e4]
=============================================================================
