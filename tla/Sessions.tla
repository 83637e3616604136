------------------------------ MODULE Sessions ------------------------------
(***************************************************************************)
(* What a TCP server promises to the application about its connections,    *)
(* with no loops, queues, maps or reference counts in it: each connection  *)
(* is accepted, reported up, reported down and released, once each and in  *)
(* this order, and no more than Capacity of them are held at a time.  Only *)
(* a server that is being destroyed may release one it has not reported    *)
(* down.  TcpServer is shown to implement this specification.              *)
(***************************************************************************)
EXTENDS Naturals, FiniteSets

CONSTANTS Connection, Capacity

VARIABLES
    phase,      \* of each connection
    stopping    \* the server is being destroyed

vars == <<phase, stopping>>

Phase == {"none", "accepted", "up", "down", "released"}

Held == {c \in Connection : phase[c] \notin {"none", "released"}}

Init ==
    /\ phase = [c \in Connection |-> "none"]
    /\ stopping = FALSE

Move(c, from, to) ==
    /\ phase[c] = from
    /\ phase' = [phase EXCEPT ![c] = to]
    /\ UNCHANGED stopping

(* Within the capacity; the report may come with it.                       *)
Accept(c) ==
    /\ ~stopping
    /\ Cardinality(Held) < Capacity
    /\ Move(c, "none", "accepted") \/ Move(c, "none", "up")

ReportUp(c) == Move(c, "accepted", "up")
ReportDown(c) == Move(c, "up", "down")

(* Some of those that are down, one or more at a time.                     *)
Release ==
    /\ \E gone \in SUBSET {c \in Held : phase[c] = "down"} :
          phase' = [c \in Connection |-> IF c \in gone THEN "released" ELSE phase[c]]
    /\ UNCHANGED stopping

Stop == stopping' = TRUE /\ UNCHANGED phase

(* What a stopping server still holds goes, some of it or all at once.     *)
Discard ==
    /\ stopping
    /\ \E gone \in SUBSET Held :
          phase' = [c \in Connection |-> IF c \in gone THEN "released" ELSE phase[c]]
    /\ UNCHANGED stopping

Next ==
    \/ \E c \in Connection : Accept(c) \/ ReportUp(c) \/ ReportDown(c)
    \/ Release
    \/ Stop
    \/ Discard

Spec == Init /\ [][Next]_vars

=============================================================================
