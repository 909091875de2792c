------------------------------ MODULE Handlers ------------------------------
(***************************************************************************)
(* The handlers that run side by side over the tables of the composed       *)
(* modules: requests, each for one of some kinds of operation, and the      *)
(* emissions of certificates of one template to one student.               *)
(***************************************************************************)
CONSTANTS Requests, Emissions,
          Mixes,        \* what handlers may run side by side: for each, what it may be for
          Former,       \* who made the rows of before
          None

Handlers == Requests \cup Emissions

Makers == Requests \cup {Former}     \* rows are named by the request that made them

ASSUME HandlersAssumption ==
         /\ Requests \cap Emissions = {}
         /\ Former \notin Handlers
         /\ None \notin Handlers \cup {Former}

VARIABLES pc, kind,     \* what a handler does next, and what it is for
          mix           \* the one that runs

control == <<pc, kind, mix>>

Goto(a, l) == pc' = [pc EXCEPT ![a] = l] /\ UNCHANGED <<kind, mix>>

(* A request or emission comes in.                                         *)
Start(a, k, l) ==
  /\ pc[a] = "idle" /\ k \in mix[a]
  /\ pc' = [pc EXCEPT ![a] = l]
  /\ kind' = [kind EXCEPT ![a] = k]
  /\ UNCHANGED mix

Over == {"done",       \* answered
         "refused",    \* threw, by itself or because the database refused a row
         "failed"}     \* lost: the server, the database or a service failed

ControlInit == /\ pc = [a \in Handlers |-> "idle"]
               /\ kind = [a \in Handlers |-> None]
               /\ mix \in Mixes
=============================================================================
