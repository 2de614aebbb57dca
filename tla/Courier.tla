-------------------------------- MODULE Courier --------------------------------
(***************************************************************************)
(* What the outbox promises, whoever sends and however many do.  A line is *)
(* posted, and then either delivered, once and for good, or dropped.  A    *)
(* dropped line may be posted anew by hand.  While a line is open, and only*)
(* then, a copy of it may reach the lead that the sender is told has not.  *)
(***************************************************************************)
EXTENDS Naturals

CONSTANT Rows
VARIABLES
  line,    \* each line: "none", "open", "delivered" or "dropped"
  stray    \* copies of each that nobody answered for

Init == line = [r \in Rows |-> "none"] /\ stray = [r \in Rows |-> 0]

\* The lines of which go from one state to another, together.
Moves(which, from, to) ==
  /\ \A r \in which : line[r] = from
  /\ line' = [r \in Rows |-> IF r \in which THEN to ELSE line[r]]
  /\ stray' = stray

Post    == \E which \in SUBSET Rows : Moves(which, "none", "open")
Drop    == \E which \in SUBSET Rows : Moves(which, "open", "dropped")
Deliver == \E r \in Rows : Moves({r}, "open", "delivered")
Repost  == \E r \in Rows : Moves({r}, "dropped", "open")
Astray  == \E r \in Rows : /\ line[r] = "open" /\ line' = line
                           /\ stray' = [stray EXCEPT ![r] = stray[r] + 1]

Next == Post \/ Drop \/ Deliver \/ Repost \/ Astray

\* Every line posted is delivered or dropped in the end.
Settles == \A r \in Rows : line[r] = "open" ~> line[r] # "open"

Spec == Init /\ [][Next]_<<line, stray>>
===============================================================================
