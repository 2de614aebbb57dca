------------------------------ MODULE Documented ------------------------------
(***************************************************************************)
(* What a comment of the code says of a conversation and the code does not *)
(* do; a run shows how it comes to be false.                               *)
(***************************************************************************)
EXTENDS Conversation

\* "the NOT-EXISTS pending-outbox guard stops a second generation once a reply
\* is queued" (main.py:340): no two jobs have an answer to the same message on
\* its way.
Underway(r) == outbox[r].status \in {"pending", "sending", "sent"}
OneAnswer ==
  \A r, q \in Rows :
    /\ Underway(r) /\ Underway(q)
    /\ origin[r].job \in ReplyJobs /\ origin[q].job \in ReplyJobs
    /\ origin[r].after = origin[q].after
    => origin[r].job = origin[q].job
===============================================================================
