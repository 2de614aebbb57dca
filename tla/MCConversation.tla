---------------------------- MODULE MCConversation ----------------------------
(***************************************************************************)
(* Small instances of Conversation.  Each configuration gives the processes*)
(* and the bounds its question needs; an empty set or a zero bound leaves a *)
(* process out.  Rows, runs and jobs are interchangeable.                  *)
(***************************************************************************)
EXTENDS Documented, TLC

Symmetry == Permutations(Rows) \cup Permutations(Ticks)
              \cup Permutations(ReplyJobs) \cup Permutations(NudgeJobs)
===============================================================================
