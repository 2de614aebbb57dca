------------------------------ MODULE MCBackOffice ------------------------------
(***************************************************************************)
(* A small office: six cases the CRM may hold; two comments under one post,*)
(* both to be replied to, or one to be hidden and one to be passed over;   *)
(* and three quiet threads of which two belong to one lead.                *)
(***************************************************************************)
EXTENDS BackOffice

Fact(r, c, w, o) == [result |-> r, called |-> c, won |-> w, owned |-> o]
MCCases ==
  {NoFacts,
   Fact("think", TRUE, FALSE, FALSE), Fact("think", FALSE, FALSE, FALSE),
   Fact("refused", TRUE, FALSE, TRUE),
   Fact("none", FALSE, TRUE, FALSE), Fact("none", FALSE, TRUE, TRUE)}

MCComments == 1..2
MCPostOf == <<"p", "p">>
MCCasts == {<<"reply", "reply">>, <<"hide", "skip">>}

CONSTANTS s1, s2, c1, c2, c3
MCSleeperOf == [t \in Chats |-> IF t = c3 THEN s2 ELSE s1]
==============================================================================
