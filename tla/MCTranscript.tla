------------------------------ MODULE MCTranscript ------------------------------
(***************************************************************************)
(* The three kinds of connectors, side by side: a behaviour has one, read  *)
(* by the poll and one other job at most.                                  *)
(***************************************************************************)
EXTENDS Transcript

CONSTANTS t, u, p, q, o, poller, x, h

AllLinks ==
  {Instagram({poller}, {t, p, o}), Instagram({poller, x}, {t, o}),
   Meta({poller, h}, {t, p, o}), Meta({poller, x}, {t, p}),
   Meta({poller, h}, {p, q}), WhatsApp({poller, x}, {t, u, o})}
==============================================================================
