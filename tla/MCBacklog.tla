------------------------------ MODULE MCBacklog ------------------------------
(* Heights on either side of the 2^24 of a float32, of which the catch-up may *)
(* skip the middle one: the proposer of later rounds and heights sends what   *)
(* it may in them.                                                            *)
EXTENDS Backlog

Sent(n, r, codes) ==
  {[code |-> c, view |-> [sequence |-> n, round |-> r]] : c \in codes}

MCMessages ==
  Sent(FirstSequence, 0, {"PREPARE", "COMMIT"})
    \cup Sent(FirstSequence, 1, {"PREPREPARE", "COMMIT"})
    \cup Sent(FirstSequence + 1, 0, {"PREPREPARE", "PREPARE"})
    \cup Sent(LastSequence, 0, {"PREPREPARE"})
    \cup Sent(LastSequence, 1, {"ROUND-CHANGE", "PREPREPARE", "COMMIT"})
=============================================================================
