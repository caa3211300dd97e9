--------------------------------- MODULE Roll ---------------------------------
(***************************************************************************)
(* What the ma'tam's register promises, with no requests or statements: an *)
(* application waits, is withheld or put back, and is admitted only while  *)
(* it waits; a membership is never undone but by removing the member, and  *)
(* what has been removed never comes back.                                 *)
(***************************************************************************)
CONSTANT Application

VARIABLE standing

Init == standing = [i \in Application |-> "none"]

Move(i, from, to) ==
  standing[i] = from /\ standing' = [standing EXCEPT ![i] = to]

Next ==
  \E i \in Application :
    \/ Move(i, "none", "waiting")
    \/ Move(i, "waiting", "withheld") \/ Move(i, "withheld", "waiting")
    \/ Move(i, "waiting", "member")
    \/ standing[i] # "none" /\ Move(i, standing[i], "gone")

Spec == Init /\ [][Next]_standing
=============================================================================
