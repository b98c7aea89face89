------------------------------- MODULE MCCore -------------------------------
(***************************************************************************)
(* Read-copy-update and the main loop, on a small instance each.  They     *)
(* share no state here, so a behaviour is one of either, with the other at *)
(* its start.                                                              *)
(***************************************************************************)
EXTENDS Rcu, MainLoop

VARIABLE part

coreVars == <<part, rcuVars, mainVars>>

InRcu == part = "rcu" /\ UNCHANGED <<part, mainVars>>
InLoop == part = "loop" /\ UNCHANGED <<part, rcuVars>>

CoreInit == part \in {"rcu", "loop"} /\ RcuInit /\ LoopInit

CoreNext == (InRcu /\ RcuNext) \/ (InLoop /\ LoopNext)

\* The fairness of each part, for its own steps.  In a behaviour of one part the
\* steps of the other never happen, so that a condition on steps of both is the
\* one of the part that is under way.
CoreFairness ==
  /\ \A t \in LoopThreads :
       /\ WF_coreVars(\/ InRcu /\ (ReaderProgress(t) \/ UnlockNested(t))
                      \/ InLoop /\ ThreadProgress(t))
       /\ SF_coreVars(InRcu /\ Unlock(t))
  /\ WF_coreVars((InRcu /\ UpdaterProgress) \/ (InLoop /\ LoopProgress))
  /\ WF_coreVars(InLoop /\ PassTime)

CoreSpec == CoreInit /\ [][CoreNext]_coreVars /\ CoreFairness
=============================================================================
