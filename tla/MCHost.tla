------------------------------- MODULE MCHost -------------------------------
(***************************************************************************)
(* The script console and the RCU callbacks, on a small instance each.     *)
(* They share no state, so a behaviour is one of either, with the other at *)
(* its start.                                                              *)
(***************************************************************************)
EXTENDS MCScriptConsole, CallRcu

VARIABLE part

hostVars == <<part, consoleVars, callVars>>

InConsole == part = "console" /\ UNCHANGED <<part, callVars>>
InCall == part = "call" /\ UNCHANGED <<part, consoleVars>>

HostInit == /\ CallRcuInit /\ ConsoleInit
            /\ part = "console" \/ (part = "call" /\ ~file)

HostNext == (InConsole /\ ConsoleNext) \/ (InCall /\ CallRcuNext)

\* The fairness of each part, for its own steps
HostFairness ==
  /\ WF_hostVars(InConsole /\ \E dt \in 1 .. MaxDelay : TimerExpire(dt))
  /\ \A c \in Callers : SF_hostVars(InCall /\ CallerProgress(c))
  /\ SF_hostVars(InCall /\ RcuThreadProgress)

HostSpec == HostInit /\ [][HostNext]_hostVars /\ HostFairness
=============================================================================
