----------------------------- MODULE ScriptHost -----------------------------
(***************************************************************************)
(* The script host (hw/arm/prusa/utility/ScriptHost.cpp): it holds the     *)
(* lines of the script file and those typed at the console, and runs one   *)
(* line per call of OnMachineCycle, a waiting line in several calls.       *)
(*                                                                         *)
(* m_script and m_iLine are the sequence of lines not yet done: m_iLine++  *)
(* is its tail, m_iLine = scriptSize empties it.  The unit of time is the  *)
(* 10 ms period of the console's timer.  m_uiWaitMs, the time at which a   *)
(* WaitMs began, is kept as the time since then, counted up to MaxWait.    *)
(***************************************************************************)
EXTENDS Integers, Sequences, FiniteSetsExt

CONSTANT MaxWait   \* bound: no line waits longer

ASSUME MaxWaitAssumption == MaxWait \in Nat \ {0}

\* What a line can be.  "Invalid": not parsable, or its context, action or
\* number of arguments is unknown.  "Throws": an argument that std::stoi cannot
\* convert, which only the validation of a script file looks for.  "Action":
\* the action of a device, or Log.  "Unhandled": one its device does not handle.
Acts == {"Invalid", "Throws", "Action", "Unhandled", "WaitMs", "SetTimeoutMs", "SetQuitOnTimeout"}
LineType == [act : Acts, arg : 0 .. MaxWait]
NoLine == [act |-> "None", arg |-> 0]

Never == -1   \* m_uiWaitMs == 0; also the initial m_iTimeoutCycles

\* m_uiAVRFreq / 1000, as scripthost_setup passes 0 for the frequency
CyclesPerMs == 0

\* The host is a record: queue, m_script from m_iLine; cur, GetLineState() while its
\* iLine is m_iLine; status, m_eCmdStatus; cycles, m_iTimeoutCycles; count,
\* m_iTimeoutCount; quit, m_bQuitOnTimeout; wait, m_uiCurrentMs - m_uiWaitMs; down,
\* shutdown requested or an exception not caught.
\* This is its value after LoadScript.
Loaded(script) ==
  [queue |-> script, cur |-> NoLine, status |-> "Idle", cycles |-> Never, count |-> 0,
   quit |-> FALSE, wait |-> Never, down |-> FALSE]

ValidateScript(script) == \A i \in 1 .. Len(script) : script[i].act \notin {"Invalid", "Throws"}

(***************************************************************************)
(* ProcessAction                                                           *)
(***************************************************************************)
Since(h) == IF h.wait = Never THEN 0 ELSE h.wait

\* The result of line l
Result(h, l) ==
  CASE l.act = "Throws" -> "Throws"
    [] l.act = "Unhandled" -> "Unhandled"
    [] l.act = "WaitMs" /\ Since(h) < l.arg -> "Waiting"
    [] OTHER -> "Finished"

\* Faulty form: the end of a wait does not forget when it began.
ProcessAction_keeps_start(h, l) ==
  CASE l.act = "SetTimeoutMs" -> [h EXCEPT !.cycles = l.arg * CyclesPerMs, !.count = 0]
    [] l.act = "SetQuitOnTimeout" -> [h EXCEPT !.quit = (l.arg # 0)]
    [] l.act = "WaitMs" -> [h EXCEPT !.wait = Since(h)]
    [] OTHER -> h

\* What it does to the host itself
ProcessAction(h, l) ==
  CASE l.act = "SetTimeoutMs" -> [h EXCEPT !.cycles = l.arg * CyclesPerMs, !.count = 0]
    [] l.act = "SetQuitOnTimeout" -> [h EXCEPT !.quit = (l.arg # 0)]
    [] l.act = "WaitMs" -> [h EXCEPT !.wait = IF Since(h) < l.arg THEN Since(h) ELSE Never]
    [] OTHER -> h

(***************************************************************************)
(* OnMachineCycle                                                          *)
(***************************************************************************)
\* Faulty form: the next line is taken to be parsed already.
NextLine_parsed(h, s) == [h EXCEPT !.queue = Tail(@), !.count = 0, !.status = s]

\* m_iLine++ with status s
NextLine(h, s) == [h EXCEPT !.queue = Tail(@), !.cur = NoLine, !.count = 0, !.status = s]

\* m_iLine = scriptSize
EndScript(h) == [h EXCEPT !.queue = <<>>, !.cur = NoLine]

\* The line waits: it goes on waiting or times out.
Wait(h) ==
  IF h.cycles < 0 THEN [h EXCEPT !.status = "Waiting"]
  ELSE LET g == [h EXCEPT !.count = @ + 1]
       IN  CASE g.count <= g.cycles -> [g EXCEPT !.status = "Waiting"]
             [] g.count > g.cycles /\ g.quit -> [EndScript(g) EXCEPT !.down = TRUE]
             [] g.count > g.cycles /\ ~g.quit -> NextLine(g, "TimedOut")

\* Faulty form: a line that does not parse leaves the status alone.
Execute_silent(h) ==
  LET l == Head(h.queue)
      g == [ProcessAction(h, l) EXCEPT !.cur = l]
      r == Result(h, l)
  IN  CASE l.act = "Invalid" -> EndScript(h)
        [] l.act # "Invalid" /\ r = "Finished" -> NextLine(g, "Success")
        [] l.act # "Invalid" /\ r = "Unhandled" -> [EndScript(g) EXCEPT !.status = "Failed", !.down = TRUE]
        [] l.act # "Invalid" /\ r = "Throws" -> [g EXCEPT !.down = TRUE]
        [] l.act # "Invalid" /\ r = "Waiting" -> Wait(g)

\* One line: ParseLine unless it is the current one, then its action
Execute(h) ==
  LET l == IF h.cur = NoLine THEN Head(h.queue) ELSE h.cur
      g == [ProcessAction(h, l) EXCEPT !.cur = l]
      r == Result(h, l)
  IN  CASE l.act = "Invalid" -> [EndScript(h) EXCEPT !.status = "Syntax"]
        [] l.act # "Invalid" /\ r = "Finished" -> NextLine(g, "Success")
        [] l.act # "Invalid" /\ r = "Unhandled" -> [EndScript(g) EXCEPT !.status = "Failed", !.down = TRUE]
        [] l.act # "Invalid" /\ r = "Throws" -> [g EXCEPT !.down = TRUE]
        [] l.act # "Invalid" /\ r = "Waiting" -> Wait(g)

\* m_uiCurrentMs moves on by dt
Later(h, dt) == [h EXCEPT !.wait = IF @ = Never THEN Never ELSE Min({@ + dt, MaxWait})]

OnMachineCycle(h, dt) ==
  LET g == Later(h, dt) IN IF g.queue = <<>> THEN g ELSE Execute(g)

\* OnCommand_C, with a line or with an empty one
OnCommand(h, l) == IF l = NoLine THEN h ELSE [h EXCEPT !.queue = Append(@, l)]
=============================================================================
