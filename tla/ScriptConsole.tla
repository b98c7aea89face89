---------------------------- MODULE ScriptConsole ----------------------------
(***************************************************************************)
(* The script console (hw/arm/prusa/utility/p404_script_console.c) and the *)
(* script host behind it: commands are appended to the script, a timer     *)
(* runs the host, and its status brings the prompt back.  The character    *)
(* device asks scriptcon_can_read before each byte, so a command is one    *)
(* step.                                                                   *)
(***************************************************************************)
EXTENDS ScriptHost

CONSTANTS
  Commands,   \* the lines typed at the console
  Scripts,    \* the script files
  MaxDelay,   \* bound: by how many periods the timer may be late, plus one
  MaxQueue    \* bound: nothing is typed when so many lines wait

ASSUME ConsoleAssumption == /\ Commands \subseteq LineType
                            /\ Scripts \subseteq Seq(LineType)
                            /\ MaxDelay \in Nat \ {0}
                            /\ MaxQueue \in Nat

VARIABLES
  file,    \* history: whether the machine was started with a script file
  host,    \* the script host
  con,     \* the console
  lived,   \* history: time since the line at the head of the queue was begun
  limit,   \* history: argument of the last SetTimeoutMs that was run
  cmd      \* history: the last command typed

consoleVars == <<file, host, con, lived, limit, cmd>>

\* Messages scriptcon_timer_expire prints for a status: none after success
Message(status) == IF status \in {"Failed", "TimedOut", "Syntax"} THEN status ELSE "None"

\* The console is a record: busy, is_busy; show, show_status; armed, the timer is
\* pending; shown, the message before the last prompt.

(***************************************************************************)
(* Functions of the code.                                                  *)
(***************************************************************************)
\* Faulty form: a timer that is not pending stays so.
scriptcon_execute_unarmed(c) == [c EXCEPT !.busy = TRUE, !.show = TRUE]

\* scriptcon_execute: a timer that is not pending counts as expired.
scriptcon_execute(c) == [c EXCEPT !.busy = TRUE, !.show = TRUE, !.armed = TRUE]

\* Faulty form: the prompt returns whatever the status.
scriptcon_prompt_always(c, status) ==
  IF c.show
  THEN [c EXCEPT !.busy = FALSE, !.show = FALSE, !.shown = Message(status)]
  ELSE c

\* scriptcon_timer_expire after scripthost_run has returned status
scriptcon_prompt(c, status) ==
  IF c.show /\ status # "Waiting"
  THEN [c EXCEPT !.busy = FALSE, !.show = FALSE, !.shown = Message(status)]
  ELSE c

(***************************************************************************)
(* Actions.                                                                *)
(***************************************************************************)
\* scriptcon_init: the timer runs when there is a script and it is valid.
ConsoleInit ==
  /\ \E script \in Scripts \cup {<<>>} :
       /\ file = (script # <<>>)
       /\ host = Loaded(script)
       /\ con = [busy |-> FALSE, show |-> FALSE, shown |-> "None",
                 armed |-> script # <<>> /\ ValidateScript(script)]
  /\ lived = 0
  /\ limit = Never
  /\ cmd = NoLine

\* A command is typed: a line of the script or an empty one.
Command(l) ==
  /\ ~con.busy /\ ~host.down
  /\ Len(host.queue) < MaxQueue
  /\ con' = scriptcon_execute(con)
  /\ host' = OnCommand(host, l)
  /\ cmd' = l
  /\ UNCHANGED <<file, lived, limit>>

\* The timer fires and is armed again.  An exception leaves the handler.
TimerExpire(dt) ==
  /\ con.armed /\ ~host.down
  /\ host' = OnMachineCycle(host, dt)
  /\ con' = IF Result(host, host'.cur) = "Throws" THEN con
            ELSE scriptcon_prompt(con, host'.status)
  /\ lived' = IF host.cur = NoLine THEN 0 ELSE Min({lived + dt, MaxWait})
  /\ limit' = IF host.queue # <<>> /\ Head(host.queue).act = "SetTimeoutMs"
              THEN Head(host.queue).arg ELSE limit
  /\ UNCHANGED <<file, cmd>>

ConsoleNext ==
  \/ \E l \in Commands \cup {NoLine} : Command(l)
  \/ \E dt \in 1 .. MaxDelay : TimerExpire(dt)

\* A pending timer fires: the virtual clock does not stand still.
ConsoleSpec == /\ ConsoleInit /\ [][ConsoleNext]_consoleVars
               /\ WF_consoleVars(\E dt \in 1 .. MaxDelay : TimerExpire(dt))

(***************************************************************************)
(* Properties.                                                             *)
(***************************************************************************)
\* OnMachineCycle runs the line m_iLine points at and not the one parsed before
\* it, although the parsed line is kept from call to call.
RunsLineAtHead == host.cur # NoLine => host.queue # <<>> /\ host.cur = Head(host.queue)

\* Without a script file the prompt is back only when the command is done, so
\* that no two commands are ever queued.
PromptMeansDone == ~file /\ ~con.busy /\ ~host.down => host.queue = <<>>

\* Without a script file the message before the prompt is about the command
\* typed and not about an earlier one: only a wait under a timeout may report
\* one.  (An empty command, and a timeout that ends the program, repeat the old
\* message.)
AnswersOwnCommand ==
  /\ ~file /\ con.busy /\ ~con'.busy /\ cmd # NoLine
  /\ cmd.act = "WaitMs" => ~host'.down
  =>
    con'.shown \in CASE cmd.act = "Invalid" -> {"Syntax"}
                     [] cmd.act = "Unhandled" -> {"Failed"}
                     [] cmd.act = "WaitMs" /\ limit # Never -> {"None", "TimedOut"}
                     [] OTHER -> {"None"}

\* The prompt and the message before it are about the command that was typed.
PromptIsTrue == [][PromptMeansDone' /\ AnswersOwnCommand]_consoleVars

\* The step in which the line at the head of the queue ends with status s
Ends(s) == /\ host.queue # <<>> /\ host'.queue = Tail(host.queue)
           /\ host'.status = s

\* As long as no timeout is set, WaitMs waits at least the time it is given,
\* whatever ran before it.  (A wait that times out leaves m_uiWaitMs behind.)
WaitsItsTime ==
  [][limit = Never /\ Ends("Success") /\ Head(host.queue).act = "WaitMs"
       => lived' >= Head(host.queue).arg]_consoleVars

\* A waiting line times out only when it has waited for the time set with
\* SetTimeoutMs.
TimesOutAtLimit == [][Ends("TimedOut") => lived' >= limit]_consoleVars

\* The console does not stay deaf: after each command there is a prompt again,
\* unless the machine shuts down.
PromptReturns == con.busy ~> ~con.busy \/ host.down
=============================================================================
