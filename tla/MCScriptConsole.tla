--------------------------- MODULE MCScriptConsole ---------------------------
\* Lines and script files for TLC.
EXTENDS ScriptConsole

Line(act, arg) == [act |-> act, arg |-> arg]

\* Every kind of line, and waits of different lengths
MCCommands == {Line("Action", 0), Line("Invalid", 0), Line("Unhandled", 0), Line("Throws", 0),
               Line("WaitMs", 1), Line("WaitMs", 2), Line("SetTimeoutMs", 2), Line("SetQuitOnTimeout", 1)}

\* Script files, valid and not
MCScripts == {<<Line("WaitMs", 3), Line("Action", 0)>>,
              <<Line("SetTimeoutMs", 3), Line("SetQuitOnTimeout", 1), Line("WaitMs", 2)>>,
              <<Line("SetTimeoutMs", 3), Line("WaitMs", 2), Line("WaitMs", 2)>>,
              <<Line("WaitMs", 2), Line("Invalid", 0), Line("Action", 0)>>}

\* Waits before and after a timeout is set
MCTimeoutScripts == {<<Line("WaitMs", 1)>>}
MCTimeoutCommands == {Line("SetTimeoutMs", 3), Line("WaitMs", 2)}
=============================================================================
