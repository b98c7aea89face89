----------------------------- MODULE HostProofs ------------------------------
(***************************************************************************)
(* Proofs about two parts that follow the host: the script console, for all*)
(* scripts, commands and delays of its timer (ScriptConsole), and the clock,*)
(* for every prescaler, length of day, alarm and delay of the host's timer *)
(* (Stm32Rtc).                                                             *)
(***************************************************************************)
EXTENDS ScriptConsole, Stm32Rtc, WellFoundedInduction, TLAPS

Statuses == {"Idle", "Success", "Syntax", "Failed", "Waiting", "TimedOut"}

HostType ==
  [queue : Seq(LineType), cur : LineType \cup {NoLine}, status : Statuses,
   cycles : {Never, 0}, count : Nat, quit : BOOLEAN, wait : {Never} \cup 0 .. MaxWait,
   down : BOOLEAN]

\* An empty line is none of the lines of a script.
LEMMA NoLineIsNone == NoLine \notin LineType /\ NoLine.act = "None"
  BY DEF NoLine, LineType, Acts

\* The smaller of two times.
LEMMA MinOfTwo ==
  \A a, b \in Nat : Min({a, b}) = IF a <= b THEN a ELSE b
  <1> SUFFICES ASSUME NEW a \in Nat, NEW b \in Nat
               PROVE  Min({a, b}) = IF a <= b THEN a ELSE b
    OBVIOUS
  <1> DEFINE m == IF a <= b THEN a ELSE b
             S == {a, b}
  <1>1. m \in S /\ \A y \in S : m <= y
    OBVIOUS
  <1>2. PICK x \in S : Min(S) = x /\ \A y \in S : x <= y
    BY <1>1 DEF Min
  <1> QED BY <1>1, <1>2

\* ProcessAction on the host itself.
LEMMA ActionEffect ==
  ASSUME NEW h \in HostType, NEW l \in LineType
  PROVE  /\ ProcessAction(h, l) \in HostType
         /\ ProcessAction(h, l).queue = h.queue
         /\ ProcessAction(h, l).status = h.status
         /\ ProcessAction(h, l).down = h.down
         /\ ProcessAction(h, l).cycles = IF l.act = "SetTimeoutMs" THEN 0 ELSE h.cycles
         /\ ProcessAction(h, l).wait = IF l.act # "WaitMs" THEN h.wait
                                       ELSE IF Since(h) < l.arg THEN Since(h) ELSE Never
  <1>1. l.arg \in 0 .. MaxWait /\ l.arg * CyclesPerMs = 0 /\ 0 \in 0 .. MaxWait
    BY MaxWaitAssumption DEF LineType, CyclesPerMs
  <1>2. Since(h) \in 0 .. MaxWait
    BY <1>1 DEF Since, HostType, Never
  <1>3. CASE l.act = "SetTimeoutMs"
    <2>1. ProcessAction(h, l) = [h EXCEPT !.cycles = 0, !.count = 0]
      BY <1>1, <1>3, Zenon DEF ProcessAction
    <2> DEFINE g == [h EXCEPT !.cycles = 0, !.count = 0]
    <2>2. /\ g \in HostType /\ g.queue = h.queue /\ g.status = h.status /\ g.down = h.down
          /\ g.cycles = 0 /\ g.wait = h.wait
      BY Zenon DEF HostType
    <2> HIDE DEF g
    <2> QED BY <1>3, <2>1, <2>2 DEF g
  <1>4. CASE l.act = "SetQuitOnTimeout"
    <2>1. PICK b \in BOOLEAN : b = (l.arg # 0)
      BY Zenon
    <2>2. ProcessAction(h, l) = [h EXCEPT !.quit = b]
      BY <1>4, <2>1 DEF ProcessAction
    <2> QED BY <1>4, <2>2 DEF HostType
  <1>5. CASE l.act = "WaitMs"
    <2> DEFINE w == IF Since(h) < l.arg THEN Since(h) ELSE Never
    <2>1. ProcessAction(h, l) = [h EXCEPT !.wait = w]
      BY <1>5 DEF ProcessAction
    <2>2. w \in {Never} \cup 0 .. MaxWait
      BY <1>2
    <2> HIDE DEF w
    <2>3. /\ [h EXCEPT !.wait = w] \in HostType
          /\ [h EXCEPT !.wait = w].queue = h.queue
          /\ [h EXCEPT !.wait = w].status = h.status
          /\ [h EXCEPT !.wait = w].down = h.down
          /\ [h EXCEPT !.wait = w].cycles = h.cycles
          /\ [h EXCEPT !.wait = w].wait = w
      BY <2>2 DEF HostType
    <2> QED BY <1>5, <2>1, <2>3 DEF w
  <1>6. CASE l.act \notin {"SetTimeoutMs", "SetQuitOnTimeout", "WaitMs"}
    <2>1. ProcessAction(h, l) = h
      BY <1>6 DEF ProcessAction
    <2> QED BY <1>6, <2>1 DEF HostType
  <1> QED BY <1>3, <1>4, <1>5, <1>6

\* How a line that waits goes on: without a timeout it waits; with one (which is
\* over at once, as the host counts no cycles) the script or the line ends.
LEMMA WaitEffect ==
  ASSUME NEW h \in HostType, h.queue # <<>>
  PROVE  /\ Wait(h) \in HostType
         /\ Wait(h).wait = h.wait /\ Wait(h).cycles = h.cycles
         /\ \/ /\ h.cycles = Never /\ Wait(h).status = "Waiting"
               /\ Wait(h).queue = h.queue /\ Wait(h).cur = h.cur /\ Wait(h).down = h.down
            \/ /\ h.cycles = 0 /\ Wait(h).status = h.status
               /\ Wait(h).queue = <<>> /\ Wait(h).cur = NoLine /\ Wait(h).down
            \/ /\ h.cycles = 0 /\ Wait(h).status = "TimedOut"
               /\ Wait(h).queue = Tail(h.queue) /\ Wait(h).cur = NoLine /\ Wait(h).down = h.down
  <1>1. CASE h.cycles = Never
    <2>1. Wait(h) = [h EXCEPT !.status = "Waiting"]
      BY <1>1 DEF Wait, Never
    <2> QED BY <1>1, <2>1 DEF HostType, Statuses
  <1>2. CASE h.cycles = 0
    <2> DEFINE g == [h EXCEPT !.count = h.count + 1]
    <2>1. /\ g \in HostType /\ g.count > g.cycles /\ ~(g.count <= g.cycles)
          /\ g.queue = h.queue /\ g.status = h.status /\ g.wait = h.wait
          /\ g.cycles = h.cycles /\ g.down = h.down /\ g.quit = h.quit
      BY <1>2 DEF HostType
    <2>2. Tail(h.queue) \in Seq(LineType) /\ <<>> \in Seq(LineType)
      BY DEF HostType
    <2>3. Wait(h) = IF g.quit THEN [EndScript(g) EXCEPT !.down = TRUE] ELSE NextLine(g, "TimedOut")
      BY <1>2, <2>1 DEF Wait, HostType
    <2> HIDE DEF g
    <2>4. CASE g.quit
      <3>1. Wait(h) = [g EXCEPT !.queue = <<>>, !.cur = NoLine, !.down = TRUE]
        BY <2>1, <2>3, <2>4 DEF EndScript, HostType
      <3> DEFINE e == [g EXCEPT !.queue = <<>>, !.cur = NoLine, !.down = TRUE]
      <3>2. /\ e \in HostType /\ e.queue = <<>> /\ e.cur = NoLine /\ e.down = TRUE
            /\ e.status = g.status /\ e.wait = g.wait /\ e.cycles = g.cycles
        BY <2>1, <2>2, Zenon DEF HostType
      <3> HIDE DEF e
      <3> QED BY <1>2, <2>1, <3>1, <3>2, Zenon DEF e
    <2>5. CASE ~g.quit
      <3>1. Wait(h) = [g EXCEPT !.queue = Tail(h.queue), !.cur = NoLine, !.count = 0, !.status = "TimedOut"]
        BY <2>1, <2>3, <2>5 DEF NextLine, HostType
      <3> DEFINE e == [g EXCEPT !.queue = Tail(h.queue), !.cur = NoLine, !.count = 0,
                                !.status = "TimedOut"]
      <3>2. /\ e \in HostType /\ e.queue = Tail(h.queue) /\ e.cur = NoLine /\ e.down = g.down
            /\ e.status = "TimedOut" /\ e.wait = g.wait /\ e.cycles = g.cycles
        BY <2>1, <2>2, Zenon DEF HostType, Statuses
      <3> HIDE DEF e
      <3> QED BY <1>2, <2>1, <3>1, <3>2 DEF e
    <2> QED BY <2>4, <2>5
  <1> QED BY <1>1, <1>2 DEF HostType

\* The ways in which OnMachineCycle may leave the host h with line l to run: as e.
SyntaxError(h, e, l) ==
  /\ l.act = "Invalid" /\ e.status = "Syntax" /\ e.queue = <<>> /\ e.cur = NoLine
  /\ e.down = h.down /\ e.wait = h.wait /\ e.cycles = h.cycles
Finishes(h, e, l) ==
  /\ l.act \notin {"Invalid", "Throws", "Unhandled"} /\ e.status = "Success"
  /\ e.queue = Tail(h.queue) /\ e.cur = NoLine /\ e.down = h.down
  /\ e.cycles = IF l.act = "SetTimeoutMs" THEN 0 ELSE h.cycles
  /\ IF l.act = "WaitMs" THEN Since(h) >= l.arg /\ e.wait = Never ELSE e.wait = h.wait
Fails(h, e, l) ==
  /\ l.act = "Unhandled" /\ e.status = "Failed" /\ e.queue = <<>> /\ e.cur = NoLine
  /\ e.down /\ e.wait = h.wait /\ e.cycles = h.cycles
Throws(h, e, l) ==
  /\ l.act = "Throws" /\ e.status = h.status /\ e.queue = h.queue /\ e.cur = l
  /\ e.down /\ e.wait = h.wait /\ e.cycles = h.cycles
Waits(h, e, l) ==
  /\ l.act = "WaitMs" /\ e.status = "Waiting" /\ e.queue = h.queue /\ e.cur = l
  /\ e.down = h.down /\ e.wait = Since(h) /\ e.cycles = h.cycles /\ h.cycles = Never
Quits(h, e, l) ==
  /\ l.act = "WaitMs" /\ e.status = h.status /\ e.queue = <<>> /\ e.cur = NoLine
  /\ e.down /\ e.cycles = h.cycles /\ h.cycles = 0
TimesOut(h, e, l) ==
  /\ l.act = "WaitMs" /\ e.status = "TimedOut" /\ e.queue = Tail(h.queue) /\ e.cur = NoLine
  /\ e.down = h.down /\ e.cycles = h.cycles /\ h.cycles = 0

Outcome(h, e, l) ==
  \/ SyntaxError(h, e, l) \/ Finishes(h, e, l) \/ Fails(h, e, l) \/ Throws(h, e, l)
  \/ Waits(h, e, l) \/ Quits(h, e, l) \/ TimesOut(h, e, l)

\* Running the line at the head of the queue ends in one of these.
LEMMA ExecuteEffect ==
  ASSUME NEW h \in HostType, h.queue # <<>>, h.cur \in {NoLine, Head(h.queue)}
  PROVE  Execute(h) \in HostType /\ Outcome(h, Execute(h), Head(h.queue))
  <1> DEFINE l == Head(h.queue)
             p == ProcessAction(h, l)
             g == [p EXCEPT !.cur = l]
             r == Result(h, l)
  <1>1. l \in LineType /\ Tail(h.queue) \in Seq(LineType) /\ <<>> \in Seq(LineType)
    BY DEF HostType
  <1>2. l = IF h.cur = NoLine THEN Head(h.queue) ELSE h.cur
    OBVIOUS
  <1>3. Execute(h) = CASE l.act = "Invalid" -> [EndScript(h) EXCEPT !.status = "Syntax"]
          [] l.act # "Invalid" /\ r = "Finished" -> NextLine(g, "Success")
          [] l.act # "Invalid" /\ r = "Unhandled" -> [EndScript(g) EXCEPT !.status = "Failed", !.down = TRUE]
          [] l.act # "Invalid" /\ r = "Throws" -> [g EXCEPT !.down = TRUE]
          [] l.act # "Invalid" /\ r = "Waiting" -> Wait(g)
    BY <1>2, Zenon DEF Execute
  <1>4. /\ p \in HostType /\ p.queue = h.queue /\ p.status = h.status /\ p.down = h.down
        /\ p.cycles = IF l.act = "SetTimeoutMs" THEN 0 ELSE h.cycles
        /\ p.wait = IF l.act # "WaitMs" THEN h.wait
                    ELSE IF Since(h) < l.arg THEN Since(h) ELSE Never
    BY <1>1, ActionEffect, Zenon
  <1>5. r = IF l.act = "Throws" THEN "Throws" ELSE IF l.act = "Unhandled" THEN "Unhandled"
            ELSE IF l.act = "WaitMs" /\ Since(h) < l.arg THEN "Waiting" ELSE "Finished"
    BY DEF Result
  <1>6. Since(h) \in Nat /\ l.arg \in Nat
    BY <1>1, MaxWaitAssumption DEF Since, HostType, LineType, Never
  <1> HIDE DEF l, p, r
  <1>7. /\ g \in HostType /\ g.queue = h.queue /\ g.status = h.status /\ g.down = h.down
        /\ g.cycles = p.cycles /\ g.wait = p.wait /\ g.cur = l
    BY <1>1, <1>4, Zenon DEF HostType
  <1> HIDE DEF g
  <1>8. CASE l.act = "Invalid"
    <2> DEFINE e == [h EXCEPT !.queue = <<>>, !.cur = NoLine, !.status = "Syntax"]
    <2>1. Execute(h) = e
      BY <1>3, <1>8 DEF EndScript, HostType
    <2>2. /\ e \in HostType /\ e.queue = <<>> /\ e.cur = NoLine /\ e.status = "Syntax"
          /\ e.down = h.down /\ e.wait = h.wait /\ e.cycles = h.cycles
      BY <1>1, Zenon DEF HostType, Statuses
    <2> HIDE DEF e
    <2> QED BY <1>8, <2>1, <2>2 DEF Outcome, SyntaxError, l
  <1>9. CASE l.act # "Invalid" /\ r = "Finished"
    <2> DEFINE e == [g EXCEPT !.queue = Tail(g.queue), !.cur = NoLine, !.count = 0, !.status = "Success"]
    <2>1. Execute(h) = e
      BY <1>3, <1>7, <1>9 DEF NextLine, HostType
    <2>2. /\ e \in HostType /\ e.queue = Tail(h.queue) /\ e.cur = NoLine /\ e.status = "Success"
          /\ e.down = h.down /\ e.wait = p.wait /\ e.cycles = p.cycles
      BY <1>1, <1>7, Zenon DEF HostType, Statuses
    <2> HIDE DEF e
    <2>3. l.act \notin {"Invalid", "Throws", "Unhandled"} /\ (l.act = "WaitMs" => ~(Since(h) < l.arg))
      BY <1>5, <1>9
    <2>4. l.act = "WaitMs" => Since(h) >= l.arg
      BY <1>6, <2>3
    <2> QED BY <1>4, <2>1, <2>2, <2>3, <2>4 DEF Outcome, Finishes, l
  <1>10. CASE l.act # "Invalid" /\ r = "Unhandled"
    <2> DEFINE e == [g EXCEPT !.queue = <<>>, !.cur = NoLine, !.status = "Failed", !.down = TRUE]
    <2>1. Execute(h) = e
      BY <1>3, <1>7, <1>10 DEF EndScript, HostType
    <2>2. /\ e \in HostType /\ e.queue = <<>> /\ e.cur = NoLine /\ e.status = "Failed"
          /\ e.down = TRUE /\ e.wait = p.wait /\ e.cycles = p.cycles
      BY <1>1, <1>7, Zenon DEF HostType, Statuses
    <2> HIDE DEF e
    <2>3. l.act = "Unhandled"
      BY <1>5, <1>10
    <2> QED BY <1>4, <2>1, <2>2, <2>3 DEF Outcome, Fails, l
  <1>11. CASE l.act # "Invalid" /\ r = "Throws"
    <2> DEFINE e == [g EXCEPT !.down = TRUE]
    <2>1. Execute(h) = e
      BY <1>3, <1>11
    <2>2. /\ e \in HostType /\ e.queue = h.queue /\ e.cur = l /\ e.status = h.status
          /\ e.down = TRUE /\ e.wait = p.wait /\ e.cycles = p.cycles
      BY <1>7, Zenon DEF HostType
    <2> HIDE DEF e
    <2>3. l.act = "Throws"
      BY <1>5, <1>11
    <2> QED BY <1>4, <2>1, <2>2, <2>3 DEF Outcome, Throws, l
  <1>12. CASE l.act # "Invalid" /\ r = "Waiting"
    <2>1. Execute(h) = Wait(g)
      BY <1>3, <1>12
    <2>2. l.act = "WaitMs" /\ g.wait = Since(h) /\ g.cycles = h.cycles
      BY <1>4, <1>5, <1>7, <1>12
    <2> QED BY <1>7, <2>1, <2>2, WaitEffect DEF Outcome, Waits, Quits, TimesOut, l
  <1> QED BY <1>5, <1>8, <1>9, <1>10, <1>11, <1>12

\* Time passes for a host that waits.
LEMMA LaterEffect ==
  ASSUME NEW h \in HostType, NEW dt \in Nat
  PROVE  /\ Later(h, dt) \in HostType
         /\ Later(h, dt).queue = h.queue /\ Later(h, dt).cur = h.cur
         /\ Later(h, dt).status = h.status /\ Later(h, dt).down = h.down
         /\ Later(h, dt).cycles = h.cycles
         /\ Later(h, dt).wait = IF h.wait = Never THEN Never
                                ELSE IF h.wait + dt <= MaxWait THEN h.wait + dt ELSE MaxWait
  <1> DEFINE w == IF h.wait = Never THEN Never ELSE Min({h.wait + dt, MaxWait})
             v == IF h.wait = Never THEN Never
                  ELSE IF h.wait + dt <= MaxWait THEN h.wait + dt ELSE MaxWait
  <1>1. h.wait # Never => h.wait \in Nat /\ h.wait + dt \in Nat
    BY DEF HostType
  <1>2. MaxWait \in Nat
    BY MaxWaitAssumption
  <1>3. w = v
    BY <1>1, <1>2, MinOfTwo
  <1>4. v \in {Never} \cup 0 .. MaxWait
    BY <1>1, <1>2
  <1>5. Later(h, dt) = [h EXCEPT !.wait = v]
    BY <1>3 DEF Later
  <1> HIDE DEF w, v
  <1>6. /\ [h EXCEPT !.wait = v] \in HostType
        /\ [h EXCEPT !.wait = v].queue = h.queue /\ [h EXCEPT !.wait = v].cur = h.cur
        /\ [h EXCEPT !.wait = v].status = h.status /\ [h EXCEPT !.wait = v].down = h.down
        /\ [h EXCEPT !.wait = v].cycles = h.cycles /\ [h EXCEPT !.wait = v].wait = v
    BY <1>4 DEF HostType
  <1> QED BY <1>5, <1>6 DEF v

(***************************************************************************)
(* The inductive invariant.                                                *)
(***************************************************************************)
ConType == [busy : BOOLEAN, show : BOOLEAN, armed : BOOLEAN,
            shown : {"None", "Failed", "TimedOut", "Syntax"}]

ConsoleTypeOK ==
  /\ file \in BOOLEAN
  /\ host \in HostType
  /\ con \in ConType
  /\ lived \in 0 .. MaxWait
  /\ limit \in {Never} \cup 0 .. MaxWait
  /\ cmd \in LineType \cup {NoLine}

\* A line stays current only to wait; while no timeout was ever set, a wait began
\* with its line and has lasted no longer than it.
WaitIsOfLine ==
  ~host.down =>
    /\ host.cur # NoLine => host.cur.act = "WaitMs"
    /\ limit = Never => IF host.cur = NoLine THEN host.wait = Never
                        ELSE host.wait \in 0 .. lived

\* Without a script file the queue holds the command typed until the prompt is back.
QueueIsCommand ==
  ~file /\ ~host.down => host.queue = IF con.busy /\ cmd # NoLine THEN <<cmd>> ELSE <<>>

ConsoleInv ==
  /\ ConsoleTypeOK
  /\ RunsLineAtHead
  /\ con.busy <=> con.show
  /\ host.cycles = Never <=> limit = Never
  /\ WaitIsOfLine
  /\ QueueIsCommand

\* scriptcon_init establishes the invariant.
LEMMA ConsoleInitInv == ConsoleInit => ConsoleInv
  <1> SUFFICES ASSUME ConsoleInit
               PROVE  ConsoleInv
    OBVIOUS
  <1>1. PICK script \in Scripts \cup {<<>>} :
          /\ file = (script # <<>>)
          /\ host = Loaded(script)
          /\ con = [busy |-> FALSE, show |-> FALSE, shown |-> "None",
                    armed |-> script # <<>> /\ ValidateScript(script)]
    BY Zenon DEF ConsoleInit
  <1>2. lived = 0 /\ limit = Never /\ cmd = NoLine
    BY DEF ConsoleInit
  <1>3. script \in Seq(LineType)
    <2>1. <<>> \in Seq(LineType)
      OBVIOUS
    <2> QED BY <2>1, ConsoleAssumption, Zenon
  <1>4. host \in HostType /\ host.queue = script /\ host.cur = NoLine /\ host.wait = Never
        /\ host.cycles = Never
    BY <1>1, <1>3 DEF Loaded, HostType, Statuses
  <1>5. PICK b \in BOOLEAN : b = (script # <<>> /\ ValidateScript(script))
    BY Zenon
  <1>6. con \in ConType /\ ~con.busy /\ ~con.show
    BY <1>1, <1>5 DEF ConType
  <1>7. file \in BOOLEAN /\ (~file => script = <<>>)
    BY <1>1, Zenon
  <1>8. lived \in 0 .. MaxWait
    BY <1>2, MaxWaitAssumption
  <1> QED BY <1>2, <1>4, <1>6, <1>7, <1>8
          DEF ConsoleInv, ConsoleTypeOK, RunsLineAtHead, WaitIsOfLine, QueueIsCommand

\* A command is typed: the console was not busy, so that the queue it joins is
\* empty unless a script runs.
LEMMA CommandInv ==
  ASSUME ConsoleInv, NEW l \in Commands \cup {NoLine}, Command(l)
  PROVE  ConsoleInv'
  <1>1. /\ host \in HostType /\ con \in ConType /\ l \in LineType \cup {NoLine}
    BY ConsoleAssumption DEF ConsoleInv, ConsoleTypeOK
  <1>2. /\ ~con.busy /\ ~host.down /\ cmd' = l
        /\ UNCHANGED <<file, lived, limit>>
        /\ con' = [con EXCEPT !.busy = TRUE, !.show = TRUE, !.armed = TRUE]
        /\ host' = OnCommand(host, l)
    BY DEF Command, scriptcon_execute
  <1>3. con' \in ConType /\ con'.busy /\ con'.show
    BY <1>1, <1>2, Zenon DEF ConType
  <1>4. /\ host' \in HostType
        /\ host'.queue = IF l = NoLine THEN host.queue ELSE Append(host.queue, l)
        /\ host'.cur = host.cur /\ host'.wait = host.wait /\ host'.cycles = host.cycles
        /\ host'.down = host.down
    <2>1. CASE l = NoLine
      BY <1>1, <1>2, <2>1 DEF OnCommand
    <2>2. CASE l # NoLine
      <3>1. Append(host.queue, l) \in Seq(LineType)
        BY <1>1, <2>2 DEF HostType
      <3>2. host' = [host EXCEPT !.queue = Append(host.queue, l)]
        BY <1>2, <2>2 DEF OnCommand
      <3> QED BY <1>1, <2>2, <3>1, <3>2, Zenon DEF HostType
    <2> QED BY <2>1, <2>2
  <1>5. RunsLineAtHead'
    <2>1. host.queue # <<>> /\ l # NoLine =>
            Append(host.queue, l) # <<>> /\ Head(Append(host.queue, l)) = Head(host.queue)
      BY <1>1 DEF HostType
    <2> QED BY <1>4, <2>1 DEF ConsoleInv, RunsLineAtHead
  <1>6. WaitIsOfLine'
    BY <1>2, <1>4 DEF ConsoleInv, WaitIsOfLine
  <1>7. QueueIsCommand'
    <2>1. ~file => host.queue = <<>>
      BY <1>2 DEF ConsoleInv, QueueIsCommand
    <2>2. l # NoLine => Append(<<>>, l) = <<l>>
      OBVIOUS
    <2> QED BY <1>2, <1>3, <1>4, <2>1, <2>2, Zenon DEF QueueIsCommand
  <1>8. ConsoleTypeOK'
    BY <1>1, <1>2, <1>3, <1>4 DEF ConsoleInv, ConsoleTypeOK
  <1> QED BY <1>2, <1>3, <1>4, <1>5, <1>6, <1>7, <1>8 DEF ConsoleInv

\* What the prompt does to the console.
LEMMA PromptEffect ==
  ASSUME NEW c \in ConType, NEW s \in Statuses, c.busy <=> c.show
  PROVE  /\ scriptcon_prompt(c, s) \in ConType
         /\ scriptcon_prompt(c, s).busy <=> scriptcon_prompt(c, s).show
         /\ scriptcon_prompt(c, s).busy <=> c.busy /\ s = "Waiting"
         /\ c.busy /\ s # "Waiting" => scriptcon_prompt(c, s).shown = Message(s)
  <1>1. CASE c.show /\ s # "Waiting"
    <2>1. Message(s) \in {"None", "Failed", "TimedOut", "Syntax"}
      BY DEF Message
    <2>2. scriptcon_prompt(c, s) = [c EXCEPT !.busy = FALSE, !.show = FALSE, !.shown = Message(s)]
      BY <1>1 DEF scriptcon_prompt
    <2> QED BY <1>1, <2>1, <2>2, Zenon DEF ConType
  <1>2. CASE ~(c.show /\ s # "Waiting")
    <2>1. scriptcon_prompt(c, s) = c
      BY <1>2 DEF scriptcon_prompt
    <2> QED BY <1>2, <2>1
  <1> QED BY <1>1, <1>2

\* The timer fires: the host runs the line at the head of its queue, if there is
\* one, and the console answers.
LEMMA TimerEffect ==
  ASSUME ConsoleInv, NEW dt \in 1 .. MaxDelay, TimerExpire(dt)
  PROVE  LET g == Later(host, dt)
         IN  /\ g \in HostType /\ g.queue = host.queue /\ g.cur = host.cur /\ g.cycles = host.cycles
             /\ ~host.down /\ ~g.down
             /\ host' \in HostType
             /\ IF host.queue = <<>> THEN host' = g ELSE Outcome(g, host', Head(host.queue))
             /\ con' = IF host'.cur # NoLine /\ host'.cur.act = "Throws" THEN con
                       ELSE scriptcon_prompt(con, host'.status)
             /\ lived' = IF host.cur = NoLine THEN 0
                         ELSE IF lived + dt <= MaxWait THEN lived + dt ELSE MaxWait
             /\ limit' = IF host.queue # <<>> /\ Head(host.queue).act = "SetTimeoutMs"
                         THEN Head(host.queue).arg ELSE limit
             /\ UNCHANGED <<file, cmd>>
  <1> DEFINE g == Later(host, dt)
  <1>1. /\ host \in HostType /\ dt \in Nat /\ MaxWait \in Nat /\ lived \in Nat
        /\ ~host.down /\ con.armed
    BY ConsoleAssumption, MaxWaitAssumption DEF ConsoleInv, ConsoleTypeOK, TimerExpire
  <1>2. /\ g \in HostType /\ g.queue = host.queue /\ g.cur = host.cur /\ g.cycles = host.cycles
        /\ g.down = host.down
    BY <1>1, LaterEffect
  <1>3. host' = IF g.queue = <<>> THEN g ELSE Execute(g)
    BY DEF TimerExpire, OnMachineCycle
  <1>4. g.queue # <<>> => g.cur \in {NoLine, Head(g.queue)}
    BY <1>2 DEF ConsoleInv, RunsLineAtHead
  <1> HIDE DEF g
  <1>5. /\ host' \in HostType
        /\ IF host.queue = <<>> THEN host' = g ELSE Outcome(g, host', Head(host.queue))
    BY <1>2, <1>3, <1>4, ExecuteEffect
  <1>6. Result(host, host'.cur) = "Throws" <=> host'.cur # NoLine /\ host'.cur.act = "Throws"
    BY NoLineIsNone DEF Result
  <1>7. /\ con' = IF Result(host, host'.cur) = "Throws" THEN con
                  ELSE scriptcon_prompt(con, host'.status)
        /\ lived' = IF host.cur = NoLine THEN 0 ELSE Min({lived + dt, MaxWait})
        /\ limit' = IF host.queue # <<>> /\ Head(host.queue).act = "SetTimeoutMs"
                    THEN Head(host.queue).arg ELSE limit
        /\ UNCHANGED <<file, cmd>>
    BY DEF TimerExpire
  <1>8. Min({lived + dt, MaxWait}) = IF lived + dt <= MaxWait THEN lived + dt ELSE MaxWait
    BY <1>1, MinOfTwo
  <1> QED BY <1>1, <1>2, <1>5, <1>6, <1>7, <1>8 DEF g

\* One run of the timer keeps the invariant.
LEMMA TimerExpireInv ==
  ASSUME ConsoleInv, NEW dt \in 1 .. MaxDelay, TimerExpire(dt)
  PROVE  ConsoleInv'
  <1> DEFINE g == Later(host, dt)
             l == Head(host.queue)
  <1>1. /\ g \in HostType /\ g.queue = host.queue /\ g.cur = host.cur /\ g.cycles = host.cycles
        /\ ~host.down /\ ~g.down /\ host' \in HostType
        /\ IF host.queue = <<>> THEN host' = g ELSE Outcome(g, host', l)
        /\ con' = IF host'.cur # NoLine /\ host'.cur.act = "Throws" THEN con
                  ELSE scriptcon_prompt(con, host'.status)
        /\ lived' = IF host.cur = NoLine THEN 0
                    ELSE IF lived + dt <= MaxWait THEN lived + dt ELSE MaxWait
        /\ limit' = IF host.queue # <<>> /\ l.act = "SetTimeoutMs" THEN l.arg ELSE limit
        /\ UNCHANGED <<file, cmd>>
    BY TimerEffect
  <1>2. /\ dt \in Nat /\ MaxWait \in Nat /\ lived \in Nat /\ host \in HostType
    BY ConsoleAssumption, MaxWaitAssumption DEF ConsoleInv, ConsoleTypeOK
  <1>3. g.wait = IF host.wait = Never THEN Never
                 ELSE IF host.wait + dt <= MaxWait THEN host.wait + dt ELSE MaxWait
    BY <1>2, LaterEffect
  <1> HIDE DEF g
  <1>4. host.queue # <<>> => l \in LineType /\ Tail(host.queue) \in Seq(LineType)
    BY <1>2 DEF HostType
  <1> HIDE DEF l
  <1>5. con' \in ConType /\ (con'.busy <=> con'.show)
    <2>1. con \in ConType /\ (con.busy <=> con.show) /\ host'.status \in Statuses
      BY <1>1 DEF ConsoleInv, ConsoleTypeOK, HostType
    <2> QED BY <1>1, <2>1, PromptEffect
  <1>6. ConsoleTypeOK'
    <2>1. lived' \in 0 .. MaxWait
      BY <1>1, <1>2
    <2>2. limit' \in {Never} \cup 0 .. MaxWait
      BY <1>1, <1>4 DEF ConsoleInv, ConsoleTypeOK, LineType
    <2> QED BY <1>1, <1>5, <2>1, <2>2 DEF ConsoleInv, ConsoleTypeOK
  <1>7. RunsLineAtHead'
    <2>1. CASE host.queue = <<>>
      BY <1>1, <2>1 DEF ConsoleInv, RunsLineAtHead
    <2>2. CASE host.queue # <<>>
      <3>1. Outcome(g, host', l) /\ g.queue = host.queue
        BY <1>1, <2>2
      <3>2. host'.cur = NoLine \/ (host'.cur = l /\ host'.queue = host.queue)
        <4>1. SyntaxError(g, host', l) \/ Finishes(g, host', l) \/ Fails(g, host', l)
                \/ Quits(g, host', l) \/ TimesOut(g, host', l) => host'.cur = NoLine
          BY Zenon DEF SyntaxError, Finishes, Fails, Quits, TimesOut
        <4>2. Throws(g, host', l) \/ Waits(g, host', l) => host'.cur = l /\ host'.queue = g.queue
          BY Zenon DEF Throws, Waits
        <4> QED BY <3>1, <4>1, <4>2 DEF Outcome
      <3>3. RunsLineAtHead' <=> (host'.cur # NoLine => host'.queue # <<>> /\ host'.cur = Head(host'.queue))
        BY DEF RunsLineAtHead
      <3>4. host'.cur # NoLine => host'.queue # <<>> /\ host'.cur = Head(host'.queue)
        BY <2>2, <3>2, Zenon DEF l
      <3> QED BY <3>3, <3>4
    <2> QED BY <2>1, <2>2
  <1>8. host'.cycles = Never <=> limit' = Never
    <2>1. CASE host.queue = <<>>
      BY <1>1, <2>1 DEF ConsoleInv
    <2>2. CASE host.queue # <<>> /\ l.act = "SetTimeoutMs"
      <3>1. host'.cycles = 0
        BY <1>1, <2>2 DEF Outcome, SyntaxError, Finishes, Fails, Throws, Waits, Quits, TimesOut
      <3>2. limit' \in 0 .. MaxWait
        BY <1>1, <1>4, <2>2 DEF LineType
      <3> QED BY <3>1, <3>2, <1>2 DEF Never
    <2>3. CASE host.queue # <<>> /\ l.act # "SetTimeoutMs"
      <3>1. host'.cycles = host.cycles
        BY <1>1, <2>3 DEF Outcome, SyntaxError, Finishes, Fails, Throws, Waits, Quits, TimesOut
      <3> QED BY <1>1, <2>3, <3>1 DEF ConsoleInv
    <2> QED BY <2>1, <2>2, <2>3
  <1>9. WaitIsOfLine'
    <2>1. CASE host.queue = <<>>
      <3>1. host.cur = NoLine
        BY <2>1 DEF ConsoleInv, RunsLineAtHead
      <3>2. host' = g /\ limit' = limit
        BY <1>1, <2>1
      <3> QED BY <1>1, <1>3, <3>1, <3>2 DEF ConsoleInv, WaitIsOfLine
    <2>2. CASE host.queue # <<>>
      <3>1. limit' = Never => limit = Never /\ host.cycles = Never
        BY <1>1, <1>8, <2>2, <1>4, <1>2 DEF ConsoleInv, LineType, Never
      <3>2. limit = Never => IF host.cur = NoLine THEN g.wait = Never /\ Since(g) = 0 /\ lived' = 0
                             ELSE g.wait # Never /\ Since(g) \in 0 .. lived'
        <4>1. CASE limit = Never /\ host.cur = NoLine
          <5>1. host.wait = Never
            BY <1>1, <4>1, Zenon DEF ConsoleInv, WaitIsOfLine
          <5> QED BY <1>1, <1>3, <4>1, <5>1 DEF Since
        <4>2. CASE limit = Never /\ host.cur # NoLine
          <5>1. host.wait \in 0 .. lived /\ lived \in 0 .. MaxWait
            BY <1>1, <4>2 DEF ConsoleInv, WaitIsOfLine, ConsoleTypeOK
          <5>2. g.wait = IF host.wait + dt <= MaxWait THEN host.wait + dt ELSE MaxWait
            BY <1>2, <1>3, <5>1 DEF Never
          <5>3. lived' = IF lived + dt <= MaxWait THEN lived + dt ELSE MaxWait
            BY <1>1, <4>2
          <5>4. g.wait \in 0 .. lived'
            BY <1>2, <5>1, <5>2, <5>3
          <5>5. g.wait # Never
            BY <5>4 DEF Never
          <5> QED BY <4>2, <5>4, <5>5 DEF Since
        <4> QED BY <4>1, <4>2
      <3>3. CASE Waits(g, host', l)
        <4>1. host'.cur = l /\ l.act = "WaitMs" /\ host'.wait = Since(g)
          BY <3>3 DEF Waits
        <4>2. l # NoLine
          BY <1>4, <2>2, NoLineIsNone
        <4>3. limit' = Never => host'.wait \in 0 .. lived'
          BY <3>1, <3>2, <4>1
        <4> QED BY <4>1, <4>2, <4>3 DEF WaitIsOfLine
      <3>4. CASE Finishes(g, host', l)
        <4>1. host'.cur = NoLine /\ (l.act # "WaitMs" => host'.wait = g.wait)
              /\ (l.act = "WaitMs" => host'.wait = Never)
          BY <3>4 DEF Finishes
        <4>2. l.act # "WaitMs" => host.cur = NoLine
          BY <1>1 DEF ConsoleInv, WaitIsOfLine, RunsLineAtHead, l
        <4> QED BY <3>1, <3>2, <4>1, <4>2 DEF WaitIsOfLine
      <3>5. CASE SyntaxError(g, host', l)
        <4>1. host'.cur = NoLine /\ host'.wait = g.wait /\ l.act # "WaitMs"
          BY <3>5 DEF SyntaxError
        <4>2. host.cur = NoLine
          BY <1>1, <4>1 DEF ConsoleInv, WaitIsOfLine, RunsLineAtHead, l
        <4> QED BY <3>1, <3>2, <4>1, <4>2 DEF WaitIsOfLine
      <3>6. CASE TimesOut(g, host', l)
        <4>1. host'.cur = NoLine /\ host.cycles = 0
          BY <1>1, <3>6 DEF TimesOut
        <4>2. limit' # Never
          BY <3>1, <4>1 DEF Never
        <4> QED BY <4>1, <4>2 DEF WaitIsOfLine
      <3>7. CASE host'.down
        BY <3>7 DEF WaitIsOfLine
      <3> QED BY <1>1, <2>2, <3>3, <3>4, <3>5, <3>6, <3>7 DEF Outcome, Fails, Throws, Quits
    <2> QED BY <2>1, <2>2
  <1>10. QueueIsCommand'
    <2> SUFFICES ASSUME ~file, ~host'.down
                 PROVE  host'.queue = IF con'.busy /\ cmd # NoLine THEN <<cmd>> ELSE <<>>
      BY <1>1 DEF QueueIsCommand
    <2>1. host.queue = IF con.busy /\ cmd # NoLine THEN <<cmd>> ELSE <<>>
      BY <1>1 DEF ConsoleInv, QueueIsCommand
    <2>2. con \in ConType /\ (con.busy <=> con.show) /\ host'.status \in Statuses
      BY <1>1 DEF ConsoleInv, ConsoleTypeOK, HostType
    <2>3. CASE host.queue = <<>>
      <3>1. host'.queue = <<>> /\ host'.cur = NoLine
        BY <1>1, <2>3 DEF ConsoleInv, RunsLineAtHead
      <3>2. ~(con.busy /\ cmd # NoLine)
        BY <2>1, <2>3
      <3>3. con'.busy => con.busy
        BY <1>1, <2>2, PromptEffect
      <3> QED BY <3>1, <3>2, <3>3
    <2>4. CASE host.queue # <<>>
      <3>1. con.busy /\ cmd # NoLine /\ host.queue = <<cmd>> /\ Tail(host.queue) = <<>>
        BY <2>1, <2>4
      <3>2. host'.cur = NoLine \/ host'.cur.act = "WaitMs"
        BY <1>9 DEF WaitIsOfLine
      <3>3. con'.busy <=> host'.status = "Waiting"
        BY <1>1, <2>2, <3>1, <3>2, PromptEffect
      <3>4. host'.queue = IF host'.status = "Waiting" THEN host.queue ELSE <<>>
        BY <1>1, <2>4, <3>1 DEF Outcome, SyntaxError, Finishes, Fails, Throws, Waits, Quits, TimesOut
      <3> QED BY <3>1, <3>3, <3>4
    <2> QED BY <2>3, <2>4
  <1> QED BY <1>5, <1>6, <1>7, <1>8, <1>9, <1>10 DEF ConsoleInv

\* Every step of console and host keeps it.
LEMMA ConsoleStepInv == ConsoleInv /\ [ConsoleNext]_consoleVars => ConsoleInv'
  <1> SUFFICES ASSUME ConsoleInv, [ConsoleNext]_consoleVars
               PROVE  ConsoleInv'
    OBVIOUS
  <1>1. ASSUME NEW l \in Commands \cup {NoLine}, Command(l)
        PROVE  ConsoleInv'
    BY <1>1, CommandInv
  <1>2. ASSUME NEW dt \in 1 .. MaxDelay, TimerExpire(dt)
        PROVE  ConsoleInv'
    BY <1>2, TimerExpireInv
  <1>3. CASE UNCHANGED consoleVars
    BY <1>3 DEF consoleVars, ConsoleInv, ConsoleTypeOK, RunsLineAtHead, WaitIsOfLine, QueueIsCommand
  <1> QED BY <1>1, <1>2, <1>3 DEF ConsoleNext

\* The invariant holds throughout.
THEOREM ConsoleInvariant == ConsoleSpec => []ConsoleInv
  <1> QED BY ConsoleInitInv, ConsoleStepInv, PTL DEF ConsoleSpec

\* The script host runs the line m_iLine points at, never the one parsed before it.
THEOREM HostRunsLineAtHead == ConsoleSpec => []RunsLineAtHead
  <1>1. ConsoleInv => RunsLineAtHead
    BY DEF ConsoleInv
  <1> QED BY <1>1, ConsoleInvariant, PTL

\* Without a script file the prompt and the message before it are about the command
\* that was typed.
THEOREM PromptIsAboutCommand == ConsoleSpec => PromptIsTrue
  <1>1. ConsoleInv' => PromptMeansDone'
    BY DEF ConsoleInv, QueueIsCommand, PromptMeansDone
  <1>2. ASSUME ConsoleInv, NEW l \in Commands \cup {NoLine}, Command(l)
        PROVE  AnswersOwnCommand
    BY <1>2 DEF Command, AnswersOwnCommand
  <1>3. ASSUME ConsoleInv, NEW dt \in 1 .. MaxDelay, TimerExpire(dt)
        PROVE  AnswersOwnCommand
    <2> SUFFICES ASSUME ~file, con.busy, ~con'.busy, cmd # NoLine,
                        cmd.act = "WaitMs" => ~host'.down
                 PROVE  con'.shown \in CASE cmd.act = "Invalid" -> {"Syntax"}
                                         [] cmd.act = "Unhandled" -> {"Failed"}
                                         [] cmd.act = "WaitMs" /\ limit # Never -> {"None", "TimedOut"}
                                         [] OTHER -> {"None"}
      BY DEF AnswersOwnCommand
    <2> DEFINE g == Later(host, dt)
    <2>1. /\ ~host.down /\ ~g.down /\ host' \in HostType /\ g.cycles = host.cycles
          /\ IF host.queue = <<>> THEN host' = g ELSE Outcome(g, host', Head(host.queue))
          /\ con' = IF host'.cur # NoLine /\ host'.cur.act = "Throws" THEN con
                    ELSE scriptcon_prompt(con, host'.status)
      BY <1>3, TimerEffect
    <2> HIDE DEF g
    <2>2. host.queue = <<cmd>> /\ host.queue # <<>> /\ Head(host.queue) = cmd
      BY <1>3, <2>1 DEF ConsoleInv, QueueIsCommand
    <2>3. Outcome(g, host', cmd)
      BY <2>1, <2>2
    <2>4. con \in ConType /\ (con.busy <=> con.show) /\ host'.status \in Statuses
      BY <1>3, <2>1 DEF ConsoleInv, ConsoleTypeOK, HostType
    <2>5. con' = scriptcon_prompt(con, host'.status)
      BY <2>1
    <2>6. con'.shown = Message(host'.status)
      BY <2>4, <2>5, PromptEffect
    <2>7. host.cycles = 0 => limit # Never
      BY <1>3 DEF ConsoleInv, Never
    <2>8. ~Throws(g, host', cmd)
      BY <2>1, <2>2, <1>3, NoLineIsNone DEF Throws
    <2>9. /\ cmd.act = "Invalid" => host'.status = "Syntax"
          /\ cmd.act = "Unhandled" => host'.status = "Failed"
          /\ cmd.act = "WaitMs" => \/ host'.status = "Success"
                                   \/ host'.status = "Waiting"
                                   \/ host'.status = "TimedOut" /\ host.cycles = 0
          /\ cmd.act \notin {"Invalid", "Unhandled", "WaitMs"} => host'.status = "Success"
      BY <2>1, <2>3, <2>8 DEF Outcome, SyntaxError, Finishes, Fails, Waits, Quits, TimesOut
    <2> QED BY <2>6, <2>7, <2>9 DEF Message
  <1>4. UNCHANGED consoleVars => AnswersOwnCommand
    BY DEF consoleVars, AnswersOwnCommand
  <1>5. ConsoleInv /\ [ConsoleNext]_consoleVars => AnswersOwnCommand
    BY <1>2, <1>3, <1>4 DEF ConsoleNext
  <1> QED BY <1>1, <1>5, ConsoleInvariant, PTL DEF ConsoleSpec, PromptIsTrue

\* As long as no timeout is set, WaitMs waits at least the time it is given,
\* whatever ran before it.
THEOREM WaitLastsItsTime == ConsoleSpec => WaitsItsTime
  <1> DEFINE A == limit = Never /\ Ends("Success") /\ Head(host.queue).act = "WaitMs"
                    => lived' >= Head(host.queue).arg
  <1>1. ASSUME ConsoleInv, NEW l \in Commands \cup {NoLine}, Command(l)
        PROVE  A
    <2>1. host \in HostType /\ l \in LineType \cup {NoLine}
      BY <1>1, ConsoleAssumption DEF ConsoleInv, ConsoleTypeOK
    <2>2. host'.queue = IF l = NoLine THEN host.queue ELSE Append(host.queue, l)
      BY <1>1, <2>1 DEF Command, OnCommand, HostType
    <2>3. host.queue # <<>> => Tail(host.queue) # host.queue
      <3>1. host.queue # <<>> => Len(Tail(host.queue)) = Len(host.queue) - 1 /\ Len(host.queue) \in Nat
        BY <2>1 DEF HostType
      <3>2. \A m \in Nat : m # m - 1
        OBVIOUS
      <3> QED BY <3>1, <3>2, Zenon
    <2>4. host.queue # <<>> /\ l # NoLine => Tail(host.queue) # Append(host.queue, l)
      <3>1. host.queue # <<>> => Len(Tail(host.queue)) = Len(host.queue) - 1 /\ Len(host.queue) \in Nat
        BY <2>1 DEF HostType
      <3>2. l # NoLine => Len(Append(host.queue, l)) = Len(host.queue) + 1
        BY <2>1 DEF HostType
      <3> QED BY <3>1, <3>2
    <2>5. host.queue # <<>> => host'.queue # Tail(host.queue)
      BY <2>2, <2>3, <2>4, Zenon
    <2>6. ~Ends("Success")
      BY <2>5 DEF Ends
    <2> QED BY <2>6
  <1>2. ASSUME ConsoleInv, NEW dt \in 1 .. MaxDelay, TimerExpire(dt)
        PROVE  A
    <2> SUFFICES ASSUME limit = Never, Ends("Success"), Head(host.queue).act = "WaitMs"
                 PROVE  lived' >= Head(host.queue).arg
      OBVIOUS
    <2> DEFINE g == Later(host, dt)
               l == Head(host.queue)
    <2>1. /\ g \in HostType /\ ~host.down /\ g.cycles = host.cycles /\ host' \in HostType
          /\ host.queue # <<>> /\ Outcome(g, host', l)
          /\ lived' = IF host.cur = NoLine THEN 0
                      ELSE IF lived + dt <= MaxWait THEN lived + dt ELSE MaxWait
      BY <1>2, TimerEffect DEF Ends
    <2>2. /\ dt \in Nat /\ MaxWait \in Nat /\ lived \in Nat /\ host \in HostType
      BY <1>2, ConsoleAssumption, MaxWaitAssumption DEF ConsoleInv, ConsoleTypeOK
    <2>3. g.wait = IF host.wait = Never THEN Never
                   ELSE IF host.wait + dt <= MaxWait THEN host.wait + dt ELSE MaxWait
      BY <2>2, LaterEffect
    <2> HIDE DEF g
    <2>4. l \in LineType
      BY <2>1, <2>2 DEF HostType
    <2> HIDE DEF l
    <2>5. host.cycles = Never
      BY <1>2 DEF ConsoleInv
    <2>6. host'.status = "Success"
      BY DEF Ends
    <2>7. Since(g) >= l.arg
      BY <2>1, <2>5, <2>6 DEF Outcome, SyntaxError, Finishes, Fails, Throws, Waits, Quits, TimesOut, Never, l
    <2>8. Since(g) <= lived'
      <3>1. CASE host.cur = NoLine
        <4>1. host.wait = Never
          BY <1>2, <2>1, <3>1 DEF ConsoleInv, WaitIsOfLine
        <4> QED BY <2>1, <2>3, <3>1, <4>1 DEF Since
      <3>2. CASE host.cur # NoLine
        <4>1. host.wait \in 0 .. lived /\ lived \in 0 .. MaxWait
          BY <1>2, <2>1, <3>2 DEF ConsoleInv, WaitIsOfLine, ConsoleTypeOK
        <4>2. g.wait = IF host.wait + dt <= MaxWait THEN host.wait + dt ELSE MaxWait
          BY <2>2, <2>3, <4>1 DEF Never
        <4>3. lived' = IF lived + dt <= MaxWait THEN lived + dt ELSE MaxWait
          BY <2>1, <3>2
        <4>4. g.wait \in 0 .. lived'
          BY <2>2, <4>1, <4>2, <4>3
        <4>5. g.wait # Never
          BY <4>4 DEF Never
        <4> QED BY <4>4, <4>5, <2>2 DEF Since
      <3> QED BY <3>1, <3>2
    <2>9. Since(g) \in Int /\ l.arg \in Int /\ lived' \in Int
      BY <2>1, <2>2, <2>4, MaxWaitAssumption DEF Since, HostType, LineType, Never
    <2> QED BY <2>7, <2>8, <2>9 DEF l
  <1>3. ConsoleInv /\ [ConsoleNext]_consoleVars => [A]_consoleVars
    BY <1>1, <1>2 DEF ConsoleNext
  <1> QED BY <1>3, ConsoleInvariant, PTL DEF ConsoleSpec, WaitsItsTime

(***************************************************************************)
(* The clock (Stm32Rtc).                                                   *)
(***************************************************************************)
\* A quotient and a remainder are the only ones.
LEMMA Quotient ==
  ASSUME NEW n \in Nat \ {0}, NEW q \in Int, NEW c \in 0 .. n - 1
  PROVE  (q * n + c) % n = c /\ (q * n + c) \div n = q
  <1> DEFINE a == q * n + c
             d == a \div n
             m == a % n
  <1>1. a \in Int /\ d \in Int /\ m \in 0 .. n - 1 /\ a = n * d + m
    OBVIOUS
  <1> HIDE DEF d, m
  <1>2. n * (q - d) = m - c
    BY <1>1
  <1>3. \A x \in Int : x >= 1 => n * x >= n
    OBVIOUS
  <1>4. \A x \in Int : x <= -1 => n * x <= -n
    OBVIOUS
  <1>5. q - d = 0
    <2>1. q - d \in Int
      BY <1>1
    <2>2. ~(q - d >= 1)
      BY <1>1, <1>2, <1>3, <2>1
    <2>3. ~(q - d <= -1)
      BY <1>1, <1>2, <1>4, <2>1
    <2> QED
      BY <2>1, <2>2, <2>3
  <1> QED
    BY <1>1, <1>2, <1>5 DEF d, m

\* A set of numbers that is not empty has a least one.
LEMMA LeastNumber ==
  ASSUME NEW S, S \subseteq Nat, S # {}
  PROVE  \E x \in S : \A y \in S : x <= y
  <1>1. PICK x \in S : \A y \in S : ~(<<y, x>> \in OpToRel(<, Nat))
    BY NatLessThanWellFounded, WFMin, Zenon
  <1>2. \A y \in S : x <= y
    <2> SUFFICES ASSUME NEW y \in S PROVE x <= y
      OBVIOUS
    <2>1. x \in Nat /\ y \in Nat
      OBVIOUS
    <2>2. ~(y < x)
      <3>1. y < x => <<y, x>> \in OpToRel(<, Nat)
        BY <2>1 DEF OpToRel
      <3> QED
        BY <1>1, <3>1, Zenon
    <2> QED
      BY <2>1, <2>2
  <1> QED
    BY <1>2

\* Induction, for the set of the numbers that have a property
LEMMA Induction ==
  ASSUME NEW S, S \subseteq Nat, 0 \in S, \A n \in S : n + 1 \in S
  PROVE  \A n \in Nat : n \in S
  <1> DEFINE Bad == Nat \ S
  <1> SUFFICES ASSUME Bad # {} PROVE FALSE
    OBVIOUS
  <1>1. PICK x \in Bad : \A y \in Bad : x <= y
    BY LeastNumber, Zenon
  <1>2. x \in Nat /\ x \notin S /\ x # 0
    OBVIOUS
  <1>3. x - 1 \in Nat /\ x - 1 \notin Bad /\ (x - 1) + 1 = x
    BY <1>1, <1>2
  <1>4. x - 1 \in S
    BY <1>3
  <1> QED
    BY <1>2, <1>3, <1>4

\* f is the loop of f2xx_update_current_date_and_time from the tick a on.
IsLoop(f, s, a, b) == f = [k \in a .. b |-> IF k = a THEN s ELSE TickTo(f[k - 1], k)]

\* The loop, written as a recursive function, has a value for each tick.
LEMMA LoopExists ==
  ASSUME NEW s, NEW a \in Int, NEW b \in Int, a <= b
  PROVE  \E f : IsLoop(f, s, a, b)
  <1> DEFINE P(n) == \E f : IsLoop(f, s, a, a + n)
             Good == {n \in Nat : P(n)}
  <1>1. P(0)
    <2> DEFINE f == [k \in a .. a + 0 |-> s]
    <2>1. \A k \in a .. a + 0 : k = a
      OBVIOUS
    <2>2. f = [k \in a .. a + 0 |-> IF k = a THEN s ELSE TickTo(f[k - 1], k)]
      BY <2>1
    <2> QED
      BY <2>2, Zenon DEF IsLoop
  <1>2. ASSUME NEW n \in Nat, P(n) PROVE P(n + 1)
    <2>1. PICK f : IsLoop(f, s, a, a + n)
      BY <1>2
    <2> DEFINE c == a + n
               g == [k \in a .. c + 1 |-> IF k = c + 1 THEN TickTo(f[c], k) ELSE f[k]]
    <2>2. \A k \in a .. c : f[k] = IF k = a THEN s ELSE TickTo(f[k - 1], k)
      BY <2>1 DEF IsLoop
    <2>3. c \in Int /\ a <= c /\ a + (n + 1) = c + 1
      OBVIOUS
    <2> HIDE DEF c
    <2>4. \A k \in a .. c : g[k] = f[k]
      BY <2>3
    <2>5. ASSUME NEW k \in a .. c + 1
          PROVE  g[k] = IF k = a THEN s ELSE TickTo(g[k - 1], k)
      <3>1. CASE k = c + 1
        <4>1. g[k] = TickTo(f[c], k) /\ k - 1 = c /\ k # a
          BY <2>3, <3>1
        <4>2. g[c] = f[c]
          BY <2>3, <2>4
        <4> QED
          BY <4>1, <4>2
      <3>2. CASE k # c + 1
        <4>1. k \in a .. c /\ (k # a => k - 1 \in a .. c)
          BY <2>3, <3>2
        <4>2. g[k] = f[k] /\ (k # a => g[k - 1] = f[k - 1])
          BY <2>4, <4>1
        <4> HIDE DEF g
        <4> QED
          BY <2>2, <4>1, <4>2
      <3> QED
        BY <3>1, <3>2
    <2>6. g = [k \in a .. c + 1 |-> IF k = a THEN s ELSE TickTo(g[k - 1], k)]
      <3> DEFINE h == [k \in a .. c + 1 |-> IF k = a THEN s ELSE TickTo(g[k - 1], k)]
      <3>1. \A k \in a .. c + 1 : g[k] = h[k]
        BY <2>5
      <3> QED
        BY <3>1
    <2> HIDE DEF g
    <2>7. IsLoop(g, s, a, a + (n + 1))
      BY <2>3, <2>6 DEF IsLoop
    <2> QED
      BY <2>7
  <1>3. \A n \in Nat : n \in Good
    <2> HIDE DEF P
    <2>1. 0 \in Good /\ \A n \in Good : n + 1 \in Good
      BY <1>1, <1>2
    <2> QED
      BY <2>1, Induction, Zenon
  <1>4. b - a \in Nat /\ a + (b - a) = b
    OBVIOUS
  <1>5. P(b - a)
    <2> HIDE DEF P
    <2> QED
      BY <1>3, <1>4
  <1> QED
    BY <1>4, <1>5

\* So the operator of the model is such a loop, at its last tick.
LEMMA CatchUpIsLoop ==
  ASSUME NEW s, NEW new \in Int, s.ticks \in Int, s.ticks <= new
  PROVE  \E f : IsLoop(f, s, s.ticks, new) /\ CatchUp(s, new) = f[new]
  <1> DEFINE loop == CHOOSE f : IsLoop(f, s, s.ticks, new)
  <1>1. CatchUp(s, new) = loop[new]
    BY DEF CatchUp, IsLoop
  <1>2. \E f : IsLoop(f, s, s.ticks, new)
    BY LoopExists
  <1>3. IsLoop(loop, s, s.ticks, new)
    BY <1>2, Zenon
  <1> QED
    BY <1>1, <1>3, Zenon

Flags == {"A", "B", "wakeup"}

RtcType ==
  [ticks : Nat, time : Nat, period : Nat \ {0}, cr : RtcCR \cup {{}},
   isr : SUBSET (Flags \cup UNION RtcISR), irq : SUBSET Flags, wp : 0 .. 2,
   alarm : [Units -> Alarms \cup {{0}}], wut : BOOLEAN]

\* The lines of alarm A and of the wake-up timer are up only with their flags.
LinesHaveFlags(s) == s.irq \ {"B"} \subseteq s.isr

\* f2xx_alarm_check sets the flag of an enabled alarm that matches, drops none, and
\* leaves the line as the flag says.
LEMMA AlarmCheckFacts ==
  ASSUME NEW s \in RtcType, NEW u \in Units, LinesHaveFlags(s)
  PROVE  LET t == AlarmCheck(s, u)
         IN  /\ t \in RtcType /\ LinesHaveFlags(t)
             /\ t.ticks = s.ticks /\ t.time = s.time /\ t.period = s.period
             /\ t.cr = s.cr /\ t.alarm = s.alarm /\ s.isr \subseteq t.isr
             /\ Enabled(s, u) /\ s.ticks % Day \in s.alarm[u] => u \in t.isr
  <1> DEFINE t == AlarmCheck(s, u)
             isr == IF s.ticks % Day \in s.alarm[u] THEN s.isr \cup {u} ELSE s.isr
             irq == Line(s, u, Interrupts(s, u) /\ u \in isr)
  <1>1. CASE ~Enabled(s, u)
    <2>1. t = s
      BY <1>1 DEF AlarmCheck
    <2> HIDE DEF t
    <2>2. /\ t \in RtcType /\ LinesHaveFlags(t)
          /\ t.ticks = s.ticks /\ t.time = s.time /\ t.period = s.period
          /\ t.cr = s.cr /\ t.alarm = s.alarm /\ s.isr \subseteq t.isr
      BY <2>1
    <2> QED
      BY <1>1, <2>2 DEF t
  <1>2. CASE Enabled(s, u)
    <2>1. t = [s EXCEPT !.isr = isr, !.irq = irq]
      BY <1>2 DEF AlarmCheck
    <2>2. isr \in SUBSET (Flags \cup UNION RtcISR) /\ s.isr \subseteq isr
          /\ (s.ticks % Day \in s.alarm[u] => u \in isr)
      BY DEF RtcType, Units, Flags
    <2> HIDE DEF isr
    <2>3. irq \in SUBSET Flags
      BY DEF RtcType, Units, Flags, Line
    <2>4. irq \ {"B"} \subseteq isr
      <3>1. s.irq \ {"B"} \subseteq isr
        BY <2>2 DEF LinesHaveFlags
      <3> QED
        BY <3>1 DEF Line
    <2> HIDE DEF irq
    <2>5. /\ t \in RtcType /\ t.isr = isr /\ t.irq = irq
          /\ t.ticks = s.ticks /\ t.time = s.time /\ t.period = s.period
          /\ t.cr = s.cr /\ t.alarm = s.alarm
      BY <2>1, <2>2, <2>3, Zenon DEF RtcType
    <2> HIDE DEF t
    <2>6. LinesHaveFlags(t) /\ s.isr \subseteq t.isr
      BY <2>2, <2>4, <2>5 DEF LinesHaveFlags
    <2> QED
      BY <2>2, <2>5, <2>6 DEF t
  <1> QED
    BY <1>1, <1>2

\* One turn of the loop: the tick and both alarms.
LEMMA TickToFacts ==
  ASSUME NEW s \in RtcType, NEW k \in Nat, LinesHaveFlags(s)
  PROVE  LET t == TickTo(s, k)
         IN  /\ t \in RtcType /\ LinesHaveFlags(t)
             /\ t.ticks = k /\ t.time = s.time /\ t.period = s.period
             /\ t.cr = s.cr /\ t.alarm = s.alarm /\ s.isr \subseteq t.isr
             /\ \A u \in Units : Enabled(s, u) /\ k % Day \in s.alarm[u] => u \in t.isr
  <1> DEFINE r == [s EXCEPT !.ticks = k]
             a == AlarmCheck(r, "A")
             t == AlarmCheck(a, "B")
  <1>1. TickTo(s, k) = t
    BY DEF TickTo
  <1>2. /\ r \in RtcType /\ r.ticks = k /\ r.time = s.time /\ r.period = s.period
        /\ r.cr = s.cr /\ r.alarm = s.alarm /\ r.isr = s.isr /\ r.irq = s.irq
    BY DEF RtcType
  <1> HIDE DEF r
  <1>3. LinesHaveFlags(r) /\ "A" \in Units /\ "B" \in Units
    BY <1>2 DEF LinesHaveFlags, Units
  <1>4. /\ a \in RtcType /\ LinesHaveFlags(a)
        /\ a.ticks = r.ticks /\ a.time = r.time /\ a.period = r.period
        /\ a.cr = r.cr /\ a.alarm = r.alarm /\ r.isr \subseteq a.isr
        /\ Enabled(r, "A") /\ r.ticks % Day \in r.alarm["A"] => "A" \in a.isr
    BY <1>2, <1>3, AlarmCheckFacts
  <1> HIDE DEF a
  <1>5. /\ t \in RtcType /\ LinesHaveFlags(t)
        /\ t.ticks = a.ticks /\ t.time = a.time /\ t.period = a.period
        /\ t.cr = a.cr /\ t.alarm = a.alarm /\ a.isr \subseteq t.isr
        /\ Enabled(a, "B") /\ a.ticks % Day \in a.alarm["B"] => "B" \in t.isr
    BY <1>3, <1>4, AlarmCheckFacts
  <1> HIDE DEF t
  <1>6. \A u \in Units : Enabled(s, u) /\ k % Day \in s.alarm[u] => u \in t.isr
    BY <1>2, <1>4, <1>5 DEF Enabled, Units
  <1> QED
    BY <1>1, <1>2, <1>4, <1>5, <1>6

\* What the loop has made of s when it has come to the tick k
Reached(s, k, t) ==
  /\ t \in RtcType /\ LinesHaveFlags(t)
  /\ t.ticks = k /\ t.time = s.time /\ t.period = s.period
  /\ t.cr = s.cr /\ t.alarm = s.alarm
  /\ s.isr \cup AlarmsPassed(s, k) \subseteq t.isr

\* The loop makes up for every tick: no alarm it passes is missing at its end.
LEMMA CatchUpFacts ==
  ASSUME NEW s \in RtcType, LinesHaveFlags(s), NEW new \in Nat, s.ticks <= new
  PROVE  Reached(s, new, CatchUp(s, new))
  <1> DEFINE a == s.ticks
  <1>0. a \in Nat /\ s.ticks \in Int
    BY DEF RtcType
  <1>1. PICK f : IsLoop(f, s, a, new) /\ CatchUp(s, new) = f[new]
    BY <1>0, CatchUpIsLoop
  <1>2. \A k \in a .. new : f[k] = IF k = a THEN s ELSE TickTo(f[k - 1], k)
    BY <1>1, Zenon DEF IsLoop
  <1>3. f[a] = s
    BY <1>0, <1>2
  <1> DEFINE P(n) == a + n <= new => Reached(s, a + n, f[a + n])
             Good == {n \in Nat : P(n)}
  <1>4. P(0)
    <2>1. a + 0 = a /\ a + 1 .. a = {}
      BY <1>0
    <2>2. AlarmsPassed(s, a) = {}
      BY <2>1 DEF AlarmsPassed
    <2>3. Reached(s, a, s)
      BY <2>2 DEF Reached
    <2> QED
      BY <1>3, <2>1, <2>3
  <1>5. ASSUME NEW n \in Nat, P(n) PROVE P(n + 1)
    <2> DEFINE k == a + n
               t == f[k]
               v == f[k + 1]
    <2>1. k \in Nat /\ k + 1 \in Nat /\ a + (n + 1) = k + 1 /\ a <= k
      BY <1>0
    <2> SUFFICES ASSUME k + 1 <= new PROVE Reached(s, k + 1, v)
      BY <2>1
    <2>2. Reached(s, k, t)
      BY <1>5, <2>1
    <2>3. v = TickTo(t, k + 1)
      <3> HIDE DEF k
      <3>1. k + 1 \in a .. new /\ k + 1 # a /\ (k + 1) - 1 = k
        BY <1>0, <2>1
      <3> QED
        BY <1>2, <3>1
    <2> HIDE DEF k, t
    <2>4. /\ v \in RtcType /\ LinesHaveFlags(v)
          /\ v.ticks = k + 1 /\ v.time = t.time /\ v.period = t.period
          /\ v.cr = t.cr /\ v.alarm = t.alarm /\ t.isr \subseteq v.isr
          /\ \A u \in Units : Enabled(t, u) /\ (k + 1) % Day \in t.alarm[u] => u \in v.isr
      BY <2>1, <2>2, <2>3, TickToFacts DEF Reached
    <2> HIDE DEF v
    <2>5. AlarmsPassed(s, k + 1) \subseteq v.isr
      <3> SUFFICES ASSUME NEW u \in AlarmsPassed(s, k + 1) PROVE u \in v.isr
        OBVIOUS
      <3>1. u \in Units /\ Enabled(s, u)
        BY DEF AlarmsPassed
      <3>2. PICK j \in a + 1 .. k + 1 : j % Day \in s.alarm[u]
        BY DEF AlarmsPassed
      <3>3. CASE j = k + 1
        BY <2>2, <2>4, <3>1, <3>2, <3>3 DEF Reached, Enabled
      <3>4. CASE j # k + 1
        <4>1. j \in a + 1 .. k
          BY <1>0, <2>1, <3>4
        <4>2. u \in AlarmsPassed(s, k)
          BY <3>1, <3>2, <4>1 DEF AlarmsPassed
        <4> QED
          BY <2>2, <2>4, <4>2 DEF Reached
      <3> QED
        BY <3>3, <3>4
    <2> QED
      BY <2>2, <2>4, <2>5 DEF Reached
  <1>6. \A n \in Nat : n \in Good
    <2> HIDE DEF P
    <2>1. 0 \in Good /\ \A n \in Good : n + 1 \in Good
      BY <1>4, <1>5
    <2> QED
      BY <2>1, Induction, Zenon
  <1>7. new - a \in Nat /\ a + (new - a) = new
    BY <1>0
  <1>8. P(new - a)
    <2> HIDE DEF P
    <2> QED
      BY <1>6, <1>7
  <1> QED
    BY <1>1, <1>7, <1>8

\* The clock that is kept right has counted the host's time, with ns left over.
RightCounts ==
  right.kept /\ rtc.period % NsPerUs = 0 =>
    /\ rtc.time * NsPerUs = right.ticks * rtc.period + right.ns
    /\ right.ns < rtc.period
    /\ rtc.ticks <= right.ticks

RtcInv ==
  /\ rtc \in RtcType /\ right \in [ticks : Nat, ns : Nat, kept : BOOLEAN]
  /\ RightCounts
  /\ due \ late \subseteq rtc.isr
  /\ LinesHaveFlags(rtc)

\* The division by the period gives the ticks that were counted.
LEMMA TargetIsRight ==
  ASSUME RtcInv, right.kept, rtc.period % NsPerUs = 0
  PROVE  TargetTicks(rtc) = right.ticks /\ rtc.ticks <= right.ticks
  <1>1. /\ rtc.time * NsPerUs = right.ticks * rtc.period + right.ns
        /\ right.ns \in 0 .. rtc.period - 1 /\ rtc.ticks <= right.ticks
        /\ right.ticks \in Int /\ rtc.period \in Nat \ {0}
    BY DEF RtcInv, RightCounts, RtcType
  <1>2. (right.ticks * rtc.period + right.ns) \div rtc.period = right.ticks
    BY <1>1, Quotient
  <1> QED
    BY <1>1, <1>2 DEF TargetTicks

\* So the invariant gives the property.
LEMMA RtcMeans == RtcInv => ClockAndAlarmsRight
  BY TargetIsRight DEF RtcInv, ClockAndAlarmsRight, LinesHaveFlags

\* Quotient and remainder of a number
LEMMA Division ==
  ASSUME NEW a \in Nat, NEW n \in Nat \ {0}
  PROVE  a \div n \in Nat /\ a % n \in 0 .. n - 1 /\ a = n * (a \div n) + (a % n)
  OBVIOUS

\* A product of a number and a period of whole microseconds has no rest.
LEMMA WholeMicroseconds ==
  ASSUME NEW t \in Nat, NEW p \in Nat, p % NsPerUs = 0
  PROVE  (t * p) \div NsPerUs \in Nat /\ ((t * p) \div NsPerUs) * NsPerUs = t * p
  <1> DEFINE j == p \div NsPerUs
  <1>1. j \in Nat /\ p = NsPerUs * j /\ NsPerUs \in Nat \ {0}
    BY RtcAssumption
  <1> HIDE DEF j
  <1> DEFINE x == t * j
  <1>2. x \in Nat
    BY <1>1
  <1>3. t * p = x * NsPerUs + 0
    BY <1>1
  <1> HIDE DEF x
  <1>4. (x * NsPerUs + 0) \div NsPerUs = x
    <2>1. 0 \in 0 .. NsPerUs - 1
      BY <1>1
    <2> QED
      BY <1>1, <1>2, <2>1, Quotient
  <1> QED
    BY <1>1, <1>2, <1>3, <1>4

\* Host time passes: the ticks are counted, and what is left of the last one.
LEMMA HostPassesInv ==
  ASSUME RtcInv, NEW us \in Nat, HostPasses(us)
  PROVE  RtcInv'
  <1> DEFINE ns == right.ns + us * NsPerUs
             d == ns \div rtc.period
             m == ns % rtc.period
  <1>1. /\ rtc \in RtcType /\ right \in [ticks : Nat, ns : Nat, kept : BOOLEAN]
        /\ rtc.time \in Nat /\ rtc.period \in Nat \ {0} /\ rtc.ticks \in Nat
        /\ right.ticks \in Nat /\ right.ns \in Nat /\ NsPerUs \in Nat \ {0}
    BY RtcAssumption DEF RtcInv, RtcType
  <1>2. us * NsPerUs \in Nat
    BY <1>1
  <1>3. ns \in Nat
    BY <1>1, <1>2
  <1>4. /\ rtc' = [rtc EXCEPT !.time = @ + us] /\ due' = due /\ late' = late
        /\ right' = IF right.kept
                    THEN [right EXCEPT !.ticks = @ + d, !.ns = m]
                    ELSE right
    BY DEF HostPasses
  <1>5. /\ rtc' \in RtcType /\ rtc'.time = rtc.time + us /\ rtc'.period = rtc.period
        /\ rtc'.ticks = rtc.ticks /\ rtc'.isr = rtc.isr /\ rtc'.irq = rtc.irq
    BY <1>1, <1>4 DEF RtcType
  <1>6. d \in Nat /\ m \in 0 .. rtc.period - 1 /\ ns = rtc.period * d + m
    <2> HIDE DEF ns
    <2> QED
      BY <1>1, <1>3, Division, Zenon
  <1> HIDE DEF d, m
  <1>7. right' \in [ticks : Nat, ns : Nat, kept : BOOLEAN] /\ right'.kept = right.kept
    <2>1. right.ticks + d \in Nat /\ m \in Nat
      BY <1>1, <1>6
    <2>2. CASE right.kept
      <3>1. right' = [right EXCEPT !.ticks = right.ticks + d, !.ns = m]
        BY <1>4, <2>2
      <3> QED
        BY <1>1, <2>1, <3>1, Zenon
    <2>3. CASE ~right.kept
      BY <1>1, <1>4, <2>3
    <2> QED
      BY <2>2, <2>3
  <1>8. RightCounts'
    <2> SUFFICES ASSUME right.kept, rtc.period % NsPerUs = 0
                 PROVE  /\ rtc'.time * NsPerUs = right'.ticks * rtc'.period + right'.ns
                        /\ right'.ns < rtc'.period
                        /\ rtc'.ticks <= right'.ticks
      BY <1>5, <1>7 DEF RightCounts
    <2>1. right'.ticks = right.ticks + d /\ right'.ns = m
      BY <1>1, <1>4
    <2>2. /\ rtc.time * NsPerUs = right.ticks * rtc.period + right.ns
          /\ rtc.ticks <= right.ticks
      BY DEF RtcInv, RightCounts
    <2>3. (rtc.time + us) * NsPerUs = rtc.time * NsPerUs + us * NsPerUs
      BY <1>1
    <2>4. (right.ticks + d) * rtc.period = right.ticks * rtc.period + rtc.period * d
      BY <1>1, <1>6
    <2> DEFINE A == rtc.time * NsPerUs
               B == us * NsPerUs
               C == right.ticks * rtc.period
               E == rtc.period * d
    <2>5. A \in Nat /\ B \in Nat /\ C \in Nat /\ E \in Nat
      BY <1>1, <1>2, <1>6
    <2>6. A + B = (C + E) + m
      <3>1. A = C + right.ns
        BY <2>2
      <3>2. right.ns + B = E + m
        BY <1>6, Zenon
      <3>3. m \in Nat /\ right.ns \in Nat
        BY <1>1, <1>6
      <3> HIDE DEF A, B, C, E
      <3> QED
        BY <2>5, <3>1, <3>2, <3>3
    <2>7. (rtc.time + us) * NsPerUs = (right.ticks + d) * rtc.period + m
      BY <2>3, <2>4, <2>6
    <2>8. m < rtc.period /\ rtc.ticks <= right.ticks + d
      BY <1>1, <1>6, <2>2
    <2> QED
      BY <1>5, <2>1, <2>7, <2>8
  <1> QED
    BY <1>4, <1>5, <1>7, <1>8 DEF RtcInv, LinesHaveFlags

\* TR and DR set the clock and the right one together.
LEMMA SetClockInv ==
  ASSUME RtcInv, NEW ticks \in Nat, SetClock(ticks)
  PROVE  RtcInv'
  <1> DEFINE time == TimeOf(ticks, rtc.period)
  <1>1. rtc \in RtcType /\ rtc.period \in Nat \ {0} /\ NsPerUs \in Nat \ {0}
    BY RtcAssumption DEF RtcInv, RtcType
  <1>2. ticks * rtc.period \in Nat
    BY <1>1
  <1>3. time \in Nat
    <2> DEFINE x == ticks * rtc.period
    <2>1. time = x \div NsPerUs /\ x \in Nat
      BY <1>2 DEF TimeOf
    <2> HIDE DEF x, time
    <2> QED
      BY <1>1, <2>1, Division, Zenon
  <1>4. /\ rtc' = [rtc EXCEPT !.ticks = ticks, !.time = time] /\ due' = due /\ late' = late
        /\ right' = [ticks |-> ticks, ns |-> 0, kept |-> TRUE]
    BY DEF SetClock
  <1>5. rtc.period % NsPerUs = 0 => time * NsPerUs = ticks * rtc.period
    BY <1>1, WholeMicroseconds, Zenon DEF TimeOf
  <1> HIDE DEF time
  <1>6. /\ rtc' \in RtcType /\ rtc'.time = time /\ rtc'.period = rtc.period
        /\ rtc'.ticks = ticks /\ rtc'.isr = rtc.isr /\ rtc'.irq = rtc.irq
    BY <1>1, <1>3, <1>4, Zenon DEF RtcType
  <1>7. right' \in [ticks : Nat, ns : Nat, kept : BOOLEAN] /\ right'.ticks = ticks /\ right'.ns = 0
    BY <1>4
  <1>8. RightCounts'
    <2>1. ticks * rtc.period + 0 = ticks * rtc.period /\ 0 < rtc.period /\ ticks <= ticks
      BY <1>1, <1>2
    <2> QED
      BY <1>5, <1>6, <1>7, <2>1 DEF RightCounts
  <1> QED
    BY <1>4, <1>6, <1>7, <1>8 DEF RtcInv, LinesHaveFlags

\* What both registers say is a number of ticks.
LEMMA WriteClockInv ==
  ASSUME RtcInv,
         (\E time \in 0 .. Day - 1 : WriteTR(time)) \/ (\E day \in Days : WriteDR(day))
  PROVE  RtcInv'
  <1>1. rtc.ticks \in Nat /\ Day \in Nat \ {0} /\ Days \subseteq Nat
    BY RtcAssumption DEF RtcInv, RtcType
  <1>2. rtc.ticks \div Day \in Nat /\ rtc.ticks % Day \in Nat
    BY <1>1, Division
  <1>3. \A x, y \in Nat : x * y \in Nat
    OBVIOUS
  <1>4. ASSUME NEW time \in 0 .. Day - 1, WriteTR(time) PROVE RtcInv'
    <2>1. (rtc.ticks \div Day) * Day \in Nat
      BY <1>1, <1>2, <1>3
    <2>2. (rtc.ticks \div Day) * Day + time \in Nat
      BY <1>1, <2>1
    <2> QED
      BY <1>4, <2>2, SetClockInv DEF WriteTR
  <1>5. ASSUME NEW day \in Days, WriteDR(day) PROVE RtcInv'
    <2>1. day * Day \in Nat
      BY <1>1, <1>3
    <2>2. day * Day + (rtc.ticks % Day) \in Nat
      BY <1>2, <2>1
    <2> QED
      BY <1>5, <2>2, SetClockInv DEF WriteDR
  <1> QED
    BY <1>4, <1>5

\* The registers are brought up to date, with the alarms on the way.
LEMMA UpdateTimeInv == ASSUME RtcInv, UpdateTime PROVE RtcInv'
  <1> DEFINE new == TargetTicks(rtc)
             jam == new - rtc.ticks < 0 \/ new - rtc.ticks > MaxDelta
  <1>1. /\ rtc \in RtcType /\ LinesHaveFlags(rtc) /\ due \ late \subseteq rtc.isr
        /\ rtc.period \in Nat \ {0} /\ NsPerUs \in Nat /\ rtc.ticks \in Nat
        /\ rtc.time \in Nat /\ right' = right
    BY RtcAssumption DEF RtcInv, RtcType, UpdateTime
  <1>2. new \in Nat
    <2> DEFINE x == rtc.time * NsPerUs
    <2>1. x \in Nat /\ new = x \div rtc.period
      BY <1>1 DEF TargetTicks
    <2> HIDE DEF x, new
    <2> QED
      BY <1>1, <2>1, Division
  <1>3. right.kept /\ rtc.period % NsPerUs = 0 => new = right.ticks
    BY TargetIsRight
  <1>4. CASE jam
    <2>1. rtc' = [rtc EXCEPT !.ticks = new]
      BY <1>4 DEF UpdateTime
    <2>2. due' \ late' \subseteq due \ late
      <3>1. CASE new - rtc.ticks > MaxDelta
        <4>1. due' = due \cup AlarmsPassed(rtc, new) /\ late' = late \cup AlarmsPassed(rtc, new)
          BY <3>1 DEF UpdateTime
        <4> QED
          BY <4>1
      <3>2. CASE ~(new - rtc.ticks > MaxDelta)
        <4>1. due' = due \cup AlarmsPassed(rtc, new) /\ late' = late \ AlarmsPassed(rtc, new)
          BY <3>2 DEF UpdateTime
        <4>2. AlarmsPassed(rtc, new) = {}
          <5> HIDE DEF new
          <5>1. rtc.ticks + 1 .. new = {}
            BY <1>1, <1>2, <1>4, <3>2
          <5> QED
            BY <5>1 DEF AlarmsPassed
        <4> QED
          BY <4>1, <4>2
      <3> QED
        BY <3>1, <3>2
    <2> HIDE DEF new
    <2>3. /\ rtc' \in RtcType /\ rtc'.time = rtc.time /\ rtc'.period = rtc.period
          /\ rtc'.ticks = new /\ rtc'.isr = rtc.isr /\ rtc'.irq = rtc.irq
      BY <1>1, <1>2, <2>1 DEF RtcType
    <2>4. RightCounts'
      BY <1>1, <1>2, <1>3, <2>3 DEF RightCounts, RtcInv
    <2> QED
      BY <1>1, <2>2, <2>3, <2>4 DEF RtcInv, LinesHaveFlags
  <1>5. CASE ~jam
    <2>1. /\ rtc' = CatchUp(rtc, new)
          /\ due' = due \cup AlarmsPassed(rtc, new) /\ late' = late \ AlarmsPassed(rtc, new)
      BY <1>5 DEF UpdateTime
    <2>2. rtc.ticks <= new
      <3> HIDE DEF new
      <3> QED
        BY <1>1, <1>2, <1>5
    <2> HIDE DEF new
    <2>3. Reached(rtc, new, rtc')
      BY <1>1, <1>2, <2>1, <2>2, CatchUpFacts
    <2>4. due' \ late' \subseteq rtc'.isr
      BY <1>1, <2>1, <2>3 DEF Reached
    <2>5. RightCounts'
      BY <1>1, <1>2, <1>3, <2>3 DEF RightCounts, RtcInv, Reached
    <2> QED
      BY <1>1, <2>3, <2>4, <2>5 DEF RtcInv, Reached
  <1> QED
    BY <1>4, <1>5

\* What leaves the time, the clock and the alarms that went by alone preserves the
\* invariant if flags and lines still agree.
LEMMA SameTime ==
  ASSUME RtcInv, rtc' \in RtcType, right' = right,
         rtc'.ticks = rtc.ticks, rtc'.time = rtc.time, rtc'.period = rtc.period,
         due' \ late' \subseteq rtc'.isr, LinesHaveFlags(rtc')
  PROVE  RtcInv'
  BY DEF RtcInv, RightCounts

\* The write protection register unlocks the others, and changes no time or flag.
LEMMA WriteProtectInv ==
  ASSUME RtcInv, WriteWPR(TRUE, FALSE) \/ WriteWPR(FALSE, TRUE)
  PROVE  RtcInv'
  <1> DEFINE wp == rtc'.wp
  <1>1. rtc \in RtcType /\ rtc.wp \in 0 .. 2 /\ due \ late \subseteq rtc.isr /\ LinesHaveFlags(rtc)
    BY DEF RtcInv, RtcType
  <1>2. PICK n : /\ rtc' = [rtc EXCEPT !.wp = n] /\ n \in 0 .. 2
                 /\ right' = right /\ due' = due /\ late' = late
    <2>1. PICK first, second \in BOOLEAN : WriteWPR(first, second)
      BY Zenon
    <2> DEFINE n == IF (rtc.wp = 0 /\ first) \/ (rtc.wp = 1 /\ second) THEN rtc.wp + 1 ELSE 0
    <2>2. n \in 0 .. 2
      BY <1>1
    <2>3. rtc' = [rtc EXCEPT !.wp = n] /\ right' = right /\ due' = due /\ late' = late
      BY <2>1 DEF WriteWPR
    <2> HIDE DEF n
    <2> QED
      BY <2>2, <2>3
  <1>3. /\ rtc' \in RtcType /\ rtc'.ticks = rtc.ticks /\ rtc'.time = rtc.time
        /\ rtc'.period = rtc.period /\ rtc'.isr = rtc.isr /\ rtc'.irq = rtc.irq
    BY <1>1, <1>2 DEF RtcType
  <1> QED
    BY <1>1, <1>2, <1>3, SameTime DEF LinesHaveFlags

\* An alarm register is only looked at when the clock next ticks.
LEMMA WriteAlarmInv ==
  ASSUME RtcInv, NEW u \in Units, NEW times \in Alarms, WriteAlarm(u, times)
  PROVE  RtcInv'
  <1>1. /\ rtc \in RtcType /\ due \ late \subseteq rtc.isr /\ LinesHaveFlags(rtc)
        /\ rtc.alarm \in [Units -> Alarms \cup {{0}}]
    BY DEF RtcInv, RtcType
  <1> DEFINE alarm == [rtc.alarm EXCEPT ![u] = times]
  <1>2. rtc' = [rtc EXCEPT !.alarm = alarm] /\ right' = right /\ due' = due /\ late' = late
    BY DEF WriteAlarm
  <1>3. alarm \in [Units -> Alarms \cup {{0}}]
    BY <1>1
  <1> HIDE DEF alarm
  <1>4. /\ rtc' \in RtcType /\ rtc'.ticks = rtc.ticks /\ rtc'.time = rtc.time
        /\ rtc'.period = rtc.period /\ rtc'.isr = rtc.isr /\ rtc'.irq = rtc.irq
    BY <1>1, <1>2, <1>3 DEF RtcType
  <1> QED
    BY <1>1, <1>2, <1>4, SameTime DEF LinesHaveFlags

\* A new prescaler ends the comparison with the right clock.
LEMMA WritePrescalerInv ==
  ASSUME RtcInv, NEW period \in Periods, WritePRER(period)
  PROVE  RtcInv'
  <1>1. /\ rtc \in RtcType /\ due \ late \subseteq rtc.isr /\ LinesHaveFlags(rtc)
        /\ period \in Nat \ {0} /\ right \in [ticks : Nat, ns : Nat, kept : BOOLEAN]
    BY RtcAssumption DEF RtcInv, RtcType
  <1>2. rtc' = [rtc EXCEPT !.period = period] /\ due' = due /\ late' = late
    BY DEF WritePRER
  <1>3. /\ rtc' \in RtcType /\ rtc'.ticks = rtc.ticks /\ rtc'.time = rtc.time
        /\ rtc'.period = period /\ rtc'.isr = rtc.isr /\ rtc'.irq = rtc.irq
    BY <1>1, <1>2 DEF RtcType
  <1>4. CASE period = rtc.period
    <2>1. right' = right
      BY <1>4 DEF WritePRER
    <2> QED
      BY <1>1, <1>2, <1>3, <1>4, <2>1, SameTime DEF LinesHaveFlags
  <1>5. CASE period # rtc.period
    <2>1. right' = [ticks |-> 0, ns |-> 0, kept |-> FALSE]
      BY <1>5 DEF WritePRER
    <2>2. right' \in [ticks : Nat, ns : Nat, kept : BOOLEAN] /\ RightCounts'
      BY <2>1 DEF RightCounts
    <2> QED
      BY <1>1, <1>2, <1>3, <2>2 DEF RtcInv, LinesHaveFlags
  <1> QED
    BY <1>4, <1>5

\* CR, WUTR, the wake-up timer and a reset: a line may fall, and rises with its flag.
LEMMA WakeUpInv ==
  ASSUME RtcInv, (\E cr \in RtcCR : WriteCR(cr)) \/ WriteWUTR \/ WakeUp \/ RtcReset
  PROVE  RtcInv'
  <1>1. /\ rtc \in RtcType /\ due \ late \subseteq rtc.isr /\ LinesHaveFlags(rtc)
        /\ rtc.irq \in SUBSET Flags /\ rtc.isr \in SUBSET (Flags \cup UNION RtcISR)
        /\ rtc.wut \in BOOLEAN /\ rtc.cr \in RtcCR \cup {{}}
    BY DEF RtcInv, RtcType
  <1>2. ASSUME NEW cr \in RtcCR, WriteCR(cr) PROVE RtcInv'
    <2> DEFINE on == <<"enable", "wakeup">> \in cr
               toggled == on # Enabled(rtc, "wakeup")
               wut == IF toggled THEN on ELSE rtc.wut
               irq == IF toggled /\ ~on THEN rtc.irq \ {"wakeup"} ELSE rtc.irq
    <2>1. rtc' = [rtc EXCEPT !.cr = cr, !.wut = wut, !.irq = irq] /\ right' = right /\ due' = due /\ late' = late
      BY <1>2, Zenon DEF WriteCR
    <2>2. wut \in BOOLEAN
      <3>1. CASE toggled
        <4>1. wut = on
          BY <3>1
        <4>2. on \in BOOLEAN
          OBVIOUS
        <4> QED
          BY <4>1, <4>2, Zenon
      <3>2. CASE ~toggled
        <4>1. wut = rtc.wut
          BY <3>2, Zenon
        <4> QED
          BY <1>1, <4>1
      <3> QED
        BY <3>1, <3>2
    <2>3. irq \in SUBSET Flags /\ irq \ {"B"} \subseteq rtc.isr
      BY <1>1 DEF LinesHaveFlags
    <2> HIDE DEF on, toggled, wut, irq
    <2>4. cr \in RtcCR \cup {{}}
      OBVIOUS
    <2>5. /\ rtc' \in RtcType /\ rtc'.ticks = rtc.ticks /\ rtc'.time = rtc.time
          /\ rtc'.period = rtc.period /\ rtc'.isr = rtc.isr /\ rtc'.irq = irq
      BY <1>1, <2>1, <2>2, <2>3, <2>4, Zenon DEF RtcType
    <2> QED
      BY <1>1, <2>1, <2>3, <2>5, SameTime DEF LinesHaveFlags
  <1>3. CASE WriteWUTR
    <2> DEFINE wut == Enabled(rtc, "wakeup")
               irq == IF wut THEN rtc.irq ELSE rtc.irq \ {"wakeup"}
    <2>1. rtc' = [rtc EXCEPT !.wut = wut, !.irq = irq] /\ right' = right /\ due' = due /\ late' = late
      BY <1>3 DEF WriteWUTR
    <2>2. wut \in BOOLEAN
      BY DEF Enabled
    <2>3. irq \in SUBSET Flags /\ irq \ {"B"} \subseteq rtc.isr
      BY <1>1 DEF LinesHaveFlags
    <2> HIDE DEF wut, irq
    <2>4. /\ rtc' \in RtcType /\ rtc'.ticks = rtc.ticks /\ rtc'.time = rtc.time
          /\ rtc'.period = rtc.period /\ rtc'.isr = rtc.isr /\ rtc'.irq = irq
      BY <1>1, <2>1, <2>2, <2>3, Zenon DEF RtcType
    <2> QED
      BY <1>1, <2>1, <2>3, <2>4, SameTime DEF LinesHaveFlags
  <1>4. CASE WakeUp
    <2>1. CASE Enabled(rtc, "wakeup")
      <3> DEFINE isr == rtc.isr \cup {"wakeup"}
                 irq == Line(rtc, "wakeup", Interrupts(rtc, "wakeup"))
      <3>1. rtc' = [rtc EXCEPT !.isr = isr, !.irq = irq] /\ right' = right /\ due' = due /\ late' = late
        BY <1>4, <2>1 DEF WakeUp
      <3>2. /\ irq \in SUBSET Flags /\ irq \ {"B"} \subseteq isr
            /\ isr \in SUBSET (Flags \cup UNION RtcISR) /\ rtc.isr \subseteq isr
        BY <1>1 DEF LinesHaveFlags, Line, Flags
      <3> HIDE DEF isr, irq
      <3>3. /\ rtc' \in RtcType /\ rtc'.ticks = rtc.ticks /\ rtc'.time = rtc.time
            /\ rtc'.period = rtc.period /\ rtc'.isr = isr /\ rtc'.irq = irq
        BY <1>1, <3>1, <3>2, Zenon DEF RtcType
      <3> QED
        BY <1>1, <3>1, <3>2, <3>3, SameTime DEF LinesHaveFlags
    <2>2. CASE ~Enabled(rtc, "wakeup")
      <3>1. rtc' = [rtc EXCEPT !.wut = FALSE] /\ right' = right /\ due' = due /\ late' = late
        BY <1>4, <2>2 DEF WakeUp
      <3>2. /\ rtc' \in RtcType /\ rtc'.ticks = rtc.ticks /\ rtc'.time = rtc.time
            /\ rtc'.period = rtc.period /\ rtc'.isr = rtc.isr /\ rtc'.irq = rtc.irq
        BY <1>1, <3>1, Zenon DEF RtcType
      <3> QED
        BY <1>1, <3>1, <3>2, SameTime DEF LinesHaveFlags
    <2> QED
      BY <2>1, <2>2
  <1>5. CASE RtcReset
    <2>1. rtc' = [rtc EXCEPT !.cr = {}] /\ right' = right /\ due' = due /\ late' = late
      BY <1>5 DEF RtcReset
    <2>2. {} \in RtcCR \cup {{}}
      OBVIOUS
    <2>3. /\ rtc' \in RtcType /\ rtc'.ticks = rtc.ticks /\ rtc'.time = rtc.time
          /\ rtc'.period = rtc.period /\ rtc'.isr = rtc.isr /\ rtc'.irq = rtc.irq
      BY <1>1, <2>1, <2>2 DEF RtcType
    <2> QED
      BY <1>1, <2>1, <2>3, SameTime DEF LinesHaveFlags
  <1> QED
    BY <1>2, <1>3, <1>4, <1>5

\* ISR: the lines of alarm A and the wake-up timer fall with the flags that are cleared.
LEMMA WriteFlagsInv ==
  ASSUME RtcInv, NEW flags \in RtcISR, WriteISR(flags)
  PROVE  RtcInv'
  <1>1. /\ rtc \in RtcType /\ LinesHaveFlags(rtc) /\ rtc.irq \in SUBSET Flags
    BY DEF RtcInv, RtcType
  <1> DEFINE irq == rtc.irq \ ((rtc.isr \ flags) \cap {"A", "wakeup"})
  <1>2. /\ rtc' = [rtc EXCEPT !.isr = flags, !.irq = irq]
        /\ right' = right /\ due' = due \cap flags /\ late' = late \cap flags
    BY DEF WriteISR
  <1>3. /\ irq \in SUBSET Flags /\ flags \in SUBSET (Flags \cup UNION RtcISR)
        /\ irq \ {"B"} \subseteq flags
    BY <1>1 DEF LinesHaveFlags, Flags
  <1> HIDE DEF irq
  <1>4. /\ rtc' \in RtcType /\ rtc'.ticks = rtc.ticks /\ rtc'.time = rtc.time
        /\ rtc'.period = rtc.period /\ rtc'.isr = flags /\ rtc'.irq = irq
    BY <1>1, <1>2, <1>3, Zenon DEF RtcType
  <1>5. due' \ late' \subseteq rtc'.isr
    BY <1>2, <1>4
  <1> QED
    BY <1>2, <1>3, <1>4, <1>5, SameTime DEF LinesHaveFlags

\* The invariant of the clock holds throughout.
THEOREM RtcInvariant == RtcSpec => []RtcInv
  <1>1. RtcInit => RtcInv
    <2> SUFFICES ASSUME RtcInit PROVE RtcInv
      OBVIOUS
    <2>1. PICK period \in Periods :
            rtc = [ticks |-> 0, time |-> 0, period |-> period, cr |-> {}, isr |-> {}, irq |-> {},
                   wp |-> 0, alarm |-> [u \in Units |-> {0}], wut |-> FALSE]
      BY Zenon DEF RtcInit
    <2>2. /\ period \in Nat \ {0} /\ {} \in RtcCR \cup {{}} /\ 0 \in 0 .. 2
          /\ [u \in Units |-> {0}] \in [Units -> Alarms \cup {{0}}]
          /\ {} \in SUBSET Flags /\ {} \in SUBSET (Flags \cup UNION RtcISR)
      BY RtcAssumption
    <2>3. rtc \in RtcType
      BY <2>1, <2>2 DEF RtcType
    <2>4. right = [ticks |-> 0, ns |-> 0, kept |-> TRUE] /\ due = {} /\ late = {}
      BY DEF RtcInit
    <2>5. RightCounts
      <3>1. 0 * NsPerUs = 0 /\ 0 * period + 0 = 0 /\ 0 < period
        BY <2>2, RtcAssumption
      <3> QED
        BY <2>1, <2>4, <3>1 DEF RightCounts
    <2> QED
      BY <2>1, <2>3, <2>4, <2>5 DEF RtcInv, LinesHaveFlags
  <1>2. RtcInv /\ [RtcNext]_rtcVars => RtcInv'
    <2> SUFFICES ASSUME RtcInv, [RtcNext]_rtcVars PROVE RtcInv'
      OBVIOUS
    <2>1. CASE UNCHANGED rtcVars
      BY <2>1 DEF rtcVars, RtcInv, RightCounts
    <2>2. ASSUME NEW us \in {1, MaxTime}, HostPasses(us) PROVE RtcInv'
      <3>1. us \in Nat
        BY RtcAssumption
      <3> QED
        BY <2>2, <3>1, HostPassesInv
    <2> QED
      BY Zenon, <2>1, <2>2, UpdateTimeInv, WakeUpInv, WriteProtectInv, WriteClockInv,
         WritePrescalerInv, WriteAlarmInv, WriteFlagsInv DEF RtcNext
  <1> QED
    BY <1>1, <1>2, PTL DEF RtcSpec

\* The clock is right, and every alarm that an update of at most MaxDelta ticks passes
\* is flagged, for every prescaler, length of day, setting and sequence of updates (a
\* later update loses its alarms, as f2xx_update_current_date_and_time says).
THEOREM RtcClockAndAlarmsRight == RtcSpec => []ClockAndAlarmsRight
  BY RtcInvariant, RtcMeans, PTL
==============================================================================
