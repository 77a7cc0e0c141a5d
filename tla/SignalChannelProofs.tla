------------------------- MODULE SignalChannelProofs -------------------------
(***************************************************************************)
(* For every pipe size, number of preloaded answers, number of runs and    *)
(* number of signals: the lag bound, the containment of a bad signal, and  *)
(* the absence of mutual blocking when at most 2 * PIPE_BUFFERS answers    *)
(* are preloaded.                                                          *)
(*                                                                         *)
(* The argument is bookkeeping.  Every answer the client went on with or   *)
(* has waiting was preloaded or written for an accepted signal; every      *)
(* signal sent is in the pipe or was fetched; and each process is at most  *)
(* one signal into its own loop.                                           *)
(***************************************************************************)
EXTENDS SignalChannel, TLAPS

(* Answers are conserved, and so are signals. *)
Books ==
  /\ passed + m2c = preloaded + answered
  /\ sent = Len(c2m) + fetched
  /\ m2c <= C /\ Len(c2m) <= C

(* Where the monitor is in its loop. *)
MonitorBooks ==
  /\ answered <= accepted /\ accepted <= fetched
  /\ mpc = "preload" => fetched = 0
  /\ mpc \in {"begin", "wait"} => fetched = answered
  /\ mpc = "check" => fetched = answered + 1 /\ accepted = answered
  /\ mpc = "answer" => fetched = answered + 1 /\ accepted = fetched

(* Where the client is in send_monitor. *)
ClientBooks ==
  /\ cpc \in {"run", "write"} => sent = passed
  /\ cpc = "read" => sent = passed + 1

(* The first bad signal is still in the pipe, or it is the last signal the *)
(* monitor fetched.                                                        *)
Refusable == {"bad", "null"}
BadBooks ==
  badAt # 0 =>
    /\ badAt <= sent /\ fetched <= badAt /\ accepted < badAt
    /\ fetched < badAt => c2m[badAt - fetched] \in Refusable
    /\ fetched = badAt => sig \in Refusable /\ mpc \in {"check", "stop", "gone"}

IInv == TypeOK /\ Books /\ MonitorBooks /\ ClientBooks /\ BadBooks

(* Every step keeps the types of the variables of the two processes.       *)
LEMMA TypeStep ==
  ASSUME TypeOK, [Next]_vars
  PROVE  TypeOK'
<1> USE ChannelAssumption DEF TypeOK, Signals, client, monitor, history
<1>1. ASSUME NEW k \in Signals, Send(k) PROVE TypeOK'
  BY <1>1 DEF Send
<1>2. CASE WriteSignal
  BY <1>2 DEF WriteSignal
<1>3. CASE ReadAnswer
  BY <1>3 DEF ReadAnswer
<1>4. CASE ClientAborts
  BY <1>4 DEF ClientAborts
<1>5. CASE ClientExits
  BY <1>5 DEF ClientExits
<1>6. CASE PreloadAnswer
  BY <1>6 DEF PreloadAnswer
<1>7. CASE PreloadEnds
  BY <1>7 DEF PreloadEnds
<1>8. CASE BeginRun
  BY <1>8 DEF BeginRun
<1>9. CASE ReadSignal
  BY <1>9 DEF ReadSignal
<1>10. CASE ReadFails
  BY <1>10 DEF ReadFails
<1>11. CASE SignalTimeout
  BY <1>11 DEF SignalTimeout
<1>12. CASE AcceptSignal
  BY <1>12 DEF AcceptSignal
<1>13. CASE RefuseSignal
  BY <1>13 DEF RefuseSignal
<1>14. CASE MonitorCrashes
  BY <1>14 DEF MonitorCrashes
<1>15. CASE WriteAnswer
  BY <1>15 DEF WriteAnswer, AfterAnswer
<1>16. CASE MonitorExits
  BY <1>16 DEF MonitorExits
<1>17. CASE UNCHANGED vars
  BY <1>17 DEF vars
<1>18. QED
  BY <1>1, <1>2, <1>3, <1>4, <1>5, <1>6, <1>7, <1>8, <1>9, <1>10, <1>11, <1>12, <1>13, <1>14, <1>15, <1>16, <1>17 DEF Next, ClientNext, MonitorNext, Terminated

(* Every step keeps the books balanced. *)
LEMMA BooksStep ==
  ASSUME IInv, [Next]_vars
  PROVE  IInv'
<1>0. TypeOK /\ TypeOK'
  BY TypeStep DEF IInv
<1> USE <1>0, ChannelAssumption
    DEF IInv, Books, MonitorBooks, ClientBooks, client, monitor, history
<1>1. ASSUME NEW k \in Signals, Send(k) PROVE IInv'
  BY <1>1 DEF Send, TypeOK, BadBooks
<1>2. CASE WriteSignal
  BY <1>2 DEF WriteSignal, TypeOK, BadBooks, Refusable, Signals, ClientUp
<1>3. CASE ReadAnswer
  BY <1>3 DEF ReadAnswer, TypeOK, BadBooks, Refusable, Signals, ClientUp
<1>4. CASE ClientAborts
  BY <1>4 DEF ClientAborts, TypeOK, BadBooks, Refusable, Signals, ClientUp
<1>5. CASE ClientExits
  BY <1>5 DEF ClientExits, TypeOK, BadBooks, Refusable, Signals, ClientUp
<1>6. CASE PreloadAnswer
  BY <1>6 DEF PreloadAnswer, TypeOK, BadBooks, Refusable, Signals, ClientUp
<1>7. CASE PreloadEnds
  BY <1>7 DEF PreloadEnds, TypeOK, BadBooks, Refusable, Signals, ClientUp
<1>8. CASE BeginRun
  BY <1>8 DEF BeginRun, TypeOK, BadBooks, Refusable, Signals, ClientUp
<1>9. CASE ReadSignal
  BY <1>9 DEF ReadSignal, TypeOK, BadBooks, Refusable, Signals, ClientUp
<1>10. CASE ReadFails
  BY <1>10 DEF ReadFails, TypeOK, BadBooks, Refusable, Signals, ClientUp
<1>11. CASE SignalTimeout
  BY <1>11 DEF SignalTimeout, TypeOK, BadBooks, Refusable, Signals, ClientUp
<1>12. CASE AcceptSignal
  BY <1>12 DEF AcceptSignal, TypeOK, BadBooks, Refusable, Signals, ClientUp
<1>13. CASE RefuseSignal
  BY <1>13 DEF RefuseSignal, TypeOK, BadBooks, Refusable, Signals, ClientUp
<1>14. CASE MonitorCrashes
  BY <1>14 DEF MonitorCrashes, TypeOK, BadBooks, Refusable, Signals, ClientUp
<1>15. CASE WriteAnswer
  <2>1. CASE ClientUp
    <3>1. /\ m2c < C /\ m2c' = m2c + 1 /\ answered' = answered + 1
          /\ mpc' \in {"wait", "stop", "begin"}
      BY <1>15, <2>1 DEF WriteAnswer, AfterAnswer
    <3>2. Books' /\ MonitorBooks' /\ ClientBooks'
      BY <1>15, <3>1 DEF WriteAnswer, TypeOK
    <3>3. BadBooks'
      BY <1>15, <3>1 DEF WriteAnswer, TypeOK, BadBooks
    <3>4. QED
      BY <3>2, <3>3
  <2>2. CASE ~ClientUp
    BY <1>15, <2>2 DEF WriteAnswer, TypeOK, BadBooks
  <2>3. QED
    BY <2>1, <2>2
<1>16. CASE MonitorExits
  BY <1>16 DEF MonitorExits, TypeOK, BadBooks, Refusable, Signals, ClientUp
<1>17. CASE UNCHANGED vars
  BY <1>17 DEF vars, BadBooks
<1>18. QED
  BY <1>1, <1>2, <1>3, <1>4, <1>5, <1>6, <1>7, <1>8, <1>9, <1>10, <1>11, <1>12, <1>13, <1>14, <1>15, <1>16, <1>17 DEF Next, ClientNext, MonitorNext, Terminated

LEMMA InitBooks == Init => IInv
  BY ChannelAssumption
     DEF Init, IInv, TypeOK, Books, MonitorBooks, ClientBooks, BadBooks, Signals

(* Types and books hold in every state the two processes can reach. *)
THEOREM BooksInvariant == Spec => []IInv
<1>1. IInv /\ [Next]_vars => IInv'
  BY BooksStep
<1>2. QED
  BY InitBooks, <1>1, PTL DEF Spec

(* The variables of both processes and both pipes keep their types.        *)
THEOREM TypeTheorem == Spec => []TypeOK
<1>1. IInv => TypeOK
  BY DEF IInv
<1>2. QED
  BY BooksInvariant, <1>1, PTL

(* send_monitor never returns more than n times more often than the        *)
(* monitor has accepted a signal.                                          *)
THEOREM LagTheorem == Spec => []LagBound
<1>1. IInv => LagBound
  BY ChannelAssumption DEF IInv, TypeOK, Books, MonitorBooks, LagBound
<1>2. QED
  BY BooksInvariant, <1>1, PTL

(* A signal that must be refused lets the program get past at most n calls *)
(* of send_monitor more, the one that sent it included.                    *)
THEOREM ContainmentTheorem == Spec => []BadSignalContained
<1>1. IInv => BadSignalContained
  BY ChannelAssumption
     DEF IInv, TypeOK, Books, MonitorBooks, BadBooks, BadSignalContained
<1>2. QED
  BY BooksInvariant, <1>1, PTL

(* Preloading up to twice the pipe's capacity cannot make the processes    *)
(* block each other.                                                       *)
THEOREM NoBlockingTheorem ==
  ASSUME n <= 2 * C
  PROVE  Spec => []NoMutualBlocking
<1>1. IInv => NoMutualBlocking
  BY ChannelAssumption
     DEF IInv, TypeOK, Books, MonitorBooks, ClientBooks, NoMutualBlocking,
         ClientBlocked, MonitorBlocked
<1>2. QED
  BY BooksInvariant, <1>1, PTL
-----------------------------------------------------------------------------
(* The conforming program.  With no preloaded answers at most one signal   *)
(* is on its way between the two processes, so that the end the client     *)
(* has announced and the runs the monitor has completed differ by that     *)
(* one signal only.                                                        *)
Proper == {"mid", "last"}

(* The signal the client waits an answer for is where the monitor has not  *)
(* answered it yet.                                                        *)
OneSignal ==
  /\ cpc \in {"run", "write", "exited"} => sent = passed
  /\ mpc \in {"stop", "gone"} => fetched = answered
  /\ cs \in Proper /\ sig \in Proper
  /\ c2m # <<>> => c2m = <<cs>>
  /\ mpc \in {"check", "answer"} => sig = cs

(* What the client has ended is what the monitor has seen end.             *)
RunBooks ==
  /\ ended <= NbRuns
  /\ cpc = "write" => ended < NbRuns
  /\ ended = IF cpc = "read" /\ m2c = 0 /\ cs = "last" THEN runs + 1 ELSE runs
  /\ cpc = "read" /\ m2c = 0 => runs < NbRuns
  /\ cpc = "exited" => ended = NbRuns
  /\ mpc \in {"stop", "gone"} <=> runs = NbRuns

ConformingInv ==
  Conforming => cpc # "dead" /\ err = 0 /\ OneSignal /\ RunBooks

(* Without preloaded answers the pipes and the monitor hold one signal or  *)
(* answer while the client waits, and none while it does not.              *)
LEMMA Outstanding ==
  ASSUME IInv, n = 0, Conforming, ConformingInv
  PROVE  /\ Len(c2m) + (fetched - answered) + m2c = IF cpc = "read" THEN 1 ELSE 0
         /\ fetched - answered \in Nat
  BY ChannelAssumption DEF IInv, TypeOK, Books, MonitorBooks, ClientBooks, ConformingInv, OneSignal

(* Every step of a conforming program or of its monitor keeps them in      *)
(* agreement.                                                              *)
LEMMA ConformingStep ==
  ASSUME n = 0, ~TIMEOUT, ~NoMemory, IInv, IInv', ConformingInv, [Next]_vars
  PROVE  ConformingInv'
<1> SUFFICES ASSUME Conforming
             PROVE  cpc' # "dead" /\ err' = 0 /\ OneSignal' /\ RunBooks'
  BY DEF ConformingInv
<1>0. /\ cpc # "dead" /\ err = 0 /\ OneSignal /\ RunBooks
      /\ TypeOK /\ TypeOK' /\ Books /\ MonitorBooks /\ ClientBooks
      /\ Len(c2m) + (fetched - answered) + m2c = IF cpc = "read" THEN 1 ELSE 0
      /\ fetched - answered \in Nat
  BY Outstanding DEF ConformingInv, IInv
<1> USE <1>0, ChannelAssumption
    DEF TypeOK, Books, MonitorBooks, ClientBooks, OneSignal, RunBooks, Proper,
        ClientUp, MonitorUp, client, monitor, history
<1>1. ASSUME NEW k \in Signals, Send(k)
      PROVE  cpc' # "dead" /\ err' = 0 /\ OneSignal' /\ RunBooks'
  BY <1>1 DEF Send
<1>2. CASE WriteSignal
  <2>1. /\ c2m = <<>> /\ m2c = 0 /\ fetched = answered /\ mpc \notin {"check", "answer"}
        /\ cpc' = "read" /\ m2c' = m2c
        /\ UNCHANGED <<cs, mpc, sig, runs, err, fetched, answered, passed>>
    BY <1>2 DEF WriteSignal
  <2>2. c2m' = <<cs>> /\ ended' = IF cs = "last" THEN ended + 1 ELSE ended
    BY <1>2, <2>1 DEF WriteSignal
  <2>3. OneSignal'
    BY <2>1, <2>2
  <2>4. RunBooks'
    BY <1>2, <2>1, <2>2 DEF WriteSignal
  <2>5. QED
    BY <2>1, <2>3, <2>4
<1>3. CASE ReadAnswer
  BY <1>3 DEF ReadAnswer
<1>4. CASE ClientAborts
  BY <1>4 DEF ClientAborts
<1>5. CASE ClientExits
  BY <1>5 DEF ClientExits
<1>6. CASE PreloadAnswer
  BY <1>6 DEF PreloadAnswer
<1>7. CASE PreloadEnds
  BY <1>7 DEF PreloadEnds
<1>8. CASE BeginRun
  BY <1>8 DEF BeginRun
<1>9. CASE ReadSignal
  BY <1>9 DEF ReadSignal
<1>10. CASE ReadFails
  BY <1>10 DEF ReadFails
<1>11. CASE SignalTimeout
  BY <1>11 DEF SignalTimeout
<1>12. CASE AcceptSignal
  BY <1>12 DEF AcceptSignal
<1>13. CASE RefuseSignal
  BY <1>13 DEF RefuseSignal
<1>14. CASE MonitorCrashes
  BY <1>14 DEF MonitorCrashes
<1>15. CASE WriteAnswer
  <2>1. c2m = <<>> /\ m2c = 0 /\ cpc = "read" /\ runs < NbRuns /\ sig = cs
    BY <1>15 DEF WriteAnswer
  <2>2. /\ m2c' = 1 /\ answered' = answered + 1 /\ AfterAnswer
        /\ UNCHANGED <<c2m, cpc, cs, sig, err, sent, ended, fetched, passed>>
    BY <1>15, <2>1 DEF WriteAnswer
  <2>3. CASE sig = "mid"
    BY <1>15, <2>1, <2>2, <2>3 DEF WriteAnswer, AfterAnswer
  <2>4. CASE sig = "last"
    BY <1>15, <2>1, <2>2, <2>4 DEF WriteAnswer, AfterAnswer
  <2>5. QED
    BY <2>3, <2>4
<1>16. CASE MonitorExits
  BY <1>16 DEF MonitorExits
<1>17. CASE UNCHANGED vars
  BY <1>17 DEF vars
<1>18. QED
  BY <1>1, <1>2, <1>3, <1>4, <1>5, <1>6, <1>7, <1>8, <1>9, <1>10, <1>11, <1>12, <1>13, <1>14, <1>15, <1>16, <1>17 DEF Next, ClientNext, MonitorNext, Terminated

(* A conforming program that waits for every answer, under a monitor that  *)
(* has memory and no timeout, is never killed: the monitor leaves only     *)
(* with status 0, after main and every destructor, having accepted every   *)
(* signal.                                                                 *)
THEOREM ConformingTheorem ==
  ASSUME n = 0, ~TIMEOUT, ~NoMemory
  PROVE  Spec => []ConformingSucceeds
<1>1. Init => ConformingInv
  BY ChannelAssumption DEF Init, ConformingInv, OneSignal, RunBooks, Proper
<1>2. IInv /\ IInv' /\ ConformingInv /\ [Next]_vars => ConformingInv'
  BY ConformingStep
<1>3. IInv /\ ConformingInv => ConformingSucceeds
  <2> SUFFICES ASSUME IInv, ConformingInv, Conforming, ~MonitorUp
               PROVE  runs = NbRuns /\ accepted = sent
    BY DEF ConformingSucceeds, ConformingInv
  <2>1. QED
    BY Outstanding, ChannelAssumption
       DEF IInv, TypeOK, Books, MonitorBooks, ConformingInv, OneSignal, RunBooks, MonitorUp
<1>4. QED
  BY BooksInvariant, <1>1, <1>2, <1>3, PTL DEF Spec
=============================================================================
