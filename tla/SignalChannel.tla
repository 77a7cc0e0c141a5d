---------------------------- MODULE SignalChannel ----------------------------
(***************************************************************************)
(* The two processes at work once loading is over, and the two pipes       *)
(* between them.  The client sends a signal and waits for an answer        *)
(* (send_monitor, include/picon/injected_code.c); the monitor preloads n   *)
(* answers, runs monitor_run for main and for every destructor, and kills  *)
(* the client when a run fails (main, monitor/src/main.c).                 *)
(*                                                                         *)
(* MonitorRun says which signals are accepted.  Here a signal is only what *)
(* the monitor will find it to be, which depends on the signals before it  *)
(* and on nothing else:                                                    *)
(*   "mid"   accepted, the run goes on                                     *)
(*   "last"  accepted, the EXIT of the entry point that ends the run       *)
(*   "bad"   refused                                                       *)
(*   "null"  leads the monitor to a table row that was never allocated     *)
(* send_monitor writes whole signals, so a read fails only at the end of   *)
(* file, when the client is gone; MonitorRun's FailedReadEndsRun is why    *)
(* nothing but an error of the run comes of it.                            *)
(*                                                                         *)
(* The pipes are created with O_DIRECT: a packet per write, at most        *)
(* PIPE_BUFFERS packets.                                                   *)
(***************************************************************************)
EXTENDS Naturals, Sequences

CONSTANTS
  PIPE_BUFFERS,                          \* packets an O_DIRECT pipe holds
  OPTION_nb_preload_monitor_ok_answers,  \* n: answers written in advance
  NbRuns,                                \* main and the destructors of all modules
  TIMEOUT,                               \* built with the timeout feature
  Conforming,                            \* the client keeps to its own graphs
  NoMemory,                              \* monitor_run may fail to allocate stacks
  MaxSignals                             \* bound: signals the client sends

n == OPTION_nb_preload_monitor_ok_answers
C == PIPE_BUFFERS

ASSUME ChannelAssumption ==
  /\ C \in Nat \ {0}
  /\ n \in Nat
  /\ NbRuns \in Nat \ {0}
  /\ TIMEOUT \in BOOLEAN /\ Conforming \in BOOLEAN /\ NoMemory \in BOOLEAN
  /\ MaxSignals \in Nat

Signals == {"mid", "last", "bad", "null"}

VARIABLES
  c2m,        \* fd_client_to_monitor: signals in the pipe
  m2c,        \* fd_monitor_to_client: number of OK answers in the pipe
  cpc,        \* client: "run", "write", "read", "exited", "dead"
  cs,         \* client: the signal being sent
  mpc,        \* monitor: "preload", "begin", "wait", "check", "answer",
              \*          "stop", "gone"
  sig,        \* monitor: the signal last read
  runs,       \* monitor: completed calls of monitor_run
  err,        \* monitor: main's err
  preloaded,  \* monitor: answers preloaded so far
  sent, ended, badAt,           \* history: signals sent, "last" ones among
                                \* them, number of the first refusable one
  fetched, accepted, answered,  \* history: signals read and accepted by the
                                \* monitor, answers it wrote for them
  passed                        \* history: answers the client went on with

client == <<cpc, cs>>
monitor == <<mpc, sig, runs, err, preloaded>>
history == <<sent, ended, badAt, fetched, accepted, answered, passed>>
vars == <<c2m, m2c, client, monitor, history>>

ClientUp == cpc \in {"run", "write", "read"}
MonitorUp == mpc # "gone"

Init ==
  /\ c2m = <<>> /\ m2c = 0
  /\ cpc = "run" /\ cs = "mid"
  /\ mpc = "preload" /\ sig = "mid" /\ runs = 0 /\ err = 0 /\ preloaded = 0
  /\ sent = 0 /\ ended = 0 /\ badAt = 0
  /\ fetched = 0 /\ accepted = 0 /\ answered = 0 /\ passed = 0
-----------------------------------------------------------------------------
(* The client. *)

(* The program reaches an instrumented place and calls send_monitor.  A    *)
(* conforming program sends a run for main and one per destructor.         *)
Send(k) ==
  /\ cpc = "run"
  /\ k # "last" => sent < MaxSignals
  /\ Conforming => k \in {"mid", "last"} /\ ended < NbRuns
  /\ cpc' = "write" /\ cs' = k
  /\ UNCHANGED <<c2m, m2c, monitor, history>>

(* Mutant of WriteSignal: send_monitor returns without waiting for an      *)
(* answer.                                                                 *)
WriteSignal_NoWait ==
  /\ cpc = "write"
  /\ MonitorUp
  /\ Len(c2m) < C
  /\ c2m' = Append(c2m, cs)
  /\ sent' = sent + 1
  /\ ended' = IF cs = "last" THEN ended + 1 ELSE ended
  /\ badAt' = IF badAt = 0 /\ cs \in {"bad", "null"} THEN sent + 1 ELSE badAt
  /\ cpc' = "run"
  /\ UNCHANGED <<m2c, cs, monitor, fetched, accepted, answered, passed>>

(* WRITE_CLIENT_SIGNAL; blocks while the pipe is full. *)
WriteSignal ==
  /\ cpc = "write"
  /\ MonitorUp
  /\ Len(c2m) < C
  /\ c2m' = Append(c2m, cs)
  /\ sent' = sent + 1
  /\ ended' = IF cs = "last" THEN ended + 1 ELSE ended
  /\ badAt' = IF badAt = 0 /\ cs \in {"bad", "null"} THEN sent + 1 ELSE badAt
  /\ cpc' = "read"
  /\ UNCHANGED <<m2c, cs, monitor, fetched, accepted, answered, passed>>

(* READ_MONITOR_ANSWER; the program goes on. *)
ReadAnswer ==
  /\ cpc = "read"
  /\ m2c > 0
  /\ m2c' = m2c - 1
  /\ passed' = passed + 1
  /\ cpc' = "run"
  /\ UNCHANGED <<c2m, cs, monitor, sent, ended, badAt, fetched, accepted, answered>>

(* The monitor is gone: SIGPIPE, which only the monitor masks, ends the    *)
(* writing client; the reading one sees the end of the file and aborts.    *)
ClientAborts ==
  /\ ~MonitorUp
  /\ cpc = "write" \/ (cpc = "read" /\ m2c = 0)
  /\ cpc' = "dead"
  /\ UNCHANGED <<c2m, m2c, cs, monitor, history>>

(* The program ends: a conforming one after its last run, another one      *)
(* whenever it calls _exit or crashes.                                     *)
ClientExits ==
  /\ cpc = "run"
  /\ Conforming => ended = NbRuns
  /\ cpc' = "exited"
  /\ UNCHANGED <<c2m, m2c, cs, monitor, history>>
-----------------------------------------------------------------------------
(* The monitor. *)

(* Mutant of PreloadAnswer: one answer too many. *)
PreloadAnswer_OneMore ==
  /\ mpc = "preload"
  /\ preloaded <= n /\ err = 0
  /\ ClientUp /\ m2c < C
  /\ m2c' = m2c + 1 /\ preloaded' = preloaded + 1
  /\ UNCHANGED <<err, c2m, client, mpc, sig, runs, history>>

(* One turn of the preloading loop.  The write blocks while the pipe is    *)
(* full and fails when the client is gone.                                 *)
PreloadAnswer ==
  /\ mpc = "preload"
  /\ preloaded < n /\ err = 0
  /\ \/ /\ ClientUp /\ m2c < C
        /\ m2c' = m2c + 1 /\ preloaded' = preloaded + 1
        /\ UNCHANGED err
     \/ /\ ~ClientUp
        /\ err' = 1
        /\ UNCHANGED <<m2c, preloaded>>
  /\ UNCHANGED <<c2m, client, mpc, sig, runs, history>>

(* monitor_run is called whatever err is, and overwrites it. *)
PreloadEnds ==
  /\ mpc = "preload"
  /\ preloaded = n \/ err # 0
  /\ mpc' = "begin" /\ err' = 0
  /\ UNCHANGED <<c2m, m2c, client, sig, runs, preloaded, history>>

(* monitor_run allocates its stacks. *)
BeginRun ==
  /\ mpc = "begin"
  /\ \/ mpc' = "wait" /\ err' = 0
     \/ NoMemory /\ mpc' = "stop" /\ err' = 1
  /\ UNCHANGED <<c2m, m2c, client, sig, runs, preloaded, history>>

ReadSignal ==
  /\ mpc = "wait"
  /\ c2m # <<>>
  /\ sig' = Head(c2m) /\ c2m' = Tail(c2m)
  /\ fetched' = fetched + 1
  /\ mpc' = "check"
  /\ UNCHANGED <<m2c, client, runs, err, preloaded, sent, ended, badAt,
                 accepted, answered, passed>>

(* Mutant of ReadFails: the loop goes on reading. *)
ReadFails_GoesOn ==
  /\ mpc = "wait"
  /\ c2m = <<>> /\ ~ClientUp
  /\ err' = 1
  /\ UNCHANGED <<c2m, m2c, client, mpc, sig, runs, preloaded, history>>

(* End of file: the client is gone and every packet was read. *)
ReadFails ==
  /\ mpc = "wait"
  /\ c2m = <<>> /\ ~ClientUp
  /\ err' = 1 /\ mpc' = "stop"
  /\ UNCHANGED <<c2m, m2c, client, sig, runs, preloaded, history>>

(* Mutant of SignalTimeout: the error it sets is not tested. *)
SignalTimeout_Untested ==
  /\ mpc = "wait"
  /\ TIMEOUT
  /\ c2m = <<>> /\ ClientUp
  /\ err' = 1
  /\ UNCHANGED <<c2m, m2c, client, mpc, sig, runs, preloaded, history>>

(* MONITOR_SIGNAL_TIMEOUT *)
SignalTimeout ==
  /\ mpc = "wait"
  /\ TIMEOUT
  /\ c2m = <<>> /\ ClientUp
  /\ err' = 1 /\ mpc' = "stop"
  /\ UNCHANGED <<c2m, m2c, client, sig, runs, preloaded, history>>

(* The switch of monitor_run. *)
AcceptSignal ==
  /\ mpc = "check"
  /\ sig \in {"mid", "last"}
  /\ accepted' = accepted + 1
  /\ mpc' = "answer"
  /\ UNCHANGED <<c2m, m2c, client, sig, runs, err, preloaded, sent, ended,
                 badAt, fetched, answered, passed>>

(* Mutant of RefuseSignal: break instead of goto monitor_run_exit. *)
RefuseSignal_Break ==
  /\ mpc = "check"
  /\ sig = "bad"
  /\ err' = 4 /\ mpc' = "answer"
  /\ UNCHANGED <<c2m, m2c, client, sig, runs, preloaded, history>>

RefuseSignal ==
  /\ mpc = "check"
  /\ sig = "bad"
  /\ err' = 4 /\ mpc' = "stop"
  /\ UNCHANGED <<c2m, m2c, client, sig, runs, preloaded, history>>

(* A NULL row is dereferenced: the monitor dies without killing anybody. *)
MonitorCrashes ==
  /\ mpc = "check"
  /\ sig = "null"
  /\ mpc' = "gone"
  /\ UNCHANGED <<c2m, m2c, client, sig, runs, err, preloaded, history>>

(* Mutants of AfterAnswer: main waits for one run too few, or too many. *)
AfterAnswer_OneRunLess ==
  IF sig = "mid" THEN mpc' = "wait" /\ UNCHANGED runs
  ELSE /\ runs' = runs + 1
       /\ mpc' = IF runs + 2 >= NbRuns THEN "stop" ELSE "begin"
AfterAnswer_OneRunMore ==
  IF sig = "mid" THEN mpc' = "wait" /\ UNCHANGED runs
  ELSE /\ runs' = runs + 1
       /\ mpc' = IF runs = NbRuns THEN "stop" ELSE "begin"

(* Where monitor_run goes once an answer is written: it reads the next     *)
(* signal, or returns to main, which calls it again for a destructor.      *)
AfterAnswer ==
  IF sig = "mid" THEN mpc' = "wait" /\ UNCHANGED runs
  ELSE /\ runs' = runs + 1
       /\ mpc' = IF runs + 1 = NbRuns THEN "stop" ELSE "begin"

WriteAnswer ==
  /\ mpc = "answer"
  /\ \/ /\ ClientUp /\ m2c < C
        /\ m2c' = m2c + 1 /\ answered' = answered + 1
        /\ AfterAnswer
        /\ UNCHANGED err
     \/ /\ ~ClientUp
        /\ err' = 1 /\ mpc' = "stop"
        /\ UNCHANGED <<m2c, answered, runs>>
  /\ UNCHANGED <<c2m, client, sig, preloaded, sent, ended, badAt, fetched,
                 accepted, passed>>

(* Mutant of MonitorExits: the client is left alone. *)
MonitorExits_NoKill ==
  /\ mpc = "stop"
  /\ mpc' = "gone"
  /\ UNCHANGED <<c2m, m2c, client, sig, runs, err, preloaded, history>>

(* The end of main: the client is killed after an error, the pipes close.  *)
MonitorExits ==
  /\ mpc = "stop"
  /\ mpc' = "gone"
  /\ cpc' = IF err # 0 /\ ClientUp THEN "dead" ELSE cpc
  /\ UNCHANGED <<c2m, m2c, cs, sig, runs, err, preloaded, history>>
-----------------------------------------------------------------------------
ClientNext ==
  \/ \E k \in Signals : Send(k)
  \/ WriteSignal \/ ReadAnswer \/ ClientAborts \/ ClientExits

MonitorNext ==
  \/ PreloadAnswer \/ PreloadEnds \/ BeginRun
  \/ ReadSignal \/ ReadFails \/ SignalTimeout
  \/ AcceptSignal \/ RefuseSignal \/ MonitorCrashes
  \/ WriteAnswer \/ MonitorExits

(* Both processes are gone. *)
Terminated ==
  /\ ~MonitorUp /\ ~ClientUp
  /\ UNCHANGED vars

Next == ClientNext \/ MonitorNext \/ Terminated

(* The kernel schedules both processes and completes a read or a write     *)
(* that can proceed.  The program itself owes nobody a signal.             *)
Fairness ==
  /\ WF_vars(MonitorNext)
  /\ WF_vars(WriteSignal \/ ReadAnswer \/ ClientAborts)

Spec == Init /\ [][Next]_vars /\ Fairness
-----------------------------------------------------------------------------
(* Types. *)
TypeOK ==
  /\ c2m \in Seq(Signals) /\ m2c \in Nat
  /\ cpc \in {"run", "write", "read", "exited", "dead"} /\ cs \in Signals
  /\ mpc \in {"preload", "begin", "wait", "check", "answer", "stop", "gone"}
  /\ sig \in Signals /\ runs \in Nat /\ err \in {0, 1, 4} /\ preloaded \in 0 .. n
  /\ sent \in Nat /\ ended \in Nat /\ badAt \in Nat
  /\ fetched \in Nat /\ accepted \in Nat /\ answered \in Nat /\ passed \in Nat

(* The program is never more than n signals ahead of the checks: every     *)
(* answer it went on with was preloaded or paid for by an accepted signal  *)
(* (README: desynchronized by n signals).                                  *)
LagBound == passed <= accepted + n

(* After a signal the monitor must refuse (or crash on), the program gets  *)
(* through at most n more send_monitor calls, the one that sent it         *)
(* included; with no preloading it does not return from the call at all.   *)
BadSignalContained == badAt # 0 => passed < badAt + n

(* Client and monitor never block each other, both writing to a full pipe. *)
ClientBlocked == cpc = "write" /\ Len(c2m) = C /\ MonitorUp
MonitorBlocked ==
  /\ ClientUp /\ m2c = C
  /\ mpc = "answer" \/ (mpc = "preload" /\ preloaded < n)
NoMutualBlocking == ~(ClientBlocked /\ MonitorBlocked)

(* A conforming program, with no preloaded answers and no timeout, always  *)
(* ends by itself and the monitor returns 0, having completed every run.   *)
ConformingSucceeds ==
  Conforming => /\ cpc # "dead" /\ err = 0
                /\ ~MonitorUp => runs = NbRuns /\ accepted = sent

(* A program that misbehaves does not survive: once the signal is in the   *)
(* pipe the client is killed, unless it ends first.  Two monitors cannot   *)
(* kill any more: one that crashed, and one that has left because it saw   *)
(* the last destructor end.                                                *)
MisbehaviourEndsClient ==
  badAt # 0 ~> ~ClientUp \/ (~MonitorUp /\ (sig = "null" \/ runs = NbRuns))

(* The monitor outlives the client only for a while. *)
MonitorFollowsClient == ~ClientUp ~> ~MonitorUp

(* Once a conforming program has ended its last run the monitor leaves,    *)
(* whether or not the program itself ever ends.                            *)
MonitorFollowsRuns == Conforming /\ ended = NbRuns ~> ~MonitorUp

(* With the timeout feature a program that stops sending signals is killed *)
(* (README: the maximum delay before the monitor kills the program if no   *)
(* signal is received): for ever running, it is for ever sending, or the   *)
(* monitor has seen all its runs end.                                      *)
SilentClientKilled ==
  TIMEOUT => \A k \in 0 .. MaxSignals :
    (sent = k /\ cpc = "run") ~> (sent > k \/ ~ClientUp \/ ~MonitorUp)
=============================================================================
