------------------------------ MODULE Instrument ------------------------------
(***************************************************************************)
(* The program as llvm_pass/CFI/CFIInjector.cpp rewrites it, executed      *)
(* against monitor_run: every block of every function is the sequence of   *)
(* its calls with the calls of injected_code.c the injector put between    *)
(* them, and each of these sends a signal and waits for an answer.  A      *)
(* behaviour is one run: a constructor, main or a destructor from its      *)
(* first to its last instruction.                                          *)
(*                                                                         *)
(* The program conforms and lives, and there is memory: the errors that    *)
(* are left are those the monitor finds in the signals.                    *)
(*                                                                         *)
(* Program[m] is what went into module m: a record with                    *)
(*   level   -cfi-level: TRUE for BASICBLOCK                               *)
(*   funs    the functions defined or declared, in order                   *)
(*   ignore  the names of those with CFI_IGNORE_BASIC_BLOCKS               *)
(***************************************************************************)
EXTENDS MonitorRun, Bitcode

CONSTANTS
  Program,  \* function from ModuleIds
  n         \* NB_PRELOADED_MONITOR_OK_ANSWERS

VARIABLES
  stack,    \* the frames of the program: module, name of the function,
            \*   block, next instruction, blocks entered so far (history)
  waits,    \* the program is in READ_MONITOR_ANSWER
  pipe,     \* signals on their way
  answers   \* answers on their way

client == <<stack, waits, pipe, answers>>

ASSUME ProgramAssumption == n \in Nat /\ DOMAIN Program = ModuleIds
-----------------------------------------------------------------------------
(* getIdentifier, in a module of one source file *)
Identifiers(m) ==
  LET names == [k \in DOMAIN Program[m].funs |-> Program[m].funs[k].name]
      known == SelectSeq(names, Identified)
  IN [name \in ToSet(known) |-> (CHOOSE k \in DOMAIN known : known[k] = name) - 1]
Ids == [m \in ModuleIds |-> Identifiers(m)]
id(m, name) == Ids[m][name]

DefinedIn(m) == {F \in ToSet(Program[m].funs) : ~isDeclaration(F)}

(* An instruction is a call or a signal to the monitor. *)
Call(g) == [op |-> "call", fun |-> g]
Send(event, f, b) == [op |-> "signal", event |-> event, function |-> f, block |-> b]

(* The code of a function: one sequence per block, terminators left out. *)
Original(F) == [k \in DOMAIN F.blocks |-> [j \in DOMAIN F.blocks[k].calls |->
                                             Call(F.blocks[k].calls[j])]]

injectMcall(m, code) ==
  LET Around(i) ==
        IF i.fun # ASM /\ Identified(i.fun)
        THEN <<Send("CALL", id(m, i.fun), 0), i, Send("RETURNED", id(m, i.fun), 0)>>
        ELSE <<i>>
  IN [k \in DOMAIN code |-> FlattenSeq([j \in DOMAIN code[k] |-> Around(code[k][j])])]

injectBBEnter(f, code) ==
  [k \in DOMAIN code |-> IF k = 1 THEN code[k]
                         ELSE <<Send("AFTER_JUMP", f, k - 1)>> \o code[k]]
(* Mutant of injectBBLeave: no signal when the first block is left. *)
injectBBLeave_NotFirst(f, code) ==
  [k \in DOMAIN code |-> IF k \in {1, Len(code)} THEN code[k]
                         ELSE Append(code[k], Send("BEFORE_JUMP", f, k - 1))]
injectBBLeave(f, code) ==
  [k \in DOMAIN code |-> IF k = Len(code) THEN code[k]
                         ELSE Append(code[k], Send("BEFORE_JUMP", f, k - 1))]

injectMentry(f, code) == [code EXCEPT ![1] = <<Send("ENTER", f, 0)>> \o @]
injectMexit(f, code) == [code EXCEPT ![Len(code)] = Append(@, Send("EXIT", f, 0))]

isIgnoredBlocksFunction(m, name) == name \in Program[m].ignore
InjectCode(m, F) ==
  LET f == id(m, F.name)
      called == injectMcall(m, Original(F))
      jumping == IF Program[m].level /\ ~isIgnoredBlocksFunction(m, F.name)
                 THEN injectBBLeave(f, injectBBEnter(f, called))
                 ELSE called
  IN injectMexit(f, injectMentry(f, jumping))

(* The binaries. *)
Functions == [m \in ModuleIds |-> [name \in {F.name : F \in DefinedIn(m)} |->
                CHOOSE F \in DefinedIn(m) : F.name = name]]
Text == [m \in ModuleIds |-> [name \in DOMAIN Functions[m] |->
           InjectCode(m, Functions[m][name])]]
-----------------------------------------------------------------------------
Frame(m, name) == [module |-> m, fun |-> name, block |-> 0, at |-> 1, seen |-> {0}]

InstrumentInit ==
  /\ Init
  /\ \E m \in ModuleIds : \E name \in DOMAIN Functions[m] :
       /\ FUNCTION_IS_ENTRYPOINT(m, id(m, name))
       /\ stack = <<Frame(m, name)>>
  /\ waits = FALSE /\ pipe = <<>> /\ answers = n

Top == stack[Len(stack)]
SetTop(frame) == [stack EXCEPT ![Len(stack)] = frame]
Advanced(s) == [s EXCEPT ![Len(s)].at = @ + 1]
Code == Text[Top.module][Top.fun][Top.block + 1]
Running == stack # <<>> /\ ~waits
Instruction == Code[Top.at]
AtInstruction(op) == Running /\ Top.at <= Len(Code) /\ Instruction.op = op
AtTerminator == Running /\ Top.at > Len(Code)
Targets == SuccessorsOf(Functions[Top.module][Top.fun], Top.block)

(* At the bound the program makes no further calls. *)
AtBound == Instruction.event = "CALL" /\ Len(stack) > MaxCalls

(* The functions of injected_code.c, and send_monitor *)
SendSignal ==
  /\ AtInstruction("signal") /\ ~AtBound
  /\ pipe' = Append(pipe, [event |-> Instruction.event, module |-> Top.module,
                           function |-> Instruction.function,
                           block |-> Instruction.block])
  /\ waits' = TRUE
  /\ UNCHANGED <<vars, stack, answers>>

GetAnswer ==
  /\ waits /\ answers > 0
  /\ answers' = answers - 1 /\ waits' = FALSE
  /\ stack' = Advanced(stack)
  /\ UNCHANGED <<vars, pipe>>

(* The dynamic linker leads a call to this module, or to another one that  *)
(* defines the name.  A function that is not instrumented, an intrinsic or *)
(* inline assembly runs and returns.                                       *)
Homes(m, g) == IF g \in DOMAIN Functions[m] THEN {m}
               ELSE {h \in ModuleIds : g \in DOMAIN Functions[h]}
Calls ==
  /\ AtInstruction("call")
  /\ LET homes == Homes(Top.module, Instruction.fun)
     IN \/ homes = {} /\ stack' = Advanced(stack)
        \/ \E h \in homes : stack' = Append(stack, Frame(h, Instruction.fun))
  /\ UNCHANGED <<vars, waits, pipe, answers>>

Jumps ==
  /\ AtTerminator
  /\ \E b \in ToSet(Targets) :
       stack' = SetTop([Top EXCEPT !.block = b, !.at = 1, !.seen = @ \cup {b}])
  /\ UNCHANGED <<vars, waits, pipe, answers>>

Returns ==
  /\ AtTerminator /\ Targets = <<>>
  /\ LET callers == Drop(stack, 1)
     IN stack' = IF callers = <<>> THEN <<>> ELSE Advanced(callers)
  /\ UNCHANGED <<vars, waits, pipe, answers>>

(* The monitor, with memory and a client that lives. *)
MonitorReads ==
  /\ pipe # <<>> /\ ReadSignal(Head(pipe))
  /\ pipe' = Tail(pipe)
  /\ UNCHANGED <<stack, waits, answers>>
MonitorAnswers ==
  /\ (WriteAnswer \/ WriteLastAnswer) /\ error' = error
  /\ answers' = answers + 1
  /\ UNCHANGED <<stack, waits, pipe>>
MonitorWorks ==
  /\ (AllocateStacks /\ error' = 0) \/ Dispatch
  /\ UNCHANGED client

RunEnded ==
  /\ \/ stack = <<>> /\ pc = "exit"
     \/ AtInstruction("signal") /\ AtBound
  /\ UNCHANGED <<vars, client>>

InstrumentNext ==
  \/ SendSignal \/ GetAnswer \/ Calls \/ Jumps \/ Returns
  \/ MonitorReads \/ MonitorAnswers \/ MonitorWorks
  \/ RunEnded

InstrumentSpec == InstrumentInit /\ [][InstrumentNext]_<<vars, client>>
-----------------------------------------------------------------------------
(* The signals that the injected code of a conforming program sends are    *)
(* accepted, on every path through the program, and the run is over when   *)
(* the entry point has returned and not before.                            *)
ConformingAccepted ==
  /\ error = 0 /\ pc # "segv"
  /\ pc = "exit" => \/ stack = <<>>
                    \/ Len(stack) = 1 /\ Top.block = LastBlock(Functions[Top.module][Top.fun])

(* The monitor has read everything and takes the program to be in a        *)
(* function.                                                               *)
Quiet == pc = "wait" /\ pipe = <<>> /\ state = "InFunction"
HasBlocks(m, name) == modules[m].functions[id(m, name)].nb_blocks > 0

(* The stack of callers the monitor keeps is the stack of the program,     *)
(* through calls of other modules, recursion and callbacks, and it knows   *)
(* the block of every one of them that has block protection.               *)
MonitorInStep ==
  Quiet =>
    /\ Len(framesBar) = Len(stack)
    /\ \A i \in 1 .. Len(stack) :
         /\ framesBar[i].module = stack[i].module
         /\ framesBar[i].function = id(stack[i].module, stack[i].fun)
         /\ HasBlocks(stack[i].module, stack[i].fun) => framesBar[i].block = stack[i].block

(* The blocks every run through a function has to pass. *)
Inevitable ==
  [m \in ModuleIds |-> [name \in DOMAIN Functions[m] |->
     LET F == Functions[m][name]
     IN {0} \cup {b \in InTree(F) : 0 \in InTree(F) /\ dominates(F, b, 0)}]]

(* With tracing, what the block stack keeps of a function that has not     *)
(* returned are the blocks the program has passed and could not have       *)
(* avoided, each of them once: the trace has no more entries however long  *)
(* the loops run, and a return removes those of the callee only.           *)
TraceIsInevitable ==
  Quiet /\ OPTION_sm_trace =>
    \A i \in 1 .. Len(calls) + 1 :
      LET from == IF i = 1 THEN 1 ELSE calls[i - 1].blocks_sp + 1
          to == IF i <= Len(calls) THEN calls[i].blocks_sp - 2 ELSE Len(blocks)
          top == IF i <= Len(calls) THEN blocks[calls[i].blocks_sp - 1] ELSE topblock
          trace == Append(SubSeq(blocks, from, to), top)
          F == stack[i]
      IN /\ ToSet(trace) = IF HasBlocks(F.module, F.fun)
                           THEN F.seen \cap Inevitable[F.module][F.fun] ELSE {0}
         /\ \A j, k \in DOMAIN trace : trace[j] = trace[k] => j = k
=============================================================================
