------------------------------ MODULE CFIPolicy ------------------------------
(***************************************************************************)
(* What one call of monitor_run promises, without its two stacks, its      *)
(* saved stack pointers and its registers: the monitored program moves     *)
(* along its own call graph and control-flow graphs, one frame per active  *)
(* function, and a caller resumes in the very block it called from.        *)
(*                                                                         *)
(* MonitorRun is shown to implement this specification.                    *)
(***************************************************************************)
EXTENDS ProgramTables

VARIABLES
  phase,   \* what the policy lets the program do next
  frames   \* active functions, innermost last; each with its current block

policyVars == <<phase, frames>>

Phases == {"Ready", "InFunction", "ExpectCall", "ExpectReturn", "ExpectJump",
           "Done", "Failed"}

FrameAt(m, f, b) == [module |-> m, function |-> f, block |-> b]
Top == frames[Len(frames)]

PolicyInit == phase = "Ready" /\ frames = <<>>

(* The run starts at an entry point of a loaded module. *)
Start(m, f) ==
  /\ phase = "Ready"
  /\ m \in ModuleIds
  /\ f \in FunctionIds(m)
  /\ FUNCTION_IS_ENTRYPOINT(m, f)
  /\ phase' = "InFunction"
  /\ frames' = <<FrameAt(m, f, FUNCTION_ENTRY_BLOCK_ID)>>

(* The current function announces a call its call graph allows. *)
Call(g) ==
  /\ phase = "InFunction"
  /\ g \in FunctionIds(Top.module)
  /\ CallRow(Top.module, Top.function) # NULL
  /\ g \in CallRow(Top.module, Top.function)
  /\ phase' = "ExpectCall"
  /\ frames' = Append(frames, FrameAt(TargetModule(Top.module, g),
                                      TargetFunction(Top.module, g),
                                      FUNCTION_ENTRY_BLOCK_ID))

Enter ==
  /\ phase = "ExpectCall"
  /\ phase' = "InFunction"
  /\ UNCHANGED frames

LeaveBlock ==
  /\ phase = "InFunction"
  /\ phase' = "ExpectJump"
  /\ UNCHANGED frames

EnterBlock(b) ==
  /\ phase = "ExpectJump"
  /\ b \in BlockIds(Top.module, Top.function)
  /\ FlowRow(Top.module, Top.function, Top.block) # NULL
  /\ b \in FlowRow(Top.module, Top.function, Top.block)
  /\ phase' = "InFunction"
  /\ frames' = [frames EXCEPT ![Len(frames)] =
                  FrameAt(Top.module, Top.function, b)]

(* The current function ends; its caller, if any, is back on top. *)
Leave ==
  /\ phase = "InFunction"
  /\ phase' = IF Len(frames) = 1 THEN "Done" ELSE "ExpectReturn"
  /\ frames' = SubSeq(frames, 1, Len(frames) - 1)

Resume ==
  /\ phase = "ExpectReturn"
  /\ phase' = "InFunction"
  /\ UNCHANGED frames

(* Monitoring may fail at any time: a signal was refused, the client is    *)
(* gone, or it was silent for too long.                                    *)
Fail ==
  /\ phase # "Failed"
  /\ phase' = "Failed"
  /\ frames' = <<>>

PolicyNext ==
  \/ \E m \in ModuleIds : \E f \in FunctionIds(m) : Start(m, f)
  \/ frames # <<>> /\ \E g \in FunctionIds(Top.module) : Call(g)
  \/ Enter
  \/ LeaveBlock
  \/ frames # <<>> /\ \E b \in BlockIds(Top.module, Top.function) : EnterBlock(b)
  \/ Leave
  \/ Resume
  \/ Fail

PolicySpec == PolicyInit /\ [][PolicyNext]_policyVars
-----------------------------------------------------------------------------
(* Every frame but the first was entered through an edge of the call graph *)
(* of the frame below it, relocations applied, and the first one is an     *)
(* entry point: the chain of active functions is a path of the program.    *)
ChainIsCallPath ==
  /\ frames # <<>> => FUNCTION_IS_ENTRYPOINT(frames[1].module, frames[1].function)
  /\ \A i \in 1 .. Len(frames) - 1 :
       /\ CallRow(frames[i].module, frames[i].function) # NULL
       /\ \E g \in CallRow(frames[i].module, frames[i].function) :
            /\ frames[i + 1].module = TargetModule(frames[i].module, g)
            /\ frames[i + 1].function = TargetFunction(frames[i].module, g)
=============================================================================
