----------------------------- MODULE MonitorRun ------------------------------
(***************************************************************************)
(* monitor_run (monitor/src/monitor_run.c): the loop of the monitor that   *)
(* reads a signal of the client, checks it against the tables, answers OK  *)
(* and reads the next one, until the entry point exits or a check fails.   *)
(* One behaviour of this specification is one call of monitor_run.         *)
(*                                                                         *)
(* The call stack and the block stack are sequences here: what the C       *)
(* stacks do when they have to grow is the subject of GrowingStacks.       *)
(* The signal buffer sig is uninitialised when the function starts, and    *)
(* the loop never looks at the result of the read before it switches on    *)
(* the buffer, which a short packet has overwritten in part: all three are *)
(* modelled, so sig is a variable of its own.                              *)
(***************************************************************************)
EXTENDS ProgramTables

CONSTANTS
  OPTION_sm_trace,  \* CFI_TRACE is set: keep a trace in the block stack
  TIMEOUT,          \* built with the timeout feature
  Signal,           \* the packets a client_signal buffer can hold
  MaxCalls,         \* bound: nesting of calls the client tries
  MaxBlocks         \* bound: block stack entries the client's jumps may fill

Events == {"BEFORE_JUMP", "AFTER_JUMP", "CALL", "ENTER", "EXIT", "RETURNED"}
States == {"Ready", "InFunction", "ExpectCall", "ExpectReturn", "ExpectJump"}

(* The run starts with tables that monitor_load has accepted. *)
ASSUME TablesAssumption == TablesSound

ASSUME RunAssumption ==
  /\ OPTION_sm_trace \in BOOLEAN
  /\ TIMEOUT \in BOOLEAN
  /\ MaxCalls \in Nat /\ MaxBlocks \in Nat
  /\ \A s \in Signal : s.module \in Nat /\ s.function \in Nat /\ s.block \in Nat

VARIABLES
  state,                               \* monitor_state_t
  current_module, current_function,    \* the function the program is in
  curblock,                            \* the block it is in
  topblock,                            \* last block of the trace (sm_trace)
  calls,                               \* call_stack: suspended callers
  blocks,                              \* block_stack: their blocks
  sig,                                 \* the signal buffer
  error,                               \* the value monitor_run will return
  pc,                                  \* where in the loop the monitor is
  failure                              \* history: how a read failed: "none"
                                       \* did, nothing came and the buffer is
                                       \* "stale", or a packet was cut short
                                       \* and left the buffer "torn"

cursor == <<current_module, current_function, curblock, topblock>>
stacks == <<calls, blocks>>
vars == <<state, cursor, stacks, sig, error, pc, failure>>
-----------------------------------------------------------------------------
(* The stack macros.  A push is skipped when the error variable it is      *)
(* given is already set, unless the array is full: see ForgetsError.       *)
PUSH(s, v) == IF error = 0 THEN Append(s, v) ELSE s
BLOCK_STACK_TOP_PTR_OneBelow(s) == Len(s) - 1   \* mutant: the entry below
BLOCK_STACK_TOP_PTR(s) == Len(s)
BLOCK_STACK_RESTORE_TOP_Kept(s, t) == s         \* mutant: top stays
BLOCK_STACK_RESTORE_TOP(s, t) == SubSeq(s, 1, t)
Peek(s, depth) == s[Len(s) - depth]
Drop(s, k) == SubSeq(s, 1, Len(s) - k)

(* Mutants of SaveBlocks: curblock reset before it is pushed; curblock     *)
(* pushed only when tracing.                                               *)
SaveBlocks_ResetFirst ==
  IF OPTION_sm_trace THEN PUSH(PUSH(blocks, topblock), FUNCTION_ENTRY_BLOCK_ID)
                     ELSE PUSH(blocks, FUNCTION_ENTRY_BLOCK_ID)
SaveBlocks_TraceOnly ==
  IF OPTION_sm_trace THEN PUSH(PUSH(blocks, topblock), curblock) ELSE blocks

(* What a CALL leaves in the block stack for its caller. *)
SaveBlocks ==
  IF OPTION_sm_trace THEN PUSH(PUSH(blocks, topblock), curblock)
                     ELSE PUSH(blocks, curblock)
(* What an EXIT pops from it; the mutant looks at curblock without popping.*)
SavedWidth_Peeked == IF OPTION_sm_trace THEN 1 ELSE 0
SavedWidth == IF OPTION_sm_trace THEN 2 ELSE 1

call_stack_element == [module : Nat, function : Nat, blocks_sp : Nat]

Init ==
  /\ state = "Ready"
  /\ current_module = 0 /\ current_function = 0
  /\ curblock = 0 /\ topblock = 0
  /\ calls = <<>> /\ blocks = <<>>
  /\ sig \in Signal          \* uninitialised
  /\ error = 0
  /\ pc = "start"
  /\ failure = "none"

(* call_stack_init or block_stack_init may find no memory. *)
AllocateStacks ==
  /\ pc = "start"
  /\ \/ error' = 0 /\ pc' = "wait"
     \/ error' = 1 /\ pc' = "exit"
  /\ UNCHANGED <<state, cursor, stacks, sig, failure>>

(* MONITOR_SIGNAL_TIMEOUT: pselect saw nothing to read in time. *)
SignalTimeout ==
  /\ pc = "wait"
  /\ TIMEOUT
  /\ error' = 1 /\ pc' = "exit"
  /\ UNCHANGED <<state, cursor, stacks, sig, failure>>

(* READ_CLIENT_SIGNAL succeeds.  The two bounds limit what the client      *)
(* sends; the monitor has no limit of its own.                             *)
ReadSignal(s) ==
  /\ pc = "wait"
  /\ s.event = "CALL" => Len(calls) < MaxCalls
  /\ s.event = "AFTER_JUMP" => Len(blocks) < MaxBlocks
  /\ sig' = s
  /\ pc' = "dispatch"
  /\ UNCHANGED <<state, cursor, stacks, error, failure>>

(* Mutant of ReadFails: the error code is one nobody knows. *)
ReadFails_OtherCode ==
  /\ pc = "wait"
  /\ error' = 2
  /\ failure' = "stale"
  /\ pc' = "dispatch"
  /\ UNCHANGED <<state, cursor, stacks, sig>>

(* READ_CLIENT_SIGNAL fails because nothing comes (the client closed its   *)
(* end, or the read was interrupted): error is set but the switch is still *)
(* entered, on what the buffer held before.                                *)
ReadFails ==
  /\ pc = "wait"
  /\ error' = 1
  /\ failure' = "stale"
  /\ pc' = "dispatch"
  /\ UNCHANGED <<state, cursor, stacks, sig>>

(* READ_CLIENT_SIGNAL fails on a packet shorter than client_signal.  Its   *)
(* bytes are the front of the buffer now: up to the cut the fields are     *)
(* new, the one that is cut is a mixture, those after it are the old ones. *)
(* The cut may lie in the last field, so any signal s can come of it.      *)
ShortRead(s) ==
  /\ pc = "wait"
  /\ sig' = s
  /\ error' = 1
  /\ failure' = "torn"
  /\ pc' = "dispatch"
  /\ UNCHANGED <<state, cursor, stacks>>

(* goto monitor_run_exit with a new error code *)
Refuse(code) ==
  /\ error' = code
  /\ pc' = "exit"
  /\ UNCHANGED <<state, cursor, stacks, sig, failure>>

(* the row of a table is NULL and the monitor dereferences it *)
NullRow ==
  /\ pc' = "segv"
  /\ UNCHANGED <<state, cursor, stacks, sig, error, failure>>

(* A push finds its array full and extends it; the extension overwrites    *)
(* the error of a failed read with its own result, the push is made after  *)
(* all and the loop goes on.  From here on the arrays need not hold the    *)
(* sequences of this module, and the model ends.  When an array is full is *)
(* left open, except that a full one is not empty.                         *)
ForgetsError(inUse) ==
  /\ error # 0
  /\ inUse
  /\ pc' = "forgotten"
  /\ UNCHANGED <<state, cursor, stacks, sig, error, failure>>

(* break: the signal is accepted, an answer is due *)
Accept(next) ==
  /\ state' = next
  /\ pc' = "answer"
  /\ UNCHANGED <<sig, error, failure>>

SigIs(event) == pc = "dispatch" /\ sig.event = event
FromCurrent == sig.module = current_module /\ sig.function = current_function

(* Mutant of CFI_BEFORE_JUMP: the state is not checked. *)
CFI_BEFORE_JUMP_AnyState ==
  /\ SigIs("BEFORE_JUMP")
  /\ IF FromCurrent /\ sig.block = curblock
     THEN Accept("ExpectJump") /\ UNCHANGED <<cursor, stacks>>
     ELSE Refuse(4)

CFI_BEFORE_JUMP ==
  /\ SigIs("BEFORE_JUMP")
  /\ IF state = "InFunction" /\ FromCurrent /\ sig.block = curblock
     THEN Accept("ExpectJump") /\ UNCHANGED <<cursor, stacks>>
     ELSE Refuse(4)

(* With tracing the jump leads to where every path from topblock leads. *)
PassesTopblock ==
  /\ OPTION_sm_trace
  /\ Ipd(current_module, current_function, topblock) = sig.block

CFI_AFTER_JUMP ==
  /\ SigIs("AFTER_JUMP")
  /\ IF \/ state # "ExpectJump"
        \/ ~FromCurrent
        \/ sig.block >= modules[current_module].functions[current_function].nb_blocks
     THEN Refuse(4)
     ELSE LET row == FlowRow(current_module, current_function, curblock) IN
          \/ row = NULL /\ NullRow
          \/ row # NULL /\ sig.block \notin row /\ Refuse(4)
          \/ /\ row # NULL /\ sig.block \in row
             /\ PassesTopblock /\ ForgetsError(blocks # <<>>)
          \/ /\ row # NULL /\ sig.block \in row
             /\ IF PassesTopblock
                THEN /\ blocks' = PUSH(blocks, topblock)
                     /\ topblock' = sig.block
                ELSE UNCHANGED <<blocks, topblock>>
             /\ curblock' = sig.block
             /\ Accept("InFunction")
             /\ UNCHANGED <<current_module, current_function, calls>>

(* The caller is suspended: its block goes to the block stack, its         *)
(* identity and the block stack pointer to the call stack.                 *)
CFI_CALL ==
  /\ SigIs("CALL")
  /\ IF \/ state # "InFunction"
        \/ sig.function >= modules[current_module].nb_functions
     THEN Refuse(4)
     ELSE LET row == CallRow(current_module, current_function) IN
          \/ row = NULL /\ NullRow
          \/ row # NULL /\ sig.function \notin row /\ Refuse(4)
          \/ /\ row # NULL /\ sig.function \in row
             /\ ForgetsError(blocks # <<>> \/ calls # <<>>)
          \/ /\ row # NULL /\ sig.function \in row
             /\ blocks' = SaveBlocks
             /\ calls' = PUSH(calls, [module |-> current_module,
                                      function |-> current_function,
                                      blocks_sp |-> BLOCK_STACK_TOP_PTR(blocks')])
             /\ curblock' = FUNCTION_ENTRY_BLOCK_ID
             /\ topblock' = FUNCTION_ENTRY_BLOCK_ID
             /\ current_module' = TargetModule(current_module, sig.function)
             /\ current_function' = TargetFunction(current_module, sig.function)
             /\ Accept("ExpectCall")

(* The first signal of the run enters an entry point of a loaded module. *)
EnterReady ==
  IF sig.module >= nb_modules
  THEN Refuse(6)
  ELSE IF \/ sig.function >= modules[sig.module].nb_functions
          \/ ~FUNCTION_IS_ENTRYPOINT(sig.module, sig.function)
       THEN Refuse(7)
       ELSE /\ curblock' = FUNCTION_ENTRY_BLOCK_ID
            /\ topblock' = FUNCTION_ENTRY_BLOCK_ID
            /\ current_module' = sig.module
            /\ current_function' = sig.function
            /\ Accept("InFunction")
            /\ UNCHANGED stacks

CFI_ENTER ==
  /\ SigIs("ENTER")
  /\ \/ state = "Ready" /\ EnterReady
     \/ /\ state = "ExpectCall" /\ FromCurrent
        /\ curblock = FUNCTION_ENTRY_BLOCK_ID
        /\ Accept("InFunction")
        /\ UNCHANGED <<cursor, stacks>>
     \/ /\ state # "Ready"
        /\ \/ state # "ExpectCall" \/ ~FromCurrent
           \/ curblock # FUNCTION_ENTRY_BLOCK_ID
        /\ Refuse(4)

(* EXIT with an empty call stack ends the run: the answer is still sent,   *)
(* then monitor_run returns.                                               *)
ExitEntryPoint ==
  IF ~FUNCTION_IS_ENTRYPOINT(current_module, current_function)
  THEN Refuse(7)
  ELSE /\ state' = "Ready"
       /\ pc' = "lastanswer"
       /\ UNCHANGED <<cursor, stacks, sig, error, failure>>

(* The function a popped call resumes.  Mutants: the identifier of the     *)
(* module, or of the function, is not taken from the call stack.           *)
RestoreCaller_SameModule(ncall) ==
  /\ current_module' = current_module
  /\ current_function' = ncall.function
RestoreCaller_SameFunction(ncall) ==
  /\ current_module' = ncall.module
  /\ current_function' = current_function
RestoreCaller(ncall) ==
  /\ current_module' = ncall.module
  /\ current_function' = ncall.function

(* Otherwise the caller is popped and its block is taken from where the    *)
(* block stack was when it called.                                         *)
ExitToCaller ==
  LET ncall == Peek(calls, 0)
      saved == BLOCK_STACK_RESTORE_TOP(blocks, ncall.blocks_sp)
  IN /\ calls' = Drop(calls, 1)
     /\ RestoreCaller(ncall)
     /\ IF saved = <<>>
        THEN /\ error' = 7 /\ pc' = "exit"
             /\ blocks' = saved
             /\ UNCHANGED <<state, curblock, topblock, sig, failure>>
        ELSE /\ blocks' = Drop(saved, SavedWidth)
             /\ curblock' = Peek(saved, 0)
             /\ topblock' = IF OPTION_sm_trace THEN Peek(saved, 1) ELSE topblock
             /\ Accept("ExpectReturn")

CFI_EXIT ==
  /\ SigIs("EXIT")
  /\ IF state # "InFunction" \/ ~FromCurrent
     THEN Refuse(4)
     ELSE \/ calls = <<>> /\ ExitEntryPoint
          \/ calls # <<>> /\ ExitToCaller

CFI_RETURNED ==
  /\ SigIs("RETURNED")
  /\ IF \/ state # "ExpectReturn"
        \/ sig.function >= modules[current_module].nb_functions
     THEN Refuse(4)
     ELSE LET row == CallRow(current_module, current_function) IN
          IF row = NULL THEN NullRow
          ELSE IF sig.function \notin row THEN Refuse(4)
          ELSE Accept("InFunction") /\ UNCHANGED <<cursor, stacks>>

MalformedSignal ==
  /\ pc = "dispatch"
  /\ sig.event \notin Events
  /\ Refuse(5)

(* WRITE_MONITOR_ANSWER fails when the client has closed its end.  An      *)
(* error of the write, or one left by a failed read, ends the loop at the  *)
(* test that follows.                                                      *)
WriteAnswer ==
  /\ pc = "answer"
  /\ \E failed \in BOOLEAN :
       /\ error' = IF failed THEN 1 ELSE error
       /\ pc' = IF error' = 0 THEN "wait" ELSE "exit"
  /\ UNCHANGED <<state, cursor, stacks, sig, failure>>

WriteLastAnswer ==
  /\ pc = "lastanswer"
  /\ \E failed \in BOOLEAN : error' = IF failed THEN 1 ELSE error
  /\ pc' = "exit"
  /\ UNCHANGED <<state, cursor, stacks, sig, failure>>

Dispatch ==
  \/ CFI_BEFORE_JUMP \/ CFI_AFTER_JUMP
  \/ CFI_CALL \/ CFI_ENTER
  \/ CFI_EXIT \/ CFI_RETURNED
  \/ MalformedSignal

Next ==
  \/ AllocateStacks
  \/ SignalTimeout
  \/ \E s \in Signal : ReadSignal(s)
  \/ ReadFails
  \/ \E s \in Signal : ShortRead(s)
  \/ Dispatch
  \/ WriteAnswer
  \/ WriteLastAnswer

Spec == Init /\ [][Next]_vars
-----------------------------------------------------------------------------
(* Types of the variables of monitor_run. *)
TypeOK ==
  /\ state \in States
  /\ current_module \in Nat /\ current_function \in Nat
  /\ curblock \in Nat /\ topblock \in Nat
  /\ calls \in Seq(call_stack_element)
  /\ blocks \in Seq(Nat)
  /\ sig \in Signal
  /\ error \in {0, 1, 4, 5, 6, 7}
  /\ pc \in {"start", "wait", "dispatch", "answer", "lastanswer", "exit", "segv",
             "forgotten"}
  /\ failure \in {"none", "stale", "torn"}

(* The block stack is laid out as the pointers saved in the call stack say:*)
(* the pointer of every suspended caller is inside the stack, with room    *)
(* below it for what the CALL saved, and later callers' entries lie above. *)
(* This is what makes BLOCK_STACK_RESTORE_TOP and the pops of CFI_EXIT     *)
(* read live entries only.                                                 *)
StackLayout ==
  /\ \A i \in 1 .. Len(calls) :
       calls[i].blocks_sp \in SavedWidth .. Len(blocks)
  /\ \A i, j \in 1 .. Len(calls) :
       i < j => calls[i].blocks_sp + SavedWidth <= calls[j].blocks_sp

(* Every suspended caller resumes at a block of the function it names, and *)
(* its trace block is one of that function too: whatever nesting of calls, *)
(* jumps and returns came in between, the table lookups of the handlers    *)
(* stay inside the tables.                                                 *)
PlacesExist ==
  /\ state # "Ready" =>
       /\ IsPlace(current_module, current_function, curblock)
       /\ OPTION_sm_trace => IsPlace(current_module, current_function, topblock)
  /\ \A i \in 1 .. Len(calls) :
       /\ IsPlace(calls[i].module, calls[i].function, blocks[calls[i].blocks_sp])
       /\ OPTION_sm_trace => IsPlace(calls[i].module, calls[i].function,
                                     blocks[calls[i].blocks_sp - 1])

(* A suspended caller has a call-graph row, so the RETURNED handler never  *)
(* dereferences a row that was not allocated.                              *)
CallersHaveRows ==
  /\ \A i \in 1 .. Len(calls) : CallRow(calls[i].module, calls[i].function) # NULL
  /\ state = "ExpectReturn" => CallRow(current_module, current_function) # NULL

(* A failed read ends the run with an error, although the switch still     *)
(* runs on the buffer.  When nothing came, the signal that is replayed is  *)
(* refused: no answer goes out and no row is dereferenced.  (The very      *)
(* first buffer is uninitialised and may happen to hold a valid ENTER.)    *)
(* When a packet was cut short, the torn signal may be accepted and        *)
(* answered, but no other is read, and monitor_run does not return 0.      *)
(* Only a push that has to extend its array makes the monitor forget the   *)
(* error, which takes a CALL, or a traced jump.                            *)
FailedReadEndsRun ==
  failure # "none" =>
    /\ error # 0 /\ pc # "wait"
    /\ failure = "stale" =>
         /\ pc \in {"dispatch", "answer", "exit"}
         /\ pc = "answer" => sig.event = "ENTER" /\ calls = <<>> /\ blocks = <<>>
    /\ pc = "forgotten" =>
         \/ sig.event = "CALL"
         \/ sig.event = "AFTER_JUMP" /\ OPTION_sm_trace

(* The two uses of error code 7 in CFI_EXIT guard against states the       *)
(* monitor cannot be in: an EXIT never finds the block stack empty, and    *)
(* with an empty call stack the current function is an entry point.        *)
ExitNeverInconsistent ==
  error = 7 => pc = "exit" /\ state = "Ready" /\ sig.event = "ENTER"

(* A run that succeeds has unwound completely: no suspended caller is left,*)
(* and without tracing no saved block either.                              *)
SuccessMeansUnwound ==
  pc = "exit" /\ error = 0 =>
    /\ state = "Ready"
    /\ calls = <<>>
    /\ ~OPTION_sm_trace => blocks = <<>>
-----------------------------------------------------------------------------
(* The abstract frames: suspended callers with the blocks their saved      *)
(* pointers lead to, and the current function on top.                      *)
Suspended(i) == [module |-> calls[i].module, function |-> calls[i].function,
                 block |-> blocks[calls[i].blocks_sp]]
Current == [module |-> current_module, function |-> current_function,
            block |-> curblock]

(* For the policy the run has failed as soon as error is set. *)
phaseBar ==
  IF error # 0 \/ pc = "segv" THEN "Failed"
  ELSE IF pc \in {"exit", "lastanswer"} THEN "Done" ELSE state

framesBar ==
  IF phaseBar \in {"Done", "Failed", "Ready"}
  THEN <<>>
  ELSE [i \in 1 .. Len(calls) + 1 |->
          IF i <= Len(calls) THEN Suspended(i) ELSE Current]

Policy == INSTANCE CFIPolicy WITH phase <- phaseBar, frames <- framesBar

(* The two stacks, the saved pointers and the registers of monitor_run     *)
(* implement the single stack of frames of CFIPolicy: in particular every  *)
(* accepted signal is a step the program's tables allow, and a caller      *)
(* resumes in exactly the block it called from.                            *)
ImplementsPolicy == Policy!PolicySpec

(* The chain of active functions is always a path of the call graph that   *)
(* starts at an entry point.                                               *)
ActiveChainIsCallPath == Policy!ChainIsCallPath
=============================================================================
