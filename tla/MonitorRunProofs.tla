-------------------------- MODULE MonitorRunProofs ---------------------------
(***************************************************************************)
(* The invariants of monitor_run, for every program and every number of    *)
(* signals, and the proof that it implements CFIPolicy.                    *)
(***************************************************************************)
EXTENDS MonitorRun, TLAPS

(* The state a signal leaves behind; no handler accepts its own signal     *)
(* again in that state.                                                    *)
StateAfter(event) ==
  CASE event = "BEFORE_JUMP" -> "ExpectJump"
    [] event = "CALL" -> "ExpectCall"
    [] event = "EXIT" -> "ExpectReturn"
    [] OTHER -> "InFunction"

(* The buffer holds the signal that led to the current state, until a      *)
(* read brings something.                                                  *)
SigMatchesState ==
  /\ pc \in {"wait", "answer"} /\ state # "Ready" => state = StateAfter(sig.event)
  /\ pc = "dispatch" /\ state # "Ready" /\ failure = "stale" =>
       state = StateAfter(sig.event)

(* A handler has not accepted a signal of a failed read, for which it      *)
(* pushes nothing.                                                         *)
Regular == error = 0 \/ pc = "dispatch"

Control ==
  /\ pc \in {"start", "wait"} => error = 0
  /\ pc # "exit" => error \in {0, 1} /\ (error = 0 <=> failure = "none")
  /\ pc = "start" => state = "Ready"
  /\ pc = "lastanswer" => state = "Ready"
  /\ pc = "answer" => state # "Ready"
  /\ state = "Ready" => calls = <<>>
  /\ state = "Ready" /\ pc \notin {"lastanswer", "exit"} => blocks = <<>>
  /\ pc = "forgotten" => error # 0
  /\ SigMatchesState

(* Without tracing every suspended caller has exactly one block saved. *)
OneBlockPerCall ==
  ~OPTION_sm_trace =>
    /\ Len(blocks) = Len(calls)
    /\ \A i \in 1 .. Len(calls) : calls[i].blocks_sp = i

(* The bottom of the active chain is an entry point. *)
EntryAtBottom ==
  state # "Ready" /\ Regular =>
    IF calls = <<>>
    THEN FUNCTION_IS_ENTRYPOINT(current_module, current_function)
    ELSE FUNCTION_IS_ENTRYPOINT(calls[1].module, calls[1].function)

(* What is said of the registers and the two stacks ... *)
Shape == /\ StackLayout /\ OneBlockPerCall
         /\ PlacesExist /\ CallersHaveRows /\ EntryAtBottom

(* ... and of how a run ends. *)
Endings == FailedReadEndsRun /\ ExitNeverInconsistent /\ SuccessMeansUnwound

IInv == TypeOK /\ Control /\ Shape /\ Endings
-----------------------------------------------------------------------------
(* What the stack macros do, on sequences: a push adds one entry on top,   *)
(* restoring or popping leaves the entries below.                          *)
LEMMA PushLemma ==
  ASSUME NEW S, NEW s \in Seq(S), NEW e \in S
  PROVE  /\ Append(s, e) \in Seq(S)
         /\ Len(Append(s, e)) = Len(s) + 1
         /\ Append(s, e)[Len(s) + 1] = e
         /\ \A j \in 1 .. Len(s) : Append(s, e)[j] = s[j]
  OBVIOUS

LEMMA PrefixLemma ==
  ASSUME NEW S, NEW s \in Seq(S), NEW k \in 0 .. Len(s)
  PROVE  /\ SubSeq(s, 1, k) \in Seq(S)
         /\ Len(SubSeq(s, 1, k)) = k
         /\ \A j \in 1 .. k : SubSeq(s, 1, k)[j] = s[j]
  OBVIOUS

(* A call leads to a function the tables know, relocated or not. *)
LEMMA TargetExists ==
  ASSUME NEW m \in ModuleIds, NEW g \in FunctionIds(m)
  PROVE  /\ TargetModule(m, g) \in ModuleIds
         /\ TargetFunction(m, g) \in FunctionIds(TargetModule(m, g))
  BY TablesAssumption DEF TablesSound, TargetModule, TargetFunction

LEMMA IdsAreNaturals ==
  /\ ModuleIds \subseteq Nat
  /\ \A m \in ModuleIds : FunctionIds(m) \subseteq Nat
  BY TablesAssumption DEF TablesSound, ModuleIds, FunctionIds

(* Places have natural numbers for identifiers. *)
LEMMA PlaceTypes ==
  ASSUME NEW m, NEW f, NEW b, IsPlace(m, f, b)
  PROVE  m \in Nat /\ f \in Nat /\ b \in Nat
  BY TablesAssumption
     DEF TablesSound, IsPlace, ModuleIds, FunctionIds, BlockIds, FUNCTION_ENTRY_BLOCK_ID

LEMMA WidthLemma ==
  /\ SavedWidth \in {1, 2}
  /\ OPTION_sm_trace => SavedWidth = 2
  /\ ~OPTION_sm_trace => SavedWidth = 1
  BY DEF SavedWidth

(* The blocks of a suspended caller are inside the block stack. *)
LEMMA SavedInside ==
  ASSUME TypeOK, StackLayout, NEW i \in 1 .. Len(calls)
  PROVE  /\ calls[i].blocks_sp \in 1 .. Len(blocks)
         /\ OPTION_sm_trace => calls[i].blocks_sp - 1 \in 1 .. Len(blocks)
         /\ calls[i].module \in Nat /\ calls[i].function \in Nat
<1>1. calls[i] \in call_stack_element
  BY DEF TypeOK
<1>2. calls[i].blocks_sp \in SavedWidth .. Len(blocks) /\ Len(blocks) \in Nat
  BY DEF TypeOK, StackLayout
<1>3. QED
  BY <1>1, <1>2, WidthLemma DEF call_stack_element

LEMMA InitInv == Init => IInv
  BY RunAssumption
     DEF Init, IInv, TypeOK, Control, SigMatchesState, Shape, StackLayout,
         OneBlockPerCall, PlacesExist, CallersHaveRows, EntryAtBottom, Endings,
         FailedReadEndsRun, ExitNeverInconsistent, SuccessMeansUnwound, States

(* Steps that leave the registers and the stacks alone keep their shape. *)
LEMMA QuietShape ==
  ASSUME Shape, UNCHANGED <<state, cursor, stacks>>, Regular' => Regular
  PROVE  Shape'
  BY DEF Shape, StackLayout, OneBlockPerCall, PlacesExist, CallersHaveRows,
         EntryAtBottom, cursor, stacks

(* Refusing a signal keeps the invariant, whatever the reason; code 7 is   *)
(* only used on the ENTER of a run that has not begun.                     *)
LEMMA RefuseStep ==
  ASSUME IInv, pc = "dispatch", NEW code \in {4, 5, 6, 7}, Refuse(code),
         code = 7 => state = "Ready" /\ sig.event = "ENTER"
  PROVE  IInv'
<1>1. Shape'
  BY QuietShape DEF IInv, Refuse, Regular
<1>2. TypeOK' /\ Control'
  BY DEF IInv, TypeOK, Control, SigMatchesState, Refuse, cursor, stacks
<1>3. Endings'
  BY DEF IInv, Endings, FailedReadEndsRun, ExitNeverInconsistent,
         SuccessMeansUnwound, Refuse, cursor, stacks
<1>4. QED
  BY <1>1, <1>2, <1>3 DEF IInv

(* The actions around the switch: allocating, waiting, reading, answering. *)
LEMMA LoopStep ==
  ASSUME IInv,
         \/ AllocateStacks \/ SignalTimeout \/ ReadFails
         \/ \E s \in Signal : ReadSignal(s) \/ ShortRead(s)
         \/ WriteAnswer \/ WriteLastAnswer
  PROVE  IInv'
<1> USE DEF cursor, stacks
<1>1. Shape'
  <2>1. Regular' => Regular
    BY DEF IInv, Control, Regular, AllocateStacks, SignalTimeout, ReadFails, ReadSignal,
           ShortRead, WriteAnswer, WriteLastAnswer
  <2>2. QED
    BY <2>1, QuietShape DEF IInv, AllocateStacks, SignalTimeout, ReadFails, ReadSignal,
           ShortRead, WriteAnswer, WriteLastAnswer
<1>2. CASE AllocateStacks
  BY <1>1, <1>2 DEF IInv, TypeOK, Control, SigMatchesState, Endings,
     FailedReadEndsRun, ExitNeverInconsistent, SuccessMeansUnwound, AllocateStacks
<1>3. CASE SignalTimeout
  BY <1>1, <1>3 DEF IInv, TypeOK, Control, SigMatchesState, Endings,
     FailedReadEndsRun, ExitNeverInconsistent, SuccessMeansUnwound, SignalTimeout
<1>4. CASE ReadFails
  BY <1>1, <1>4 DEF IInv, TypeOK, Control, SigMatchesState, Endings,
     FailedReadEndsRun, ExitNeverInconsistent, SuccessMeansUnwound, ReadFails
<1>5. ASSUME NEW s \in Signal, ReadSignal(s) PROVE IInv'
  BY <1>1, <1>5 DEF IInv, TypeOK, Control, SigMatchesState, Endings,
     FailedReadEndsRun, ExitNeverInconsistent, SuccessMeansUnwound, ReadSignal
<1>5a. ASSUME NEW s \in Signal, ShortRead(s) PROVE IInv'
  BY <1>1, <1>5a DEF IInv, TypeOK, Control, SigMatchesState, Endings,
     FailedReadEndsRun, ExitNeverInconsistent, SuccessMeansUnwound, ShortRead
<1>6. CASE WriteAnswer
  <2>1. /\ error' \in {0, 1} /\ (error' = 0 => error = 0)
        /\ pc' = IF error' = 0 THEN "wait" ELSE "exit"
    BY <1>6 DEF IInv, Control, WriteAnswer
  <2>2. QED
    BY <1>1, <1>6, <2>1 DEF IInv, TypeOK, Control, SigMatchesState, Endings,
       FailedReadEndsRun, ExitNeverInconsistent, SuccessMeansUnwound, WriteAnswer
<1>7. CASE WriteLastAnswer
  <2>1. error' \in {0, 1} /\ (error' = 0 => error = 0) /\ pc' = "exit" /\ pc = "lastanswer"
    BY <1>7 DEF IInv, Control, WriteLastAnswer
  <2>2. calls = <<>> /\ (~OPTION_sm_trace => Len(blocks) = 0)
    BY <2>1 DEF IInv, Control, Shape, OneBlockPerCall
  <2>3. ~OPTION_sm_trace => blocks = <<>>
    BY <2>2 DEF IInv, TypeOK
  <2>4. QED
    BY <1>1, <1>7, <2>1, <2>2, <2>3 DEF IInv, TypeOK, Control, SigMatchesState,
       Endings, FailedReadEndsRun, ExitNeverInconsistent, SuccessMeansUnwound,
       WriteLastAnswer
<1>8. QED
  BY <1>2, <1>3, <1>4, <1>5, <1>5a, <1>6, <1>7

(* The handlers that change nothing but the state. *)
LEMMA BeforeJumpStep ==
  ASSUME IInv, CFI_BEFORE_JUMP
  PROVE  IInv'
<1>1. CASE state = "InFunction" /\ FromCurrent /\ sig.block = curblock
  <2>1. Accept("ExpectJump") /\ UNCHANGED <<cursor, stacks>> /\ pc = "dispatch"
        /\ sig.event = "BEFORE_JUMP"
    BY <1>1 DEF CFI_BEFORE_JUMP, SigIs
  <2>2. Shape'
    BY <1>1, <2>1 DEF IInv, Shape, StackLayout, OneBlockPerCall, PlacesExist,
       CallersHaveRows, EntryAtBottom, Regular, Accept, cursor, stacks
  <2>3. failure # "stale"
    BY <1>1, <2>1 DEF IInv, TypeOK, Control, SigMatchesState, StateAfter
  <2>4. TypeOK' /\ Control' /\ Endings'
    BY <1>1, <2>1, <2>3 DEF IInv, TypeOK, States, Control, SigMatchesState, StateAfter,
       Endings, FailedReadEndsRun, ExitNeverInconsistent, SuccessMeansUnwound,
       Accept, cursor, stacks
  <2>5. QED
    BY <2>2, <2>4 DEF IInv
<1>2. CASE ~(state = "InFunction" /\ FromCurrent /\ sig.block = curblock)
  BY <1>2, RefuseStep DEF CFI_BEFORE_JUMP, SigIs
<1>3. QED
  BY <1>1, <1>2

LEMMA ReturnedStep ==
  ASSUME IInv, CFI_RETURNED
  PROVE  IInv'
<1>0. pc = "dispatch" /\ sig.event = "RETURNED"
  BY DEF CFI_RETURNED, SigIs
<1>1. CASE Accept("InFunction") /\ UNCHANGED <<cursor, stacks>>
           /\ state = "ExpectReturn"
  <2>1. Shape'
    BY <1>1 DEF IInv, Shape, StackLayout, OneBlockPerCall, PlacesExist,
       CallersHaveRows, EntryAtBottom, Regular, Accept, cursor, stacks
  <2>2. failure # "stale"
    BY <1>0, <1>1 DEF IInv, TypeOK, Control, SigMatchesState, StateAfter
  <2>3. TypeOK' /\ Control' /\ Endings'
    BY <1>0, <1>1, <2>2 DEF IInv, TypeOK, States, Control, SigMatchesState, StateAfter,
       Endings, FailedReadEndsRun, ExitNeverInconsistent, SuccessMeansUnwound,
       Accept, cursor, stacks
  <2>4. QED
    BY <2>1, <2>3 DEF IInv
<1>2. CASE Refuse(4)
  BY <1>0, <1>2, RefuseStep
<1>3. ~(state = "ExpectReturn" /\ NullRow /\ CallRow(current_module, current_function) = NULL)
  BY DEF IInv, Shape, CallersHaveRows
<1>4. QED
  BY <1>1, <1>2, <1>3 DEF CFI_RETURNED

LEMMA NullRowStep ==
  ASSUME IInv, pc = "dispatch", NullRow, failure # "stale"
  PROVE  IInv'
<1>1. Shape'
  BY QuietShape DEF IInv, NullRow, Regular
<1>2. QED
  BY <1>1 DEF IInv, TypeOK, Control, SigMatchesState, Endings, FailedReadEndsRun,
     ExitNeverInconsistent, SuccessMeansUnwound, NullRow, cursor, stacks

(* A push that extends a full array after a short packet. *)
LEMMA ForgetsStep ==
  ASSUME IInv, pc = "dispatch", failure # "stale", NEW inUse, ForgetsError(inUse),
         sig.event = "CALL" \/ (sig.event = "AFTER_JUMP" /\ OPTION_sm_trace)
  PROVE  IInv'
<1>1. Shape'
  BY QuietShape DEF IInv, ForgetsError, Regular
<1>2. QED
  BY <1>1 DEF IInv, TypeOK, Control, SigMatchesState, Endings, FailedReadEndsRun,
     ExitNeverInconsistent, SuccessMeansUnwound, ForgetsError, cursor, stacks

(* Of a jump the trace may push a block: the saved blocks below it stay.   *)
LEMMA AfterJumpStep ==
  ASSUME IInv, CFI_AFTER_JUMP
  PROVE  IInv'
<1>0. pc = "dispatch" /\ sig.event = "AFTER_JUMP"
  BY DEF CFI_AFTER_JUMP, SigIs
<1>1. CASE Refuse(4)
  BY <1>0, <1>1, RefuseStep
<1>2. CASE state = "ExpectJump" /\ NullRow
  <2>1. failure # "stale"
    BY <1>0, <1>2 DEF IInv, TypeOK, Control, SigMatchesState, StateAfter
  <2>2. QED
    BY <1>0, <1>2, <2>1, NullRowStep
<1>2a. CASE state = "ExpectJump" /\ PassesTopblock /\ ForgetsError(blocks # <<>>)
  <2>1. failure # "stale"
    BY <1>0, <1>2a DEF IInv, TypeOK, Control, SigMatchesState, StateAfter
  <2>2. QED
    BY <1>0, <1>2a, <2>1, ForgetsStep DEF PassesTopblock
<1>3. CASE /\ state = "ExpectJump" /\ FromCurrent
           /\ ~(sig.block >= modules[current_module].functions[current_function].nb_blocks)
           /\ \/ blocks' = PUSH(blocks, topblock) /\ topblock' = sig.block
              \/ UNCHANGED <<blocks, topblock>>
           /\ curblock' = sig.block
           /\ Accept("InFunction")
           /\ UNCHANGED <<current_module, current_function, calls>>
           /\ ~OPTION_sm_trace => UNCHANGED blocks
  <2>1. failure # "stale"
    BY <1>0, <1>3 DEF IInv, TypeOK, Control, SigMatchesState, StateAfter
  <2>2. /\ blocks \in Seq(Nat) /\ topblock \in Nat /\ sig.block \in Nat
        /\ blocks' = Append(blocks, topblock) \/ blocks' = blocks
        /\ topblock' \in {topblock, sig.block}
    BY <1>3, RunAssumption DEF IInv, TypeOK, PUSH
  <2>3. /\ blocks' \in Seq(Nat) /\ Len(blocks) <= Len(blocks')
        /\ \A j \in 1 .. Len(blocks) : blocks'[j] = blocks[j]
    <3>1. CASE blocks' = Append(blocks, topblock)
      BY <2>2, <3>1, PushLemma
    <3>2. CASE blocks' = blocks
      BY <2>2, <3>2
    <3>3. QED
      BY <2>2, <3>1, <3>2
  <2>4. IsPlace(current_module, current_function, sig.block)
    <3>1. current_module \in ModuleIds /\ current_function \in FunctionIds(current_module)
      BY <1>3 DEF IInv, Shape, PlacesExist, IsPlace
    <3>2. modules[current_module].functions[current_function].nb_blocks \in Nat
      BY <3>1, TablesAssumption DEF TablesSound
    <3>3. QED
      BY <1>3, <2>2, <3>1, <3>2 DEF IsPlace, BlockIds
  <2>5. TypeOK'
    BY <1>0, <1>3, <2>2, <2>3 DEF IInv, TypeOK, States, Accept
  <2>6. StackLayout'
    <3>1. Len(blocks) \in Nat /\ Len(blocks') \in Nat /\ calls' = calls
      BY <1>3, <2>2, <2>3
    <3>2. ASSUME NEW i \in 1 .. Len(calls)
          PROVE  calls[i].blocks_sp \in SavedWidth .. Len(blocks')
      BY <2>3, <3>1, <3>2, WidthLemma DEF IInv, Shape, StackLayout
    <3>3. QED
      BY <3>1, <3>2 DEF IInv, Shape, StackLayout, SavedWidth
  <2>6a. OneBlockPerCall'
    BY <1>3 DEF IInv, Shape, OneBlockPerCall
  <2>7. PlacesExist'
    <3>1. \A i \in 1 .. Len(calls) :
            /\ blocks'[calls[i].blocks_sp] = blocks[calls[i].blocks_sp]
            /\ OPTION_sm_trace =>
                 blocks'[calls[i].blocks_sp - 1] = blocks[calls[i].blocks_sp - 1]
      BY <2>3, SavedInside DEF IInv, Shape
    <3>2. calls' = calls /\ current_module' = current_module
          /\ current_function' = current_function /\ curblock' = sig.block
          /\ topblock' \in {topblock, sig.block} /\ state # "Ready"
      BY <1>3, <2>2
    <3>3. QED
      BY <2>4, <3>1, <3>2 DEF IInv, Shape, PlacesExist
  <2>8. CallersHaveRows' /\ EntryAtBottom'
    BY <1>0, <1>3 DEF IInv, Shape, CallersHaveRows, EntryAtBottom, Regular, Accept
  <2>9. Control' /\ Endings'
    BY <1>0, <1>3, <2>1 DEF IInv, TypeOK, States, Control, SigMatchesState, StateAfter,
       Endings, FailedReadEndsRun, ExitNeverInconsistent, SuccessMeansUnwound, Accept
  <2>10. QED
    BY <2>5, <2>6, <2>6a, <2>7, <2>8, <2>9 DEF IInv, Shape
<1>4. QED
  BY <1>1, <1>2, <1>2a, <1>3 DEF CFI_AFTER_JUMP, PassesTopblock

LEMMA EnterStep ==
  ASSUME IInv, CFI_ENTER
  PROVE  IInv'
<1>0. pc = "dispatch" /\ sig.event = "ENTER"
  BY DEF CFI_ENTER, SigIs
<1>1. CASE Refuse(4) \/ (state = "Ready" /\ (Refuse(6) \/ Refuse(7)))
  BY <1>0, <1>1, RefuseStep
<1>2. CASE /\ state = "ExpectCall"
           /\ Accept("InFunction")
           /\ UNCHANGED <<cursor, stacks>>
  <2>1. failure # "stale"
    BY <1>0, <1>2 DEF IInv, TypeOK, Control, SigMatchesState, StateAfter
  <2>2. Shape'
    BY <1>2 DEF IInv, Shape, StackLayout, OneBlockPerCall, PlacesExist,
       CallersHaveRows, EntryAtBottom, Regular, Accept, cursor, stacks
  <2>3. TypeOK' /\ Control' /\ Endings'
    BY <1>0, <1>2, <2>1 DEF IInv, TypeOK, States, Control, SigMatchesState, StateAfter,
       Endings, FailedReadEndsRun, ExitNeverInconsistent, SuccessMeansUnwound,
       Accept, cursor, stacks
  <2>4. QED
    BY <2>2, <2>3 DEF IInv
<1>3. CASE /\ state = "Ready"
           /\ ~(sig.module >= nb_modules)
           /\ ~(sig.function >= modules[sig.module].nb_functions)
           /\ FUNCTION_IS_ENTRYPOINT(sig.module, sig.function)
           /\ curblock' = FUNCTION_ENTRY_BLOCK_ID
           /\ topblock' = FUNCTION_ENTRY_BLOCK_ID
           /\ current_module' = sig.module
           /\ current_function' = sig.function
           /\ Accept("InFunction")
           /\ UNCHANGED stacks
  <2>1. calls = <<>> /\ blocks = <<>> /\ calls' = <<>> /\ blocks' = <<>>
        /\ sig.module \in Nat /\ sig.function \in Nat
    BY <1>0, <1>3, RunAssumption DEF IInv, TypeOK, Control, stacks
  <2>2. IsPlace(sig.module, sig.function, FUNCTION_ENTRY_BLOCK_ID)
    BY <1>3, <2>1, TablesAssumption DEF TablesSound, IsPlace, ModuleIds, FunctionIds
  <2>3. Shape'
    BY <1>3, <2>1, <2>2 DEF Shape, StackLayout, OneBlockPerCall, PlacesExist,
       CallersHaveRows, EntryAtBottom, Regular, Accept
  <2>4. TypeOK'
    BY <1>0, <1>3, <2>1 DEF IInv, TypeOK, States, Accept, FUNCTION_ENTRY_BLOCK_ID
  <2>5. Control' /\ Endings'
    BY <1>0, <1>3, <2>1 DEF IInv, Control, SigMatchesState, StateAfter,
       Endings, FailedReadEndsRun, ExitNeverInconsistent, SuccessMeansUnwound, Accept
  <2>6. QED
    BY <2>3, <2>4, <2>5 DEF IInv
<1>4. QED
  BY <1>1, <1>2, <1>3 DEF CFI_ENTER, EnterReady

(* A call that the tables allow leads to a place. *)
LEMMA CallTarget ==
  ASSUME IInv, state = "InFunction",
         ~(sig.function >= modules[current_module].nb_functions)
  PROVE  IsPlace(TargetModule(current_module, sig.function),
                 TargetFunction(current_module, sig.function), FUNCTION_ENTRY_BLOCK_ID)
<1>1. current_module \in ModuleIds /\ sig.function \in Nat
  BY RunAssumption DEF IInv, TypeOK, Shape, PlacesExist, IsPlace
<1>2. sig.function \in FunctionIds(current_module)
  BY <1>1, TablesAssumption DEF TablesSound, FunctionIds
<1>3. QED
  BY <1>1, <1>2, TargetExists DEF IsPlace

(* A call saves the caller's block on top of everything saved before. *)
LEMMA CallStep ==
  ASSUME IInv, CFI_CALL
  PROVE  IInv'
<1>0. pc = "dispatch" /\ sig.event = "CALL"
  BY DEF CFI_CALL, SigIs
<1>1. CASE Refuse(4)
  BY <1>0, <1>1, RefuseStep
<1>2. CASE state = "InFunction" /\ NullRow
  <2>1. failure # "stale"
    BY <1>0, <1>2 DEF IInv, TypeOK, Control, SigMatchesState, StateAfter
  <2>2. QED
    BY <1>0, <1>2, <2>1, NullRowStep
<1>2a. CASE state = "InFunction" /\ ForgetsError(blocks # <<>> \/ calls # <<>>)
  <2>1. failure # "stale"
    BY <1>0, <1>2a DEF IInv, TypeOK, Control, SigMatchesState, StateAfter
  <2>2. QED
    BY <1>0, <1>2a, <2>1, ForgetsStep
<1>2b. CASE /\ state = "InFunction" /\ error # 0
            /\ ~(sig.function >= modules[current_module].nb_functions)
            /\ blocks' = SaveBlocks
            /\ calls' = PUSH(calls, [module |-> current_module,
                                     function |-> current_function,
                                     blocks_sp |-> Len(blocks')])
            /\ curblock' = FUNCTION_ENTRY_BLOCK_ID
            /\ topblock' = FUNCTION_ENTRY_BLOCK_ID
            /\ current_module' = TargetModule(current_module, sig.function)
            /\ current_function' = TargetFunction(current_module, sig.function)
            /\ Accept("ExpectCall")
  <2>1. failure # "stale"
    BY <1>0, <1>2b DEF IInv, TypeOK, Control, SigMatchesState, StateAfter
  <2>2. blocks' = blocks /\ calls' = calls
    BY <1>2b DEF SaveBlocks, PUSH
  <2>3. IsPlace(current_module', current_function', FUNCTION_ENTRY_BLOCK_ID)
    BY <1>2b, CallTarget
  <2>4. TypeOK'
    BY <1>0, <1>2b, <2>2, <2>3, PlaceTypes
       DEF IInv, TypeOK, States, Accept, FUNCTION_ENTRY_BLOCK_ID
  <2>5. StackLayout' /\ OneBlockPerCall' /\ CallersHaveRows'
    BY <1>2b, <2>2 DEF IInv, Shape, StackLayout, OneBlockPerCall, CallersHaveRows, Accept
  <2>6. PlacesExist'
    BY <1>2b, <2>2, <2>3 DEF IInv, Shape, PlacesExist
  <2>7. EntryAtBottom'
    BY <1>2b DEF EntryAtBottom, Regular, Accept
  <2>8. Control' /\ Endings'
    BY <1>0, <1>2b, <2>1, <2>2 DEF IInv, TypeOK, States, Control, SigMatchesState,
       StateAfter, Endings, FailedReadEndsRun, ExitNeverInconsistent,
       SuccessMeansUnwound, Accept
  <2>9. QED
    BY <2>4, <2>5, <2>6, <2>7, <2>8 DEF IInv, Shape
<1>3. CASE /\ state = "InFunction" /\ error = 0
           /\ ~(sig.function >= modules[current_module].nb_functions)
           /\ CallRow(current_module, current_function) # NULL
           /\ blocks' = SaveBlocks
           /\ calls' = PUSH(calls, [module |-> current_module,
                                    function |-> current_function,
                                    blocks_sp |-> Len(blocks')])
           /\ curblock' = FUNCTION_ENTRY_BLOCK_ID
           /\ topblock' = FUNCTION_ENTRY_BLOCK_ID
           /\ current_module' = TargetModule(current_module, sig.function)
           /\ current_function' = TargetFunction(current_module, sig.function)
           /\ Accept("ExpectCall")
  <2> DEFINE ncall == [module |-> current_module, function |-> current_function,
                       blocks_sp |-> Len(blocks')]
  <2>1. error = 0 /\ failure = "none"
    BY <1>0, <1>3 DEF IInv, Control
  <2>2. /\ blocks \in Seq(Nat) /\ Len(blocks) \in Nat
        /\ topblock \in Nat /\ curblock \in Nat
        /\ calls \in Seq(call_stack_element) /\ Len(calls) \in Nat
        /\ sig.function \in Nat
    BY RunAssumption DEF IInv, TypeOK
  <2>3. /\ blocks' \in Seq(Nat)
        /\ Len(blocks') = Len(blocks) + SavedWidth
        /\ \A j \in 1 .. Len(blocks) : blocks'[j] = blocks[j]
        /\ blocks'[Len(blocks')] = curblock
        /\ OPTION_sm_trace => blocks'[Len(blocks') - 1] = topblock
    <3>1. CASE OPTION_sm_trace
      <4>1. blocks' = Append(Append(blocks, topblock), curblock)
        BY <1>3, <2>1, <3>1 DEF SaveBlocks, PUSH
      <4>2. QED
        BY <2>2, <3>1, <4>1, PushLemma, WidthLemma
    <3>2. CASE ~OPTION_sm_trace
      <4>1. blocks' = Append(blocks, curblock)
        BY <1>3, <2>1, <3>2 DEF SaveBlocks, PUSH
      <4>2. QED
        BY <2>2, <3>2, <4>1, PushLemma, WidthLemma
    <3>3. QED
      BY <3>1, <3>2
  <2>4. IsPlace(current_module, current_function, curblock)
        /\ (OPTION_sm_trace => IsPlace(current_module, current_function, topblock))
    BY <1>3 DEF IInv, Shape, PlacesExist
  <2>5. ncall \in call_stack_element
    BY <2>2, <2>3, <2>4, PlaceTypes, WidthLemma DEF call_stack_element
  <2>6. /\ calls' = Append(calls, ncall)
        /\ calls' \in Seq(call_stack_element)
        /\ Len(calls') = Len(calls) + 1
        /\ calls'[Len(calls) + 1] = ncall
        /\ \A j \in 1 .. Len(calls) : calls'[j] = calls[j]
    BY <1>3, <2>1, <2>2, <2>5, PushLemma DEF PUSH
  <2>7. IsPlace(current_module', current_function', FUNCTION_ENTRY_BLOCK_ID)
    BY <1>3, CallTarget
  <2>8. TypeOK'
    BY <1>0, <1>3, <2>3, <2>6, <2>7, PlaceTypes
       DEF IInv, TypeOK, States, Accept, FUNCTION_ENTRY_BLOCK_ID
  <2>9. StackLayout'
    <3>1. ASSUME NEW i \in 1 .. Len(calls')
          PROVE  calls'[i].blocks_sp \in SavedWidth .. Len(blocks')
      <4>1. CASE i \in 1 .. Len(calls)
        BY <2>2, <2>3, <2>6, <4>1, WidthLemma DEF IInv, Shape, StackLayout
      <4>2. CASE i = Len(calls) + 1
        BY <2>2, <2>3, <2>6, <4>2, WidthLemma
      <4>3. QED
        BY <2>2, <2>6, <4>1, <4>2
    <3>2. ASSUME NEW i \in 1 .. Len(calls'), NEW j \in 1 .. Len(calls'), i < j
          PROVE  calls'[i].blocks_sp + SavedWidth <= calls'[j].blocks_sp
      <4>1. i \in 1 .. Len(calls) /\ calls'[i] = calls[i]
        BY <2>2, <2>6, <3>2
      <4>2. CASE j \in 1 .. Len(calls)
        BY <2>6, <3>2, <4>1, <4>2 DEF IInv, Shape, StackLayout
      <4>3. CASE j = Len(calls) + 1
        BY <2>2, <2>3, <2>6, <4>1, <4>3, SavedInside, WidthLemma DEF IInv, Shape
      <4>4. QED
        BY <2>2, <2>6, <4>2, <4>3
    <3>3. QED
      BY <3>1, <3>2 DEF StackLayout, SavedWidth
  <2>10. OneBlockPerCall'
    BY <2>2, <2>3, <2>6, WidthLemma DEF IInv, Shape, OneBlockPerCall
  <2>11. PlacesExist'
    <3>1. ASSUME NEW i \in 1 .. Len(calls')
          PROVE  /\ IsPlace(calls'[i].module, calls'[i].function,
                            blocks'[calls'[i].blocks_sp])
                 /\ OPTION_sm_trace => IsPlace(calls'[i].module, calls'[i].function,
                                               blocks'[calls'[i].blocks_sp - 1])
      <4>1. CASE i \in 1 .. Len(calls)
        BY <2>3, <2>6, <4>1, SavedInside DEF IInv, Shape, PlacesExist
      <4>2. CASE i = Len(calls) + 1
        BY <2>3, <2>4, <2>6, <4>2
      <4>3. QED
        BY <2>2, <2>6, <4>1, <4>2
    <3>2. QED
      BY <1>3, <2>7, <3>1 DEF PlacesExist
  <2>12. CallersHaveRows'
    <3>1. ASSUME NEW i \in 1 .. Len(calls')
          PROVE  CallRow(calls'[i].module, calls'[i].function) # NULL
      <4>1. CASE i \in 1 .. Len(calls)
        BY <2>6, <4>1 DEF IInv, Shape, CallersHaveRows
      <4>2. CASE i = Len(calls) + 1
        BY <1>3, <2>6, <4>2
      <4>3. QED
        BY <2>2, <2>6, <4>1, <4>2
    <3>2. QED
      BY <1>3, <3>1 DEF CallersHaveRows, Accept, CallRow
  <2>13. EntryAtBottom'
    <3>1. calls' # <<>>
      BY <2>2, <2>6
    <3>2. CASE calls = <<>>
      BY <1>0, <1>3, <2>2, <2>6, <3>1, <3>2
         DEF IInv, Shape, EntryAtBottom, Regular, FUNCTION_IS_ENTRYPOINT
    <3>3. CASE calls # <<>>
      <4>1. 1 \in 1 .. Len(calls)
        BY <2>2, <3>3
      <4>2. QED
        BY <1>0, <1>3, <2>6, <3>1, <3>3, <4>1
           DEF IInv, Shape, EntryAtBottom, Regular, FUNCTION_IS_ENTRYPOINT
    <3>4. QED
      BY <3>2, <3>3
  <2>14. Control' /\ Endings'
    <3>1. calls' # <<>>
      BY <2>2, <2>6
    <3>2. QED
      BY <1>0, <1>3, <2>1, <3>1 DEF IInv, TypeOK, States, Control, SigMatchesState, StateAfter,
         Endings, FailedReadEndsRun, ExitNeverInconsistent, SuccessMeansUnwound, Accept
  <2>15. QED
    BY <2>8, <2>9, <2>10, <2>11, <2>12, <2>13, <2>14 DEF IInv, Shape
<1>4. QED
  BY <1>1, <1>2, <1>2a, <1>2b, <1>3 DEF CFI_CALL, BLOCK_STACK_TOP_PTR

(* The end of the entry point. *)
LEMMA ExitEntryPointStep ==
  ASSUME IInv, pc = "dispatch", sig.event = "EXIT", state = "InFunction",
         calls = <<>>, ExitEntryPoint
  PROVE  IInv'
<1>1. FUNCTION_IS_ENTRYPOINT(current_module, current_function)
  BY DEF IInv, Shape, EntryAtBottom, Regular
<1>2. failure # "stale"
  BY DEF IInv, TypeOK, Control, SigMatchesState, StateAfter
<1>3. /\ state' = "Ready" /\ pc' = "lastanswer"
      /\ UNCHANGED <<cursor, stacks, sig, error, failure>>
  BY <1>1 DEF ExitEntryPoint
<1>4. Shape'
  BY <1>3 DEF IInv, Shape, StackLayout, OneBlockPerCall, PlacesExist,
     CallersHaveRows, EntryAtBottom, Regular, cursor, stacks
<1>5. TypeOK' /\ Control' /\ Endings'
  BY <1>2, <1>3 DEF IInv, TypeOK, States, Control, SigMatchesState,
     Endings, FailedReadEndsRun, ExitNeverInconsistent, SuccessMeansUnwound,
     cursor, stacks
<1>6. QED
  BY <1>4, <1>5 DEF IInv

(* What a return to the caller does to the stacks and the registers, in    *)
(* terms of the entries that were there before.                            *)
LEMMA ExitFacts ==
  ASSUME IInv, calls # <<>>, ExitToCaller
  PROVE  LET top == Len(calls)
             sp == calls[top].blocks_sp
         IN /\ top \in Nat \ {0} /\ sp \in SavedWidth .. Len(blocks)
            /\ calls' \in Seq(call_stack_element) /\ Len(calls') = top - 1
            /\ \A i \in 1 .. top - 1 : calls'[i] = calls[i]
            /\ blocks' \in Seq(Nat) /\ Len(blocks') = sp - SavedWidth
            /\ \A j \in 1 .. sp - SavedWidth : blocks'[j] = blocks[j]
            /\ current_module' = calls[top].module
            /\ current_function' = calls[top].function
            /\ curblock' = blocks[sp]
            /\ topblock' = IF OPTION_sm_trace THEN blocks[sp - 1] ELSE topblock
            /\ Accept("ExpectReturn")
<1> DEFINE top == Len(calls)
           sp == calls[top].blocks_sp
           saved == SubSeq(blocks, 1, sp)
<1>1. top \in Nat \ {0} /\ calls \in Seq(call_stack_element) /\ blocks \in Seq(Nat)
      /\ Len(blocks) \in Nat
  BY DEF IInv, TypeOK
<1>2. sp \in SavedWidth .. Len(blocks) /\ sp \in Nat \ {0}
  BY <1>1, WidthLemma DEF IInv, Shape, StackLayout
<1>3. /\ saved \in Seq(Nat) /\ Len(saved) = sp
      /\ \A j \in 1 .. sp : saved[j] = blocks[j]
  BY <1>1, <1>2, PrefixLemma
<1>4. saved # <<>>
  BY <1>2, <1>3
<1>5. Peek(calls, 0) = calls[top]
  BY <1>1 DEF Peek
<1> HIDE DEF saved, sp, top
<1>6. /\ calls' = SubSeq(calls, 1, top - 1)
      /\ blocks' = SubSeq(saved, 1, sp - SavedWidth)
      /\ current_module' = calls[top].module
      /\ current_function' = calls[top].function
      /\ curblock' = saved[sp]
      /\ topblock' = IF OPTION_sm_trace THEN saved[sp - 1] ELSE topblock
      /\ Accept("ExpectReturn")
  <2>1. BLOCK_STACK_RESTORE_TOP(blocks, Peek(calls, 0).blocks_sp) = saved
    BY <1>5 DEF BLOCK_STACK_RESTORE_TOP, saved, sp
  <2>2. /\ calls' = Drop(calls, 1)
        /\ blocks' = Drop(saved, SavedWidth)
        /\ current_module' = calls[top].module
        /\ current_function' = calls[top].function
        /\ curblock' = Peek(saved, 0)
        /\ topblock' = IF OPTION_sm_trace THEN Peek(saved, 1) ELSE topblock
        /\ Accept("ExpectReturn")
    BY <1>4, <1>5, <2>1 DEF ExitToCaller, RestoreCaller
  <2>3. /\ Drop(calls, 1) = SubSeq(calls, 1, top - 1)
        /\ Drop(saved, SavedWidth) = SubSeq(saved, 1, sp - SavedWidth)
        /\ Peek(saved, 1) = saved[sp - 1]
    BY <1>3 DEF Drop, Peek, top
  <2>4. Peek(saved, 0) = saved[sp]
    BY <1>2, <1>3 DEF Peek
  <2>5. QED
    BY <2>2, <2>3, <2>4
<1>7. calls' \in Seq(call_stack_element) /\ Len(calls') = top - 1
      /\ \A i \in 1 .. top - 1 : calls'[i] = calls[i]
  <2>1. top - 1 \in 0 .. Len(calls)
    BY <1>1 DEF top
  <2>2. QED
    BY <1>1, <1>6, <2>1, PrefixLemma
<1>8. blocks' \in Seq(Nat) /\ Len(blocks') = sp - SavedWidth
      /\ \A j \in 1 .. sp - SavedWidth : blocks'[j] = blocks[j]
  <2>1. sp - SavedWidth \in 0 .. Len(saved)
    BY <1>2, <1>3, WidthLemma
  <2> DEFINE k == sp - SavedWidth
  <2>2. k \in 0 .. Len(saved) /\ blocks' = SubSeq(saved, 1, k)
    BY <1>6, <2>1
  <2>3. \A j \in 1 .. k : j \in 1 .. sp
    BY <1>2, WidthLemma
  <2> HIDE DEF k
  <2>4. /\ blocks' \in Seq(Nat) /\ Len(blocks') = k
        /\ \A j \in 1 .. k : blocks'[j] = saved[j]
    BY <1>3, <2>2, PrefixLemma
  <2>5. \A j \in 1 .. k : blocks'[j] = blocks[j]
    BY <1>3, <2>3, <2>4
  <2>6. QED
    BY <2>4, <2>5 DEF k
<1>9. saved[sp] = blocks[sp] /\ (OPTION_sm_trace => saved[sp - 1] = blocks[sp - 1])
  BY <1>2, <1>3, WidthLemma
<1>10. QED
  BY <1>1, <1>2, <1>6, <1>7, <1>8, <1>9 DEF sp, top

LEMMA ExitToCallerStep ==
  ASSUME IInv, pc = "dispatch", sig.event = "EXIT", state = "InFunction",
         calls # <<>>, ExitToCaller
  PROVE  IInv'
<1> DEFINE top == Len(calls)
           sp == calls[top].blocks_sp
<1>1. /\ top \in Nat \ {0} /\ sp \in SavedWidth .. Len(blocks)
      /\ calls' \in Seq(call_stack_element) /\ Len(calls') = top - 1
      /\ \A i \in 1 .. top - 1 : calls'[i] = calls[i]
      /\ blocks' \in Seq(Nat) /\ Len(blocks') = sp - SavedWidth
      /\ \A j \in 1 .. sp - SavedWidth : blocks'[j] = blocks[j]
      /\ current_module' = calls[top].module
      /\ current_function' = calls[top].function
      /\ curblock' = blocks[sp]
      /\ topblock' = IF OPTION_sm_trace THEN blocks[sp - 1] ELSE topblock
      /\ Accept("ExpectReturn")
  BY ExitFacts
<1>2. failure # "stale"
  BY DEF IInv, TypeOK, Control, SigMatchesState, StateAfter
<1>3. top \in 1 .. Len(calls) /\ Len(blocks) \in Nat
  BY <1>1 DEF IInv, TypeOK
<1>4. /\ IsPlace(current_module', current_function', curblock')
      /\ OPTION_sm_trace => IsPlace(current_module', current_function', topblock')
  BY <1>1, <1>3 DEF IInv, Shape, PlacesExist
<1>5. TypeOK'
  <2>1. topblock' \in Nat
    BY <1>1, <1>4, PlaceTypes DEF IInv, TypeOK
  <2>2. QED
    BY <1>1, <1>4, <2>1, PlaceTypes DEF IInv, TypeOK, States, Accept
<1>6. ASSUME NEW i \in 1 .. Len(calls')
      PROVE  /\ i \in 1 .. Len(calls) /\ calls'[i] = calls[i]
             /\ calls[i].blocks_sp \in SavedWidth .. sp - SavedWidth
  <2>1. i \in 1 .. Len(calls) /\ i < top /\ calls'[i] = calls[i]
    BY <1>1
  <2>2. calls[i].blocks_sp + SavedWidth <= sp
        /\ calls[i].blocks_sp \in SavedWidth .. Len(blocks)
    BY <1>3, <2>1 DEF IInv, Shape, StackLayout
  <2> DEFINE b == calls[i].blocks_sp
  <2>3. b \in SavedWidth .. Len(blocks) /\ b + SavedWidth <= sp
        /\ sp \in SavedWidth .. Len(blocks)
    BY <1>1, <2>2
  <2> HIDE DEF b, sp
  <2>4. b \in SavedWidth .. sp - SavedWidth
    BY <1>3, <2>3, WidthLemma
  <2>5. QED
    BY <2>1, <2>4 DEF b
<1>7. StackLayout'
  <2>1. ASSUME NEW i \in 1 .. Len(calls')
        PROVE  calls'[i].blocks_sp \in SavedWidth .. Len(blocks')
    BY <1>1, <1>6
  <2>2. ASSUME NEW i \in 1 .. Len(calls'), NEW j \in 1 .. Len(calls'), i < j
        PROVE  calls'[i].blocks_sp + SavedWidth <= calls'[j].blocks_sp
    BY <1>6, <2>2 DEF IInv, Shape, StackLayout
  <2>3. QED
    BY <2>1, <2>2 DEF StackLayout, SavedWidth
<1>8. OneBlockPerCall'
  BY <1>1, <1>3, <1>6, WidthLemma DEF IInv, Shape, OneBlockPerCall
<1>9. PlacesExist'
  <2>1. ASSUME NEW i \in 1 .. Len(calls')
        PROVE  /\ IsPlace(calls'[i].module, calls'[i].function,
                          blocks'[calls'[i].blocks_sp])
               /\ OPTION_sm_trace => IsPlace(calls'[i].module, calls'[i].function,
                                             blocks'[calls'[i].blocks_sp - 1])
    <3>1. /\ blocks'[calls'[i].blocks_sp] = blocks[calls[i].blocks_sp]
          /\ OPTION_sm_trace =>
               blocks'[calls'[i].blocks_sp - 1] = blocks[calls[i].blocks_sp - 1]
      <4>1. /\ calls[i].blocks_sp \in 1 .. sp - SavedWidth
            /\ OPTION_sm_trace => calls[i].blocks_sp - 1 \in 1 .. sp - SavedWidth
        <5>1. SavedWidth \in Nat /\ sp \in Nat
          BY <1>1, <1>3, WidthLemma
        <5>2. calls[i].blocks_sp \in SavedWidth .. sp - SavedWidth
          BY <1>6
        <5> HIDE DEF sp
        <5>3. QED
          BY <5>1, <5>2, WidthLemma
      <4>2. QED
        BY <1>1, <1>6, <4>1
    <3>2. QED
      BY <1>6, <3>1 DEF IInv, Shape, PlacesExist
  <2>2. QED
    BY <1>4, <2>1 DEF PlacesExist
<1>10. CallersHaveRows'
  BY <1>1, <1>3, <1>6 DEF IInv, Shape, CallersHaveRows, CallRow
<1>11. EntryAtBottom'
  <2>1. CASE calls' = <<>>
    <3>1. top = 1
      BY <1>1, <2>1
    <3>2. QED
      BY <1>1, <2>1, <3>1 DEF IInv, Shape, EntryAtBottom, Regular, FUNCTION_IS_ENTRYPOINT
  <2>2. CASE calls' # <<>>
    <3>1. 1 \in 1 .. Len(calls')
      BY <1>1, <2>2
    <3>2. calls'[1] = calls[1]
      BY <1>6, <3>1
    <3>3. QED
      BY <2>2, <3>2 DEF IInv, Shape, EntryAtBottom, Regular, FUNCTION_IS_ENTRYPOINT
  <2>3. QED
    BY <2>1, <2>2
<1>12. Control' /\ Endings'
  BY <1>1, <1>2 DEF IInv, TypeOK, States, Control, SigMatchesState, StateAfter,
     Endings, FailedReadEndsRun, ExitNeverInconsistent, SuccessMeansUnwound, Accept
<1>13. QED
  BY <1>5, <1>7, <1>8, <1>9, <1>10, <1>11, <1>12 DEF IInv, Shape

LEMMA ExitStep ==
  ASSUME IInv, CFI_EXIT
  PROVE  IInv'
  BY RefuseStep, ExitEntryPointStep, ExitToCallerStep DEF CFI_EXIT, SigIs
-----------------------------------------------------------------------------
LEMMA NextInv ==
  ASSUME IInv, [Next]_vars
  PROVE  IInv'
<1>1. CASE Dispatch
  <2>1. CASE MalformedSignal
    BY <2>1, RefuseStep DEF MalformedSignal
  <2>2. QED
    BY <1>1, <2>1, BeforeJumpStep, AfterJumpStep, CallStep, EnterStep, ExitStep,
       ReturnedStep DEF Dispatch
<1>2. CASE UNCHANGED vars
  <2>1. Shape'
    BY <1>2, QuietShape DEF IInv, vars, Regular
  <2>2. QED
    BY <1>2, <2>1 DEF IInv, TypeOK, Control, SigMatchesState, Endings,
       FailedReadEndsRun, ExitNeverInconsistent, SuccessMeansUnwound,
       vars, cursor, stacks
<1>3. QED
  BY <1>1, <1>2, LoopStep DEF Next

(* The inductive invariant of monitor_run. *)
THEOREM RunInvariant == Spec => []IInv
<1>1. IInv /\ [Next]_vars => IInv'
  BY NextInv
<1>2. QED
  BY InitInv, <1>1, PTL DEF Spec

(* The registers, the stacks and the buffer always hold what the C types   *)
(* of monitor_run's variables promise, whatever the client sends.          *)
THEOREM TypeTheorem == Spec => []TypeOK
  BY RunInvariant, PTL DEF IInv

(* The block stack pointers saved by CFI_CALL are never dangling: CFI_EXIT *)
(* restores a pointer inside the stack and pops live entries.              *)
THEOREM LayoutTheorem == Spec => []StackLayout
  BY RunInvariant, PTL DEF IInv, Shape

(* The handlers index the tables with identifiers the tables have. *)
THEOREM PlacesTheorem == Spec => []PlacesExist
  BY RunInvariant, PTL DEF IInv, Shape

(* CFI_RETURNED never dereferences a row that was not allocated. *)
THEOREM RowsTheorem == Spec => []CallersHaveRows
  BY RunInvariant, PTL DEF IInv, Shape

(* A failed read ends the run with an error: a stale signal is refused (but *)
(* for the first), a torn one gets at most one answer, unless a push that   *)
(* extends its array overwrites the error.                                  *)
THEOREM FailedReadTheorem == Spec => []FailedReadEndsRun
  BY RunInvariant, PTL DEF IInv, Endings

(* The two consistency checks of CFI_EXIT never fail. *)
THEOREM ExitTheorem == Spec => []ExitNeverInconsistent
  BY RunInvariant, PTL DEF IInv, Endings

(* A run that returns 0 has unwound all it pushed. *)
THEOREM UnwoundTheorem == Spec => []SuccessMeansUnwound
  BY RunInvariant, PTL DEF IInv, Endings
-----------------------------------------------------------------------------
(* monitor_run implements CFIPolicy, for every program: the initial state  *)
(* maps to the initial state, and every step to a step or a stutter.       *)
Frame == [module : Nat, function : Nat, block : Nat]

(* The run is under way: frames are active. *)
Active == pc \in {"wait", "dispatch", "answer"} /\ state # "Ready" /\ error = 0

(* Sequences of frames that agree everywhere are equal. *)
LEMMA SameFrames ==
  ASSUME NEW s \in Seq(Frame), NEW t \in Seq(Frame),
         Len(s) = Len(t), \A i \in 1 .. Len(s) : s[i] = t[i]
  PROVE  s = t
  OBVIOUS

LEMMA SameTables ==
  /\ Policy!ModuleIds = ModuleIds
  /\ \A m : Policy!FunctionIds(m) = FunctionIds(m)
  /\ \A m, f : Policy!BlockIds(m, f) = BlockIds(m, f)
  /\ \A m, f : Policy!CallRow(m, f) = CallRow(m, f)
  /\ \A m, f, b : Policy!FlowRow(m, f, b) = FlowRow(m, f, b)
  /\ \A m, g : Policy!TargetModule(m, g) = TargetModule(m, g)
  /\ \A m, g : Policy!TargetFunction(m, g) = TargetFunction(m, g)
  /\ Policy!FUNCTION_ENTRY_BLOCK_ID = FUNCTION_ENTRY_BLOCK_ID
  BY DEF Policy!ModuleIds, ModuleIds, Policy!FunctionIds, FunctionIds,
         Policy!BlockIds, BlockIds, Policy!CallRow, CallRow, Policy!FlowRow, FlowRow,
         Policy!TargetModule, TargetModule, Policy!TargetFunction, TargetFunction,
         Policy!FUNCTION_IS_EXTERNAL, FUNCTION_IS_EXTERNAL,
         Policy!FUNCTION_ENTRY_BLOCK_ID, FUNCTION_ENTRY_BLOCK_ID

(* The abstract state while the run is under way. *)
FramesShown ==
  IInv /\ Active =>
    /\ phaseBar = state
    /\ Len(calls) \in Nat
    /\ framesBar \in Seq(Frame)
    /\ Len(framesBar) = Len(calls) + 1
    /\ \A i \in 1 .. Len(calls) : framesBar[i] = Suspended(i)
    /\ framesBar[Len(calls) + 1] = Current
    /\ framesBar # <<>>
    /\ Policy!Top = Current

LEMMA ActiveFrames == FramesShown
<1> SUFFICES ASSUME IInv, Active
             PROVE  /\ phaseBar = state
                    /\ Len(calls) \in Nat
                    /\ framesBar \in Seq(Frame)
                    /\ Len(framesBar) = Len(calls) + 1
                    /\ \A i \in 1 .. Len(calls) : framesBar[i] = Suspended(i)
                    /\ framesBar[Len(calls) + 1] = Current
                    /\ framesBar # <<>>
                    /\ Policy!Top = Current
  BY DEF FramesShown
<1>1. Len(calls) \in Nat
  BY DEF IInv, TypeOK
<1>2. phaseBar = state /\ state \in States \ {"Ready"}
  BY DEF Active, phaseBar, IInv, TypeOK
<1>3. framesBar = [i \in 1 .. Len(calls) + 1 |->
                     IF i <= Len(calls) THEN Suspended(i) ELSE Current]
  BY <1>2 DEF framesBar, States
<1>4. Current \in Frame
  BY DEF IInv, TypeOK, Current, Frame
<1>5. ASSUME NEW i \in 1 .. Len(calls) PROVE Suspended(i) \in Frame
  <2>1. blocks[calls[i].blocks_sp] \in Nat
    BY SavedInside DEF IInv, Shape, TypeOK
  <2>2. QED
    BY <2>1, SavedInside DEF IInv, Shape, Suspended, Frame
<1>6. /\ framesBar \in Seq(Frame)
      /\ Len(framesBar) = Len(calls) + 1
  BY <1>1, <1>3, <1>4, <1>5
<1>7. /\ \A i \in 1 .. Len(calls) : framesBar[i] = Suspended(i)
      /\ framesBar[Len(calls) + 1] = Current
  BY <1>1, <1>3
<1>8. framesBar # <<>>
  BY <1>1, <1>6
<1>9. Policy!Top = Current
  BY <1>6, <1>7 DEF Policy!Top
<1>10. QED
  BY <1>1, <1>2, <1>6, <1>7, <1>8, <1>9

LEMMA ActiveFramesNext == FramesShown'
  BY ActiveFrames, PTL

(* Refusing, losing the client or running into a row that is not there:    *)
(* monitoring fails.                                                       *)
LEMMA FailStep ==
  ASSUME IInv, error = 0, pc # "segv", pc' = "segv" \/ error' # 0
  PROVE  Policy!Fail
<1>1. phaseBar # "Failed"
  BY DEF IInv, TypeOK, States, phaseBar
<1>2. phaseBar' = "Failed" /\ framesBar' = <<>>
  BY DEF phaseBar, framesBar
<1>3. QED
  BY <1>1, <1>2 DEF Policy!Fail

(* Nothing that happens after an error shows. *)
LEMMA AfterError ==
  ASSUME IInv, [Next]_vars, error # 0
  PROVE  UNCHANGED Policy!policyVars
<1>1. error' # 0
  <2>1. ASSUME NEW code \in {4, 5, 6, 7}, Refuse(code) PROVE error' # 0
    BY <2>1 DEF Refuse
  <2>2. ASSUME NEW next, Accept(next) PROVE error' # 0
    BY <2>2 DEF Accept
  <2>3. ASSUME NullRow \/ \E b \in BOOLEAN : ForgetsError(b) PROVE error' # 0
    BY <2>3 DEF NullRow, ForgetsError
  <2>4. CASE CFI_BEFORE_JUMP \/ CFI_RETURNED \/ MalformedSignal
    BY <2>1, <2>2, <2>3, <2>4 DEF CFI_BEFORE_JUMP, CFI_RETURNED, MalformedSignal
  <2>5. CASE CFI_AFTER_JUMP
    BY <2>1, <2>2, <2>3, <2>5 DEF CFI_AFTER_JUMP
  <2>6. CASE CFI_CALL
    BY <2>1, <2>2, <2>3, <2>6 DEF CFI_CALL
  <2>7. CASE CFI_ENTER
    BY <2>1, <2>2, <2>7 DEF CFI_ENTER, EnterReady
  <2>8. CASE CFI_EXIT
    <3>1. CASE ExitEntryPoint
      BY <2>1, <3>1 DEF ExitEntryPoint
    <3>2. CASE ExitToCaller
      BY <2>2, <3>2 DEF ExitToCaller
    <3>3. QED
      BY <2>1, <2>8, <3>1, <3>2 DEF CFI_EXIT
  <2>9. CASE UNCHANGED vars
    BY <2>9 DEF vars
  <2>10. CASE \/ AllocateStacks \/ SignalTimeout \/ ReadFails
              \/ \E s \in Signal : ReadSignal(s) \/ ShortRead(s)
              \/ WriteAnswer \/ WriteLastAnswer
    BY <2>10 DEF IInv, Control, AllocateStacks, SignalTimeout, ReadFails, ReadSignal,
                 ShortRead, WriteAnswer, WriteLastAnswer
  <2>11. QED
    BY <2>4, <2>5, <2>6, <2>7, <2>8, <2>9, <2>10 DEF Next, Dispatch
<1>2. QED
  BY <1>1 DEF phaseBar, framesBar, Policy!policyVars

(* Steps of the loop that leave registers, stacks and state alone do not   *)
(* show, as long as the run goes on.                                       *)
LEMMA QuietStep ==
  ASSUME UNCHANGED <<state, cursor, stacks>>, error = 0, error' = 0,
         pc \notin {"exit", "segv", "lastanswer"},
         pc' \notin {"exit", "segv", "lastanswer"}
  PROVE  UNCHANGED Policy!policyVars
<1>1. phaseBar' = phaseBar
  BY DEF phaseBar
<1>2. framesBar' = framesBar
  BY <1>1 DEF framesBar, Suspended, Current, cursor, stacks
<1>3. QED
  BY <1>1, <1>2 DEF Policy!policyVars

LEMMA LoopRefines ==
  ASSUME IInv, error = 0,
         \/ AllocateStacks \/ SignalTimeout \/ ReadFails
         \/ \E s \in Signal : ReadSignal(s) \/ ShortRead(s)
         \/ WriteAnswer \/ WriteLastAnswer
  PROVE  Policy!Fail \/ UNCHANGED Policy!policyVars
<1>1. CASE error' # 0
  BY <1>1, FailStep DEF AllocateStacks, SignalTimeout, ReadFails, ReadSignal, ShortRead,
     WriteAnswer, WriteLastAnswer
<1>2. CASE WriteLastAnswer /\ error' = 0
  BY <1>2 DEF WriteLastAnswer, phaseBar, framesBar, Policy!policyVars
<1>3. CASE ~WriteLastAnswer /\ error' = 0
  BY <1>3, QuietStep DEF AllocateStacks, SignalTimeout, ReadFails, ReadSignal, ShortRead,
     WriteAnswer
<1>4. QED
  BY <1>1, <1>2, <1>3

(* The handlers, one by one. *)
LEMMA BeforeJumpRefines ==
  ASSUME IInv, IInv', error = 0, CFI_BEFORE_JUMP
  PROVE  Policy!Fail \/ Policy!LeaveBlock
<1>1. CASE Refuse(4)
  BY <1>1, FailStep DEF CFI_BEFORE_JUMP, SigIs, Refuse
<1>2. CASE state = "InFunction" /\ Accept("ExpectJump") /\ UNCHANGED <<cursor, stacks>>
  <2>1. phaseBar = "InFunction" /\ phaseBar' = "ExpectJump"
    BY <1>2 DEF CFI_BEFORE_JUMP, SigIs, Accept, phaseBar
  <2>2. framesBar' = framesBar
    BY <1>2, <2>1 DEF framesBar, Suspended, Current, cursor, stacks
  <2>3. QED
    BY <2>1, <2>2 DEF Policy!LeaveBlock
<1>3. QED
  BY <1>1, <1>2 DEF CFI_BEFORE_JUMP

LEMMA ReturnedRefines ==
  ASSUME IInv, IInv', error = 0, CFI_RETURNED
  PROVE  Policy!Fail \/ Policy!Resume
<1>1. CASE Refuse(4) \/ NullRow
  BY <1>1, FailStep DEF CFI_RETURNED, SigIs, Refuse, NullRow
<1>2. CASE state = "ExpectReturn" /\ Accept("InFunction") /\ UNCHANGED <<cursor, stacks>>
  <2>1. phaseBar = "ExpectReturn" /\ phaseBar' = "InFunction"
    BY <1>2 DEF CFI_RETURNED, SigIs, Accept, phaseBar
  <2>2. framesBar' = framesBar
    BY <1>2, <2>1 DEF framesBar, Suspended, Current, cursor, stacks
  <2>3. QED
    BY <2>1, <2>2 DEF Policy!Resume
<1>3. QED
  BY <1>1, <1>2 DEF CFI_RETURNED

LEMMA EnterRefines ==
  ASSUME IInv, IInv', error = 0, CFI_ENTER
  PROVE  \/ Policy!Fail \/ Policy!Enter
         \/ \E m \in Policy!ModuleIds : \E f \in Policy!FunctionIds(m) : Policy!Start(m, f)
<1>0. pc = "dispatch" /\ sig.event = "ENTER"
  BY DEF CFI_ENTER, SigIs
<1>1. CASE Refuse(4) \/ Refuse(6) \/ Refuse(7)
  BY <1>0, <1>1, FailStep DEF Refuse
<1>2. CASE state = "ExpectCall" /\ Accept("InFunction") /\ UNCHANGED <<cursor, stacks>>
  <2>1. phaseBar = "ExpectCall" /\ phaseBar' = "InFunction"
    BY <1>0, <1>2 DEF Accept, phaseBar
  <2>2. framesBar' = framesBar
    BY <1>2, <2>1 DEF framesBar, Suspended, Current, cursor, stacks
  <2>3. QED
    BY <2>1, <2>2 DEF Policy!Enter
<1>3. CASE /\ state = "Ready"
           /\ ~(sig.module >= nb_modules)
           /\ ~(sig.function >= modules[sig.module].nb_functions)
           /\ FUNCTION_IS_ENTRYPOINT(sig.module, sig.function)
           /\ curblock' = FUNCTION_ENTRY_BLOCK_ID
           /\ current_module' = sig.module
           /\ current_function' = sig.function
           /\ Accept("InFunction")
           /\ UNCHANGED stacks
  <2>1. sig.module \in Nat /\ sig.function \in Nat /\ calls' = <<>>
    BY <1>3, RunAssumption DEF IInv, TypeOK, Control, stacks
  <2>2. sig.module \in ModuleIds /\ sig.function \in FunctionIds(sig.module)
    BY <1>3, <2>1, TablesAssumption DEF TablesSound, ModuleIds, FunctionIds
  <2>3. phaseBar = "Ready" /\ phaseBar' = "InFunction"
    BY <1>0, <1>3 DEF Accept, phaseBar
  <2>4. framesBar' = <<Policy!FrameAt(sig.module, sig.function, FUNCTION_ENTRY_BLOCK_ID)>>
    <3>1. Len(calls') = 0
      BY <2>1
    <3>2. framesBar' = [i \in 1 .. 1 |-> Current']
      BY <2>3, <3>1 DEF framesBar
    <3>3. Current' = Policy!FrameAt(sig.module, sig.function, FUNCTION_ENTRY_BLOCK_ID)
      BY <1>3 DEF Current, Policy!FrameAt
    <3>4. QED
      BY <3>2, <3>3
  <2>5. Policy!Start(sig.module, sig.function)
    BY <1>3, <2>2, <2>3, <2>4, SameTables
       DEF Policy!Start, Policy!FUNCTION_IS_ENTRYPOINT, FUNCTION_IS_ENTRYPOINT
  <2>6. QED
    BY <2>2, <2>5, SameTables
<1>4. QED
  BY <1>1, <1>2, <1>3 DEF CFI_ENTER, EnterReady

LEMMA AfterJumpRefines ==
  ASSUME IInv, IInv', error = 0, CFI_AFTER_JUMP
  PROVE  \/ Policy!Fail
         \/ /\ framesBar # <<>>
            /\ \E b \in Policy!BlockIds(Policy!Top.module, Policy!Top.function) :
                 Policy!EnterBlock(b)
<1>0. pc = "dispatch" /\ sig.event = "AFTER_JUMP"
  BY DEF CFI_AFTER_JUMP, SigIs
<1>1. CASE Refuse(4) \/ NullRow
  BY <1>0, <1>1, FailStep DEF Refuse, NullRow
<1>2. CASE /\ state = "ExpectJump"
           /\ ~(sig.block >= modules[current_module].functions[current_function].nb_blocks)
           /\ FlowRow(current_module, current_function, curblock) # NULL
           /\ sig.block \in FlowRow(current_module, current_function, curblock)
           /\ blocks' \in {blocks, PUSH(blocks, topblock)}
           /\ curblock' = sig.block
           /\ Accept("InFunction")
           /\ UNCHANGED <<current_module, current_function, calls>>
  <2>1. Active /\ Active'
    BY <1>0, <1>2 DEF Active, Accept
  <2>2. /\ blocks \in Seq(Nat) /\ topblock \in Nat /\ sig.block \in Nat
        /\ blocks' \in {blocks, Append(blocks, topblock)}
    BY <1>2, RunAssumption DEF IInv, TypeOK, PUSH
  <2>3. \A j \in 1 .. Len(blocks) : blocks'[j] = blocks[j]
    BY <2>2, PushLemma
  <2>4. sig.block \in BlockIds(current_module, current_function)
    <3>1. current_module \in ModuleIds /\ current_function \in FunctionIds(current_module)
      BY <1>2 DEF IInv, Shape, PlacesExist, IsPlace
    <3>2. modules[current_module].functions[current_function].nb_blocks \in Nat
      BY <3>1, TablesAssumption DEF TablesSound
    <3>3. QED
      BY <1>2, <2>2, <3>2 DEF BlockIds
  <2>5. /\ phaseBar = "ExpectJump" /\ phaseBar' = "InFunction"
        /\ framesBar # <<>> /\ Policy!Top = Current
        /\ framesBar \in Seq(Frame) /\ framesBar' \in Seq(Frame)
        /\ Len(calls) \in Nat
        /\ Len(framesBar) = Len(calls) + 1 /\ Len(framesBar') = Len(calls) + 1
        /\ \A i \in 1 .. Len(calls) : framesBar[i] = Suspended(i)
        /\ \A i \in 1 .. Len(calls) : framesBar'[i] = Suspended(i)'
        /\ framesBar'[Len(calls) + 1] = Current'
    <3>1. calls' = calls /\ state' = "InFunction"
      BY <1>2 DEF Accept
    <3>2. QED
      BY <1>2, <2>1, <3>1, ActiveFrames, ActiveFramesNext DEF FramesShown
  <2>6. \A i \in 1 .. Len(calls) : Suspended(i)' = Suspended(i)
    BY <1>2, <2>3, SavedInside DEF IInv, Shape, Suspended
  <2>7. Current' = Policy!FrameAt(Policy!Top.module, Policy!Top.function, sig.block)
    BY <1>2, <2>5 DEF Current, Policy!FrameAt
  <2>8. framesBar' = [framesBar EXCEPT ![Len(framesBar)] =
                        Policy!FrameAt(Policy!Top.module, Policy!Top.function, sig.block)]
    <3> DEFINE fr == Policy!FrameAt(Policy!Top.module, Policy!Top.function, sig.block)
               t == [framesBar EXCEPT ![Len(framesBar)] = fr]
    <3>1. fr \in Frame
      BY <2>5, <2>7
    <3> HIDE DEF fr
    <3>2. t \in Seq(Frame) /\ Len(t) = Len(framesBar)
          /\ \A i \in 1 .. Len(t) : t[i] = IF i = Len(framesBar) THEN fr ELSE framesBar[i]
      BY <2>5, <3>1
    <3> HIDE DEF t
    <3>3. \A i \in 1 .. Len(t) : framesBar'[i] = t[i]
      BY <2>5, <2>6, <2>7, <3>2 DEF fr
    <3>4. framesBar' = t
      BY <2>5, <3>2, <3>3, SameFrames
    <3>5. QED
      BY <3>4 DEF t, fr
  <2>9. Policy!EnterBlock(sig.block)
    BY <1>2, <2>4, <2>5, <2>8, SameTables DEF Policy!EnterBlock, Current
  <2>10. QED
    BY <2>4, <2>5, <2>9, SameTables DEF Current
<1>3. QED
  BY <1>1, <1>2 DEF CFI_AFTER_JUMP, ForgetsError

LEMMA CallRefines ==
  ASSUME IInv, IInv', error = 0, CFI_CALL
  PROVE  \/ Policy!Fail
         \/ /\ framesBar # <<>>
            /\ \E g \in Policy!FunctionIds(Policy!Top.module) : Policy!Call(g)
<1>0. pc = "dispatch" /\ sig.event = "CALL"
  BY DEF CFI_CALL, SigIs
<1>1. CASE Refuse(4) \/ NullRow
  BY <1>0, <1>1, FailStep DEF Refuse, NullRow
<1>2. CASE /\ state = "InFunction"
           /\ ~(sig.function >= modules[current_module].nb_functions)
           /\ CallRow(current_module, current_function) # NULL
           /\ sig.function \in CallRow(current_module, current_function)
           /\ blocks' = SaveBlocks
           /\ calls' = PUSH(calls, [module |-> current_module,
                                    function |-> current_function,
                                    blocks_sp |-> Len(blocks')])
           /\ curblock' = FUNCTION_ENTRY_BLOCK_ID
           /\ current_module' = TargetModule(current_module, sig.function)
           /\ current_function' = TargetFunction(current_module, sig.function)
           /\ Accept("ExpectCall")
  <2> DEFINE ncall == [module |-> current_module, function |-> current_function,
                       blocks_sp |-> Len(blocks')]
             fr == Policy!FrameAt(TargetModule(current_module, sig.function),
                                  TargetFunction(current_module, sig.function),
                                  FUNCTION_ENTRY_BLOCK_ID)
  <2>1. Active /\ Active'
    BY <1>0, <1>2 DEF Active, Accept
  <2>2. /\ blocks \in Seq(Nat) /\ topblock \in Nat /\ curblock \in Nat
        /\ calls \in Seq(call_stack_element) /\ Len(calls) \in Nat /\ Len(blocks) \in Nat
        /\ sig.function \in Nat /\ current_module \in Nat /\ current_function \in Nat
        /\ error = 0
    BY <1>0, <1>2, RunAssumption DEF IInv, TypeOK, Control, SigMatchesState, StateAfter
  <2>3. /\ \A j \in 1 .. Len(blocks) : blocks'[j] = blocks[j]
        /\ Len(blocks') \in Nat /\ blocks'[Len(blocks')] = curblock
    <3>1. CASE blocks' = Append(Append(blocks, topblock), curblock)
      BY <2>2, <3>1, PushLemma
    <3>2. CASE blocks' = Append(blocks, curblock)
      BY <2>2, <3>2, PushLemma
    <3>3. QED
      BY <1>2, <2>2, <3>1, <3>2 DEF SaveBlocks, PUSH
  <2>4. /\ Len(calls') = Len(calls) + 1
        /\ calls'[Len(calls) + 1] = ncall
        /\ \A j \in 1 .. Len(calls) : calls'[j] = calls[j]
    <3>1. ncall \in call_stack_element
      BY <2>2, <2>3 DEF call_stack_element
    <3>2. calls' = Append(calls, ncall)
      BY <1>2, <2>2 DEF PUSH
    <3>3. QED
      BY <2>2, <3>1, <3>2, PushLemma
  <2>5. /\ phaseBar = "InFunction" /\ phaseBar' = "ExpectCall"
        /\ framesBar # <<>> /\ Policy!Top = Current
        /\ framesBar \in Seq(Frame) /\ framesBar' \in Seq(Frame)
        /\ Len(framesBar) = Len(calls) + 1 /\ Len(framesBar') = Len(calls) + 2
        /\ \A i \in 1 .. Len(calls) : framesBar[i] = Suspended(i)
        /\ framesBar[Len(calls) + 1] = Current
        /\ \A i \in 1 .. Len(calls) + 1 : framesBar'[i] = Suspended(i)'
        /\ framesBar'[Len(calls) + 2] = Current'
    <3>1. state' = "ExpectCall"
      BY <1>2 DEF Accept
    <3>2. QED
      BY <1>2, <2>1, <2>2, <2>4, <3>1, ActiveFrames, ActiveFramesNext DEF FramesShown
  <2>6. \A i \in 1 .. Len(calls) : Suspended(i)' = Suspended(i)
    BY <2>3, <2>4, SavedInside DEF IInv, Shape, Suspended
  <2>7. ASSUME NEW i \in Nat, i = Len(calls) + 1
        PROVE  Suspended(i)' = Current
    BY <2>2, <2>3, <2>4, <2>7 DEF Suspended, Current
  <2>8. Current' = fr
    BY <1>2 DEF Current, Policy!FrameAt
  <2>9. framesBar' = Append(framesBar, fr)
    <3>1. fr \in Frame
      <4>1. framesBar'[Len(framesBar')] \in Frame
        BY <2>2, <2>5
      <4>2. QED
        BY <2>5, <2>8, <4>1
    <3> HIDE DEF fr
    <3>2. /\ Append(framesBar, fr) \in Seq(Frame)
          /\ Len(Append(framesBar, fr)) = Len(calls) + 2
          /\ Append(framesBar, fr)[Len(calls) + 2] = fr
          /\ \A i \in 1 .. Len(calls) + 1 : Append(framesBar, fr)[i] = framesBar[i]
      BY <2>2, <2>5, <3>1, PushLemma
    <3>3. ASSUME NEW i \in 1 .. Len(calls) + 2
          PROVE  framesBar'[i] = Append(framesBar, fr)[i]
      <4>1. CASE i \in 1 .. Len(calls)
        BY <2>2, <2>5, <2>6, <3>2, <4>1
      <4>2. CASE i = Len(calls) + 1
        <5>1. Suspended(i)' = Current
          BY <2>7, <4>2
        <5>2. QED
          BY <2>2, <2>5, <3>2, <4>2, <5>1
      <4>3. CASE i = Len(calls) + 2
        BY <2>5, <2>8, <3>2, <4>3
      <4>4. i \in 1 .. Len(calls) \/ i = Len(calls) + 1 \/ i = Len(calls) + 2
        BY <2>2
      <4>5. QED
        BY <4>1, <4>2, <4>3, <4>4
    <3>4. QED
      BY <2>5, <3>2, <3>3, SameFrames
  <2>10. sig.function \in FunctionIds(current_module)
    <3>1. current_module \in ModuleIds
      BY <1>2 DEF IInv, Shape, PlacesExist, IsPlace
    <3>2. QED
      BY <1>2, <2>2, <3>1, TablesAssumption DEF TablesSound, FunctionIds
  <2>11. Policy!Call(sig.function)
    BY <1>2, <2>5, <2>9, <2>10, SameTables DEF Policy!Call, Current
  <2>12. QED
    BY <2>5, <2>10, <2>11, SameTables DEF Current
<1>3. QED
  BY <1>1, <1>2 DEF CFI_CALL, ForgetsError, BLOCK_STACK_TOP_PTR

LEMMA ExitRefines ==
  ASSUME IInv, IInv', error = 0, CFI_EXIT
  PROVE  Policy!Fail \/ Policy!Leave
<1>0. pc = "dispatch" /\ sig.event = "EXIT"
  BY DEF CFI_EXIT, SigIs
<1>1. CASE Refuse(4)
  BY <1>0, <1>1, FailStep DEF Refuse
<1>2. CASE state = "InFunction" /\ calls = <<>> /\ ExitEntryPoint
  <2>1. Active
    BY <1>0, <1>2 DEF Active
  <2>2. phaseBar = "InFunction" /\ framesBar \in Seq(Frame) /\ Len(framesBar) = 1
    BY <1>2, <2>1, ActiveFrames DEF FramesShown
  <2>3. FUNCTION_IS_ENTRYPOINT(current_module, current_function)
    BY <1>0, <1>2 DEF IInv, Shape, EntryAtBottom, Regular
  <2>4. phaseBar' = "Done" /\ framesBar' = <<>>
    BY <1>2, <2>3 DEF ExitEntryPoint, phaseBar, framesBar
  <2>5. SubSeq(framesBar, 1, Len(framesBar) - 1) = <<>>
    BY <2>2
  <2>6. QED
    BY <2>2, <2>4, <2>5 DEF Policy!Leave
<1>3. CASE state = "InFunction" /\ calls # <<>> /\ ExitToCaller
  <2> DEFINE top == Len(calls)
             sp == calls[top].blocks_sp
  <2>1. /\ top \in Nat \ {0} /\ sp \in SavedWidth .. Len(blocks)
        /\ Len(calls') = top - 1
        /\ \A i \in 1 .. top - 1 : calls'[i] = calls[i]
        /\ \A j \in 1 .. sp - SavedWidth : blocks'[j] = blocks[j]
        /\ current_module' = calls[top].module
        /\ current_function' = calls[top].function
        /\ curblock' = blocks[sp]
        /\ Accept("ExpectReturn")
    BY <1>3, ExitFacts
  <2>2. Active /\ Active'
    BY <1>0, <1>3, <2>1 DEF Active, Accept
  <2>3. /\ phaseBar = "InFunction" /\ phaseBar' = "ExpectReturn"
        /\ framesBar \in Seq(Frame) /\ framesBar' \in Seq(Frame)
        /\ Len(framesBar) = top + 1 /\ Len(framesBar') = top
        /\ \A i \in 1 .. top : framesBar[i] = Suspended(i)
        /\ \A i \in 1 .. top - 1 : framesBar'[i] = Suspended(i)'
        /\ framesBar'[top] = Current'
    <3>1. state' = "ExpectReturn"
      BY <2>1 DEF Accept
    <3>2. QED
      BY <1>3, <2>1, <2>2, <3>1, ActiveFrames, ActiveFramesNext DEF FramesShown
  <2>4. Current' = Suspended(top)
    BY <2>1 DEF Current, Suspended
  <2>5. ASSUME NEW i \in 1 .. top - 1
        PROVE  Suspended(i)' = Suspended(i)
    <3>1. calls'[i] = calls[i] /\ i \in 1 .. top /\ top \in 1 .. top /\ i < top
      BY <2>1
    <3>2. calls[i].blocks_sp + SavedWidth <= sp /\ calls[i].blocks_sp \in 1 .. Len(blocks)
      BY <3>1, SavedInside DEF IInv, Shape, StackLayout
    <3>3. calls[i].blocks_sp \in 1 .. sp - SavedWidth
      <4>1. sp \in Nat
        BY <3>1, SavedInside DEF IInv, Shape
      <4> HIDE DEF sp
      <4>2. QED
        BY <3>2, <4>1, WidthLemma
    <3>4. QED
      BY <2>1, <3>1, <3>3 DEF Suspended
  <2>6. framesBar' = SubSeq(framesBar, 1, Len(framesBar) - 1)
    <3> DEFINE t == SubSeq(framesBar, 1, top)
    <3>1. top \in 0 .. Len(framesBar)
      BY <2>1, <2>3
    <3>2. t \in Seq(Frame) /\ Len(t) = top /\ \A i \in 1 .. top : t[i] = framesBar[i]
      BY <2>3, <3>1, PrefixLemma
    <3>3. ASSUME NEW i \in 1 .. top PROVE framesBar'[i] = framesBar[i]
      <4>1. CASE i = top
        BY <2>1, <2>3, <2>4, <4>1
      <4>2. CASE i \in 1 .. top - 1
        BY <2>3, <2>5, <4>2
      <4>3. QED
        BY <2>1, <4>1, <4>2
    <3> HIDE DEF t
    <3>4. framesBar' = t
      BY <2>3, <3>2, <3>3, SameFrames
    <3>5. Len(framesBar) - 1 = top
      BY <2>1, <2>3
    <3>6. QED
      BY <3>4, <3>5 DEF t
  <2>7. QED
    BY <2>1, <2>3, <2>6 DEF Policy!Leave
<1>4. QED
  BY <1>1, <1>2, <1>3 DEF CFI_EXIT
-----------------------------------------------------------------------------
LEMMA InitRefines == Init => Policy!PolicyInit
  BY DEF Init, Policy!PolicyInit, phaseBar, framesBar

LEMMA StepRefines ==
  ASSUME IInv, IInv', [Next]_vars
  PROVE  [Policy!PolicyNext]_(Policy!policyVars)
<1>0. CASE error # 0
  BY <1>0, AfterError
<1>1. CASE error = 0 /\ Dispatch
  <2>1. CASE MalformedSignal
    <3>1. Policy!Fail
      BY <1>1, <2>1, FailStep DEF MalformedSignal, Refuse
    <3>2. QED
      BY <3>1 DEF Policy!PolicyNext
  <2>2. QED
    BY <1>1, <2>1, BeforeJumpRefines, AfterJumpRefines, CallRefines, EnterRefines,
       ExitRefines, ReturnedRefines DEF Dispatch, Policy!PolicyNext
<1>2. CASE UNCHANGED vars
  BY <1>2 DEF vars, cursor, stacks, phaseBar, framesBar, Suspended, Current,
     Policy!policyVars
<1>3. CASE error = 0 /\ ~Dispatch /\ Next
  BY <1>3, LoopRefines DEF Next, Policy!PolicyNext
<1>4. QED
  BY <1>0, <1>1, <1>2, <1>3

(* Whatever the client sends, the signals monitor_run accepts are the      *)
(* moves of a program that follows its own call graph and control-flow     *)
(* graphs and returns each time to the block it called from.               *)
THEOREM Refinement == Spec => ImplementsPolicy
<1>1. IInv /\ IInv' /\ [Next]_vars => [Policy!PolicyNext]_(Policy!policyVars)
  BY StepRefines
<1>2. QED
  BY RunInvariant, InitRefines, <1>1, PTL DEF Spec, ImplementsPolicy, Policy!PolicySpec
-----------------------------------------------------------------------------
(* The chain of active functions, as a property of a sequence of frames:   *)
(* each link is a call edge, and the bottom one is an entry point.         *)
Link(a, b) ==
  /\ CallRow(a.module, a.function) # NULL
  /\ \E g \in CallRow(a.module, a.function) :
       /\ b.module = TargetModule(a.module, g)
       /\ b.function = TargetFunction(a.module, g)
IsCallPath(s) ==
  /\ s # <<>> => FUNCTION_IS_ENTRYPOINT(s[1].module, s[1].function)
  /\ \A i \in 1 .. Len(s) - 1 : Link(s[i], s[i + 1])

LEMMA ChainMeans == Policy!ChainIsCallPath <=> IsCallPath(framesBar)
  BY SameTables DEF Policy!ChainIsCallPath, IsCallPath, Link,
     Policy!FUNCTION_IS_ENTRYPOINT, FUNCTION_IS_ENTRYPOINT

LEMMA ChainMeansNext == Policy!ChainIsCallPath' <=> IsCallPath(framesBar)'
  BY ChainMeans, PTL

(* Frames are well typed in every state, active or not. *)
LEMMA FramesTyped == IInv => framesBar \in Seq(Frame)
<1> SUFFICES ASSUME IInv PROVE framesBar \in Seq(Frame)
  OBVIOUS
<1>1. CASE phaseBar \in {"Done", "Failed", "Ready"}
  BY <1>1 DEF framesBar
<1>2. CASE phaseBar \notin {"Done", "Failed", "Ready"}
  <2>1. Active
    BY <1>2 DEF IInv, TypeOK, Control, Active, phaseBar
  <2>2. QED
    BY <2>1, ActiveFrames DEF FramesShown
<1>3. QED
  BY <1>1, <1>2

LEMMA FramesTypedNext == (IInv => framesBar \in Seq(Frame))'
  BY FramesTyped, PTL

(* A call along an edge extends the path. *)
LEMMA PathAppend ==
  ASSUME NEW s \in Seq(Frame), s # <<>>, IsCallPath(s),
         NEW fr \in Frame, Link(s[Len(s)], fr)
  PROVE  IsCallPath(Append(s, fr))
<1> DEFINE t == Append(s, fr)
<1>1. Len(s) \in Nat \ {0}
  OBVIOUS
<1>2. Len(t) = Len(s) + 1 /\ t[Len(s) + 1] = fr /\ \A j \in 1 .. Len(s) : t[j] = s[j]
  BY PushLemma
<1> HIDE DEF t
<1>3. FUNCTION_IS_ENTRYPOINT(t[1].module, t[1].function)
  BY <1>1, <1>2 DEF IsCallPath
<1>4. ASSUME NEW i \in 1 .. Len(t) - 1 PROVE Link(t[i], t[i + 1])
  <2>1. CASE i = Len(s)
    BY <1>1, <1>2, <2>1
  <2>2. CASE i \in 1 .. Len(s) - 1
    <3>1. t[i] = s[i] /\ t[i + 1] = s[i + 1]
      BY <1>1, <1>2, <2>2
    <3>2. QED
      BY <2>2, <3>1 DEF IsCallPath
  <2>3. QED
    BY <1>1, <1>2, <2>1, <2>2
<1>5. IsCallPath(t)
  BY <1>3, <1>4 DEF IsCallPath
<1>6. QED
  BY <1>5 DEF t

(* A path that agrees on modules and functions with a prefix of a path is  *)
(* a path: blocks do not matter, and a return takes the last frame away.   *)
LEMMA PathPrefix ==
  ASSUME NEW s \in Seq(Frame), IsCallPath(s), NEW t \in Seq(Frame), Len(t) <= Len(s),
         \A i \in 1 .. Len(t) : t[i].module = s[i].module /\ t[i].function = s[i].function
  PROVE  IsCallPath(t)
<1>1. Len(s) \in Nat /\ Len(t) \in Nat
  OBVIOUS
<1>2. ASSUME t # <<>> PROVE FUNCTION_IS_ENTRYPOINT(t[1].module, t[1].function)
  <2>1. s # <<>> /\ 1 \in 1 .. Len(t)
    BY <1>2
  <2>2. QED
    BY <2>1 DEF IsCallPath
<1>3. ASSUME NEW i \in 1 .. Len(t) - 1 PROVE Link(t[i], t[i + 1])
  <2>1. i \in 1 .. Len(s) - 1 /\ i \in 1 .. Len(t) /\ i + 1 \in 1 .. Len(t)
    BY <1>1
  <2>2. Link(s[i], s[i + 1])
    BY <2>1 DEF IsCallPath
  <2>3. /\ t[i].module = s[i].module /\ t[i].function = s[i].function
        /\ t[i + 1].module = s[i + 1].module /\ t[i + 1].function = s[i + 1].function
    BY <2>1
  <2>4. QED
    BY <2>2, <2>3 DEF Link
<1>4. QED
  BY <1>2, <1>3 DEF IsCallPath

(* Every step the policy allows keeps the chain a path. *)
LEMMA ChainStep ==
  ASSUME framesBar \in Seq(Frame), framesBar' \in Seq(Frame),
         IsCallPath(framesBar), [Policy!PolicyNext]_(Policy!policyVars),
         phaseBar = "InFunction" => framesBar # <<>>
  PROVE  IsCallPath(framesBar')
<1> DEFINE s == framesBar
           t == framesBar'
<1>1. ASSUME t = <<>> PROVE IsCallPath(t)
  BY <1>1 DEF IsCallPath
<1>2. ASSUME t = s PROVE IsCallPath(t)
  BY <1>2
<1>3. ASSUME NEW m \in Policy!ModuleIds, NEW f \in Policy!FunctionIds(m), Policy!Start(m, f)
      PROVE  IsCallPath(t)
  <2>1. Len(t) = 1 /\ t[1].module = m /\ t[1].function = f
    BY <1>3 DEF Policy!Start, Policy!FrameAt
  <2>2. FUNCTION_IS_ENTRYPOINT(m, f)
    BY <1>3 DEF Policy!Start, Policy!FUNCTION_IS_ENTRYPOINT, FUNCTION_IS_ENTRYPOINT
  <2> HIDE DEF t
  <2>3. QED
    BY <2>1, <2>2 DEF IsCallPath
<1>4. ASSUME s # <<>>, NEW g \in Policy!FunctionIds(Policy!Top.module), Policy!Call(g)
      PROVE  IsCallPath(t)
  <2> DEFINE top == s[Len(s)]
             fr == Policy!FrameAt(TargetModule(top.module, g), TargetFunction(top.module, g),
                                  FUNCTION_ENTRY_BLOCK_ID)
  <2>1. /\ CallRow(top.module, top.function) # NULL
        /\ g \in CallRow(top.module, top.function)
        /\ t = Append(s, fr)
    BY <1>4, SameTables DEF Policy!Call, Policy!Top
  <2>2. Link(top, fr)
    BY <2>1 DEF Link, Policy!FrameAt
  <2>3. fr = t[Len(t)] /\ Len(t) \in Nat \ {0}
    BY <2>1
  <2> HIDE DEF fr, t
  <2>4. fr \in Frame
    BY <2>3 DEF t
  <2>5. QED
    BY <1>4, <2>1, <2>2, <2>4, PathAppend
<1>5. ASSUME s # <<>>, NEW b, Policy!EnterBlock(b)
      PROVE  IsCallPath(t)
  <2>1. /\ Len(t) = Len(s)
        /\ \A i \in 1 .. Len(t) : t[i].module = s[i].module /\ t[i].function = s[i].function
    BY <1>5 DEF Policy!EnterBlock, Policy!FrameAt, Policy!Top
  <2>2. QED
    BY <2>1, PathPrefix
<1>6. ASSUME Policy!Leave PROVE IsCallPath(t)
  <2>1. s # <<>> /\ t = SubSeq(s, 1, Len(s) - 1)
    BY <1>6 DEF Policy!Leave
  <2>2. Len(s) - 1 \in 0 .. Len(s)
    BY <2>1
  <2>3. Len(t) = Len(s) - 1 /\ \A i \in 1 .. Len(t) : t[i] = s[i]
    BY <2>1, <2>2, PrefixLemma
  <2>4. QED
    BY <2>2, <2>3, PathPrefix
<1>7. QED
  BY <1>1, <1>2, <1>3, <1>4, <1>5, <1>6
     DEF Policy!PolicyNext, Policy!policyVars, Policy!Enter, Policy!LeaveBlock,
         Policy!Resume, Policy!Fail

(* The functions the monitor holds to be active are, at every moment, a    *)
(* path of the program's call graph that starts at an entry point: no      *)
(* sequence of accepted calls and returns makes it believe in a caller     *)
(* that could not have called.                                             *)
THEOREM ChainTheorem == Spec => []ActiveChainIsCallPath
<1>1. Init => Policy!ChainIsCallPath
  <2>1. Init => IsCallPath(framesBar)
    BY DEF Init, framesBar, phaseBar, IsCallPath
  <2>2. QED
    BY <2>1, ChainMeans
<1>2. IInv /\ IInv' /\ Policy!ChainIsCallPath /\ [Next]_vars => Policy!ChainIsCallPath'
  <2> SUFFICES ASSUME IInv, IInv', Policy!ChainIsCallPath, [Next]_vars
               PROVE  Policy!ChainIsCallPath'
    OBVIOUS
  <2>1. phaseBar = "InFunction" => framesBar # <<>>
    <3>1. phaseBar = "InFunction" => Active
      BY DEF IInv, TypeOK, Control, Active, phaseBar
    <3>2. QED
      BY <3>1, ActiveFrames DEF FramesShown
  <2>2. IsCallPath(framesBar')
    BY <2>1, ChainMeans, FramesTyped, FramesTypedNext, StepRefines, ChainStep
  <2>3. QED
    BY <2>2, ChainMeansNext DEF IsCallPath
<1>3. QED
  BY RunInvariant, <1>1, <1>2, PTL DEF Spec, ActiveChainIsCallPath
=============================================================================
