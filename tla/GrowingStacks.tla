---------------------------- MODULE GrowingStacks ----------------------------
(***************************************************************************)
(* The call stack and the block stack of monitor_run as they are in        *)
(* memory (monitor/src/call_stack.c, monitor/src/block_stack.c and the     *)
(* macros of their headers): arrays with pointers to the first, the last   *)
(* and the top entry, grown by realloc when a push finds them full.        *)
(*                                                                         *)
(* MonitorRun takes both stacks for sequences.  This module asks when that *)
(* is right.  A pointer is an allocation and an offset in it.  Comparing   *)
(* pointers into two allocations can come out either way; an access        *)
(* outside a live allocation is undefined behaviour and ends the model.    *)
(***************************************************************************)
EXTENDS Integers, Sequences

CONSTANTS
  EXTEND_SIZE,    \* CALL_STACK_EXTEND_SIZE and BLOCK_STACK_EXTEND_SIZE
  OPTION_sm_trace,  \* CFI_TRACE is set
  ReallocMoves,   \* realloc may return another address
  ReallocFails,   \* realloc may find no memory
  Block,          \* block identifiers
  MaxDepth,       \* bound: nesting of calls
  MaxBlocks,      \* bound: entries a jump may find in the block stack
  MaxAllocations  \* bound: allocations during a run

ASSUME StacksAssumption ==
  /\ EXTEND_SIZE \in [{"calls", "blocks"} -> Nat \ {0}]
  /\ OPTION_sm_trace \in BOOLEAN
  /\ ReallocMoves \in BOOLEAN /\ ReallocFails \in BOOLEAN
  /\ MaxDepth \in Nat /\ MaxBlocks \in Nat /\ MaxAllocations \in Nat \ {0, 1}

Stacks == {"calls", "blocks"}
Ptr(b, o) == [base |-> b, off |-> o]
NULL == Ptr(0, 0)

VARIABLES
  heap,     \* live allocations, in order of their creation: cells or <<>>
  stk,      \* for both stacks the pointers first, last and top
  err,      \* monitor_run's error
  wild,     \* memory was accessed through a pointer that leads nowhere
  pushed,   \* history: topblock and curblock of the suspended callers
  popped    \* history: what the last return popped, and should have popped

vars == <<heap, stk, err, wild, pushed, popped>>

(* The memory the macros work on, as one value. *)
Memory(h, s, e, w) == [heap |-> h, stk |-> s, err |-> e, wild |-> w]
Current == Memory(heap, stk, err, wild)

Live(m, p) == p.base \in 1 .. Len(m.heap) /\ p.off \in 0 .. Len(m.heap[p.base]) - 1
Load(m, p) == m.heap[p.base][p.off + 1]
Unused == "unused"
NewCells(size) == [i \in 1 .. size |-> Unused]

Init ==
  /\ heap = <<NewCells(EXTEND_SIZE["calls"]), NewCells(EXTEND_SIZE["blocks"])>>
  /\ stk = [calls  |-> [first |-> Ptr(1, 0), last |-> Ptr(1, EXTEND_SIZE["calls"] - 1),
                        top |-> Ptr(1, -1)],
            blocks |-> [first |-> Ptr(2, 0), last |-> Ptr(2, EXTEND_SIZE["blocks"] - 1),
                        top |-> Ptr(2, -1)]]
  /\ err = 0 /\ wild = FALSE
  /\ pushed = <<>> /\ popped = <<>>

(* The outcomes of p >= q, which is what a push compares top and last      *)
(* with; the mutant compares with >.                                       *)
GreaterOrEqual_Greater(p, q) == IF p.base = q.base THEN {p.off > q.off} ELSE BOOLEAN
GreaterOrEqual(p, q) == IF p.base = q.base THEN {p.off >= q.off} ELSE BOOLEAN

(* Mutant of Extend, in place: last points one past the last entry. *)
Extend_PastLast(m, k) ==
  LET s == m.stk[k]
      cells == m.heap[s.first.base] \o NewCells(EXTEND_SIZE[k])
  IN {[m EXCEPT !.heap[s.first.base] = cells,
                !.stk[k].last = Ptr(s.first.base, Len(cells)), !.err = 0]}

(* call_stack_extend and block_stack_extend: first and last follow what    *)
(* realloc returns, top does not.  When realloc finds no memory, first is  *)
(* NULL; the size a later extension computes from it is beyond what any    *)
(* allocation can have.                                                    *)
Extend(m, k) ==
  LET s == m.stk[k]
      cells == m.heap[s.first.base] \o NewCells(EXTEND_SIZE[k])
      grown(b) == [s EXCEPT !.first = Ptr(b, 0), !.last = Ptr(b, Len(cells) - 1)]
      fails == [m EXCEPT !.stk[k].first = NULL, !.err = -1]
      inPlace == [m EXCEPT !.heap[s.first.base] = cells,
                           !.stk[k] = grown(s.first.base), !.err = 0]
      moved == [m EXCEPT !.heap = Append([m.heap EXCEPT ![s.first.base] = <<>>], cells),
                         !.stk[k] = grown(Len(m.heap) + 1), !.err = 0]
  IN IF s.first = NULL THEN {fails}
     ELSE {inPlace}
          \cup (IF ReallocFails THEN {fails} ELSE {})
          \cup (IF ReallocMoves /\ Len(m.heap) < MaxAllocations THEN {moved} ELSE {})

(* *(++top) = v *)
Store(m, k, v) ==
  LET p == [m.stk[k].top EXCEPT !.off = @ + 1]
      n == [m EXCEPT !.stk[k].top = p]
  IN IF Live(m, p) THEN [n EXCEPT !.heap[p.base][p.off + 1] = v]
                   ELSE [n EXCEPT !.wild = TRUE]

(* CALL_STACK_PUSH and BLOCK_STACK_PUSH.  Extending overwrites the error   *)
(* an earlier push may have left.                                          *)
PUSH(m, k, v) ==
  LET room == UNION {IF full THEN Extend(m, k) ELSE {m} :
                       full \in GreaterOrEqual(m.stk[k].top, m.stk[k].last)}
  IN {IF x.err = 0 THEN Store(x, k, v) ELSE x : x \in room}

Becomes(m) ==
  /\ heap' = m.heap /\ stk' = m.stk /\ err' = m.err /\ wild' = m.wild

(* monitor_run goes on while there is no error. *)
Running == err = 0 /\ ~wild

(* What a CALL pushes for its caller: topblock when tracing, and curblock. *)
PushBlocks(m, v) ==
  UNION {PUSH(m1, "blocks", v.curblock) :
           m1 \in IF OPTION_sm_trace THEN PUSH(m, "blocks", v.topblock) ELSE {m}}

(* Mutant of CALL: the pointer is taken before the block is pushed. *)
CALL_PointerFirst(v) ==
  /\ Running
  /\ Len(pushed) < MaxDepth
  /\ \E m1 \in PUSH(Current, "calls", stk["blocks"].top) :
       \E m2 \in PushBlocks(m1, v) : Becomes(m2)
  /\ pushed' = Append(pushed, v)
  /\ UNCHANGED popped

(* CFI_CALL: the blocks, then the block stack's top pointer, are pushed. *)
CALL(v) ==
  /\ Running
  /\ Len(pushed) < MaxDepth
  /\ \E m1 \in PushBlocks(Current, v) :
       \E m2 \in PUSH(m1, "calls", m1.stk["blocks"].top) : Becomes(m2)
  /\ pushed' = Append(pushed, v)
  /\ UNCHANGED popped

(* CFI_AFTER_JUMP to the immediate post-dominator of topblock, b. *)
AFTER_JUMP(b) ==
  /\ Running /\ OPTION_sm_trace
  /\ stk["blocks"].top.off + 1 < MaxBlocks
  /\ \E m \in PUSH(Current, "blocks", b) : Becomes(m)
  /\ UNCHANGED <<pushed, popped>>

(* What lies above top is dead.  The model forgets it, so that an entry    *)
(* that is read after it was popped differs from all that were pushed.     *)
Forgotten(h, p) ==
  [h EXCEPT ![p.base] = [i \in DOMAIN @ |-> IF i > p.off + 1 THEN Unused ELSE @[i]]]

(* CFI_EXIT with callers suspended: the call is popped, the block stack's  *)
(* top restored, the blocks popped.                                        *)
EXIT ==
  /\ Running
  /\ pushed # <<>>
  /\ LET top == stk["calls"].top
         sp == Load(Current, top)
         below == Ptr(sp.base, sp.off - 1)
         rest == Ptr(sp.base, sp.off - (IF OPTION_sm_trace THEN 2 ELSE 1))
     IN IF /\ Live(Current, top) /\ Live(Current, sp)
           /\ OPTION_sm_trace => Live(Current, below)
        THEN /\ stk' = [stk EXCEPT !["calls"].top.off = @ - 1, !["blocks"].top = rest]
             /\ popped' = <<[curblock |-> Load(Current, sp),
                             topblock |-> IF OPTION_sm_trace THEN Load(Current, below)
                                          ELSE pushed[Len(pushed)].topblock],
                            pushed[Len(pushed)]>>
             /\ heap' = Forgotten(Forgotten(heap, Ptr(top.base, top.off - 1)), rest)
             /\ UNCHANGED <<err, wild>>
        ELSE /\ wild' = TRUE
             /\ UNCHANGED <<heap, stk, err, popped>>
  /\ pushed' = SubSeq(pushed, 1, Len(pushed) - 1)

(* call_stack_trace and block_stack_trace read from top down to first.     *)
Walked(m, k) ==
  LET s == m.stk[k]
  IN s.top.base = s.first.base /\ \A o \in 0 .. s.top.off : Live(m, Ptr(s.top.base, o))

(* call_stack_free and block_stack_free *)
Freed(k) == [first |-> NULL, last |-> NULL, top |-> NULL]

(* monitor_run_exit after a signal was refused or a stack could not be     *)
(* extended: for the trace the current block and function are pushed, with *)
(* an error variable of its own, both stacks are walked, and what was      *)
(* pushed is popped again.                                                 *)
ErrorExit(b) ==
  /\ heap # <<>> /\ ~wild
  /\ \E m1 \in PUSH([Current EXCEPT !.err = 0], "blocks", b) :
       \E m2 \in PUSH(m1, "calls", m1.stk["blocks"].top) :
         wild' = /\ OPTION_sm_trace
                 /\ \/ m2.wild \/ ~Walked(m2, "calls") \/ ~Walked(m2, "blocks")
                    \/ \E k \in Stacks : ~Live(m2, m2.stk[k].top)
  /\ heap' = <<>> /\ stk' = [k \in Stacks |-> Freed(k)]
  /\ err' = IF err = 0 THEN 4 ELSE err
  /\ UNCHANGED <<pushed, popped>>

Next ==
  \/ \E t, b \in Block : CALL([topblock |-> t, curblock |-> b])
  \/ \E b \in Block : AFTER_JUMP(b) \/ ErrorExit(b)
  \/ EXIT

Spec == Init /\ [][Next]_vars
-----------------------------------------------------------------------------
(* The coherence block_stack.h tests for (and its call stack counterpart): *)
(* between two signals top is one below first, or between first and last.  *)
StacksCoherent ==
  err = 0 => \A k \in Stacks :
    /\ stk[k].top.base = stk[k].first.base
    /\ stk[k].last.base = stk[k].first.base
    /\ stk[k].top.off \in -1 .. stk[k].last.off

(* No push, no pop and no trace printed after a refused signal touches     *)
(* memory outside the two arrays.                                          *)
NoWildAccess == ~wild

(* A return pops what its call pushed, however often the arrays were grown *)
(* and whatever jumps pushed in between, so the stacks are the sequences   *)
(* of MonitorRun.                                                          *)
PopsWhatWasPushed == popped # <<>> => popped[1] = popped[2]
=============================================================================
