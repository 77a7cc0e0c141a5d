------------------------------- MODULE Bitcode --------------------------------
(***************************************************************************)
(* What the LLVM pass reads of a source file, and the graphs it computes   *)
(* from it (llvm_pass/CFI/CFI.cpp).                                        *)
(*                                                                         *)
(* A function is a record with its name and its blocks, <<>> for a         *)
(* declaration.  Block b of the code is blocks[b + 1] here, with           *)
(*   calls   the calls it makes, in order: names of functions, or ASM,     *)
(*           INVOKE or INDIRECT for the calls that name no function        *)
(*   succ    the successors its terminator lists; <<>> when it returns     *)
(* Everything else in a block leaves the pass indifferent.                 *)
(***************************************************************************)
EXTENDS Naturals, Sequences, SequencesExt

CONSTANTS
  Ignored,     \* the names in the file of -cfi-ignore
  Intrinsics   \* functions that LLVM itself provides

ASM == "inline asm"
INVOKE == "invoke"
INDIRECT == "indirect call"

isDeclaration(F) == F.blocks = <<>>
BlocksOf(F) == 0 .. Len(F.blocks) - 1
CallsOf(F, b) == F.blocks[b + 1].calls
SuccessorsOf(F, b) == F.blocks[b + 1].succ
LastBlock(F) == Len(F.blocks) - 1

isIgnoredFunction(name) == name \in Ignored

(* Functions the pass numbers. *)
Identified(name) == ~isIgnoredFunction(name) /\ name \notin Intrinsics

(* The calls writeCallgraph records, and those at which it gives up. *)
AllCalls(F) == UNION {ToSet(CallsOf(F, b)) : b \in BlocksOf(F)}
Callees(F) == {g \in AllCalls(F) \ {ASM} : Identified(g)}
Unsupported(F) == {INVOKE, INDIRECT} \cap AllCalls(F) # {}

(* writeAllowedBBTrans: blocks without successors have no line, and a      *)
(* function of one block has no line at all.                               *)
BlockLines(F) ==
  [b \in {c \in BlocksOf(F) : SuccessorsOf(F, c) # <<>> /\ Len(F.blocks) # 1}
     |-> ToSet(SuccessorsOf(F, b))]
-----------------------------------------------------------------------------
(* LLVM's post-dominator tree.  A block cannot reach a return without      *)
(* passing x when it is in a set of blocks that is left through x only.    *)
ReachesExitWithout(F, x) ==
  LET Closed == {S \in SUBSET BlocksOf(F) : \A c \in S \ {x} :
                   SuccessorsOf(F, c) # <<>> /\ ToSet(SuccessorsOf(F, c)) \subseteq S}
  IN (BlocksOf(F) \ {x}) \ UNION Closed

(* A block that cannot reach a return at all is not in the tree:           *)
(* everything dominates it and it dominates nothing else.                  *)
NoBlock(F) == Len(F.blocks)  \* NULL
InTree(F) == ReachesExitWithout(F, NoBlock(F))
dominates(F, x, b) ==
  \/ x = b \/ b \notin InTree(F)
  \/ x \in InTree(F) /\ b \notin ReachesExitWithout(F, x)

findNearestCommonDominator(F, a, b) ==
  LET common == {x \in InTree(F) : dominates(F, x, a) /\ dominates(F, x, b)}
  IN IF dominates(F, b, a) THEN b
     ELSE IF dominates(F, a, b) THEN a
     ELSE IF common = {} THEN NoBlock(F)
     ELSE CHOOSE x \in common : \A y \in common : dominates(F, y, x)

(* Mutant of Ipdom: only the first two successors are looked at. *)
Ipdom_TwoSuccessors(F, b) ==
  LET s == SuccessorsOf(F, b)
      posdom == IF s = <<>> THEN NoBlock(F)
                ELSE IF Len(s) = 1 THEN s[1]
                ELSE findNearestCommonDominator(F, s[1], s[2])
  IN IF posdom = NoBlock(F) THEN 0 ELSE posdom

(* writeIPDOMToFile: the nearest common post-dominator of the successors,  *)
(* found pairwise; 0 stands for none.                                      *)
Ipdom(F, b) ==
  LET s == SuccessorsOf(F, b)
      Common(x, y) == IF x = NoBlock(F) THEN x ELSE findNearestCommonDominator(F, x, y)
      posdom == IF s = <<>> THEN NoBlock(F) ELSE FoldLeft(Common, Head(s), Tail(s))
  IN IF posdom = NoBlock(F) THEN 0 ELSE posdom

(* Reference: the closest of the blocks other than b through which every   *)
(* way from b to a return must pass.                                       *)
ImmediatePostDominator(F, b) ==
  LET strict == {x \in InTree(F) \ {b} : dominates(F, x, b)}
  IN IF strict = {} THEN 0
     ELSE CHOOSE x \in strict : \A y \in strict : dominates(F, y, x)
=============================================================================
