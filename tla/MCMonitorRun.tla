---------------------------- MODULE MCMonitorRun -----------------------------
(***************************************************************************)
(* A small program for MonitorRun: a main program (module 0) with a loop   *)
(* in main and a recursive helper, and a library (module 1) that calls     *)
(* back into the program.                                                  *)
(*                                                                         *)
(*   main  (0,0)  blocks 0 -> {1}, 1 -> {1, 2}, 2 -> (returns)             *)
(*                calls helper and the external libf                       *)
(*   helper(0,1)  compiled without block protection; calls itself          *)
(*   libf  (0,2)  external, relocated to (1,0)                             *)
(*   libf  (1,0)  blocks 0 -> {1}, 1 -> (returns); calls helper back       *)
(*   helper(1,1)  external, relocated to (0,1)                             *)
(*   init  (1,2)  a constructor that makes no calls: it has no row         *)
(***************************************************************************)
EXTENDS MonitorRun, TLC

Fn(fl, n, cfg, ipd) ==
  [flags |-> fl, nb_blocks |-> n, control_flow_graph |-> cfg,
   immediate_post_dominator |-> ipd]
NoBlocks(fl) == Fn(fl, 0, <<>>, <<>>)
NoReloc == [module |-> 0, function |-> 0]
Reloc(m, f) == [module |-> m, function |-> f]

MCprogram ==
  [nb_functions |-> 3,
   call_graph   |-> (0 :> {1, 2} @@ 1 :> {1} @@ 2 :> NULL),
   relocations  |-> (0 :> NoReloc @@ 1 :> NoReloc @@ 2 :> Reloc(1, 0)),
   functions    |-> (0 :> Fn("FCT_MAIN", 3,
                             (0 :> {1} @@ 1 :> {1, 2} @@ 2 :> NULL),
                             (0 :> 1 @@ 1 :> 2 @@ 2 :> 3))
                  @@ 1 :> NoBlocks("FCT_INTERNAL")
                  @@ 2 :> NoBlocks("FCT_EXTERNAL"))]

MClibrary ==
  [nb_functions |-> 3,
   call_graph   |-> (0 :> {1} @@ 1 :> NULL @@ 2 :> NULL),
   relocations  |-> (0 :> NoReloc @@ 1 :> Reloc(0, 1) @@ 2 :> NoReloc),
   functions    |-> (0 :> Fn("FCT_INTERNAL", 2,
                             (0 :> {1} @@ 1 :> NULL),
                             (0 :> 1 @@ 1 :> 2))
                  @@ 1 :> NoBlocks("FCT_EXTERNAL")
                  @@ 2 :> NoBlocks("FCT_INIT"))]

MCmodules == 0 :> MCprogram @@ 1 :> MClibrary

(* Every packet over these identifiers, one past the last module, function *)
(* and block included, and one event that is none of client_event.         *)
MCSignal ==
  [event : Events \cup {"garbage"}, module : 0 .. 2, function : 0 .. 3,
   block : 0 .. 3]
=============================================================================
