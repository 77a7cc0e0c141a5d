---------------------------- MODULE ProgramTables ----------------------------
(***************************************************************************)
(* The tables the monitor holds about the monitored program once modules   *)
(* have been loaded: struct monitor_data, module_data and function_data of *)
(* monitor/include/monitor_load.h.  They do not change while monitor_run   *)
(* executes, so they are constants here.                                   *)
(*                                                                         *)
(* modules[m] is a record with the fields of module_data:                  *)
(*   nb_functions                                                          *)
(*   call_graph[f]    NULL (no row was allocated) or the set of callees    *)
(*   relocations[f]   the (module, function) an external f stands for      *)
(*   functions[f]     a record with the fields of function_data:           *)
(*     flags, nb_blocks,                                                   *)
(*     control_flow_graph[b]   NULL or the set of successors of block b    *)
(*     immediate_post_dominator[b]                                         *)
(***************************************************************************)
EXTENDS Naturals, Sequences

CONSTANTS
  nb_modules,  \* number of loaded modules
  modules,     \* function from 0..nb_modules-1 to module_data records
  NULL         \* a table row that was never allocated

Flags == {"FCT_INTERNAL", "FCT_EXTERNAL", "FCT_INIT", "FCT_FINI", "FCT_MAIN"}

ModuleIds == 0 .. nb_modules - 1
FunctionIds(m) == 0 .. modules[m].nb_functions - 1
BlockIds(m, f) == 0 .. modules[m].functions[f].nb_blocks - 1

CallRow(m, f) == modules[m].call_graph[f]
FlowRow(m, f, b) == modules[m].functions[f].control_flow_graph[b]
Ipd(m, f, b) == modules[m].functions[f].immediate_post_dominator[b]

FUNCTION_IS_EXTERNAL(m, f) == modules[m].functions[f].flags = "FCT_EXTERNAL"
FUNCTION_IS_ENTRYPOINT(m, f) ==
  modules[m].functions[f].flags \in {"FCT_MAIN", "FCT_INIT", "FCT_FINI"}

FUNCTION_ENTRY_BLOCK_ID == 0

(* What the loader guarantees of the tables: an invariant of MonitorLoad,  *)
(* and what MonitorRun assumes.  Every call-graph row and every successor  *)
(* list was range-checked while it was read; a module without functions is *)
(* refused; a relocation is either one that compute_relocations_of_module  *)
(* found or the zero calloc left, and module 0, function 0 exists.  A      *)
(* function compiled without basic-block protection has nb_blocks = 0 and  *)
(* no block tables.                                                        *)
TablesSound ==
  /\ nb_modules \in Nat \ {0}
  /\ \A m \in ModuleIds :
       /\ modules[m].nb_functions \in Nat \ {0}
       /\ \A f \in FunctionIds(m) :
            /\ modules[m].functions[f].flags \in Flags
            /\ modules[m].functions[f].nb_blocks \in Nat
            /\ CallRow(m, f) = NULL \/ CallRow(m, f) \subseteq FunctionIds(m)
            /\ modules[m].relocations[f].module \in ModuleIds
            /\ modules[m].relocations[f].function
                 \in FunctionIds(modules[m].relocations[f].module)
            /\ \A b \in BlockIds(m, f) :
                 /\ \/ FlowRow(m, f, b) = NULL
                    \/ FlowRow(m, f, b) \subseteq BlockIds(m, f)
                 /\ Ipd(m, f, b) \in Nat

(* The function a CALL to local identifier g of module m leads to: the     *)
(* relocation when g is external, g itself otherwise.                      *)
TargetModule(m, g) ==
  IF FUNCTION_IS_EXTERNAL(m, g) THEN modules[m].relocations[g].module ELSE m
TargetFunction(m, g) ==
  IF FUNCTION_IS_EXTERNAL(m, g) THEN modules[m].relocations[g].function ELSE g

(* A place the monitored program can be at: a block of a known function.   *)
(* The entry block needs no table, so it exists in every function.         *)
IsPlace(m, f, b) ==
  /\ m \in ModuleIds
  /\ f \in FunctionIds(m)
  /\ b = FUNCTION_ENTRY_BLOCK_ID \/ b \in BlockIds(m, f)
=============================================================================
