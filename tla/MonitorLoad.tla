----------------------------- MODULE MonitorLoad ------------------------------
(***************************************************************************)
(* Loading: the constructor that picon-prelink generates for every module  *)
(* of the program sends the module's tables, packet by packet, and then    *)
(* runs the module's own initialisers; monitor_load (monitor/src/          *)
(* monitor_load.c) reads the packets, numbers the modules, fills           *)
(* monitor_data, relocates calls between modules and watches the           *)
(* initialisers with monitor_run.  When loading fails, main kills the      *)
(* client and monitor_data_free runs on whatever was filled so far.        *)
(*                                                                         *)
(* The run of one initialiser is a single step of both processes here: no  *)
(* answer is preloaded before loading has ended, so each waits for the     *)
(* other at every signal.  What such a run does is the subject of          *)
(* MonitorRun, for which this module provides the tables.                  *)
(***************************************************************************)
EXTENDS ModuleImage, FiniteSets

CONSTANTS
  NULL,
  Programs,      \* the programs that may be started, see ImageAssumption
  PIPE_PACKETS,  \* bound: loading packets in the pipe
  NoMemory,      \* calloc and realloc may fail
  ClientMayDie,  \* the client may be killed from outside while it loads
  RunsMayFail    \* the run of an initialiser may be refused

VARIABLES
  Image,             \* the program that was started
  l2m, m2l,          \* fd_loading_to_monitor, fd_monitor_to_loading
  cpc,               \* client: "send", "id", "inits", "main",
                     \*   "exited" or "dead"
  cmod, cpos,        \* client: the module being loaded, its next packet
  cinits,            \* client: initialisers of it still to be called
  ids,               \* client: the identifiers its modules were given
  mpc,               \* monitor: "first", "sections", "entries", "relocate",
                     \*   "inits", "final", "loaded", "failed", "free",
                     \*   "gone", and "abort", "segv" when it crashed
  nb_modules, modules,  \* monitor_data
  pkt, i,            \* the packet being loaded, the entry or module it is at
  inits,             \* initialisers the monitor still expects
  oom                \* history: an allocation failed

client == <<Image, cpc, cmod, cpos, cinits, ids>>
tables == <<nb_modules, modules>>
monitor == <<mpc, tables, pkt, i, inits, oom>>
vars == <<l2m, m2l, client, monitor>>

T == INSTANCE ProgramTables

(* A program is the sequence of its modules, in the order in which the     *)
(* dynamic linker runs their constructors: the one with main comes last,   *)
(* and modules loaded later on are not supported.  A module consists of    *)
(* the tables picon-prelink packs for it, of unsigned integers, names and  *)
(* flags, and large, the sections whose value is longer than PIPE_BUF.     *)
(* The pass numbers functions uniquely.                                    *)
FctEntry == [f_id : Nat, f_name : STRING, f_flags : T!Flags]
TransEntry == [f_id : Nat, f_calls : Seq(Nat)]
BbEntry == [b_id : Nat, b_succ : Seq(Nat)]
BbTable == [f_id : Nat, num_block : Nat, trans : Seq(BbEntry)]
IpdEntry == [f_id : Nat, b_id : Nat, b_ipd_id : Nat]

ASSUME ImageAssumption ==
  /\ PIPE_PACKETS \in Nat \ {0}
  /\ NoMemory \in BOOLEAN /\ ClientMayDie \in BOOLEAN /\ RunsMayFail \in BOOLEAN
  /\ \A p \in Programs :
       /\ Len(p) \in Nat \ {0}
       /\ \A k \in 1 .. Len(p) :
            /\ p[k].fcts \in Seq(FctEntry) /\ p[k].trans \in Seq(TransEntry)
            /\ p[k].granularity_bb \in BOOLEAN
            /\ p[k].bbs \in Seq(BbTable) /\ p[k].ipds \in Seq(IpdEntry)
            /\ HasMain(p[k]) <=> k = Len(p)
            /\ \A x, y \in 1 .. Len(p[k].fcts) :
                 p[k].fcts[x].f_id = p[k].fcts[y].f_id => x = y
            /\ \A x \in 1 .. Len(p[k].fcts) : p[k].fcts[x].f_name # NULL

MonitorUp == mpc \notin {"gone", "abort", "segv"}
-----------------------------------------------------------------------------
(* The packets of a module.  READ_LOADING_PACKET makes three reads; lacks  *)
(* says which of them will fail: "value" when the value is not one packet  *)
(* of the pipe, or when the client died before it wrote it.                *)
Section(im, event, value) ==
  [event |-> event, value |-> value,
   lacks |-> IF event \in im.large THEN "value" ELSE "nothing"]
Marker(event) == [event |-> event, value |-> <<>>, lacks |-> "nothing"]

Sections(im) ==
  <<Section(im, "FUNCTION_ID", im.fcts),
    Section(im, "FUNCTION_TRANSITION", im.trans)>>
  \o (IF im.granularity_bb
      THEN [x \in 1 .. Len(im.bbs) |-> Section(im, "BLOCK_TRANSITION", im.bbs[x])]
           \o <<Section(im, "BLOCK_IPD", im.ipds)>>
      ELSE <<>>)

(* Only the constructor of the module with main ends the loading. *)
Packets(im) ==
  <<Marker("BEGIN")>> \o Sections(im) \o <<Marker("END")>>
  \o (IF HasMain(im) THEN <<Marker("TERMINATED")>> ELSE <<>>)

(* END and TERMINATED are the packets of size 0. *)
HasValue(p) == p.event \notin {"END", "TERMINATED"}

(* What _init_wrapper calls. *)
InitFunctions(im) == {x \in 1 .. Len(im.fcts) : im.fcts[x].f_flags = "FCT_INIT"}

NoFunction ==  \* the zeros of calloc; FCT_INTERNAL is 0
  [name |-> NULL, flags |-> "FCT_INTERNAL", nb_blocks |-> 0,
   control_flow_graph |-> NULL, immediate_post_dominator |-> NULL]
NewModule_NotReset ==  \* mutant: the block realloc returned is not cleared
  [nb_functions |-> 1, nb_entrypoint_inits |-> 0, nb_entrypoint_finis |-> 0,
   call_graph |-> NULL, relocations |-> NULL, functions |-> NULL]
NewModule ==
  [nb_functions |-> 0, nb_entrypoint_inits |-> 0, nb_entrypoint_finis |-> 0,
   call_graph |-> NULL, relocations |-> NULL, functions |-> NULL]

Init ==
  /\ Image \in Programs
  /\ l2m = <<>> /\ m2l = <<>>
  /\ cpc = "send" /\ cmod = 1 /\ cpos = 1 /\ cinits = {} /\ ids = <<>>
  /\ mpc = "first" /\ nb_modules = 0 /\ modules = NULL
  /\ pkt = Marker("BEGIN") /\ i = 0 /\ inits = 0 /\ oom = FALSE
-----------------------------------------------------------------------------
(* The client. *)
image == Image[cmod]
packet == Packets(image)[cpos]

(* WRITE_LOADING_PACKET.  After BEGIN the constructor waits for the        *)
(* module's identifier; after the last packet it calls the initialisers.   *)
SendPacket ==
  /\ cpc = "send"
  /\ MonitorUp /\ Len(l2m) < PIPE_PACKETS
  /\ l2m' = Append(l2m, packet)
  /\ cpos' = cpos + 1
  /\ \/ /\ packet.event = "BEGIN"
        /\ cpc' = "id" /\ UNCHANGED cinits
     \/ /\ packet.event # "BEGIN" /\ cpos < Len(Packets(image))
        /\ UNCHANGED <<cpc, cinits>>
     \/ /\ cpos = Len(Packets(image))
        /\ cpc' = "inits" /\ cinits' = InitFunctions(image)
  /\ UNCHANGED <<m2l, Image, cmod, ids, monitor>>

(* __CFI_SET_MODULE_ID *)
ReceiveId_Kept ==  \* mutant: the identifier is not taken out of the pipe
  /\ cpc = "id"
  /\ m2l # <<>>
  /\ ids' = Append(ids, Head(m2l))
  /\ cpc' = "send"
  /\ UNCHANGED <<l2m, m2l, Image, cmod, cpos, cinits, monitor>>
ReceiveId ==
  /\ cpc = "id"
  /\ m2l # <<>>
  /\ ids' = Append(ids, Head(m2l)) /\ m2l' = Tail(m2l)
  /\ cpc' = "send"
  /\ UNCHANGED <<l2m, Image, cmod, cpos, cinits, monitor>>

(* The constructor returns: that of the next module runs, or main. *)
ConstructorEnds ==
  /\ cpc = "inits" /\ cinits = {}
  /\ IF cmod < Len(Image)
     THEN cpc' = "send" /\ cmod' = cmod + 1 /\ cpos' = 1
     ELSE cpc' = "main" /\ UNCHANGED <<cmod, cpos>>
  /\ UNCHANGED <<l2m, m2l, Image, cinits, ids, monitor>>

(* The monitor is gone: the next read finds the end of the pipe, the next  *)
(* write, of a packet or of the first signal of a run, is refused.         *)
ClientAborts_OwnReader ==  \* mutant: the client keeps the reading end open
  /\ ~MonitorUp
  /\ \/ cpc = "main"
     \/ cpc = "id" /\ m2l = <<>>
     \/ cpc = "inits" /\ cinits # {}
  /\ cpc' = "dead"
  /\ UNCHANGED <<l2m, m2l, Image, cmod, cpos, cinits, ids, monitor>>
ClientAborts ==
  /\ ~MonitorUp
  /\ \/ cpc \in {"send", "main"}
     \/ cpc = "id" /\ m2l = <<>>
     \/ cpc = "inits" /\ cinits # {}
  /\ cpc' = "dead"
  /\ UNCHANGED <<l2m, m2l, Image, cmod, cpos, cinits, ids, monitor>>

(* The client is killed, possibly between the writes of a packet. *)
ClientDies ==
  /\ ClientMayDie
  /\ cpc \notin {"dead", "exited"} /\ MonitorUp
  /\ cpc' = "dead"
  /\ \/ UNCHANGED l2m
     \/ /\ cpc = "send" /\ Len(l2m) < PIPE_PACKETS
        /\ \E l \in {"size", "value"} :
             /\ l = "value" => HasValue(packet)
             /\ l2m' = Append(l2m, [packet EXCEPT !.lacks = l])
  /\ UNCHANGED <<m2l, Image, cmod, cpos, cinits, ids, monitor>>
-----------------------------------------------------------------------------
(* The monitor: monitor_load_module. *)
current == nb_modules - 1
modata == modules[current]

(* READ_LOADING_PACKET fails: end of file, no size, no memory for the      *)
(* value, or less of the value than its size.  In the last case the value  *)
(* is freed here and once more by FREE_LOADING_PACKET, with which the C    *)
(* library may put an end to the monitor.                                  *)
ReadFails_NoEof ==  \* mutant: the monitor keeps the writing end open
  /\ mpc \in {"first", "sections"}
  /\ l2m # <<>> /\ Head(l2m).lacks # "nothing"
  /\ mpc' = "failed" /\ l2m' = Tail(l2m)
  /\ UNCHANGED <<m2l, client, tables, pkt, i, inits, oom>>
ReadFails ==
  /\ mpc \in {"first", "sections"}
  /\ \/ /\ l2m = <<>> /\ cpc = "dead"
        /\ mpc' = "failed" /\ UNCHANGED <<l2m, oom>>
     \/ /\ l2m # <<>> /\ Head(l2m).lacks = "size"
        /\ mpc' = "failed" /\ l2m' = Tail(l2m) /\ UNCHANGED oom
     \/ /\ l2m # <<>> /\ Head(l2m).lacks = "value"
        /\ mpc' \in {"failed", "abort"} /\ l2m' = Tail(l2m) /\ UNCHANGED oom
     \/ /\ NoMemory /\ l2m # <<>> /\ HasValue(Head(l2m))
        /\ mpc' = "failed" /\ l2m' = Tail(l2m) /\ oom' = TRUE
  /\ UNCHANGED <<m2l, client, tables, pkt, i, inits>>

Read ==
  /\ l2m # <<>> /\ Head(l2m).lacks = "nothing"
  /\ pkt' = Head(l2m) /\ l2m' = Tail(l2m)

(* A new module: monitor_data grows by one and the client is told its      *)
(* identifier.                                                             *)
ModuleBegin_NextId ==  \* mutant: the identifier sent is one too high
  /\ nb_modules' = nb_modules + 1
  /\ modules' = [m \in 0 .. nb_modules |->
                   IF m = nb_modules THEN NewModule ELSE modules[m]]
  /\ m2l' = IF cpc = "dead" THEN m2l ELSE Append(m2l, nb_modules + 1)
  /\ mpc' = IF cpc = "dead" THEN "failed" ELSE "sections"
  /\ UNCHANGED <<i, oom>>
ModuleBegin ==
  /\ nb_modules' = nb_modules + 1
  /\ \/ /\ modules' = [m \in 0 .. nb_modules |->
                         IF m = nb_modules THEN NewModule ELSE modules[m]]
        /\ m2l' = IF cpc = "dead" THEN m2l ELSE Append(m2l, nb_modules)
        /\ mpc' = IF cpc = "dead" THEN "failed" ELSE "sections"
        /\ UNCHANGED oom
     \/ /\ NoMemory
        /\ modules' = NULL /\ oom' = TRUE
        /\ mpc' = "failed" /\ UNCHANGED m2l
  /\ UNCHANGED i

FirstPacket ==
  /\ mpc = "first"
  /\ Read
  /\ CASE pkt'.event = "BEGIN" -> ModuleBegin
       [] pkt'.event = "TERMINATED" ->
            mpc' = "final" /\ i' = 0 /\ UNCHANGED <<m2l, tables, oom>>
       [] OTHER -> mpc' = "failed" /\ UNCHANGED <<m2l, tables, i, oom>>
  /\ UNCHANGED <<client, inits>>

(* The part of the section handlers before their loops: the section is     *)
(* refused, or tables are allocated and the entries follow.                *)
SectionRefused ==
  CASE pkt'.event = "FUNCTION_ID" -> modata.nb_functions # 0
    [] pkt'.event = "FUNCTION_TRANSITION" ->
         modata.call_graph = NULL \/ modata.nb_functions = 0
    [] pkt'.event = "BLOCK_TRANSITION" ->
         \/ modata.functions = NULL \/ modata.nb_functions = 0
         \/ pkt'.value.f_id >= modata.nb_functions
         \/ modata.functions[pkt'.value.f_id].nb_blocks # 0
         \/ pkt'.value.num_block = 0
    [] pkt'.event = "BLOCK_IPD" -> modata.functions = NULL
    [] OTHER -> TRUE

FunctionTables(size) ==
  [modata EXCEPT !.nb_functions = size,
                 !.call_graph = [f \in 0 .. size - 1 |-> NULL],
                 !.relocations = [f \in 0 .. size - 1 |-> [module |-> 0, function |-> 0]],
                 !.functions = [f \in 0 .. size - 1 |-> NoFunction]]
BlockTables(f, size) ==
  LET fd == [modata.functions[f] EXCEPT
               !.nb_blocks = size,
               !.control_flow_graph = [b \in 0 .. size - 1 |-> NULL],
               !.immediate_post_dominator = [b \in 0 .. size - 1 |-> 0]]
  IN [modata EXCEPT !.functions[f] = fd]

Allocated ==
  CASE pkt'.event = "FUNCTION_ID" -> FunctionTables(Len(pkt'.value))
    [] pkt'.event = "BLOCK_TRANSITION" ->
         BlockTables(pkt'.value.f_id, pkt'.value.num_block)
    [] OTHER -> modata

(* One of several allocations failed: the count is set, a table is NULL.   *)
PartlyAllocated ==
  CASE pkt'.event = "FUNCTION_ID" ->
         {[Allocated EXCEPT !.call_graph = NULL, !.relocations = NULL, !.functions = NULL],
          [Allocated EXCEPT !.relocations = NULL, !.functions = NULL],
          [Allocated EXCEPT !.functions = NULL]}
    [] pkt'.event = "BLOCK_TRANSITION" ->
         {[Allocated EXCEPT !.functions[pkt'.value.f_id].control_flow_graph = NULL,
                            !.functions[pkt'.value.f_id].immediate_post_dominator = NULL],
          [Allocated EXCEPT !.functions[pkt'.value.f_id].immediate_post_dominator = NULL]}
    [] OTHER -> {}

SectionPacket ==
  /\ mpc = "sections"
  /\ Read
  /\ IF pkt'.event = "END"
     THEN mpc' = "relocate" /\ UNCHANGED <<modules, i, oom>>
     ELSE IF SectionRefused
     THEN mpc' = "failed" /\ UNCHANGED <<modules, i, oom>>
     ELSE \/ /\ modules' = [modules EXCEPT ![current] = Allocated]
             /\ mpc' = "entries" /\ i' = 1 /\ UNCHANGED oom
          \/ /\ NoMemory
             /\ \E d \in PartlyAllocated : modules' = [modules EXCEPT ![current] = d]
             /\ mpc' = "failed" /\ oom' = TRUE /\ UNCHANGED i
  /\ UNCHANGED <<m2l, client, nb_modules, inits>>

Entries == IF pkt.event = "BLOCK_TRANSITION" THEN pkt.value.trans ELSE pkt.value
entry == Entries[i]

(* The list a row is filled from, up to the first identifier out of range. *)
InRange_Inclusive(list, bound) == \A x \in 1 .. Len(list) : list[x] <= bound  \* mutant
InRange(list, bound) == \A x \in 1 .. Len(list) : list[x] < bound
Row(list, bound) ==
  {list[x] : x \in {y \in 1 .. Len(list) : InRange(SubSeq(list, 1, y), bound)}}

(* The bodies of the loops: what an entry makes of the tables, whether it  *)
(* ends the loop with an error, and whether memory is needed for it.       *)
FunctionIdEntry_CountsFini ==  \* mutant: finalisers counted as initialisers
  LET bad == entry.f_id >= modata.nb_functions
      fd == [NoFunction EXCEPT !.name = entry.f_name, !.flags = entry.f_flags]
  IN [error |-> bad, alloc |-> ~bad,
      data |-> IF bad THEN modata
               ELSE [modata EXCEPT !.functions[entry.f_id] = fd,
                                   !.nb_entrypoint_inits =
                 @ + (IF entry.f_flags \in {"FCT_INIT", "FCT_FINI"} THEN 1 ELSE 0)]]
FunctionIdEntry ==
  LET bad == entry.f_id >= modata.nb_functions
      fd == [NoFunction EXCEPT !.name = entry.f_name, !.flags = entry.f_flags]
      count(flag) == IF entry.f_flags = flag THEN 1 ELSE 0
  IN [error |-> bad, alloc |-> ~bad,
      data |-> IF bad THEN modata
               ELSE [modata EXCEPT !.functions[entry.f_id] = fd,
                                   !.nb_entrypoint_inits = @ + count("FCT_INIT"),
                                   !.nb_entrypoint_finis = @ + count("FCT_FINI")]]

FunctionTransitionEntry ==
  LET bad == \/ entry.f_id >= modata.nb_functions
             \/ modata.call_graph[entry.f_id] # NULL
  IN [error |-> bad \/ ~InRange(entry.f_calls, modata.nb_functions), alloc |-> ~bad,
      data |-> IF bad THEN modata
               ELSE [modata EXCEPT !.call_graph[entry.f_id] =
                                     Row(entry.f_calls, modata.nb_functions)]]

BlockTransitionEntry ==
  LET f == pkt.value.f_id
      nb_blocks == modata.functions[f].nb_blocks
      row == modata.functions[f].control_flow_graph[entry.b_id]
      bad == entry.b_id >= nb_blocks
  IN [error |-> bad \/ ~InRange(entry.b_succ, nb_blocks), alloc |-> ~bad /\ row = NULL,
      data |-> IF bad THEN modata
               ELSE [modata EXCEPT !.functions[f].control_flow_graph[entry.b_id] =
                       Row(entry.b_succ, nb_blocks) \cup (IF row = NULL THEN {} ELSE row)]]

BlockIpdEntry ==
  LET bad == \/ entry.f_id >= modata.nb_functions
             \/ modata.functions[entry.f_id].immediate_post_dominator = NULL
             \/ entry.b_id >= modata.functions[entry.f_id].nb_blocks
  IN [error |-> bad, alloc |-> FALSE,
      data |-> IF bad THEN modata
               ELSE [modata EXCEPT
                       !.functions[entry.f_id].immediate_post_dominator[entry.b_id] =
                         entry.b_ipd_id]]

EntryResult ==
  CASE pkt.event = "FUNCTION_ID" -> FunctionIdEntry
    [] pkt.event = "FUNCTION_TRANSITION" -> FunctionTransitionEntry
    [] pkt.event = "BLOCK_TRANSITION" -> BlockTransitionEntry
    [] pkt.event = "BLOCK_IPD" -> BlockIpdEntry

LoadEntry ==
  /\ mpc = "entries" /\ i <= Len(Entries)
  /\ modules' = [modules EXCEPT ![current] = EntryResult.data]
  /\ mpc' = IF EntryResult.error THEN "failed" ELSE "entries"
  /\ i' = i + 1
  /\ UNCHANGED <<l2m, m2l, client, nb_modules, pkt, inits, oom>>

(* No memory for a row of a graph; strdup has none for a name, which       *)
(* nobody notices.                                                         *)
NoRow ==
  /\ NoMemory
  /\ mpc = "entries" /\ i <= Len(Entries)
  /\ EntryResult.alloc /\ pkt.event # "FUNCTION_ID"
  /\ mpc' = "failed" /\ oom' = TRUE
  /\ UNCHANGED <<l2m, m2l, client, tables, pkt, i, inits>>

NoName ==
  /\ NoMemory
  /\ mpc = "entries" /\ i <= Len(Entries)
  /\ EntryResult.alloc /\ pkt.event = "FUNCTION_ID"
  /\ modules' = [modules EXCEPT ![current] =
                   [EntryResult.data EXCEPT !.functions[entry.f_id].name = NULL]]
  /\ oom' = TRUE /\ i' = i + 1
  /\ UNCHANGED <<l2m, m2l, client, mpc, nb_modules, pkt, inits>>

SectionEnds ==
  /\ mpc = "entries" /\ i > Len(Entries)
  /\ mpc' = "sections"
  /\ UNCHANGED <<l2m, m2l, client, tables, pkt, i, inits, oom>>
-----------------------------------------------------------------------------
(* compute_relocations_of_module.  A candidate <<k, l>> is a function some *)
(* other module defines; candidates are met from the last module loaded    *)
(* down, and within a module from its first function up.                   *)
Name(k, l) == modules[k].functions[l].name
Candidates_Declared(mid) ==  \* mutant: declarations count as definitions
  UNION {{<<k, l>> : l \in T!FunctionIds(k)} : k \in T!ModuleIds \ {mid}}
Candidates(mid) ==
  UNION {{<<k, l>> : l \in {f \in T!FunctionIds(k) : ~T!FUNCTION_IS_EXTERNAL(k, f)}}
           : k \in T!ModuleIds \ {mid}}
Before_OldestFirst(c, d) == c[1] < d[1] \/ (c[1] = d[1] /\ c[2] < d[2])  \* mutant
Before(c, d) == c[1] > d[1] \/ (c[1] = d[1] /\ c[2] < d[2])
Matches(mid, j, c) == Name(c[1], c[2]) = Name(mid, j)
Compared(mid, j) ==
  {c \in Candidates(mid) :
     ~\E d \in Candidates(mid) : Before(d, c) /\ Matches(mid, j, d)}
Resolution(mid, j) == {c \in Compared(mid, j) : Matches(mid, j, c)}

Externals(mid) == {f \in T!FunctionIds(mid) : T!FUNCTION_IS_EXTERNAL(mid, f)}
Unresolved(mid) == {j \in Externals(mid) : Resolution(mid, j) = {}}
(* The externals the loop gets to: it stops at the first unresolved one    *)
(* when that is fatal.                                                     *)
Visited(mid, fatal) ==
  {j \in Externals(mid) : fatal => ~\E u \in Unresolved(mid) : u < j}

(* strcmp of a name that strdup had no memory for. *)
NullName(mid, fatal) ==
  \E j \in Visited(mid, fatal) : \E c \in Compared(mid, j) :
     NULL \in {Name(mid, j), Name(c[1], c[2])}

Relocated(mid, fatal) ==
  [modules EXCEPT ![mid].relocations =
     [j \in T!FunctionIds(mid) |->
        IF j \in Visited(mid, fatal) \ Unresolved(mid)
        THEN LET c == CHOOSE c \in Resolution(mid, j) : TRUE
             IN [module |-> c[1], function |-> c[2]]
        ELSE @[j]]]

(* After each module: what is not resolved yet is left for later.  The     *)
(* runs of its initialisers follow.                                        *)
Relocate_Fatal ==  \* mutant: unresolved is fatal before all are loaded
  /\ mpc = "relocate"
  /\ IF Unresolved(current) # {}
     THEN mpc' = "failed" /\ UNCHANGED <<modules, inits>>
     ELSE /\ modules' = Relocated(current, FALSE)
          /\ inits' = modata.nb_entrypoint_inits
          /\ mpc' = "inits"
  /\ UNCHANGED <<l2m, m2l, client, nb_modules, pkt, i, oom>>
Relocate ==
  /\ mpc = "relocate"
  /\ IF NullName(current, FALSE)
     THEN mpc' = "segv" /\ UNCHANGED <<modules, inits>>
     ELSE /\ modules' = Relocated(current, FALSE)
          /\ inits' = modata.nb_entrypoint_inits
          /\ mpc' = "inits"
  /\ UNCHANGED <<l2m, m2l, client, nb_modules, pkt, i, oom>>

(* monitor_run watches an initialiser from its first signal to its last.   *)
(* It ends with an error when a signal is refused, or none comes.          *)
InitRun ==
  /\ mpc = "inits" /\ inits > 0
  /\ cpc = "inits" /\ cinits # {}
  /\ \/ /\ \E x \in cinits : cinits' = cinits \ {x}
        /\ inits' = inits - 1 /\ UNCHANGED mpc
     \/ /\ RunsMayFail
        /\ mpc' = "failed" /\ UNCHANGED <<cinits, inits>>
  /\ UNCHANGED <<l2m, m2l, Image, cpc, cmod, cpos, ids, tables, pkt, i, oom>>

InitsEnd ==
  /\ mpc = "inits" /\ inits = 0
  /\ mpc' = "first"
  /\ UNCHANGED <<l2m, m2l, client, tables, pkt, i, inits, oom>>

RunFindsNoClient ==
  /\ mpc = "loaded" \/ (mpc = "inits" /\ inits > 0)
  /\ cpc = "dead"
  /\ mpc' = "failed"
  /\ UNCHANGED <<l2m, m2l, client, tables, pkt, i, inits, oom>>

(* After TERMINATED: every module once more, and now nothing may be left.  *)
FinalRelocation ==
  /\ mpc = "final"
  /\ CASE i = nb_modules -> mpc' = "loaded" /\ UNCHANGED <<modules, i>>
       [] i < nb_modules /\ NullName(i, TRUE) -> mpc' = "segv" /\ UNCHANGED <<modules, i>>
       [] OTHER -> /\ modules' = Relocated(i, TRUE)
                   /\ mpc' = IF Unresolved(i) = {} THEN "final" ELSE "failed"
                   /\ i' = i + 1
  /\ UNCHANGED <<l2m, m2l, client, nb_modules, pkt, inits, oom>>
-----------------------------------------------------------------------------
(* main: the runs of main and of the finalisers, the kill, the clean-up.   *)
MainRuns ==
  /\ mpc = "loaded" /\ cpc = "main"
  /\ \/ cpc' = "exited" /\ mpc' = "free"
     \/ RunsMayFail /\ mpc' = "failed" /\ UNCHANGED cpc
  /\ UNCHANGED <<l2m, m2l, Image, cmod, cpos, cinits, ids, tables, pkt, i, inits, oom>>

Kill ==
  /\ mpc = "failed"
  /\ cpc' = "dead" /\ mpc' = "free"
  /\ UNCHANGED <<l2m, m2l, Image, cmod, cpos, cinits, ids, tables, pkt, i, inits, oom>>

(* monitor_data_free trusts the counts: it walks every table whose count   *)
(* is not 0.                                                               *)
Walkable(d) ==
  d.nb_functions > 0 =>
    /\ d.functions # NULL /\ d.call_graph # NULL
    /\ \A f \in 0 .. d.nb_functions - 1 :
         d.functions[f].nb_blocks > 0 => d.functions[f].control_flow_graph # NULL

monitor_data_free ==
  /\ mpc = "free"
  /\ IF nb_modules > 0 /\ (modules = NULL \/ \E m \in T!ModuleIds : ~Walkable(modules[m]))
     THEN mpc' = "segv" /\ UNCHANGED tables
     ELSE mpc' = "gone" /\ nb_modules' = 0 /\ modules' = NULL
  /\ UNCHANGED <<l2m, m2l, client, pkt, i, inits, oom>>

Terminated == ~MonitorUp /\ cpc \in {"dead", "exited"} /\ UNCHANGED vars

ClientStep == SendPacket \/ ReceiveId \/ ConstructorEnds \/ ClientAborts
MonitorStep ==
  \/ ReadFails \/ FirstPacket \/ SectionPacket \/ LoadEntry \/ NoRow \/ NoName
  \/ SectionEnds
  \/ Relocate \/ InitsEnd \/ RunFindsNoClient \/ FinalRelocation
  \/ Kill \/ monitor_data_free
Next ==
  \/ SendPacket \/ ReceiveId \/ ConstructorEnds \/ ClientAborts \/ ClientDies
  \/ ReadFails \/ FirstPacket \/ SectionPacket \/ LoadEntry \/ NoRow \/ NoName
  \/ SectionEnds
  \/ Relocate \/ InitRun \/ InitsEnd \/ RunFindsNoClient \/ FinalRelocation
  \/ MainRuns \/ Kill \/ monitor_data_free \/ Terminated

(* Both processes are scheduled, and the program's initialisers return.    *)
Fairness ==
  /\ WF_vars(ClientStep) /\ WF_vars(MonitorStep)
  /\ WF_vars(InitRun)
Spec == Init /\ [][Next]_vars /\ Fairness
-----------------------------------------------------------------------------
(* Types of the control variables and the pipes. *)
TypeOK ==
  /\ cpc \in {"send", "id", "inits", "main", "exited", "dead"}
  /\ mpc \in {"first", "sections", "entries", "relocate", "inits", "final",
             "loaded", "failed", "free", "gone", "abort", "segv"}
  /\ cmod \in 1 .. Len(Image) /\ cpos \in 1 .. Len(Packets(image)) + 1
  /\ Len(l2m) <= PIPE_PACKETS /\ Len(m2l) <= 1
  /\ nb_modules \in 0 .. Len(Image) /\ inits \in Nat

(* Whenever monitor_run is called, the tables are what it takes for        *)
(* granted: every identifier in them is in range.  This is the assumption  *)
(* of MonitorRun, met by the checks of the section handlers.               *)
TablesReady ==
  (mpc = "inits" /\ inits > 0) \/ mpc = "loaded" => T!TablesSound

(* Reference: the row a list stands for, and the rows of a graph for which *)
(* the first n entries of a section have been read.  The lists of one row  *)
(* are united; a row without a list is not allocated.                      *)
RowOf(list) == {list[x] : x \in 1 .. Len(list)}
United(rows) == IF rows = {} THEN NULL ELSE UNION rows
CallsOf(trans, n, f) ==
  United({RowOf(trans[x].f_calls) : x \in {y \in 1 .. n : trans[y].f_id = f}})
FlowOf(trans, n, b) ==
  United({RowOf(trans[x].b_succ) : x \in {y \in 1 .. n : trans[y].b_id = b}})

(* The entries among the first n that replace the post-dominator of x.     *)
Later(ipds, n, x) ==
  {y \in x + 1 .. n : ipds[y].f_id = ipds[x].f_id /\ ipds[y].b_id = ipds[x].b_id}

(* The identifier a module's constructor was given, with which it marks    *)
(* its signals, leads to the tables that very constructor sent, whole and  *)
(* unmixed with those of other modules.  Of several post-dominators of a   *)
(* block the last one counts.                                              *)
IdsLeadToOwnTables ==
  (mpc = "inits" \/ mpc = "loaded") /\ ~oom =>
    \A k \in 1 .. nb_modules :
      LET im == Image[k]
          d == modules[ids[k]]
      IN /\ ids[k] \in T!ModuleIds
         /\ d.nb_functions = Len(im.fcts)
         /\ \A x \in 1 .. Len(im.fcts) :
              /\ d.functions[im.fcts[x].f_id].name = im.fcts[x].f_name
              /\ d.functions[im.fcts[x].f_id].flags = im.fcts[x].f_flags
         /\ \A f \in 0 .. d.nb_functions - 1 :
              d.call_graph[f] = CallsOf(im.trans, Len(im.trans), f)
         /\ im.granularity_bb =>
              /\ \A x \in 1 .. Len(im.bbs) :
                   LET g == d.functions[im.bbs[x].f_id]
                       trans == im.bbs[x].trans
                   IN /\ g.nb_blocks = im.bbs[x].num_block
                      /\ \A b \in 0 .. g.nb_blocks - 1 :
                           g.control_flow_graph[b] = FlowOf(trans, Len(trans), b)
              /\ \A x \in 1 .. Len(im.ipds) :
                   LET e == im.ipds[x]
                   IN Later(im.ipds, Len(im.ipds), x) = {} =>
                        d.functions[e.f_id].immediate_post_dominator[e.b_id] = e.b_ipd_id

(* Main is never watched with tables that are broken or with a call that   *)
(* leads nowhere: whatever the order of the sections, loading ends well    *)
(* only for a program that the reference above accepts.                    *)
OnlyProperLoads == mpc = "loaded" /\ ~oom => Proper(Image)

(* A call to an external function is checked against a function of that    *)
(* name that another module defines, and of several such modules the one   *)
(* loaded last, where the dynamic linker puts the program before its       *)
(* libraries.  For the module whose initialisers run, this holds of all    *)
(* functions known by then.                                                *)
ExternalsResolved ==
  \A m \in T!ModuleIds :
    mpc = "loaded" \/ (mpc = "inits" /\ m = current) =>
      \A j \in Externals(m) :
        LET r == modules[m].relocations[j]
            Defining == {k \in T!ModuleIds \ {m} : \E l \in T!FunctionIds(k) :
                           ~T!FUNCTION_IS_EXTERNAL(k, l) /\ Name(k, l) = Name(m, j)}
        IN IF Defining = {} THEN mpc = "inits"
           ELSE /\ r.module \in Defining
                /\ \A k \in Defining : k <= r.module
                /\ Name(r.module, r.function) = Name(m, j)
                /\ ~T!FUNCTION_IS_EXTERNAL(r.module, r.function)

(* The initialisers the monitor waits for are those the client is about to *)
(* call: of the same module, and as many.  Otherwise the signals of one    *)
(* run would be checked as another's, or a process would wait for nothing. *)
InitsInStep ==
  mpc = "inits" /\ inits > 0 /\ cpc # "dead" =>
    /\ cmod = nb_modules
    /\ cpc \in {"send", "inits"}
    /\ cpc = "inits" => inits = Cardinality(cinits)

(* Wherever loading stops, freeing what was filled so far is safe, unless  *)
(* memory had run out.                                                     *)
FreeSafe == mpc = "segv" => oom

(* However the monitor ends during the loading, by an error or by a crash, *)
(* the program does not survive it.                                        *)
RefusalEndsClient == mpc = "failed" \/ ~MonitorUp ~> cpc \in {"dead", "exited"}

(* A program that dies while it loads does not leave the monitor behind.   *)
MonitorFollowsClient == cpc = "dead" ~> ~MonitorUp

(* Nobody waits for the other for ever: a proper program is loaded, unless *)
(* memory runs out, the program is killed from outside, or the run of one  *)
(* of its initialisers is refused.  As shared.h describes the packets,     *)
(* their lists may have any length.                                        *)
KilledFromOutside == cpc = "dead" /\ MonitorUp /\ mpc \notin {"failed", "free"}
RunRefused == mpc = "failed" /\ inits > 0
ProperLoads ==
  Proper(Image) => <>(mpc = "loaded" \/ oom \/ KilledFromOutside \/ RunRefused)

(* ProperLoads for the programs whose tables fit the packets of the pipe:  *)
(* the handshake over three pipes never leaves both sides waiting.         *)
FittingLoads == (\A k \in 1 .. Len(Image) : Image[k].large = {}) => ProperLoads
=============================================================================
