----------------------------- MODULE CompilePass ------------------------------
(***************************************************************************)
(* The build of one module of a program: one opt job per source file, in   *)
(* parallel, all of which number functions and add their graphs to the     *)
(* same files (llvm_pass/CFI/CFIModulePass.cpp and CFI.cpp), and then      *)
(* picon-prelink, which reads the files.  The jobs hold a lock on one file *)
(* while they use the others.  A job may be killed at any point, which     *)
(* releases the lock and leaves the files as they are; the job may then be *)
(* started again, on the same files, and a file that was compiled may be   *)
(* compiled again.                                                         *)
(*                                                                         *)
(* A unit (bitcode file) is a record with                                  *)
(*   funs         the functions it defines or declares, in order           *)
(*   annotations  llvm.global.annotations, as pairs of a function and text *)
(*   ctors, dtors llvm.global_ctors and llvm.global_dtors, in which NULL   *)
(*                ends the list                                            *)
(***************************************************************************)
EXTENDS Bitcode, ModuleImage

CONSTANTS
  NULL,
  NoJob,      \* nobody holds the lock
  Units,      \* the source files
  Builds,     \* the contents they may have: functions from Units to units
  MaxRepeats  \* bound: jobs killed, files compiled again and locks
              \*   not obtained, together

ANNOTATION_IGNORE_BLOCK == "cfi_ignore_blocks"

ASSUME BuildAssumption ==
  /\ MaxRepeats \in Nat /\ NoJob \notin Units
  /\ \A s \in Builds : \A u \in Units :
       /\ s[u].funs \in Seq(ToSet(s[u].funs))
       /\ \A f, g \in 1 .. Len(s[u].funs) :
            s[u].funs[f].name = s[u].funs[g].name => f = g

(* What LLVM sees to: a function has a list of blocks, jumps lead to its   *)
(* blocks but never to the entry, and who is called is declared.           *)
WellBuilt(F, funs) ==
  /\ F.blocks \in Seq(ToSet(F.blocks))
  /\ \A b \in BlocksOf(F) : SuccessorsOf(F, b) \in Seq(BlocksOf(F) \ {0})
  /\ \A g \in Callees(F) \ {INVOKE, INDIRECT} : \E G \in funs : G.name = g
ASSUME BitcodeAssumption ==
  \A s \in Builds : \A u \in Units :
    \A F \in ToSet(s[u].funs) : WellBuilt(F, ToSet(s[u].funs))

VARIABLES
  Source,      \* the contents of the source files
  level,       \* -cfi-level: TRUE for BASICBLOCK
  lock,        \* the job that holds the lock on the .lock file
  fctid,       \* the file .fctid: names to [id, flags]
  trans, bbtrans, ipdom,  \* the files .trans, .bbtrans and .ipdom: what each
                          \*   job appended, as a map from identifiers
  pc,          \* where each job is
  known,       \* _IdentifiedFunctions of each job
  oldMap,      \* what writeFunctionIDs has read
  object,      \* the instrumented file of each unit: the identifiers in it
               \*   and the entry points it still lists, NULL before
  linked,      \* picon-prelink: "no", "yes" or "exit255"
  image,       \* the tables it wrote
  repeats, harm  \* history: disturbances, as MaxRepeats counts them; what
                 \*   they may have left behind

files == <<fctid, trans, bbtrans, ipdom>>
local == <<known, oldMap>>
output == <<object, linked, image>>
vars == <<Source, level, lock, files, pc, local, output, repeats, harm>>

Init ==
  /\ Source \in Builds /\ level \in BOOLEAN
  /\ lock = NoJob
  /\ fctid = <<>> /\ trans = <<>> /\ bbtrans = <<>> /\ ipdom = <<>>
  /\ pc = [u \in Units |-> "waiting"]  \* make has started all jobs
  /\ known = [u \in Units |-> <<>>] /\ oldMap = [u \in Units |-> <<>>]
  /\ object = [u \in Units |-> NULL] /\ linked = "no" /\ image = NULL
  /\ repeats = 0 /\ harm = "none"
-----------------------------------------------------------------------------
(* The contents of a unit. *)
BeforeNull(list) ==
  LET ends == {k \in 1 .. Len(list) : list[k] = NULL}
  IN {list[k] : k \in {j \in 1 .. Len(list) : \A e \in ends : j < e}}
(* The constructors are called by the generated code from now on; the list *)
(* is taken out of the file.  The same for destructors.                    *)
PatchCtorFunctions(u) == [taken |-> BeforeNull(Source[u].ctors), left |-> {}]
PatchDtorFunctions(u) == [taken |-> BeforeNull(Source[u].dtors), left |-> {}]
isInitFunction(u, name) == name \in PatchCtorFunctions(u).taken
isFiniFunction(u, name) == name \in PatchDtorFunctions(u).taken
isIgnoredBlocksFunction(u, name) ==
  \E a \in BeforeNull(Source[u].annotations) :
    a.fun = name /\ a.text = ANNOTATION_IGNORE_BLOCK

(* The immediate post-dominators of all functions, and the reference. *)
Functions == UNION {UNION {ToSet(s[u].funs) : u \in Units} : s \in Builds}
Ipdoms == [F \in Functions |-> [b \in BlocksOf(F) |-> Ipdom(F, b)]]
PostDominators ==
  [F \in Functions |-> [b \in InTree(F) |-> ImmediatePostDominator(F, b)]]

(* The functions in _FunctionMap, and those that get block tables. *)
FunctionMap(u) == {F \in ToSet(Source[u].funs) : Identified(F.name)}
DefinedIn(u) == {F \in FunctionMap(u) : ~isDeclaration(F)}
WithBlocks(u) == {F \in DefinedIn(u) : ~isIgnoredBlocksFunction(u, F.name)}

(* A step of job u from one place to the next. *)
Step(u, from, to) == pc[u] = from /\ pc' = [pc EXCEPT ![u] = to]
Running(u) == pc[u] \notin {"done", "failed", "killed"}
Freed(u) == IF lock = u THEN NoJob ELSE lock

(* make starts opt on a file again. *)
Start(u) ==
  /\ \/ pc[u] = "killed" /\ UNCHANGED repeats
     \/ pc[u] = "done" /\ repeats < MaxRepeats /\ repeats' = repeats + 1
  /\ Step(u, pc[u], "waiting")
  /\ object' = [object EXCEPT ![u] = NULL] /\ linked' = "no" /\ image' = NULL
  /\ UNCHANGED <<Source, level, lock, files, local, harm>>

(* open and flock(LOCK_EX) *)
Lock_Shared(u) ==  \* mutant: the jobs do not exclude each other
  /\ Step(u, "waiting", "locked")
  /\ lock' = u
  /\ UNCHANGED <<Source, level, files, local, output, repeats, harm>>
Lock(u) ==
  /\ Step(u, "waiting", "locked")
  /\ lock = NoJob /\ lock' = u
  /\ UNCHANGED <<Source, level, files, local, output, repeats, harm>>

(* open or flock fails.  The assertions that follow hold exactly then:     *)
(* the job goes on without the lock.                                       *)
LockFails(u) ==
  /\ repeats < MaxRepeats /\ repeats' = repeats + 1
  /\ Step(u, "waiting", "locked")
  /\ harm' = "unlocked"
  /\ UNCHANGED <<Source, level, lock, files, local, output>>

(* AddIdentifiedFunction keeps _fun_id_ctr above all identifiers read. *)
FunIdCtr_Last(map) == Max({map[n] : n \in DOMAIN map} \cup {0})  \* mutant
FunIdCtr(map) == Max({map[n] + 1 : n \in DOMAIN map} \cup {0})

ReadIdentifiers_None == <<>>  \* mutant: every unit starts from 0
ReadIdentifiers == [n \in DOMAIN fctid |-> fctid[n].id]

(* f, and g where f says nothing. *)
Over(f, g) == [x \in DOMAIN f \cup DOMAIN g |-> IF x \in DOMAIN f THEN f[x] ELSE g[x]]

(* The functions of the unit that have no identifier yet. *)
NameAt(u, k) == Source[u].funs[k].name
NewFunctions(u, read) ==
  {k \in 1 .. Len(Source[u].funs) :
     Identified(NameAt(u, k)) /\ NameAt(u, k) \notin DOMAIN read}

(* IdentifyFunctions: the identifiers of the file, then the next ones for  *)
(* the functions of the unit that have none, in order (IdentifyFunction).  *)
IdentifyFunctions(u) ==
  /\ Step(u, "locked", "identified")
  /\ LET read == ReadIdentifiers
         new == NewFunctions(u, read)
         Place(n) == CHOOSE k \in new : NameAt(u, k) = n
     IN known' = [known EXCEPT ![u] =
          Over(read, [n \in {NameAt(u, k) : k \in new} |->
                        FunIdCtr(read) + Cardinality({j \in new : j < Place(n)})])]
  /\ UNCHANGED <<Source, level, lock, files, oldMap, output, repeats, harm>>

id(u, name) == known[u][name]
ById(u, S, V(_)) ==  \* a map from the identifiers of the functions in S
  [i \in {id(u, F.name) : F \in S} |-> V(CHOOSE F \in S : id(u, F.name) = i)]

(* writeCallgraph: all calls are looked at before a line is written.       *)
writeCallgraph(u) ==
  /\ \A F \in DefinedIn(u) : ~Unsupported(F)
  /\ Step(u, "identified", "callgraph")
  /\ LET Line(F) == {id(u, g) : g \in Callees(F)}
     IN trans' = Append(trans, ById(u, {F \in DefinedIn(u) : Callees(F) # {}}, Line))
  /\ UNCHANGED <<Source, level, lock, fctid, bbtrans, ipdom, local, output, repeats, harm>>

(* report_fatal_error: indirect calls and invoke are not supported. *)
FatalError(u) ==
  /\ \E F \in DefinedIn(u) : Unsupported(F)
  /\ Step(u, "identified", "failed") /\ lock' = Freed(u)
  /\ UNCHANGED <<Source, level, files, local, output, repeats, harm>>

writeAllowedBBTrans(u) ==
  /\ Step(u, "callgraph", "transitions")
  /\ LET Line(F) == [num_block |-> Len(F.blocks), rows |-> BlockLines(F)]
     IN bbtrans' = IF level THEN Append(bbtrans, ById(u, WithBlocks(u), Line)) ELSE bbtrans
  /\ UNCHANGED <<Source, level, lock, fctid, trans, ipdom, local, output, repeats, harm>>

(* writeFunctionIDs: the old file is read and, when the new contents are   *)
(* complete, truncated and written.                                        *)
OpenFunctionIDs(u) ==
  /\ Step(u, "transitions", "rewriting")
  /\ oldMap' = [oldMap EXCEPT ![u] = fctid]
  /\ fctid' = <<>>
  /\ UNCHANGED <<Source, level, lock, trans, bbtrans, ipdom, known, output, repeats, harm>>

FlagsOf_Forgetful(u, F) ==  \* mutant: a declaration overrides what is known
  IF isInitFunction(u, F.name) THEN "Init"
  ELSE IF isFiniFunction(u, F.name) THEN "Fini"
  ELSE IF F.name = "main" THEN "Main"
  ELSE IF isDeclaration(F) THEN "External" ELSE "File"
FlagsOf(u, F) ==
  IF isInitFunction(u, F.name) THEN "Init"
  ELSE IF isFiniFunction(u, F.name) THEN "Fini"
  ELSE IF F.name = "main" THEN "Main"
  ELSE IF isDeclaration(F)
  THEN IF F.name \in DOMAIN oldMap[u] THEN oldMap[u][F.name].flags ELSE "External"
  ELSE "File"

writeFunctionIDs(u) ==
  /\ Step(u, "rewriting", "ids")
  /\ LET Entry(F) == [id |-> id(u, F.name), flags |-> FlagsOf(u, F)]
         mine == [n \in {F.name : F \in FunctionMap(u)} |->
                    Entry(CHOOSE F \in FunctionMap(u) : F.name = n)]
     IN fctid' = Over(mine, oldMap[u])
  /\ UNCHANGED <<Source, level, lock, trans, bbtrans, ipdom, local, output, repeats, harm>>

writeIPDOMToFile(u) ==
  /\ Step(u, "ids", "ipdom")
  /\ LET Line(F) == Ipdoms[F]
     IN ipdom' = Append(ipdom, ById(u, WithBlocks(u), Line))
  /\ UNCHANGED <<Source, level, lock, fctid, trans, bbtrans, local, output, repeats, harm>>

Unlock_Kept(u) ==  \* mutant: the lock goes away with the process only
  /\ Step(u, "ipdom", "unlocked")
  /\ UNCHANGED <<Source, level, lock, files, local, output, repeats, harm>>
Unlock(u) ==
  /\ Step(u, "ipdom", "unlocked")
  /\ lock' = Freed(u)
  /\ UNCHANGED <<Source, level, files, local, output, repeats, harm>>

(* InjectCode, after the lock was released: the identifiers go into the    *)
(* code.  The lists of constructors and destructors are gone from it.      *)
InjectCode(u) ==
  /\ Step(u, "unlocked", "done")
  /\ object' = [object EXCEPT ![u] =
       [ids |-> [n \in {F.name : F \in FunctionMap(u)} |-> id(u, n)],
        listed |-> PatchCtorFunctions(u).left \cup PatchDtorFunctions(u).left]]
  /\ UNCHANGED <<Source, level, lock, files, local, linked, image, repeats, harm>>

(* opt is killed: the kernel drops its lock.  When it had written lines    *)
(* with identifiers that it did not get to record, these dangle; when it   *)
(* had just truncated .fctid, the identifiers of all units are lost.       *)
Kill(u) ==
  /\ Running(u) /\ repeats < MaxRepeats /\ repeats' = repeats + 1
  /\ Step(u, pc[u], "killed") /\ lock' = Freed(u)
  /\ harm' = CASE pc[u] = "rewriting" -> "torn"
               [] pc[u] \in {"callgraph", "transitions"} /\ harm = "none" -> "dangling"
               [] OTHER -> harm
  /\ UNCHANGED <<Source, level, files, local, output>>
-----------------------------------------------------------------------------
(* picon-prelink. *)
(* A dict keeps the line read last. *)
LinesFor(lines, f) == {k \in 1 .. Len(lines) : f \in DOMAIN lines[k]}
Dict(lines) ==
  [f \in UNION {DOMAIN lines[k] : k \in 1 .. Len(lines)} |->
     lines[Max(LinesFor(lines, f))][f]]

parse_callgraph_First(lines) ==  \* mutant
  [f \in DOMAIN Dict(lines) |-> lines[Min(LinesFor(lines, f))][f]]
parse_callgraph(lines) == Dict(lines)

(* The same function twice in .bbtrans: exit status 255. *)
AlreadyProcessed(lines) ==
  \E j, k \in 1 .. Len(lines) : j # k /\ DOMAIN lines[j] \cap DOMAIN lines[k] # {}
parse_bb(lines) == Dict(lines)

(* Every line counts, in the order of the file. *)
IpdLines(lines) ==
  UNION {UNION {{<<k, f, b>> : b \in DOMAIN lines[k][f]} : f \in DOMAIN lines[k]}
           : k \in 1 .. Len(lines)}
Before(x, y) ==
  \/ x[1] < y[1]
  \/ x[1] = y[1] /\ x[2] < y[2]
  \/ x[1] = y[1] /\ x[2] = y[2] /\ x[3] < y[3]
parse_bb_ipd(lines) ==
  LET all == IpdLines(lines)
      Nth(j) == CHOOSE x \in all : Cardinality({y \in all : Before(y, x)}) = j - 1
  IN [j \in 1 .. Cardinality(all) |->
        LET x == Nth(j)
        IN [f_id |-> x[2], b_id |-> x[3], b_ipd_id |-> lines[x[1]][x[2]][x[3]]]]

flag_to_int(flags) ==
  CASE flags = "External" -> "FCT_EXTERNAL"
    [] flags = "Init" -> "FCT_INIT"
    [] flags = "Fini" -> "FCT_FINI"
    [] flags = "Main" -> "FCT_MAIN"
    [] OTHER -> "FCT_INTERNAL"

gen_packed_fctids ==
  SetToSeq({[f_id |-> fctid[n].id, f_name |-> n, f_flags |-> flag_to_int(fctid[n].flags)]
           : n \in DOMAIN fctid})
gen_packed_callgraph ==
  LET d == parse_callgraph(trans)
  IN SetToSeq({[f_id |-> f, f_calls |-> SetToSeq(d[f])] : f \in DOMAIN d})
gen_packed_bb ==
  LET d == parse_bb(bbtrans)
      Rows(f) == {[b_id |-> b, b_succ |-> SetToSeq(d[f].rows[b])] : b \in DOMAIN d[f].rows}
  IN SetToSeq({[f_id |-> f, num_block |-> d[f].num_block, trans |-> SetToSeq(Rows(f))]
              : f \in DOMAIN d})

(* Block tables are sent when .bbtrans exists. *)
prelink ==
  /\ \A u \in Units : pc[u] = "done"
  /\ linked = "no"
  /\ IF bbtrans # <<>> /\ AlreadyProcessed(bbtrans)
     THEN linked' = "exit255" /\ UNCHANGED image
     ELSE /\ linked' = "yes"
          /\ image' = [fcts |-> gen_packed_fctids,
                       trans |-> gen_packed_callgraph,
                       granularity_bb |-> bbtrans # <<>>,
                       bbs |-> gen_packed_bb,
                       ipds |-> IF bbtrans = <<>> THEN <<>>
                                ELSE parse_bb_ipd(ipdom)]
  /\ UNCHANGED <<Source, level, lock, files, pc, local, object, repeats, harm>>
-----------------------------------------------------------------------------
(* Every started job came to its end, and make has nothing left to do. *)
BuildEnded ==
  /\ \A u \in Units : pc[u] \in {"done", "failed", "killed"}
  /\ UNCHANGED vars

Pass(u) ==
  \/ Lock(u) \/ LockFails(u) \/ IdentifyFunctions(u)
  \/ writeCallgraph(u) \/ FatalError(u) \/ writeAllowedBBTrans(u)
  \/ OpenFunctionIDs(u) \/ writeFunctionIDs(u) \/ writeIPDOMToFile(u)
  \/ Unlock(u) \/ InjectCode(u)
Next ==
  \/ \E u \in Units : Start(u) \/ Pass(u) \/ Kill(u)
  \/ prelink \/ BuildEnded

(* The kernel runs the jobs and grants a lock that is free.  Nothing says  *)
(* that a job is started again.                                            *)
Fairness == \A u \in Units : WF_vars(Pass(u))
Spec == Init /\ [][Next]_vars /\ Fairness
-----------------------------------------------------------------------------
(* What some of the theorems suppose of the source files. *)
(* No two source files define functions of the same name, as no two static *)
(* functions of a program may for the pass (see the run compile_static).   *)
OneDefinition ==
  \A s \in Builds : \A u, v \in Units :
    \A F \in ToSet(s[u].funs) : \A G \in ToSet(s[v].funs) :
      ~isDeclaration(F) /\ ~isDeclaration(G) /\ F.name = G.name => u = v

(* Constructors and destructors are functions of their unit, none is main, *)
(* and main, where it is declared, is defined somewhere.                   *)
EntryPoints ==
  \A s \in Builds : \A u \in Units :
    /\ \A n \in BeforeNull(s[u].ctors) \cup BeforeNull(s[u].dtors) :
         n # "main" /\ \E F \in ToSet(s[u].funs) : F.name = n /\ ~isDeclaration(F)
    /\ \A F \in ToSet(s[u].funs) : F.name = "main" =>
         \E v \in Units : \E G \in ToSet(s[v].funs) : G.name = "main" /\ ~isDeclaration(G)

(* The module has a function at all. *)
SomeFunction ==
  \A s \in Builds : \E u \in Units : \E F \in ToSet(s[u].funs) : Identified(F.name)

(* The post-dominators of writeIPDOMToFile are those of the reference. *)
IpdomsRight ==
  \A F \in Functions : \A b \in InTree(F) : Ipdoms[F][b] = PostDominators[F][b]
-----------------------------------------------------------------------------
IdOf(n) == fctid[n].id
IpdEntriesOf(F, b) == {e \in ToSet(image.ipds) : e.f_id = IdOf(F.name) /\ e.b_id = b}
(* No job was killed while it rewrote .fctid, and all had the lock. *)
Intact == harm \notin {"torn", "unlocked"}

(* However the jobs interleave, are killed and repeated, the identifiers   *)
(* in the code of the finished units are those of the file, and the file   *)
(* numbers all functions from 0 on without gaps: the monitor counts on     *)
(* both.  The exceptions are a kill in the middle of the rewriting and a   *)
(* job that did not get the lock.                                          *)
IdentifiersAgree ==
  Intact /\ (\A u \in Units : pc[u] # "rewriting") =>
    /\ \A u \in Units : object[u] # NULL =>
         \A n \in DOMAIN object[u].ids :
           n \in DOMAIN fctid /\ IdOf(n) = object[u].ids[n]
    /\ {IdOf(n) : n \in DOMAIN fctid} = 0 .. Cardinality(DOMAIN fctid) - 1

(* Nothing a conforming program does is missing from the tables: every     *)
(* call, and at level 1 every jump of every unit, in whatever order and    *)
(* how often the units were compiled.  Every block has its entry among the *)
(* post-dominators, and for the blocks from which a return can be reached  *)
(* all its entries name the immediate post-dominator of the reference.     *)
EdgesKept ==
  linked = "yes" /\ Intact =>
    \A u \in Units : \A F \in DefinedIn(u) :
      /\ \A g \in Callees(F) : \E l \in ToSet(image.trans) :
           l.f_id = IdOf(F.name) /\ IdOf(g) \in ToSet(l.f_calls)
      /\ level /\ F \in WithBlocks(u) =>
           /\ \E l \in ToSet(image.bbs) :
                /\ l.f_id = IdOf(F.name) /\ l.num_block = Len(F.blocks)
                /\ \A b \in BlocksOf(F) :
                     UNION {ToSet(t.b_succ) : t \in {r \in ToSet(l.trans) : r.b_id = b}}
                       = ToSet(SuccessorsOf(F, b))
           /\ \A b \in BlocksOf(F) :
                /\ IpdEntriesOf(F, b) # {}
                /\ b \in InTree(F) => \A e \in IpdEntriesOf(F, b) :
                                        e.b_ipd_id = PostDominators[F][b]

(* The tables allow nothing but the calls of the source files, unless a    *)
(* job that was killed left lines with identifiers that others got later.  *)
NoFalseCalls ==
  linked = "yes" /\ harm = "none" =>
    \A l \in ToSet(image.trans) : \A c \in ToSet(l.f_calls) :
      \E u \in Units : \E F \in DefinedIn(u) : \E g \in Callees(F) :
        l.f_id = IdOf(F.name) /\ c = IdOf(g)

(* What the monitor takes a function for depends on the unit that defines  *)
(* it and on no other, whichever is compiled first; and a constructor or   *)
(* destructor is called by the generated code or by the C runtime, never   *)
(* by both and never by nobody.                                            *)
EntryPointsOnce ==
  linked = "yes" /\ Intact =>
    \A e \in ToSet(image.fcts) :
      LET Defining == {u \in Units : \E F \in DefinedIn(u) : F.name = e.f_name}
          wrapped == e.f_flags \in {"FCT_INIT", "FCT_FINI"}
      IN /\ e.f_flags = "FCT_EXTERNAL" <=> Defining = {}
         /\ e.f_flags = "FCT_MAIN" <=> e.f_name = "main"
         /\ \A u \in Defining :
              LET entry == e.f_name \in BeforeNull(Source[u].ctors) \cup BeforeNull(Source[u].dtors)
              IN /\ entry <=> wrapped \/ e.f_name \in object[u].listed
                 /\ ~(wrapped /\ e.f_name \in object[u].listed)

(* The tables of a build that was not disturbed are such that monitor_load *)
(* accepts them, and picon-prelink itself refuses only what was compiled   *)
(* twice.                                                                  *)
LoaderAccepts ==
  /\ linked = "yes" /\ harm = "none" => WellFormed(image)
  /\ linked = "exit255" => repeats > 0

(* Every job gets the lock at some time and comes to an end. *)
JobsEnd ==
  \A u \in Units : pc[u] = "waiting" ~> pc[u] \in {"done", "failed", "killed"}
=============================================================================
