------------------------ MODULE MonitorLoadResolution -------------------------
(***************************************************************************)
(* compute_relocations_of_module, for every program: which function a call *)
(* to an external one is checked against, at the runs of initialisers,     *)
(* when only some modules are known, and at the run of main.               *)
(*                                                                         *)
(* The argument: among the functions of a name that other modules define,  *)
(* the search order has a first one, in the last of those modules; the     *)
(* loop ends there.  A later relocation of another module, and the load of *)
(* a further one, leave the relocations of this one alone until the final  *)
(* pass meets it again with all modules known.                             *)
(***************************************************************************)
EXTENDS MonitorLoadProofs, WellFoundedInduction

(* The other modules that define what module m calls j. *)
DefiningModules(m, j) ==
  {k \in T!ModuleIds \ {m} : \E l \in T!FunctionIds(k) :
     ~T!FUNCTION_IS_EXTERNAL(k, l) /\ Name(k, l) = Name(m, j)}
LeadsToLast(m, j, r) ==
  /\ r.module \in DefiningModules(m, j)
  /\ \A k \in DefiningModules(m, j) : k <= r.module
  /\ Name(r.module, r.function) = Name(m, j)
  /\ ~T!FUNCTION_IS_EXTERNAL(r.module, r.function)
ResolvedIn(m, partly) ==
  \A j \in Externals(m) :
    IF DefiningModules(m, j) = {} THEN partly
    ELSE LeadsToLast(m, j, modules[m].relocations[j])

(* The final pass has come to module i. *)
ResolutionInv ==
  /\ mpc = "inits" => ResolvedIn(current, TRUE)
  /\ mpc = "final" => \A m \in T!ModuleIds : m < i => ResolvedIn(m, FALSE)
  /\ mpc = "loaded" => \A m \in T!ModuleIds : ResolvedIn(m, FALSE)
-----------------------------------------------------------------------------
(* First and last elements. *)
LEMMA LeastIn ==
  ASSUME NEW S, S \subseteq Nat, S # {}
  PROVE  \E x \in S : \A y \in S : x <= y
<1> DEFINE Less == {ss \in Nat \X Nat : ss[1] < ss[2]}
<1>1. IsWellFoundedOn(Less, Nat)
  BY NatLessThanWellFounded DEF OpToRel
<1> HIDE DEF Less
<1>2. PICK x \in S : \A y \in S : ~(<<y, x>> \in Less)
  BY <1>1, WFMin
<1>3. \A y \in S : ~(y < x)
  BY <1>2 DEF Less
<1> QED
  BY <1>3

LEMMA GreatestIn ==
  ASSUME NEW n \in Nat, NEW S, S \subseteq 0 .. n, S # {}
  PROVE  \E x \in S : \A y \in S : y <= x
<1> DEFINE R == {n - x : x \in S}
<1>1. R \subseteq Nat /\ R # {}
  <2>1. \A x \in S : n - x \in Nat
    OBVIOUS
  <2>2. R \subseteq Nat
    BY <2>1
  <2>3. PICK x : x \in S
    OBVIOUS
  <2>4. n - x \in R
    BY <2>3
  <2> QED
    BY <2>2, <2>4
<1>2. PICK z \in R : \A y \in R : z <= y
  BY <1>1, LeastIn
<1>3. PICK x \in S : z = n - x
  OBVIOUS
<1>4. ASSUME NEW y \in S
      PROVE  y <= x
  <2>1. n - x <= n - y
    BY <1>2, <1>3
  <2>2. n \in Nat /\ x \in 0 .. n /\ y \in 0 .. n
    BY <1>3, Zenon
  <2> QED
    BY <2>1, <2>2
<1> QED
  BY <1>4

(* The search order has a first match wherever some module defines the     *)
(* function, and the first match is in the last such module.               *)
LEMMA ModuleSizes ==
  ASSUME TablesTyped, nb_modules \in Nat \ {0}
  PROVE  \A k \in T!ModuleIds : k \in Nat /\ T!FunctionIds(k) \subseteq Nat
<1> TAKE k \in T!ModuleIds
<1>1. modules[k] \in Module /\ k \in Nat
  BY DEF TablesTyped, T!ModuleIds
<1>2. modules[k].nb_functions \in Nat
  BY <1>1, ModuleFacts
<1> QED
  BY <1>1, <1>2 DEF T!FunctionIds

LEMMA CandidateIs ==
  ASSUME NEW m, NEW c
  PROVE  c \in Candidates(m) <=>
           \E k \in T!ModuleIds \ {m} : \E l \in T!FunctionIds(k) :
             ~T!FUNCTION_IS_EXTERNAL(k, l) /\ c = <<k, l>>
  BY DEF Candidates

LEMMA FirstMatch ==
  ASSUME TablesTyped, nb_modules \in Nat \ {0}, NEW m, NEW j, DefiningModules(m, j) # {}
  PROVE  Resolution(m, j) # {}
<1> DEFINE D == DefiningModules(m, j)
<1>1. PICK k \in D : \A x \in D : x <= k
  <2>1. D \subseteq 0 .. nb_modules - 1 /\ nb_modules - 1 \in Nat
    BY DEF DefiningModules, T!ModuleIds
  <2> HIDE DEF D
  <2>2. D # {}
    BY DEF D
  <2> QED
    BY <2>1, <2>2, GreatestIn
<1>2. k \in T!ModuleIds /\ k # m
  BY DEF DefiningModules
<1> DEFINE L == {l \in T!FunctionIds(k) : ~T!FUNCTION_IS_EXTERNAL(k, l) /\ Name(k, l) = Name(m, j)}
<1>3. L \subseteq Nat /\ L # {}
  <2>1. T!FunctionIds(k) \subseteq Nat
    BY <1>2, ModuleSizes
  <2>2. \E l \in T!FunctionIds(k) : ~T!FUNCTION_IS_EXTERNAL(k, l) /\ Name(k, l) = Name(m, j)
    BY DEF DefiningModules
  <2> QED
    BY <2>1, <2>2
<1>4. PICK l \in L : \A y \in L : l <= y
  BY <1>3, LeastIn
<1> DEFINE c == <<k, l>>
<1>5. c \in Candidates(m) /\ Matches(m, j, c) /\ c[1] = k /\ c[2] = l
  <2>1. c \in Candidates(m)
    BY <1>2, CandidateIs
  <2> QED
    BY <2>1 DEF Matches
<1>6. ASSUME NEW d \in Candidates(m), Before(d, c), Matches(m, j, d)
      PROVE  FALSE
  <2>1. PICK k2 \in T!ModuleIds \ {m} : \E l2 \in T!FunctionIds(k2) :
             ~T!FUNCTION_IS_EXTERNAL(k2, l2) /\ d = <<k2, l2>>
    BY CandidateIs
  <2>2. PICK l2 \in T!FunctionIds(k2) : ~T!FUNCTION_IS_EXTERNAL(k2, l2) /\ d = <<k2, l2>>
    BY <2>1
  <2>3. d[1] = k2 /\ d[2] = l2 /\ Name(k2, l2) = Name(m, j)
    BY <2>2, <1>6 DEF Matches
  <2>4. k2 \in D
    BY <2>2, <2>3 DEF DefiningModules
  <2>5. k2 <= k /\ k2 \in Nat /\ k \in Nat
    BY <2>4, <1>1, <1>2, ModuleSizes
  <2>6. k2 > k \/ (k2 = k /\ l2 < l)
    BY <1>6, <2>3, <1>5 DEF Before
  <2>7. k2 = k /\ l2 < l
    BY <2>5, <2>6
  <2>8. l2 \in L
    BY <2>2, <2>3, <2>7
  <2>9. l <= l2 /\ l \in Nat /\ l2 \in Nat
    BY <2>8, <1>3, <1>4
  <2> QED
    BY <2>7, <2>9
<1>7. c \in Resolution(m, j)
  BY <1>5, <1>6 DEF Resolution, Compared
<1> QED
  BY <1>7

LEMMA MatchIsLast ==
  ASSUME TablesTyped, nb_modules \in Nat \ {0}, NEW m, NEW j, NEW c \in Resolution(m, j)
  PROVE  LeadsToLast(m, j, [module |-> c[1], function |-> c[2]])
<1>1. /\ c \in Candidates(m) /\ Matches(m, j, c)
      /\ ~\E d \in Candidates(m) : Before(d, c) /\ Matches(m, j, d)
  BY DEF Resolution, Compared
<1>2. PICK k \in T!ModuleIds \ {m} : \E l \in T!FunctionIds(k) :
             ~T!FUNCTION_IS_EXTERNAL(k, l) /\ c = <<k, l>>
  BY <1>1, CandidateIs
<1>3. PICK l \in T!FunctionIds(k) : ~T!FUNCTION_IS_EXTERNAL(k, l) /\ c = <<k, l>>
  BY <1>2
<1>4. c[1] = k /\ c[2] = l /\ Name(k, l) = Name(m, j)
  BY <1>1, <1>3 DEF Matches
<1>5. k \in DefiningModules(m, j)
  BY <1>3, <1>4 DEF DefiningModules
<1>6. ASSUME NEW k2 \in DefiningModules(m, j)
      PROVE  k2 <= k
  <2>1. PICK l2 \in T!FunctionIds(k2) :
          ~T!FUNCTION_IS_EXTERNAL(k2, l2) /\ Name(k2, l2) = Name(m, j)
    BY DEF DefiningModules
  <2>2. k2 \in T!ModuleIds \ {m}
    BY DEF DefiningModules
  <2> DEFINE d == <<k2, l2>>
  <2>3. d \in Candidates(m) /\ Matches(m, j, d)
    <3>1. d \in Candidates(m)
      BY <2>1, <2>2, CandidateIs
    <3> QED
      BY <2>1, <3>1 DEF Matches
  <2>4. ~Before(d, c)
    BY <1>1, <2>3
  <2>5. ~(k2 > k)
    BY <2>4, <1>4 DEF Before
  <2>6. k2 \in Nat /\ k \in Nat
    BY <1>2, <2>2, ModuleSizes
  <2> QED
    BY <2>5, <2>6
<1> QED
  BY <1>3, <1>4, <1>5, <1>6 DEF LeadsToLast
-----------------------------------------------------------------------------
(* What a relocation pass changes. *)
LEMMA PassSets ==
  ASSUME TablesTyped, NEW mid \in T!ModuleIds, nb_modules \in Nat \ {0},
         modules[mid].nb_functions > 0, NEW fatal, modules' = Relocated(mid, fatal)
  PROVE  /\ \A k \in T!ModuleIds : k # mid => modules'[k] = modules[k]
         /\ \A j \in Externals(mid) :
              j \in Visited(mid, fatal) /\ j \notin Unresolved(mid) =>
                \E c \in Resolution(mid, j) :
                  modules'[mid].relocations[j] = [module |-> c[1], function |-> c[2]]
<1> DEFINE old == modules[mid]
           To(j) == IF j \in Visited(mid, fatal) \ Unresolved(mid)
                    THEN LET c == CHOOSE c \in Resolution(mid, j) : TRUE
                         IN [module |-> c[1], function |-> c[2]]
                    ELSE old.relocations[j]
           R == [j \in T!FunctionIds(mid) |-> To(j)]
           d == [old EXCEPT !.relocations = R]
<1>1. modules \in [T!ModuleIds -> Module] /\ old \in Module
  BY DEF TablesTyped
<1>2. modules' = [modules EXCEPT ![mid] = d]
  BY <1>1 DEF Relocated
<1>3. d.relocations = R
  <2>1. d = [nb_functions |-> old.nb_functions, nb_entrypoint_inits |-> old.nb_entrypoint_inits,
             nb_entrypoint_finis |-> old.nb_entrypoint_finis, call_graph |-> old.call_graph,
             relocations |-> R, functions |-> old.functions]
    BY <1>1, ModuleExcept
  <2> HIDE DEF R, d
  <2> QED
    BY <2>1
<1> HIDE DEF d
<1>4. /\ modules'[mid] = d
      /\ \A k \in T!ModuleIds : k # mid => modules'[k] = modules[k]
  BY <1>1, <1>2
<1>5. ASSUME NEW j \in Externals(mid), j \in Visited(mid, fatal), j \notin Unresolved(mid)
      PROVE  \E c \in Resolution(mid, j) :
               modules'[mid].relocations[j] = [module |-> c[1], function |-> c[2]]
  <2>1. Resolution(mid, j) # {}
    BY <1>5 DEF Unresolved
  <2>2. PICK c : c = CHOOSE x \in Resolution(mid, j) : TRUE
    OBVIOUS
  <2>3. c \in Resolution(mid, j)
    BY <2>1, <2>2
  <2>4. To(j) = [module |-> c[1], function |-> c[2]]
    BY <1>5, <2>2
  <2> HIDE DEF To
  <2>5. modules'[mid].relocations[j] = To(j)
    <3>1. j \in T!FunctionIds(mid)
      BY DEF Externals
    <3> QED
      BY <3>1, <1>3, <1>4
  <2> QED
    BY <2>3, <2>4, <2>5
<1> QED
  BY <1>4, <1>5

(* Names and flags decide which functions are meant: where they stay, the  *)
(* sets do.                                                                *)
LEMMA NamesFrame ==
  ASSUME nb_modules' = nb_modules,
         \A k \in T!ModuleIds : /\ modules'[k].nb_functions = modules[k].nb_functions
                                /\ modules'[k].functions = modules[k].functions,
         NEW m \in T!ModuleIds
  PROVE  /\ T!ModuleIds' = T!ModuleIds
         /\ Externals(m)' = Externals(m)
         /\ \A j : DefiningModules(m, j)' = DefiningModules(m, j)
         /\ \A j, r : r.module \in T!ModuleIds =>
              (Name(r.module, r.function)' = Name(r.module, r.function)
               /\ (T!FUNCTION_IS_EXTERNAL(r.module, r.function)'
                     <=> T!FUNCTION_IS_EXTERNAL(r.module, r.function)))
         /\ \A j : Name(m, j)' = Name(m, j)
<1>1. T!ModuleIds' = T!ModuleIds
  BY DEF T!ModuleIds
<1>2. \A k \in T!ModuleIds : \A l :
        /\ T!FunctionIds(k)' = T!FunctionIds(k)
        /\ Name(k, l)' = Name(k, l)
        /\ T!FUNCTION_IS_EXTERNAL(k, l)' <=> T!FUNCTION_IS_EXTERNAL(k, l)
  BY DEF T!FunctionIds, Name, T!FUNCTION_IS_EXTERNAL
<1>3. Externals(m)' = Externals(m)
  BY <1>2 DEF Externals
<1>4. ASSUME NEW j
      PROVE  DefiningModules(m, j)' = DefiningModules(m, j)
  BY <1>1, <1>2 DEF DefiningModules
<1> QED
  BY <1>1, <1>2, <1>3, <1>4

LEMMA LastFrame ==
  ASSUME nb_modules' = nb_modules,
         \A k \in T!ModuleIds : /\ modules'[k].nb_functions = modules[k].nb_functions
                                /\ modules'[k].functions = modules[k].functions,
         NEW m \in T!ModuleIds, NEW j, NEW r
  PROVE  LeadsToLast(m, j, r)' <=> LeadsToLast(m, j, r)
<1>1. /\ DefiningModules(m, j)' = DefiningModules(m, j)
      /\ Name(m, j)' = Name(m, j)
  BY NamesFrame
<1>2. r.module \in T!ModuleIds =>
        /\ Name(r.module, r.function)' = Name(r.module, r.function)
        /\ T!FUNCTION_IS_EXTERNAL(r.module, r.function)'
             <=> T!FUNCTION_IS_EXTERNAL(r.module, r.function)
  BY NamesFrame
<1>3. r.module \in DefiningModules(m, j) => r.module \in T!ModuleIds
  BY DEF DefiningModules
<1> QED
  BY <1>1, <1>2, <1>3 DEF LeadsToLast

LEMMA ResolvedFrame ==
  ASSUME nb_modules' = nb_modules,
         \A k \in T!ModuleIds : /\ modules'[k].nb_functions = modules[k].nb_functions
                                /\ modules'[k].functions = modules[k].functions,
         NEW m \in T!ModuleIds, modules'[m].relocations = modules[m].relocations,
         NEW partly, ResolvedIn(m, partly)
  PROVE  ResolvedIn(m, partly)'
<1>1. Externals(m)' = Externals(m)
  BY NamesFrame
<1>2. ASSUME NEW j \in Externals(m)
      PROVE  (IF DefiningModules(m, j) = {} THEN partly
              ELSE LeadsToLast(m, j, modules[m].relocations[j]))'
  <2>1. PICK r : r = modules[m].relocations[j]
    OBVIOUS
  <2>2. r = modules'[m].relocations[j]
    BY <2>1
  <2>3. DefiningModules(m, j)' = DefiningModules(m, j)
    BY NamesFrame
  <2>4. LeadsToLast(m, j, r)' <=> LeadsToLast(m, j, r)
    BY LastFrame
  <2>5. IF DefiningModules(m, j) = {} THEN partly ELSE LeadsToLast(m, j, r)
    BY <2>1 DEF ResolvedIn
  <2> QED
    BY <2>2, <2>3, <2>4, <2>5
<1> QED
  BY <1>1, <1>2 DEF ResolvedIn

(* A pass over a module resolves it, as far as modules are known; a pass   *)
(* that may leave nothing and does not fail resolves it altogether.        *)
LEMMA PassResolves ==
  ASSUME TablesTyped, nb_modules \in Nat \ {0}, nb_modules' = nb_modules,
         NEW mid \in T!ModuleIds, modules[mid].nb_functions > 0,
         NEW fatal \in BOOLEAN, fatal => Unresolved(mid) = {},
         modules' = Relocated(mid, fatal)
  PROVE  /\ ResolvedIn(mid, ~fatal)'
         /\ \A k \in T!ModuleIds : k # mid /\ ResolvedIn(k, FALSE) => ResolvedIn(k, FALSE)'
<1>1. \A k \in T!ModuleIds : /\ modules'[k].nb_functions = modules[k].nb_functions
                             /\ modules'[k].functions = modules[k].functions
  BY RelocatedKept
<1>2. /\ \A k \in T!ModuleIds : k # mid => modules'[k] = modules[k]
      /\ \A j \in Externals(mid) :
           j \in Visited(mid, fatal) /\ j \notin Unresolved(mid) =>
             \E c \in Resolution(mid, j) :
               modules'[mid].relocations[j] = [module |-> c[1], function |-> c[2]]
  BY PassSets
<1>3. Externals(mid)' = Externals(mid)
  BY <1>1, NamesFrame
<1>4. Visited(mid, fatal) = Externals(mid)
  BY DEF Visited
<1>5. ASSUME NEW j \in Externals(mid)
      PROVE  (IF DefiningModules(mid, j) = {} THEN ~fatal
              ELSE LeadsToLast(mid, j, modules[mid].relocations[j]))'
  <2>1. DefiningModules(mid, j)' = DefiningModules(mid, j)
    BY <1>1, NamesFrame
  <2>2. CASE DefiningModules(mid, j) = {}
    <3>1. Resolution(mid, j) = {}
      <4> SUFFICES ASSUME NEW c \in Resolution(mid, j) PROVE FALSE
        OBVIOUS
      <4>1. LeadsToLast(mid, j, [module |-> c[1], function |-> c[2]])
        BY MatchIsLast
      <4> QED
        BY <4>1, <2>2 DEF LeadsToLast
    <3>2. j \in Unresolved(mid)
      BY <3>1 DEF Unresolved
    <3> QED
      BY <3>2, <2>1, <2>2
  <2>3. CASE DefiningModules(mid, j) # {}
    <3>1. Resolution(mid, j) # {}
      BY <2>3, FirstMatch
    <3>2. j \notin Unresolved(mid) /\ j \in Visited(mid, fatal)
      BY <3>1, <1>4 DEF Unresolved
    <3>3. PICK c \in Resolution(mid, j) :
            modules'[mid].relocations[j] = [module |-> c[1], function |-> c[2]]
      BY <3>2, <1>2
    <3>4. PICK r : r = [module |-> c[1], function |-> c[2]]
      OBVIOUS
    <3>5. LeadsToLast(mid, j, r)
      BY <3>4, MatchIsLast
    <3>6. LeadsToLast(mid, j, r)'
      BY <3>5, <1>1, LastFrame
    <3> QED
      BY <3>3, <3>4, <3>6, <2>1, <2>3
  <2> QED
    BY <2>2, <2>3
<1>6. ResolvedIn(mid, ~fatal)'
  BY <1>3, <1>5 DEF ResolvedIn
<1>7. ASSUME NEW k \in T!ModuleIds, k # mid, ResolvedIn(k, FALSE)
      PROVE  ResolvedIn(k, FALSE)'
  <2>1. modules'[k].relocations = modules[k].relocations
    BY <1>2, <1>7
  <2> QED
    BY <2>1, <1>1, <1>7, ResolvedFrame
<1> QED
  BY <1>6, <1>7
-----------------------------------------------------------------------------
(* The steps that pass over a module, and the others. *)
LEMMA LoadedTables ==
  ASSUME LoadInv, mpc \in {"relocate", "inits", "final", "loaded"}
  PROVE  /\ TablesTyped /\ nb_modules \in Nat \ {0} /\ current \in T!ModuleIds /\ i \in Nat
         /\ \A m \in T!ModuleIds : m \in Nat /\ modules[m].nb_functions > 0
<1>1. Loading /\ Whole
  BY DEF Loading, Stopped, Whole, MonitorUp
<1>2. ClientInv /\ PipesInv /\ ControlInv /\ FunctionsInv /\ TablesTyped
  BY <1>1 DEF LoadInv
<1>3. nb_modules \in Nat \ {0} /\ pkt.event \notin {"BEGIN", "FUNCTION_ID"} /\ i \in Nat
  <2>1. cmod \in Nat
    BY <1>2, ImageFacts DEF ClientInv
  <2> QED
    BY <2>1, <1>2 DEF PipesInv, ControlInv
<1>4. current \in T!ModuleIds /\ \A m \in T!ModuleIds : m \in Nat
  BY <1>3 DEF current, T!ModuleIds
<1> QED
  BY <1>2, <1>3, <1>4 DEF FunctionsInv

LEMMA RelocateResolves ==
  ASSUME LoadInv, Relocate
  PROVE  ResolutionInv'
<1>1. /\ mpc = "relocate" /\ nb_modules' = nb_modules
      /\ \/ mpc' = "segv"
         \/ mpc' = "inits" /\ modules' = Relocated(current, FALSE)
  BY DEF Relocate
<1>2. CASE mpc' = "segv"
  BY <1>2 DEF ResolutionInv
<1>3. CASE mpc' = "inits" /\ modules' = Relocated(current, FALSE)
  <2>1. /\ TablesTyped /\ nb_modules \in Nat \ {0} /\ current \in T!ModuleIds
        /\ modules[current].nb_functions > 0
    BY <1>1, LoadedTables
  <2>2. PICK mid : mid = current
    OBVIOUS
  <2>3. ResolvedIn(mid, ~FALSE)'
    BY <2>1, <2>2, <1>1, <1>3, PassResolves
  <2>4. ResolvedIn(mid, TRUE)'
    BY <2>3 DEF ResolvedIn
  <2>5. mid = current'
    BY <2>2, <1>1 DEF current
  <2> QED
    BY <2>4, <2>5, <1>3 DEF ResolutionInv
<1> QED
  BY <1>1, <1>2, <1>3

LEMMA FinalResolves ==
  ASSUME LoadInv, ResolutionInv, FinalRelocation
  PROVE  ResolutionInv'
<1>1. /\ mpc = "final" /\ nb_modules' = nb_modules
      /\ \/ mpc' = "loaded" /\ UNCHANGED <<modules, i>> /\ i = nb_modules
         \/ mpc' \in {"segv", "failed"}
         \/ /\ modules' = Relocated(i, TRUE) /\ i # nb_modules
            /\ Unresolved(i) = {} /\ mpc' = "final" /\ i' = i + 1
  <2>1. CASE i = nb_modules
    BY <2>1 DEF FinalRelocation
  <2>2. CASE i # nb_modules
    BY <2>2 DEF FinalRelocation
  <2> QED
    BY <2>1, <2>2
<1>2. /\ TablesTyped /\ nb_modules \in Nat \ {0} /\ i \in 0 .. nb_modules
      /\ \A m \in T!ModuleIds : m \in Nat /\ modules[m].nb_functions > 0
  <2>1. ControlInv
    BY <1>1 DEF LoadInv, Loading, Stopped
  <2> QED
    BY <2>1, <1>1, LoadedTables DEF ControlInv
<1>3. \A m \in T!ModuleIds : m < i => ResolvedIn(m, FALSE)
  BY <1>1 DEF ResolutionInv
<1>4. T!ModuleIds' = T!ModuleIds
  BY <1>1 DEF T!ModuleIds
<1>5. CASE mpc' = "loaded" /\ UNCHANGED <<modules, i>> /\ i = nb_modules
  <2>1. ASSUME NEW m \in T!ModuleIds
        PROVE  ResolvedIn(m, FALSE)'
    <3>1. m < i
      BY <1>2, <1>5 DEF T!ModuleIds
    <3>2. ResolvedIn(m, FALSE)
      BY <3>1, <1>3
    <3> QED
      BY <3>2, <1>1, <1>5, ResolvedFrame
  <2> QED
    BY <2>1, <1>4, <1>5 DEF ResolutionInv
<1>6. CASE mpc' \in {"segv", "failed"}
  BY <1>6 DEF ResolutionInv
<1>7. CASE /\ modules' = Relocated(i, TRUE) /\ i # nb_modules
           /\ Unresolved(i) = {} /\ mpc' = "final" /\ i' = i + 1
  <2>1. PICK mid : mid = i
    OBVIOUS
  <2>2. mid \in T!ModuleIds
    BY <2>1, <1>2, <1>7 DEF T!ModuleIds
  <2>3. /\ ResolvedIn(mid, ~TRUE)'
        /\ \A k \in T!ModuleIds : k # mid /\ ResolvedIn(k, FALSE) => ResolvedIn(k, FALSE)'
    BY <2>1, <2>2, <1>1, <1>2, <1>7, PassResolves
  <2>4. ResolvedIn(mid, FALSE)'
    BY <2>3 DEF ResolvedIn
  <2>5. ASSUME NEW m \in T!ModuleIds, m < i'
        PROVE  ResolvedIn(m, FALSE)'
    <3>1. m = mid \/ (m # mid /\ m < i)
      BY <2>1, <2>5, <1>2, <1>7
    <3> QED
      BY <3>1, <2>3, <2>4, <1>3
  <2> QED
    BY <2>5, <1>4, <1>7 DEF ResolutionInv
<1> QED
  BY <1>1, <1>5, <1>6, <1>7

LEMMA TablesStay ==
  ASSUME LoadInv, ResolutionInv, UNCHANGED <<mpc, tables, i>>
  PROVE  ResolutionInv'
<1>1. UNCHANGED <<nb_modules, modules>>
  BY DEF tables
<1>2. T!ModuleIds' = T!ModuleIds /\ current' = current
  BY <1>1 DEF T!ModuleIds, current
<1>3. \A m \in T!ModuleIds : \A b \in BOOLEAN : ResolvedIn(m, b) => ResolvedIn(m, b)'
  BY <1>1, ResolvedFrame
<1>4. mpc = "inits" => current \in T!ModuleIds
  BY LoadedTables
<1>5. mpc = "inits" => ResolvedIn(current, TRUE)'
  <2>1. PICK mid : mid = current
    OBVIOUS
  <2>2. mpc = "inits" => ResolvedIn(mid, TRUE)'
    BY <2>1, <1>3, <1>4 DEF ResolutionInv
  <2>3. mid = current'
    BY <2>1, <1>2
  <2> QED
    BY <2>2, <2>3
<1> QED
  BY <1>2, <1>3, <1>5 DEF ResolutionInv

(* What every step keeps of the relocations. *)
THEOREM ResolutionInvariant == Spec => []ResolutionInv
<1>1. Init => ResolutionInv
  BY DEF Init, ResolutionInv
<1>2. LoadInv /\ ResolutionInv /\ [Next]_vars => ResolutionInv'
  <2> SUFFICES ASSUME LoadInv, ResolutionInv, [Next]_vars
               PROVE  ResolutionInv'
    OBVIOUS
  <2>1. CASE mpc' \notin {"inits", "final", "loaded"}
    BY <2>1 DEF ResolutionInv
  <2>2. CASE UNCHANGED <<mpc, tables, i>>
    BY <2>2, TablesStay
  <2>3. CASE Relocate
    BY <2>3, RelocateResolves
  <2>4. CASE FinalRelocation
    BY <2>4, FinalResolves
  <2>5. CASE FirstPacket
    <3>1. mpc' \in {"sections", "failed"} \/ (mpc' = "final" /\ i' = 0 /\ UNCHANGED tables)
      BY <2>5 DEF FirstPacket, ModuleBegin
    <3>2. CASE mpc' = "final" /\ i' = 0 /\ UNCHANGED tables
      <4>1. \A m \in T!ModuleIds' : ~(m < 0)
        BY DEF T!ModuleIds
      <4> QED
        BY <4>1, <3>2 DEF ResolutionInv
    <3> QED
      BY <2>1, <3>1, <3>2
  <2>6. SectionPacket \/ LoadEntry \/ NoRow \/ NoName \/ SectionEnds
          => mpc' \notin {"inits", "final", "loaded"}
    BY DEF SectionPacket, LoadEntry, NoRow, NoName, SectionEnds
  <2>7. InitsEnd \/ ReadFails \/ RunFindsNoClient \/ Kill \/ monitor_data_free
          => mpc' \notin {"inits", "final", "loaded"}
    BY DEF InitsEnd, ReadFails, RunFindsNoClient, Kill, monitor_data_free
  <2>8. MainRuns => mpc' \notin {"inits", "final", "loaded"}
    BY DEF MainRuns
  <2>9. InitRun => mpc' = "failed" \/ UNCHANGED <<mpc, tables, i>>
    BY DEF InitRun
  <2>10. SendPacket \/ ReceiveId \/ ConstructorEnds \/ ClientAborts \/ ClientDies
           => UNCHANGED <<mpc, tables, i>>
    BY DEF SendPacket, ReceiveId, ConstructorEnds, ClientAborts, ClientDies, monitor
  <2>11. Terminated \/ UNCHANGED vars => UNCHANGED <<mpc, tables, i>>
    BY DEF Terminated, vars, monitor
  <2> QED
    BY <2>1, <2>2, <2>3, <2>4, <2>5, <2>6, <2>7, <2>8, <2>9, <2>10, <2>11 DEF Next
<1> QED
  BY <1>1, <1>2, LoadInvariant, PTL DEF Spec

(* A call to an external function is checked against a function of that    *)
(* name that another module defines, in the last such module the monitor   *)
(* knows: at the run of main in the last one of the program, with nothing  *)
(* left open; at the run of an initialiser in the last one loaded so far.  *)
THEOREM ResolvedTheorem == Spec => []ExternalsResolved
<1>1. LoadInv /\ ResolutionInv => ExternalsResolved
  <2> SUFFICES ASSUME LoadInv, ResolutionInv, NEW m \in T!ModuleIds,
                      mpc = "loaded" \/ (mpc = "inits" /\ m = current),
                      NEW j \in Externals(m)
               PROVE  IF DefiningModules(m, j) = {} THEN mpc = "inits"
                      ELSE LeadsToLast(m, j, modules[m].relocations[j])
    BY DEF ExternalsResolved, DefiningModules, LeadsToLast
  <2>1. ResolvedIn(m, mpc = "inits")
    BY DEF ResolutionInv, ResolvedIn
  <2> QED
    BY <2>1 DEF ResolvedIn
<1> QED
  BY <1>1, LoadInvariant, ResolutionInvariant, PTL
=============================================================================
