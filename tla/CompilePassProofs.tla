-------------------------- MODULE CompilePassProofs ---------------------------
(***************************************************************************)
(* The identifiers and the tables of a parallel build, for any number of   *)
(* source files and any contents, however the jobs interleave and however  *)
(* often they are killed and repeated.                                     *)
(*                                                                         *)
(* The argument.  The jobs that hold the lock exclude each other.  The one *)
(* that holds it knows the identifiers of the file and continues them      *)
(* without a gap; it never changes one that was given.  So what a finished *)
(* unit has in its code stays in the file (CompileInv).  Every line of the *)
(* other files is therefore the line of a unit under the identifiers of    *)
(* the table (FilesInv); what a unit wrote last is what is read back, as   *)
(* no other unit defines the function (KeptInv); and the flags of a        *)
(* function are those of the unit that defines it (FlagsInv).              *)
(***************************************************************************)
EXTENDS CompilePass, FiniteSetTheorems, FunctionTheorems, NaturalsInduction,
  WellFoundedInduction, TLAPS

(* Where a job holds the lock. *)
Holding == {"locked", "identified", "callgraph", "transitions", "rewriting", "ids", "ipdom"}
Places == Holding \cup {"waiting", "unlocked", "done", "failed", "killed"}

(* The names a unit numbers. *)
Names(u) == {F.name : F \in FunctionMap(u)}

(* The contents of .fctid, in memory of the job that is rewriting it. *)
Table == IF lock # NoJob /\ pc[lock] = "rewriting" THEN oldMap[lock] ELSE fctid
Ids == [n \in DOMAIN Table |-> Table[n].id]

(* The identifiers run from 0 on, without gaps or repetitions. *)
Numbers(map) ==
  /\ IsFiniteSet(DOMAIN map)
  /\ {map[n] : n \in DOMAIN map} = 0 .. Cardinality(DOMAIN map) - 1
Agrees(map, S) == \A n \in S : n \in DOMAIN Table /\ Table[n].id = map[n]

Exclusion == \A u \in Units : pc[u] \in Holding <=> lock = u
KnowsAll(u) ==
  /\ DOMAIN known[u] = DOMAIN Table \cup Names(u)
  /\ Agrees(known[u], DOMAIN Table) /\ Numbers(known[u])
Continued(u) ==
  pc[u] \in {"identified", "callgraph", "transitions", "rewriting"} => KnowsAll(u)
Recorded(u) == pc[u] \in {"ids", "ipdom", "unlocked"} => Agrees(known[u], Names(u))
InCode(u) == object[u] # NULL => Agrees(object[u].ids, DOMAIN object[u].ids)

BuildTypes ==
  /\ Source \in Builds /\ pc \in [Units -> Places] /\ lock \in Units \cup {NoJob}
  /\ DOMAIN known = Units /\ DOMAIN oldMap = Units /\ DOMAIN object = Units
CompileInv ==
  /\ BuildTypes
  /\ Intact =>
       /\ Exclusion /\ Numbers(Ids)
       /\ \A u \in Units : Continued(u) /\ Recorded(u) /\ InCode(u)
-----------------------------------------------------------------------------
(* Counting those before each element numbers a finite set.  R is an order *)
(* of it.                                                                  *)
Rank(K, R, k) == Cardinality({j \in K : <<j, k>> \in R})
LEMMA RanksDiffer ==
  ASSUME NEW K, IsFiniteSet(K), NEW R,
         \A k \in K : <<k, k>> \notin R,
         \A j, k, l \in K : <<j, k>> \in R /\ <<k, l>> \in R => <<j, l>> \in R,
         \A k, l \in K : k # l => <<k, l>> \in R \/ <<l, k>> \in R
  PROVE  \A k, l \in K : Rank(K, R, k) = Rank(K, R, l) => k = l
<1> DEFINE Below(k) == {j \in K : <<j, k>> \in R}
<1>1. \A k \in K : IsFiniteSet(Below(k))
  <2> TAKE k \in K
  <2>1. Below(k) \in SUBSET K
    OBVIOUS
  <2> QED
    BY <2>1, FS_Subset
<1>2. ASSUME NEW k \in K, NEW l \in K, <<k, l>> \in R
      PROVE  Cardinality(Below(k)) # Cardinality(Below(l))
  <2>1. k \in Below(l)
    BY <1>2
  <2>2. Below(k) \in SUBSET (Below(l) \ {k})
    BY <1>2
  <2>3. /\ IsFiniteSet(Below(l) \ {k})
        /\ Cardinality(Below(l) \ {k}) = Cardinality(Below(l)) - 1
    BY <2>1, <1>1, FS_RemoveElement
  <2>4. Cardinality(Below(k)) <= Cardinality(Below(l) \ {k})
    BY <2>2, <2>3, FS_Subset
  <2>5. Cardinality(Below(k)) \in Nat /\ Cardinality(Below(l)) \in Nat
    BY <1>1, FS_CardinalityType
  <2> QED
    BY <2>3, <2>4, <2>5
<1> SUFFICES ASSUME NEW k \in K, NEW l \in K, k # l
             PROVE  Rank(K, R, k) # Rank(K, R, l)
  OBVIOUS
<1>3. <<k, l>> \in R \/ <<l, k>> \in R
  OBVIOUS
<1>4. Rank(K, R, k) = Cardinality(Below(k)) /\ Rank(K, R, l) = Cardinality(Below(l))
  BY DEF Rank
<1> HIDE DEF Below
<1> QED
  BY <1>2, <1>3, <1>4

LEMMA RanksOf ==
  ASSUME NEW K, IsFiniteSet(K), NEW R,
         \A k \in K : <<k, k>> \notin R,
         \A j, k, l \in K : <<j, k>> \in R /\ <<k, l>> \in R => <<j, l>> \in R,
         \A k, l \in K : k # l => <<k, l>> \in R \/ <<l, k>> \in R
  PROVE  {Rank(K, R, k) : k \in K} = 0 .. Cardinality(K) - 1
<1> DEFINE n == Cardinality(K)
           D == 0 .. n - 1
           F == [k \in K |-> Rank(K, R, k)]
<1>1. n \in Nat
  BY FS_CardinalityType
<1>2. ASSUME NEW k \in K
      PROVE  Rank(K, R, k) \in D
  <2> DEFINE B == {j \in K : <<j, k>> \in R}
  <2>1. IsFiniteSet(K \ {k}) /\ Cardinality(K \ {k}) = n - 1
    BY FS_RemoveElement
  <2>2. B \in SUBSET (K \ {k})
    OBVIOUS
  <2>3. IsFiniteSet(B) /\ Cardinality(B) <= Cardinality(K \ {k})
    BY <2>1, <2>2, FS_Subset
  <2>4. Cardinality(B) \in Nat
    BY <2>3, FS_CardinalityType
  <2> QED
    BY <2>1, <2>3, <2>4, <1>1 DEF Rank
<1>3. F \in [K -> D]
  BY <1>2
<1>4. \A k, l \in K : F[k] = F[l] => k = l
  BY RanksDiffer
<1>5. F \in Injection(K, D)
  <2> HIDE DEF F
  <2> QED
    BY <1>3, <1>4, Fun_IsInj
<1>6. IsFiniteSet(D) /\ Cardinality(D) = n
  <2>1. 0 \in Int /\ n - 1 \in Int
    BY <1>1
  <2>2. IsFiniteSet(D) /\ Cardinality(D) = IF 0 > n - 1 THEN 0 ELSE (n - 1) - 0 + 1
    BY <2>1, FS_Interval
  <2> QED
    BY <2>2, <1>1
<1>7. F \in Surjection(K, D)
  <2> HIDE DEF F, D
  <2> QED
    BY <1>5, <1>6, FS_Injection
<1>8. \A d \in D : \E k \in K : F[k] = d
  <2> HIDE DEF F, D
  <2> QED
    BY <1>7 DEF Surjection
<1>9. D = {F[k] : k \in K}
  <2> HIDE DEF F, D
  <2> QED
    BY <1>3, <1>8
<1> QED
  BY <1>9

LEMMA Ranks ==
  ASSUME NEW K \in SUBSET Nat, IsFiniteSet(K)
  PROVE  {Cardinality({j \in K : j < k}) : k \in K} = 0 .. Cardinality(K) - 1
<1> DEFINE R == {p \in K \X K : p[1] < p[2]}
<1>1. \A j, k \in K : <<j, k>> \in R <=> j < k
  OBVIOUS
<1> HIDE DEF R
<1>2. \A k \in K : <<k, k>> \notin R
  BY <1>1
<1>3. \A j, k, l \in K : <<j, k>> \in R /\ <<k, l>> \in R => <<j, l>> \in R
  BY <1>1
<1>4. \A k, l \in K : k # l => <<k, l>> \in R \/ <<l, k>> \in R
  BY <1>1
<1>5. {Rank(K, R, k) : k \in K} = 0 .. Cardinality(K) - 1
  BY <1>2, <1>3, <1>4, RanksOf
<1> DEFINE Q(k) == Cardinality({j \in K : j < k})
<1>6. ASSUME NEW k \in K PROVE Rank(K, R, k) = Q(k)
  <2>1. {j \in K : <<j, k>> \in R} = {j \in K : j < k}
    BY <1>1
  <2> QED
    BY <2>1 DEF Rank
<1> HIDE DEF Q
<1>7. {Q(k) : k \in K} = {Rank(K, R, k) : k \in K}
  BY <1>6
<1> QED
  BY <1>5, <1>7 DEF Q

(* The counter is where the numbering goes on. *)
LEMMA CounterFollows ==
  ASSUME NEW map, Numbers(map)
  PROVE  FunIdCtr(map) = Cardinality(DOMAIN map)
<1> DEFINE c == Cardinality(DOMAIN map)
<1>1. c \in Nat
  BY FS_CardinalityType DEF Numbers
<1>2. {map[n] + 1 : n \in DOMAIN map} \cup {0} = 0 .. c
  <2>1. {map[n] : n \in DOMAIN map} = 0 .. c - 1
    BY DEF Numbers
  <2> HIDE DEF c
  <2>2. \A x : x \in {map[n] + 1 : n \in DOMAIN map} <=> x \in 1 .. c
    <3> TAKE x
    <3>1. ASSUME x \in 1 .. c PROVE x \in {map[n] + 1 : n \in DOMAIN map}
      <4>1. x - 1 \in 0 .. c - 1
        BY <3>1, <1>1
      <4>2. PICK n \in DOMAIN map : map[n] = x - 1
        BY <4>1, <2>1
      <4>3. x = map[n] + 1
        BY <4>2, <3>1, <1>1
      <4> QED
        BY <4>3
    <3>2. ASSUME x \in {map[n] + 1 : n \in DOMAIN map} PROVE x \in 1 .. c
      <4>1. PICK n \in DOMAIN map : x = map[n] + 1
        BY <3>2
      <4>2. map[n] \in 0 .. c - 1
        BY <2>1
      <4> QED
        BY <4>1, <4>2, <1>1
    <3> QED
      BY <3>1, <3>2
  <2>3. 1 .. c \cup {0} = 0 .. c
    BY <1>1
  <2> QED
    BY <2>2, <2>3
<1>3. Max(0 .. c) = c
  <2> HIDE DEF c
  <2> QED
    BY <1>1 DEF Max
<1> QED
  BY <1>2, <1>3 DEF FunIdCtr

(* Numbering goes on: the new functions get the next identifiers, in their *)
(* order.                                                                  *)
LEMMA NumberingGoesOn ==
  ASSUME NEW read, Numbers(read), NEW K \in SUBSET Nat, IsFiniteSet(K), NEW nm,
         \A k \in K : nm[k] \notin DOMAIN read,
         \A k, l \in K : nm[k] = nm[l] => k = l,
         NEW map, DOMAIN map = DOMAIN read \cup {nm[k] : k \in K},
         \A n \in DOMAIN read : map[n] = read[n],
         \A k \in K : map[nm[k]] = Cardinality(DOMAIN read) + Cardinality({j \in K : j < k})
  PROVE  Numbers(map)
<1> DEFINE S == DOMAIN read
           M == {nm[k] : k \in K}
           a == Cardinality(S)
           b == Cardinality(K)
           G == [k \in K |-> nm[k]]
<1>1. IsFiniteSet(S) /\ a \in Nat /\ b \in Nat
  BY FS_CardinalityType DEF Numbers
<1>2. IsFiniteSet(M) /\ Cardinality(M) = b
  <2>1. G \in Injection(K, M)
    <3>1. G \in [K -> M] /\ \A k, l \in K : G[k] = G[l] => k = l
      OBVIOUS
    <3> HIDE DEF G, M
    <3> QED
      BY <3>1, Fun_IsInj
  <2>2. G \in Surjection(K, M)
    <3>1. G \in [K -> M] /\ \A t \in M : \E k \in K : G[k] = t
      OBVIOUS
    <3> HIDE DEF G, M
    <3> QED
      BY <3>1, Fun_IsSurj
  <2> HIDE DEF G, M
  <2> QED
    BY <2>1, <2>2, FS_Surjection
<1>3. IsFiniteSet(DOMAIN map) /\ Cardinality(DOMAIN map) = a + b
  <2>1. S \cap M = {}
    OBVIOUS
  <2>2. DOMAIN map = S \cup M
    OBVIOUS
  <2> HIDE DEF S, M
  <2>3. /\ IsFiniteSet(S \cup M)
        /\ Cardinality(S \cup M) = Cardinality(S) + Cardinality(M) - Cardinality(S \cap M)
    BY <1>1, <1>2, FS_Union
  <2> QED
    BY <2>1, <2>2, <2>3, <1>1, <1>2, FS_EmptySet
<1>4. {map[n] : n \in S} = 0 .. a - 1
  BY DEF Numbers
<1>5. {map[nm[k]] : k \in K} = a .. a + b - 1
  <2> DEFINE R(k) == Cardinality({j \in K : j < k})
  <2>1. {R(k) : k \in K} = 0 .. b - 1
    BY Ranks
  <2>2. \A k \in K : map[nm[k]] = a + R(k)
    OBVIOUS
  <2> HIDE DEF a, b, R
  <2>3. ASSUME NEW k \in K PROVE map[nm[k]] \in a .. a + b - 1
    <3>1. R(k) \in 0 .. b - 1
      BY <2>1
    <3> QED
      BY <3>1, <2>2, <1>1
  <2>4. ASSUME NEW x \in a .. a + b - 1 PROVE \E k \in K : map[nm[k]] = x
    <3>1. x - a \in 0 .. b - 1
      BY <1>1
    <3>2. PICK k \in K : R(k) = x - a
      BY <3>1, <2>1
    <3>3. a + R(k) = x
      BY <3>2, <1>1
    <3> QED
      BY <3>3, <2>2
  <2> QED
    BY <2>3, <2>4
<1>6. {map[n] : n \in DOMAIN map} = {map[n] : n \in S} \cup {map[nm[k]] : k \in K}
  <2>1. DOMAIN map = S \cup M
    OBVIOUS
  <2> HIDE DEF S
  <2>2. {map[n] : n \in M} = {map[nm[k]] : k \in K}
    <3>1. \A k \in K : nm[k] \in M
      OBVIOUS
    <3>2. \A n \in M : \E k \in K : n = nm[k]
      OBVIOUS
    <3> QED
      BY ONLY <3>1, <3>2
  <2> HIDE DEF M
  <2>3. {map[n] : n \in S \cup M} = {map[n] : n \in S} \cup {map[n] : n \in M}
    OBVIOUS
  <2> QED
    BY <2>1, <2>2, <2>3
<1>7. (0 .. a - 1) \cup (a .. a + b - 1) = 0 .. (a + b) - 1
  <2> HIDE DEF a, b
  <2> QED
    BY <1>1
<1> QED
  BY <1>3, <1>4, <1>5, <1>6, <1>7 DEF Numbers
-----------------------------------------------------------------------------
(* The names of a unit. *)
LEMMA UnitFacts ==
  ASSUME Source \in Builds, NEW u \in Units
  PROVE  /\ Len(Source[u].funs) \in Nat
         /\ \A k, l \in 1 .. Len(Source[u].funs) : NameAt(u, k) = NameAt(u, l) => k = l
         /\ Names(u) = {NameAt(u, k) : k \in {j \in 1 .. Len(Source[u].funs) :
                                                Identified(NameAt(u, j))}}
<1> DEFINE fs == Source[u].funs
<1>1. /\ fs \in Seq(ToSet(fs))
      /\ \A f, g \in 1 .. Len(fs) : fs[f].name = fs[g].name => f = g
  BY BuildAssumption
<1>2. Len(fs) \in Nat /\ DOMAIN fs = 1 .. Len(fs)
  <2> HIDE DEF fs
  <2>1. \A R : fs \in Seq(R) => Len(fs) \in Nat /\ DOMAIN fs = 1 .. Len(fs)
    OBVIOUS
  <2> QED
    BY <2>1, <1>1
<1>3. ToSet(fs) = {fs[k] : k \in 1 .. Len(fs)}
  BY <1>2 DEF ToSet
<1>4. Names(u) = {F.name : F \in {G \in {fs[k] : k \in 1 .. Len(fs)} : Identified(G.name)}}
  BY <1>3 DEF Names, FunctionMap
<1> QED
  BY <1>1, <1>2, <1>4 DEF NameAt

LEMMA ImageFinite ==
  ASSUME NEW S, IsFiniteSet(S), NEW g
  PROVE  IsFiniteSet({g[x] : x \in S})
<1> DEFINE T == {g[x] : x \in S}
           f == [x \in S |-> g[x]]
<1>1. f \in [S -> T] /\ \A t \in T : \E x \in S : f[x] = t
  OBVIOUS
<1> HIDE DEF T, f
<1>2. f \in Surjection(S, T)
  BY <1>1 DEF Surjection
<1>3. IsFiniteSet(T)
  BY <1>2, FS_Surjection
<1> QED
  BY <1>3 DEF T

LEMMA UnitFunctions ==
  ASSUME Source \in Builds, NEW u \in Units
  PROVE  /\ \A F, G \in FunctionMap(u) : F.name = G.name => F = G
         /\ DefinedIn(u) \subseteq FunctionMap(u) /\ IsFiniteSet(FunctionMap(u))
         /\ \A F \in FunctionMap(u) : F.name \in Names(u)
<1> DEFINE fs == Source[u].funs
<1>1. /\ fs \in Seq(ToSet(fs))
      /\ \A f, g \in 1 .. Len(fs) : fs[f].name = fs[g].name => f = g
  BY BuildAssumption
<1>2. Len(fs) \in Nat /\ DOMAIN fs = 1 .. Len(fs)
  <2> HIDE DEF fs
  <2>1. \A R : fs \in Seq(R) => Len(fs) \in Nat /\ DOMAIN fs = 1 .. Len(fs)
    OBVIOUS
  <2> QED
    BY <2>1, <1>1
<1>3. ToSet(fs) = {fs[k] : k \in 1 .. Len(fs)}
  BY <1>2 DEF ToSet
<1>4. FunctionMap(u) \subseteq ToSet(fs)
  BY DEF FunctionMap
<1>5. IsFiniteSet(FunctionMap(u))
  <2> HIDE DEF fs
  <2>1. IsFiniteSet(1 .. Len(fs))
    BY <1>2, FS_Interval
  <2>2. IsFiniteSet(ToSet(fs))
    BY <2>1, <1>3, ImageFinite
  <2> QED
    BY <2>2, <1>4, FS_Subset
<1>6. \A F, G \in FunctionMap(u) : F.name = G.name => F = G
  BY <1>1, <1>3, <1>4
<1> QED
  BY <1>5, <1>6 DEF DefinedIn, Names
-----------------------------------------------------------------------------
(* What depends on the file alone does not change while the file does not. *)
LEMMA SameTable ==
  ASSUME UNCHANGED <<Source, Table>>, NEW u \in Units
  PROVE  /\ Numbers(Ids) => Numbers(Ids)'
         /\ Names(u)' = Names(u)
         /\ UNCHANGED known[u] =>
              /\ KnowsAll(u) => KnowsAll(u)'
              /\ Agrees(known[u], Names(u)) => Agrees(known[u], Names(u))'
         /\ UNCHANGED object[u] => (InCode(u) => InCode(u)')
<1>1. Names(u)' = Names(u)
  BY DEF Names, FunctionMap
<1>2. Ids' = Ids
  BY DEF Ids
<1>3. Numbers(Ids) => Numbers(Ids)'
  BY <1>2 DEF Numbers
<1>4. ASSUME UNCHANGED known[u]
      PROVE  /\ KnowsAll(u) => KnowsAll(u)'
             /\ Agrees(known[u], Names(u)) => Agrees(known[u], Names(u))'
  BY <1>1, <1>4 DEF KnowsAll, Agrees, Numbers
<1>5. ASSUME UNCHANGED object[u]
      PROVE  InCode(u) => InCode(u)'
  BY <1>5 DEF InCode, Agrees
<1> QED
  BY <1>1, <1>3, <1>4, <1>5

(* A step of one job leaves the others as they were. *)
LEMMA OneJob ==
  ASSUME CompileInv, NEW u \in Units, NEW to \in Places,
         pc' = [pc EXCEPT ![u] = to], Source' = Source,
         lock' \in Units \cup {NoJob},
         DOMAIN known' = Units, DOMAIN oldMap' = Units, DOMAIN object' = Units,
         \A v \in Units \ {u} : UNCHANGED <<known[v], object[v]>>,
         Intact' => /\ Intact /\ Table' = Table /\ Exclusion'
                    /\ Continued(u)' /\ Recorded(u)' /\ InCode(u)'
  PROVE  CompileInv'
<1>1. BuildTypes
  BY DEF CompileInv
<1>2. BuildTypes'
  BY <1>1 DEF BuildTypes
<1>3. ASSUME Intact'
      PROVE  /\ Exclusion' /\ Numbers(Ids)'
             /\ \A v \in Units : Continued(v)' /\ Recorded(v)' /\ InCode(v)'
  <2>1. /\ Intact /\ Table' = Table /\ Exclusion'
        /\ Continued(u)' /\ Recorded(u)' /\ InCode(u)'
    BY <1>3
  <2>2. Numbers(Ids) /\ \A v \in Units : Continued(v) /\ Recorded(v) /\ InCode(v)
    BY <2>1 DEF CompileInv
  <2>3. Numbers(Ids)'
    BY <2>1, <2>2, SameTable
  <2>4. ASSUME NEW v \in Units, v # u
        PROVE  Continued(v)' /\ Recorded(v)' /\ InCode(v)'
    <3>1. pc'[v] = pc[v] /\ known'[v] = known[v] /\ object'[v] = object[v]
      BY <2>4, <1>1 DEF BuildTypes
    <3>2. /\ KnowsAll(v) => KnowsAll(v)'
          /\ Agrees(known[v], Names(v)) => Agrees(known[v], Names(v))'
          /\ InCode(v) => InCode(v)'
      BY <3>1, <2>1, SameTable
    <3> QED
      BY <3>1, <3>2, <2>2 DEF Continued, Recorded
  <2> QED
    BY <2>1, <2>3, <2>4
<1> QED
  BY <1>2, <1>3 DEF CompileInv

(* A step within the lock. *)
LEMMA WithinLock ==
  ASSUME CompileInv, NEW u \in Units, NEW from \in Holding, NEW to \in Holding,
         Step(u, from, to), UNCHANGED <<Source, lock>>
  PROVE  /\ pc' = [pc EXCEPT ![u] = to] /\ pc[u] = from /\ pc'[u] = to
         /\ Intact => Exclusion' /\ lock = u
<1>1. pc \in [Units -> Places] /\ pc' = [pc EXCEPT ![u] = to] /\ pc[u] = from
  BY DEF CompileInv, BuildTypes, Step
<1>2. pc'[u] = to /\ \A v \in Units \ {u} : pc'[v] = pc[v]
  BY <1>1
<1>3. Intact => Exclusion' /\ lock = u
  BY <1>1, <1>2 DEF CompileInv, Exclusion
<1> QED
  BY <1>1, <1>2, <1>3

LEMMA IdentifyStep ==
  ASSUME CompileInv, NEW u \in Units, IdentifyFunctions(u)
  PROVE  CompileInv'
<1> DEFINE read == ReadIdentifiers
           K == NewFunctions(u, read)
           nm == [k \in K |-> NameAt(u, k)]
           Place(n) == CHOOSE k \in K : NameAt(u, k) = n
           new == [n \in {NameAt(u, k) : k \in K} |->
                     FunIdCtr(read) + Cardinality({j \in K : j < Place(n)})]
           map == Over(read, new)
<1>1. /\ Step(u, "locked", "identified") /\ known' = [known EXCEPT ![u] = map]
      /\ UNCHANGED <<Source, lock, fctid, oldMap, object, harm>>
  BY DEF IdentifyFunctions, files, output
<1>2. /\ pc' = [pc EXCEPT ![u] = "identified"] /\ pc[u] = "locked" /\ pc'[u] = "identified"
      /\ Intact => Exclusion' /\ lock = u
  BY <1>1, WithinLock DEF Holding
<1>3. BuildTypes /\ u # NoJob
  BY BuildAssumption DEF CompileInv
<1>4. known'[u] = map /\ DOMAIN known' = Units /\ \A v \in Units \ {u} : known'[v] = known[v]
  BY <1>1, <1>3 DEF BuildTypes
<1>5. ASSUME Intact'
      PROVE  /\ Intact /\ Table' = Table /\ Exclusion'
             /\ Continued(u)' /\ Recorded(u)' /\ InCode(u)'
  <2>1. Intact /\ Exclusion' /\ lock = u
    BY <1>1, <1>2, <1>5 DEF Intact
  <2>2. Table = fctid /\ Table' = fctid
    BY <2>1, <1>1, <1>2 DEF Table
  <2>3. Numbers(read) /\ DOMAIN read = DOMAIN Table
        /\ \A n \in DOMAIN read : read[n] = Table[n].id
    <3>1. read = Ids
      BY <2>2 DEF ReadIdentifiers, Ids
    <3> QED
      BY <3>1, <2>1 DEF CompileInv, Ids
  <2>4. /\ Len(Source[u].funs) \in Nat
        /\ \A k, l \in 1 .. Len(Source[u].funs) : NameAt(u, k) = NameAt(u, l) => k = l
        /\ Names(u) = {NameAt(u, k) : k \in {j \in 1 .. Len(Source[u].funs) :
                                               Identified(NameAt(u, j))}}
    BY <1>3, UnitFacts DEF BuildTypes
  <2>5. /\ K \in SUBSET Nat /\ K \subseteq 1 .. Len(Source[u].funs) /\ IsFiniteSet(K)
        /\ \A k \in K : NameAt(u, k) \notin DOMAIN read
    <3>1. K \subseteq 1 .. Len(Source[u].funs) /\ \A k \in K : NameAt(u, k) \notin DOMAIN read
      BY DEF NewFunctions
    <3>2. IsFiniteSet(1 .. Len(Source[u].funs))
      BY <2>4, FS_Interval
    <3> QED
      BY <3>1, <3>2, <2>4, FS_Subset
  <2> HIDE DEF read, K
  <2>6. FunIdCtr(read) = Cardinality(DOMAIN read)
    BY <2>3, CounterFollows
  <2>7. \A k \in K : Place(NameAt(u, k)) = k
    BY <2>4, <2>5
  <2> HIDE DEF Place
  <2>8. /\ DOMAIN map = DOMAIN read \cup {nm[k] : k \in K}
        /\ \A n \in DOMAIN read : map[n] = read[n]
        /\ \A k \in K : map[nm[k]] = Cardinality(DOMAIN read) + Cardinality({j \in K : j < k})
    <3>1. DOMAIN new = {NameAt(u, k) : k \in K} /\ {nm[k] : k \in K} = {NameAt(u, k) : k \in K}
      OBVIOUS
    <3>2. \A k \in K : new[NameAt(u, k)]
                         = Cardinality(DOMAIN read) + Cardinality({j \in K : j < k})
      BY <2>6, <2>7
    <3> HIDE DEF new
    <3>3. /\ DOMAIN map = DOMAIN read \cup DOMAIN new
          /\ \A n \in DOMAIN read : map[n] = read[n]
          /\ \A n \in DOMAIN new : n \notin DOMAIN read => map[n] = new[n]
      BY DEF Over
    <3>4. \A k \in K : map[NameAt(u, k)] = new[NameAt(u, k)]
      BY <3>1, <3>3, <2>5
    <3> HIDE DEF map
    <3> QED
      BY <3>1, <3>2, <3>3, <3>4
  <2> HIDE DEF map
  <2>9. Numbers(map)
    <3>1. /\ \A k \in K : nm[k] \notin DOMAIN read
          /\ \A k, l \in K : nm[k] = nm[l] => k = l
      BY <2>4, <2>5
    <3> HIDE DEF nm
    <3> QED
      BY <3>1, <2>3, <2>5, <2>8, NumberingGoesOn
  <2>10. DOMAIN map = DOMAIN Table \cup Names(u)
    <3>1. K = {k \in 1 .. Len(Source[u].funs) :
                 Identified(NameAt(u, k)) /\ NameAt(u, k) \notin DOMAIN read}
      BY DEF K, NewFunctions
    <3>2. \A n : n \in DOMAIN read \cup {nm[k] : k \in K} <=> n \in DOMAIN read \cup Names(u)
      BY <3>1, <2>4
    <3> QED
      BY <3>2, <2>3, <2>8
  <2>11. KnowsAll(u)'
    <3>1. Names(u)' = Names(u)
      BY <1>1 DEF Names, FunctionMap
    <3>2. \A n \in DOMAIN Table : Table[n].id = map[n]
      BY <2>3, <2>8
    <3>3. Table' = Table
      BY <2>2
    <3> QED
      BY <3>1, <3>2, <3>3, <2>9, <2>10, <1>4 DEF KnowsAll, Agrees, Numbers
  <2>12. InCode(u)'
    <3>1. InCode(u) /\ Table' = Table /\ Source' = Source /\ object' = object
      BY <2>1, <2>2, <1>1 DEF CompileInv
    <3> QED
      BY <3>1, SameTable
  <2> QED
    BY <2>1, <2>2, <2>11, <2>12, <1>2 DEF Continued, Recorded
<1> HIDE DEF map
<1> QED
  BY <1>1, <1>2, <1>3, <1>4, <1>5, OneJob DEF BuildTypes, Places, Holding

(* The steps between numbering and recording, which leave .fctid alone or  *)
(* empty it.                                                               *)
LEMMA AppendStep ==
  ASSUME CompileInv, NEW u \in Units,
         writeCallgraph(u) \/ writeAllowedBBTrans(u) \/ OpenFunctionIDs(u)
  PROVE  CompileInv'
<1>1. PICK from, to : /\ from \in {"identified", "callgraph", "transitions"}
                      /\ to \in {"callgraph", "transitions", "rewriting"}
                      /\ Step(u, from, to)
                      /\ to # "rewriting" => UNCHANGED <<fctid, oldMap>>
                      /\ to = "rewriting" => /\ oldMap' = [oldMap EXCEPT ![u] = fctid]
                                             /\ from = "transitions"
  <2>1. CASE writeCallgraph(u)
    <3>1. Step(u, "identified", "callgraph") /\ UNCHANGED <<fctid, oldMap>>
      BY <2>1 DEF writeCallgraph, local
    <3> QED
      BY <3>1
  <2>2. CASE writeAllowedBBTrans(u)
    <3>1. Step(u, "callgraph", "transitions") /\ UNCHANGED <<fctid, oldMap>>
      BY <2>2 DEF writeAllowedBBTrans, local
    <3> QED
      BY <3>1
  <2>3. CASE OpenFunctionIDs(u)
    <3>1. Step(u, "transitions", "rewriting") /\ oldMap' = [oldMap EXCEPT ![u] = fctid]
      BY <2>3 DEF OpenFunctionIDs
    <3> QED
      BY <3>1
  <2> QED
    BY <2>1, <2>2, <2>3
<1>2. UNCHANGED <<Source, lock, known, object, harm>>
  BY DEF writeCallgraph, writeAllowedBBTrans, OpenFunctionIDs, local, output
<1>3. from \in Holding /\ to \in Holding /\ to \in Places
  BY <1>1 DEF Holding, Places
<1>4. /\ pc' = [pc EXCEPT ![u] = to] /\ pc[u] = from /\ pc'[u] = to
      /\ Intact => Exclusion' /\ lock = u
  BY <1>1, <1>2, <1>3, WithinLock
<1>5. BuildTypes /\ u # NoJob
  BY BuildAssumption DEF CompileInv
<1>6. DOMAIN oldMap' = Units
  BY <1>1, <1>5 DEF BuildTypes
<1>7. ASSUME Intact'
      PROVE  /\ Intact /\ Table' = Table /\ Exclusion'
             /\ Continued(u)' /\ Recorded(u)' /\ InCode(u)'
  <2>1. Intact /\ Exclusion' /\ lock = u
    BY <1>2, <1>4, <1>7 DEF Intact
  <2>2. Table = fctid
    BY <2>1, <1>1, <1>4 DEF Table
  <2>3. Table' = fctid
    <3>1. CASE to = "rewriting"
      BY <3>1, <2>1, <1>1, <1>2, <1>4, <1>5 DEF Table, BuildTypes
    <3>2. CASE to # "rewriting"
      BY <3>2, <1>1, <1>2, <1>4, <2>1 DEF Table
    <3> QED
      BY <3>1, <3>2
  <2>4. KnowsAll(u) /\ InCode(u)
    BY <2>1, <1>1, <1>4 DEF CompileInv, Continued
  <2>5. KnowsAll(u)' /\ InCode(u)'
    BY <2>2, <2>3, <2>4, <1>2, SameTable
  <2> QED
    BY <2>1, <2>2, <2>3, <2>5, <1>1, <1>4 DEF Continued, Recorded
<1> QED
  BY <1>2, <1>3, <1>4, <1>5, <1>6, <1>7, OneJob DEF BuildTypes

LEMMA IpdomStep ==
  ASSUME CompileInv, NEW u \in Units, writeIPDOMToFile(u)
  PROVE  CompileInv'
<1>1. Step(u, "ids", "ipdom") /\ UNCHANGED <<Source, lock, fctid, known, oldMap, object, harm>>
  BY DEF writeIPDOMToFile, local, output
<1>2. /\ pc' = [pc EXCEPT ![u] = "ipdom"] /\ pc[u] = "ids" /\ pc'[u] = "ipdom"
      /\ Intact => Exclusion' /\ lock = u
  BY <1>1, WithinLock DEF Holding
<1>3. BuildTypes
  BY DEF CompileInv
<1>4. ASSUME Intact'
      PROVE  /\ Intact /\ Table' = Table /\ Exclusion'
             /\ Continued(u)' /\ Recorded(u)' /\ InCode(u)'
  <2>1. Intact /\ Exclusion' /\ lock = u
    BY <1>1, <1>2, <1>4 DEF Intact
  <2>2. Table' = Table
    BY <2>1, <1>1, <1>2 DEF Table
  <2>3. Agrees(known[u], Names(u)) /\ InCode(u)
    BY <2>1, <1>2 DEF CompileInv, Recorded
  <2>4. Agrees(known[u], Names(u))' /\ InCode(u)'
    BY <2>2, <2>3, <1>1, SameTable
  <2> QED
    BY <2>1, <2>2, <2>4, <1>2 DEF Continued, Recorded
<1> QED
  BY <1>1, <1>2, <1>3, <1>4, OneJob DEF BuildTypes, Places, Holding

(* Taking the lock, or going on without it. *)
LEMMA LockStep ==
  ASSUME CompileInv, NEW u \in Units, Lock(u) \/ LockFails(u)
  PROVE  CompileInv'
<1>1. BuildTypes /\ u # NoJob
  BY BuildAssumption DEF CompileInv
<1>2. /\ pc[u] = "waiting" /\ pc' = [pc EXCEPT ![u] = "locked"] /\ pc'[u] = "locked"
      /\ UNCHANGED <<Source, fctid, known, oldMap, object>>
  BY <1>1 DEF Lock, LockFails, Step, files, local, output, BuildTypes
<1>3. /\ lock' \in Units \cup {NoJob}
      /\ Intact' => lock = NoJob /\ lock' = u /\ harm' = harm
  BY <1>1 DEF Lock, LockFails, Intact, BuildTypes
<1>4. ASSUME Intact'
      PROVE  /\ Intact /\ Table' = Table /\ Exclusion'
             /\ Continued(u)' /\ Recorded(u)' /\ InCode(u)'
  <2>1. Intact /\ lock = NoJob /\ lock' = u
    BY <1>3, <1>4 DEF Intact
  <2>2. Table' = Table
    BY <2>1, <1>1, <1>2 DEF Table
  <2>3. Exclusion'
    <3>1. Exclusion /\ NoJob \notin Units
      BY <2>1, BuildAssumption DEF CompileInv
    <3>2. \A v \in Units \ {u} : pc'[v] = pc[v]
      BY <1>1, <1>2 DEF BuildTypes
    <3> QED
      BY <3>1, <3>2, <2>1, <1>2 DEF Exclusion, Holding
  <2>4. InCode(u)'
    BY <2>1, <2>2, <1>2, SameTable DEF CompileInv
  <2> QED
    BY <2>1, <2>2, <2>3, <2>4, <1>2 DEF Continued, Recorded
<1> QED
  BY <1>1, <1>2, <1>3, <1>4, OneJob DEF BuildTypes, Places, Holding

(* A job that leaves the lock, by Unlock, by an error or because it is     *)
(* killed, or that leaves a place outside of it.                           *)
LEMMA Leaves ==
  ASSUME CompileInv, NEW u \in Units, NEW to \in Places \ Holding,
         pc' = [pc EXCEPT ![u] = to], lock' = Freed(u),
         UNCHANGED <<Source, fctid, known, oldMap, object>>,
         Intact' => Intact /\ pc[u] # "rewriting",
         to = "unlocked" => pc[u] \in {"ids", "ipdom", "unlocked"}
  PROVE  CompileInv'
<1>1. BuildTypes /\ u # NoJob
  BY BuildAssumption DEF CompileInv
<1>2. pc'[u] = to /\ \A v \in Units \ {u} : pc'[v] = pc[v]
  BY <1>1 DEF BuildTypes
<1>3. lock' \in Units \cup {NoJob}
  BY <1>1 DEF Freed, BuildTypes
<1>4. ASSUME Intact'
      PROVE  /\ Intact /\ Table' = Table /\ Exclusion'
             /\ Continued(u)' /\ Recorded(u)' /\ InCode(u)'
  <2>1. Intact /\ Exclusion /\ pc[u] # "rewriting" /\ NoJob \notin Units
    BY <1>4, BuildAssumption DEF CompileInv
  <2>2. Table' = Table
    <3>1. CASE lock = u
      BY <3>1, <2>1, <1>1 DEF Table, Freed
    <3>2. CASE lock # u
      BY <3>2, <2>1, <1>1, <1>2 DEF Table, Freed, BuildTypes
    <3> QED
      BY <3>1, <3>2
  <2>3. Exclusion'
    BY <2>1, <1>2 DEF Exclusion, Freed
  <2>4. InCode(u)'
    BY <2>1, <2>2, SameTable DEF CompileInv
  <2>5. Recorded(u)'
    <3>1. Agrees(known[u], Names(u)) => Agrees(known[u], Names(u))'
      BY <2>2, SameTable
    <3>2. Recorded(u)
      BY <2>1 DEF CompileInv
    <3> QED
      BY <3>1, <3>2, <1>2 DEF Recorded, Holding
  <2>6. Continued(u)'
    BY <1>2 DEF Continued, Holding
  <2> QED
    BY <2>1, <2>2, <2>3, <2>4, <2>5, <2>6
<1> QED
  BY <1>1, <1>3, <1>4, OneJob DEF BuildTypes

LEMMA LeaveStep ==
  ASSUME CompileInv, NEW u \in Units, Unlock(u) \/ FatalError(u) \/ Kill(u)
  PROVE  CompileInv'
<1>1. lock' = Freed(u) /\ UNCHANGED <<Source, fctid, known, oldMap, object>>
  BY DEF Unlock, FatalError, Kill, files, local, output
<1>2. CASE Unlock(u)
  <2>1. pc[u] = "ipdom" /\ pc' = [pc EXCEPT ![u] = "unlocked"] /\ harm' = harm
    BY <1>2 DEF Unlock, Step
  <2> QED
    BY <2>1, <1>1, Leaves DEF Intact, Places, Holding
<1>3. CASE FatalError(u)
  <2>1. pc[u] = "identified" /\ pc' = [pc EXCEPT ![u] = "failed"] /\ harm' = harm
    BY <1>3 DEF FatalError, Step
  <2> QED
    BY <2>1, <1>1, Leaves DEF Intact, Places, Holding
<1>4. CASE Kill(u)
  <2>1. pc' = [pc EXCEPT ![u] = "killed"]
    BY <1>4 DEF Kill, Step
  <2>2. Intact' => Intact /\ pc[u] # "rewriting"
    BY <1>4 DEF Kill, Intact
  <2> QED
    BY <2>1, <2>2, <1>1, Leaves DEF Places, Holding
<1> QED
  BY <1>2, <1>3, <1>4

(* writeFunctionIDs: the file is what the job knows. *)
LEMMA Records ==
  ASSUME CompileInv, NEW u \in Units, writeFunctionIDs(u), Intact
  PROVE  /\ lock = u /\ KnowsAll(u) /\ Table = oldMap[u]
         /\ DOMAIN Table' = DOMAIN known[u]
         /\ \A n \in DOMAIN known[u] : Table'[n].id = known[u][n]
         /\ \A n \in DOMAIN Table \ Names(u) : Table'[n] = Table[n]
         /\ \A F \in FunctionMap(u) : Table'[F.name].flags = FlagsOf(u, F)
<1> DEFINE Entry(F) == [id |-> id(u, F.name), flags |-> FlagsOf(u, F)]
           mine == [n \in Names(u) |-> Entry(CHOOSE F \in FunctionMap(u) : F.name = n)]
           old == oldMap[u]
<1>1. /\ Step(u, "rewriting", "ids") /\ fctid' = Over(mine, old)
      /\ UNCHANGED <<Source, lock>>
  BY DEF writeFunctionIDs, Names
<1>2. pc[u] = "rewriting" /\ pc'[u] = "ids" /\ lock = u /\ u # NoJob
  BY <1>1, WithinLock, BuildAssumption DEF Holding
<1>3. Table = old /\ Table' = fctid'
  BY <1>1, <1>2 DEF Table
<1>4. KnowsAll(u) /\ Source \in Builds
  BY <1>2 DEF CompileInv, BuildTypes, Continued
<1>5. /\ DOMAIN known[u] = DOMAIN Table \cup Names(u)
      /\ \A n \in DOMAIN Table : Table[n].id = known[u][n]
  BY <1>4 DEF KnowsAll, Agrees
<1>6. ASSUME NEW n \in Names(u)
      PROVE  \E F \in FunctionMap(u) :
               F.name = n /\ mine[n].id = known[u][n] /\ mine[n].flags = FlagsOf(u, F)
  <2> DEFINE G == CHOOSE F \in FunctionMap(u) : F.name = n
  <2>1. G.name = n /\ G \in FunctionMap(u)
    BY DEF Names
  <2> HIDE DEF G
  <2>2. Entry(G).id = known[u][n] /\ Entry(G).flags = FlagsOf(u, G)
    BY <2>1 DEF id
  <2>3. mine[n] = Entry(G)
    BY DEF G
  <2> HIDE DEF mine, Entry
  <2> QED
    BY <2>1, <2>2, <2>3
<1>7. DOMAIN mine = Names(u)
  OBVIOUS
<1> HIDE DEF mine
<1>8. /\ DOMAIN Table' = DOMAIN mine \cup DOMAIN Table
      /\ \A n \in DOMAIN mine : Table'[n] = mine[n]
      /\ \A n \in DOMAIN Table : n \notin DOMAIN mine => Table'[n] = Table[n]
  BY <1>1, <1>3 DEF Over
<1>9. /\ DOMAIN Table' = DOMAIN known[u]
      /\ \A n \in DOMAIN known[u] : Table'[n].id = known[u][n]
      /\ \A n \in DOMAIN Table \ Names(u) : Table'[n] = Table[n]
  BY <1>5, <1>6, <1>7, <1>8
<1>10. ASSUME NEW F \in FunctionMap(u)
       PROVE  Table'[F.name].flags = FlagsOf(u, F)
  <2>1. F.name \in Names(u)
    BY DEF Names
  <2>2. PICK G \in FunctionMap(u) : G.name = F.name /\ mine[F.name].flags = FlagsOf(u, G)
    BY <2>1, <1>6
  <2>3. G = F
    BY <2>2, <1>4, UnitFunctions
  <2> QED
    BY <2>1, <2>2, <2>3, <1>7, <1>8
<1> QED
  BY <1>2, <1>3, <1>4, <1>9, <1>10

LEMMA RecordStep ==
  ASSUME CompileInv, NEW u \in Units, writeFunctionIDs(u)
  PROVE  CompileInv'
<1>1. Step(u, "rewriting", "ids") /\ UNCHANGED <<Source, lock, known, oldMap, object, harm>>
  BY DEF writeFunctionIDs, local, output
<1>2. /\ pc' = [pc EXCEPT ![u] = "ids"] /\ pc[u] = "rewriting" /\ pc'[u] = "ids"
      /\ Intact => Exclusion' /\ lock = u
  BY <1>1, WithinLock DEF Holding
<1>3. BuildTypes /\ u # NoJob
  BY BuildAssumption DEF CompileInv
<1>4. BuildTypes'
  BY <1>1, <1>2, <1>3 DEF BuildTypes, Places, Holding
<1>5. ASSUME Intact'
      PROVE  /\ Exclusion' /\ Numbers(Ids)'
             /\ \A v \in Units : Continued(v)' /\ Recorded(v)' /\ InCode(v)'
  <2>1. Intact /\ Exclusion /\ Exclusion' /\ lock = u /\ lock' = u
    BY <1>1, <1>2, <1>5 DEF Intact, CompileInv
  <2>2. /\ DOMAIN known[u] = DOMAIN Table \cup Names(u)
        /\ \A n \in DOMAIN Table : Table[n].id = known[u][n]
        /\ Numbers(known[u])
    BY <2>1, <1>2 DEF CompileInv, Continued, KnowsAll, Agrees
  <2>3. /\ DOMAIN Table' = DOMAIN known[u]
        /\ \A n \in DOMAIN known[u] : Table'[n].id = known[u][n]
    BY <2>1, Records
  <2>4. Numbers(Ids)'
    <3>1. DOMAIN Ids' = DOMAIN known[u] /\ \A n \in DOMAIN known[u] : Ids'[n] = known[u][n]
      BY <2>3 DEF Ids
    <3>2. {Ids'[n] : n \in DOMAIN Ids'} = {known[u][n] : n \in DOMAIN known[u]}
      BY <3>1
    <3> QED
      BY <3>1, <3>2, <2>2 DEF Numbers
  <2>5. \A map, S : Agrees(map, S) => \A n \in S : n \in DOMAIN Table' /\ Table'[n].id = map[n]
    BY <2>2, <2>3 DEF Agrees
  <2>6. ASSUME NEW v \in Units
        PROVE  Continued(v)' /\ Recorded(v)' /\ InCode(v)'
    <3>1. Names(v)' = Names(v)
      BY <1>1 DEF Names, FunctionMap
    <3>2. Continued(v)'
      <4>1. pc'[v] \notin {"identified", "callgraph", "transitions", "rewriting"}
        BY <2>1, <1>2 DEF Exclusion, Holding
      <4> QED
        BY <4>1 DEF Continued
    <3>3. Recorded(v)'
      <4>1. CASE v = u
        BY <4>1, <3>1, <2>2, <2>3, <1>1 DEF Recorded, Agrees
      <4>2. CASE v # u
        <5>1. pc'[v] = pc[v]
          BY <4>2, <1>2, <1>3 DEF BuildTypes
        <5>2. pc[v] \in {"ids", "ipdom", "unlocked"} => Agrees(known[v], Names(v))
          BY <2>1 DEF CompileInv, Recorded
        <5>3. ASSUME Agrees(known[v], Names(v))
              PROVE  Agrees(known[v], Names(v))'
          <6>1. \A n \in Names(v) : n \in DOMAIN Table' /\ Table'[n].id = known[v][n]
            BY <5>3, <2>5
          <6> QED
            BY <6>1, <3>1, <1>1 DEF Agrees
        <5> QED
          BY <5>1, <5>2, <5>3 DEF Recorded
      <4> QED
        BY <4>1, <4>2
    <3>4. InCode(v)'
      <4>1. InCode(v)
        BY <2>1 DEF CompileInv
      <4> QED
        BY <4>1, <2>5, <1>1 DEF InCode, Agrees
    <3> QED
      BY <3>2, <3>3, <3>4
  <2> QED
    BY <2>1, <2>4, <2>6
<1> QED
  BY <1>4, <1>5 DEF CompileInv

(* InjectCode: the identifiers of the unit go into its code. *)
LEMMA InjectStep ==
  ASSUME CompileInv, NEW u \in Units, InjectCode(u)
  PROVE  CompileInv'
<1> DEFINE Listed == PatchCtorFunctions(u).left \cup PatchDtorFunctions(u).left
           o == [ids |-> [n \in Names(u) |-> id(u, n)], listed |-> Listed]
<1>1. /\ pc[u] = "unlocked" /\ pc' = [pc EXCEPT ![u] = "done"]
      /\ object' = [object EXCEPT ![u] = o]
      /\ UNCHANGED <<Source, lock, fctid, known, oldMap, harm>>
  BY DEF InjectCode, Step, files, local, Names
<1>2. BuildTypes /\ u # NoJob
  BY BuildAssumption DEF CompileInv
<1>3. /\ pc'[u] = "done" /\ \A v \in Units \ {u} : pc'[v] = pc[v]
      /\ object'[u] = o /\ DOMAIN object' = Units
      /\ \A v \in Units \ {u} : object'[v] = object[v]
  BY <1>1, <1>2 DEF BuildTypes
<1>4. o.ids = [n \in Names(u) |-> known[u][n]]
  BY DEF id
<1> HIDE DEF o
<1>5. ASSUME Intact'
      PROVE  /\ Intact /\ Table' = Table /\ Exclusion'
             /\ Continued(u)' /\ Recorded(u)' /\ InCode(u)'
  <2>1. Intact /\ Exclusion
    BY <1>1, <1>5 DEF Intact, CompileInv
  <2>2. lock # u
    BY <2>1, <1>1 DEF Exclusion, Holding
  <2>3. Table' = Table
    BY <2>2, <1>1, <1>2, <1>3 DEF Table, BuildTypes
  <2>4. Exclusion'
    BY <2>1, <2>2, <1>1, <1>3 DEF Exclusion, Holding
  <2>5. Agrees(known[u], Names(u))
    BY <2>1, <1>1 DEF CompileInv, Recorded
  <2>6. InCode(u)'
    BY <2>3, <2>5, <1>3, <1>4 DEF InCode, Agrees
  <2> QED
    BY <2>1, <2>3, <2>4, <2>6, <1>3 DEF Continued, Recorded
<1> QED
  BY <1>1, <1>2, <1>3, <1>5, OneJob DEF BuildTypes, Places, Holding

LEMMA StartStep ==
  ASSUME CompileInv, NEW u \in Units, Start(u)
  PROVE  CompileInv'
<1>1. /\ pc[u] \in {"killed", "done"} /\ pc' = [pc EXCEPT ![u] = "waiting"]
      /\ object' = [object EXCEPT ![u] = NULL]
      /\ UNCHANGED <<Source, lock, fctid, known, oldMap, harm>>
  BY DEF Start, Step, files, local
<1>2. BuildTypes /\ u # NoJob
  BY BuildAssumption DEF CompileInv
<1>3. /\ pc'[u] = "waiting" /\ \A v \in Units \ {u} : pc'[v] = pc[v]
      /\ object'[u] = NULL /\ DOMAIN object' = Units
      /\ \A v \in Units \ {u} : object'[v] = object[v]
  BY <1>1, <1>2 DEF BuildTypes
<1>4. ASSUME Intact'
      PROVE  /\ Intact /\ Table' = Table /\ Exclusion'
             /\ Continued(u)' /\ Recorded(u)' /\ InCode(u)'
  <2>1. Intact /\ Exclusion
    BY <1>1, <1>4 DEF Intact, CompileInv
  <2>2. lock # u
    BY <2>1, <1>1 DEF Exclusion, Holding
  <2>3. Table' = Table
    BY <2>2, <1>1, <1>2, <1>3 DEF Table, BuildTypes
  <2>4. Exclusion'
    BY <2>1, <2>2, <1>1, <1>3 DEF Exclusion, Holding
  <2> QED
    BY <2>1, <2>3, <2>4, <1>3 DEF Continued, Recorded, InCode
<1> QED
  BY <1>1, <1>2, <1>3, <1>4, OneJob DEF BuildTypes, Places, Holding

LEMMA IdleStep ==
  ASSUME CompileInv, prelink \/ BuildEnded \/ UNCHANGED vars
  PROVE  CompileInv'
<1>1. UNCHANGED <<Source, lock, fctid, pc, known, oldMap, object, harm>>
  BY DEF prelink, BuildEnded, vars, files, local, output
<1>2. BuildTypes' /\ (Intact' <=> Intact) /\ (Exclusion <=> Exclusion')
  BY <1>1 DEF CompileInv, BuildTypes, Intact, Exclusion
<1>3. Table' = Table
  BY <1>1 DEF Table
<1>4. Ids' = Ids
  BY <1>3 DEF Ids
<1>5. Numbers(Ids) => Numbers(Ids)'
  BY <1>4 DEF Numbers
<1>6. \A u \in Units : Continued(u) /\ Recorded(u) /\ InCode(u)
                         => Continued(u)' /\ Recorded(u)' /\ InCode(u)'
  BY <1>1, <1>3, SameTable DEF Continued, Recorded
<1> QED
  BY <1>2, <1>5, <1>6 DEF CompileInv
-----------------------------------------------------------------------------
(* The jobs that hold the lock exclude each other, and the identifiers of  *)
(* the file are only ever continued.                                       *)
THEOREM CompileInvariant == Spec => []CompileInv
<1>1. Init => CompileInv
  <2> SUFFICES ASSUME Init PROVE CompileInv
    OBVIOUS
  <2>1. BuildTypes
    BY DEF Init, BuildTypes, Places, Holding
  <2>2. Exclusion
    BY BuildAssumption DEF Init, Exclusion, Holding
  <2>3. Table = <<>>
    BY DEF Init, Table
  <2>4. Numbers(Ids)
    <3>1. DOMAIN Ids = {}
      BY <2>3 DEF Ids
    <3>2. IsFiniteSet(DOMAIN Ids) /\ Cardinality(DOMAIN Ids) = 0
      BY <3>1, FS_EmptySet
    <3>3. {Ids[n] : n \in DOMAIN Ids} = {} /\ 0 .. 0 - 1 = {}
      BY <3>1
    <3> QED
      BY <3>2, <3>3 DEF Numbers
  <2>5. \A u \in Units : Continued(u) /\ Recorded(u) /\ InCode(u)
    BY DEF Init, Continued, Recorded, InCode
  <2> QED
    BY <2>1, <2>2, <2>4, <2>5 DEF CompileInv
<1>2. CompileInv /\ [Next]_vars => CompileInv'
  <2> SUFFICES ASSUME CompileInv, [Next]_vars PROVE CompileInv'
    OBVIOUS
  <2>1. ASSUME NEW u \in Units, Start(u) \/ Pass(u) \/ Kill(u)
        PROVE  CompileInv'
    BY <2>1, StartStep, LockStep, IdentifyStep, AppendStep, RecordStep, IpdomStep, InjectStep,
       LeaveStep DEF Pass
  <2> QED
    BY <2>1, IdleStep DEF Next
<1> QED
  BY <1>1, <1>2, PTL DEF Spec

(* No two jobs are between the two calls of flock in runOnModule. *)
MutualExclusion ==
  Intact => \A u, v \in Units : pc[u] \in Holding /\ pc[v] \in Holding => u = v

(* flock keeps the jobs apart, kills and repeated compilations included,   *)
(* as long as none goes on without the lock.                               *)
THEOREM ExclusionTheorem == Spec => []MutualExclusion
<1>1. CompileInv => MutualExclusion
  BY DEF CompileInv, MutualExclusion, Exclusion
<1> QED
  BY <1>1, CompileInvariant, PTL

(* However the jobs interleave, are killed and repeated, the identifiers   *)
(* in the code of the finished units are those of .fctid, which numbers    *)
(* all functions from 0 on without gaps.                                   *)
THEOREM IdentifiersTheorem == Spec => []IdentifiersAgree
<1>1. CompileInv => IdentifiersAgree
  <2> SUFFICES ASSUME CompileInv, Intact, \A u \in Units : pc[u] # "rewriting"
               PROVE  /\ \A u \in Units : object[u] # NULL =>
                           \A n \in DOMAIN object[u].ids :
                             n \in DOMAIN fctid /\ IdOf(n) = object[u].ids[n]
                      /\ {IdOf(n) : n \in DOMAIN fctid} = 0 .. Cardinality(DOMAIN fctid) - 1
    BY DEF IdentifiersAgree
  <2>1. Table = fctid
    BY DEF Table, CompileInv, BuildTypes
  <2>2. Numbers(Ids) /\ \A u \in Units : InCode(u)
    BY DEF CompileInv
  <2>3. \A u \in Units : object[u] # NULL =>
          \A n \in DOMAIN object[u].ids : n \in DOMAIN fctid /\ IdOf(n) = object[u].ids[n]
    BY <2>1, <2>2 DEF InCode, Agrees, IdOf
  <2>4. Ids = [n \in DOMAIN fctid |-> IdOf(n)]
    BY <2>1 DEF Ids, IdOf
  <2>5. {IdOf(n) : n \in DOMAIN fctid} = {Ids[n] : n \in DOMAIN Ids}
    BY <2>4
  <2>6. DOMAIN Ids = DOMAIN fctid
    BY <2>4
  <2> QED
    BY <2>2, <2>3, <2>5, <2>6 DEF Numbers
<1> QED
  BY <1>1, CompileInvariant, PTL

(* The debugging assertion of writeFunctionIDs: "ID of function in file is *)
(* different from ID to be written".                                       *)
SameIdWritten ==
  Intact => \A u \in Units : pc[u] = "rewriting" =>
    \A n \in Names(u) \cap DOMAIN oldMap[u] : oldMap[u][n].id = id(u, n)

(* The identifier a job is about to write for a function is the one the    *)
(* file had for it, if it had one.                                         *)
THEOREM AssertionTheorem == Spec => []SameIdWritten
<1>1. CompileInv => SameIdWritten
  <2> SUFFICES ASSUME CompileInv, Intact, NEW u \in Units, pc[u] = "rewriting",
                      NEW n \in Names(u), n \in DOMAIN oldMap[u]
               PROVE  oldMap[u][n].id = id(u, n)
    BY DEF SameIdWritten
  <2>1. lock = u /\ u # NoJob
    BY BuildAssumption DEF CompileInv, Exclusion, Holding
  <2>2. Table = oldMap[u]
    BY <2>1 DEF Table
  <2>3. Agrees(known[u], DOMAIN Table)
    BY DEF CompileInv, Continued, KnowsAll
  <2> QED
    BY <2>2, <2>3 DEF Agrees, id
<1> QED
  BY <1>1, CompileInvariant, PTL
-----------------------------------------------------------------------------
(* The tables.  What a job writes for its functions, with the identifiers  *)
(* in map: the calls, the blocks and the post-dominators.                  *)
Callers(u) == {F \in DefinedIn(u) : Callees(F) # {}}
Calls(u, map) == [F \in Callers(u) |-> {map[g] : g \in Callees(F)}]
Blocks(u) == [F \in WithBlocks(u) |-> [num_block |-> Len(F.blocks), rows |-> BlockLines(F)]]
Ipds(u) == [F \in WithBlocks(u) |-> Ipdoms[F]]

(* Line l of a file has V[F] for the functions F of V; and what is read    *)
(* back for these functions in the end.                                    *)
IsLine(l, map, V) ==
  /\ DOMAIN l = {map[F.name] : F \in DOMAIN V}
  /\ \A F \in DOMAIN V : l[map[F.name]] = V[F]
LastIs(lines, map, V) ==
  \A F \in DOMAIN V : /\ map[F.name] \in DOMAIN Dict(lines)
                      /\ Dict(lines)[map[F.name]] = V[F]

(* Where a job has written its calls, its blocks and its identifiers. *)
Recording == {"ids", "ipdom", "unlocked", "done"}
BlocksWritten == Recording \cup {"transitions", "rewriting"}
Written == BlocksWritten \cup {"callgraph"}

Supported(u) == \A F \in DefinedIn(u) : ~Unsupported(F)

(* Every line is some unit's, with the identifiers of the table or with    *)
(* those it is about to record.                                            *)
CallsOrigin(l) ==
  \E v \in Units :
    /\ Supported(v)
    /\ \/ Names(v) \subseteq DOMAIN Table /\ IsLine(l, Ids, Calls(v, Ids))
       \/ pc[v] \in Written \ Recording /\ IsLine(l, known[v], Calls(v, known[v]))
BlocksOrigin(l) ==
  \E v \in Units :
    /\ repeats = 0 => pc[v] \in BlocksWritten
    /\ \/ Names(v) \subseteq DOMAIN Table /\ IsLine(l, Ids, Blocks(v))
       \/ pc[v] \in BlocksWritten \ Recording /\ IsLine(l, known[v], Blocks(v))
IpdOrigin(l) == \E v \in Units : Names(v) \subseteq DOMAIN Table /\ IsLine(l, Ids, Ipds(v))

(* A unit that is done has recorded what it knows. *)
DoneKnows == Intact => \A u \in Units : pc[u] = "done" => Agrees(known[u], Names(u))

IsFile(lines) ==
  /\ Len(lines) \in Nat /\ lines = [k \in 1 .. Len(lines) |-> lines[k]]
  /\ \A k \in 1 .. Len(lines) : IsFiniteSet(DOMAIN lines[k])
FilesTyped ==
  /\ IsFile(trans) /\ IsFile(bbtrans) /\ IsFile(ipdom)
  /\ level \in BOOLEAN /\ repeats \in Nat /\ (~level => bbtrans = <<>>)
  /\ repeats = 0 => harm = "none" /\ \A u \in Units : pc[u] # "killed"
LinesInv ==
  /\ Intact => \A k \in 1 .. Len(ipdom) : IpdOrigin(ipdom[k])
  /\ harm = "none" =>
       /\ \A k \in 1 .. Len(trans) : CallsOrigin(trans[k])
       /\ \A k \in 1 .. Len(bbtrans) : BlocksOrigin(bbtrans[k])
  /\ DoneKnows

(* The tables picon-prelink writes. *)
Packed ==
  [fcts |-> gen_packed_fctids, trans |-> gen_packed_callgraph,
   granularity_bb |-> bbtrans # <<>>, bbs |-> gen_packed_bb,
   ipds |-> IF bbtrans = <<>> THEN <<>> ELSE parse_bb_ipd(ipdom)]
LinkedInv ==
  /\ linked \in {"no", "yes", "exit255"}
  /\ linked # "no" => \A u \in Units : pc[u] = "done"
  /\ linked = "yes" => image = Packed
  /\ linked = "exit255" => AlreadyProcessed(bbtrans)
FilesInv == FilesTyped /\ LinesInv /\ LinkedInv

(* No line is lost when functions differ in their names. *)
Kept(u) ==
  /\ pc[u] \in Written => Supported(u) /\ LastIs(trans, known[u], Calls(u, known[u]))
  /\ level /\ pc[u] \in BlocksWritten => LastIs(bbtrans, known[u], Blocks(u))
KeptInv ==
  /\ Intact => \A u \in Units : Kept(u)
  /\ repeats = 0 => ~AlreadyProcessed(bbtrans)

(* The flags of a function that a unit defines, and the table's. *)
FlagFor(u, F) ==
  IF isInitFunction(u, F.name) THEN "Init"
  ELSE IF isFiniFunction(u, F.name) THEN "Fini"
  ELSE IF F.name = "main" THEN "Main" ELSE "File"
FlagsInv ==
  Intact =>
    /\ \A n \in DOMAIN Table :
         \/ Table[n].flags = "External" /\ n # "main"
         \/ \E u \in Units : \E F \in DefinedIn(u) :
              F.name = n /\ Table[n].flags = FlagFor(u, F)
    /\ \A u \in Units : pc[u] \in Recording =>
         \A F \in DefinedIn(u) : Table[F.name].flags # "External"
-----------------------------------------------------------------------------
(* Sequences and maps. *)
LEMMA NumbersDiffer ==
  ASSUME NEW map, Numbers(map)
  PROVE  \A m, n \in DOMAIN map : map[m] = map[n] => m = n
<1> DEFINE S == DOMAIN map
           T == {map[n] : n \in S}
           f == [n \in S |-> map[n]]
<1>1. IsFiniteSet(S) /\ Cardinality(S) \in Nat /\ T = 0 .. Cardinality(S) - 1
  BY FS_CardinalityType DEF Numbers
<1>2. IsFiniteSet(T) /\ Cardinality(T) = Cardinality(S)
  <2>1. PICK c : c = Cardinality(S)
    OBVIOUS
  <2>2. c \in Nat /\ T = 0 .. c - 1
    BY <2>1, <1>1
  <2> HIDE DEF T, S
  <2>3. 0 \in Int /\ c - 1 \in Int
    BY <2>2
  <2>4. /\ IsFiniteSet(0 .. c - 1)
        /\ Cardinality(0 .. c - 1) = IF 0 > c - 1 THEN 0 ELSE (c - 1) - 0 + 1
    BY <2>3, FS_Interval
  <2> QED
    BY <2>1, <2>2, <2>4
<1>3. f \in Surjection(S, T)
  <2>1. f \in [S -> T] /\ \A t \in T : \E n \in S : f[n] = t
    OBVIOUS
  <2> HIDE DEF f, T, S
  <2> QED
    BY <2>1 DEF Surjection
<1>4. f \in Injection(S, T)
  <2> HIDE DEF f, T, S
  <2> QED
    BY <1>1, <1>2, <1>3, FS_SurjSameCardinalityImpliesInj
<1>5. \A m, n \in S : f[m] = f[n] => m = n
  <2> HIDE DEF f, T, S
  <2>1. f \in [S -> T] /\ IsInjective(f)
    BY <1>4 DEF Injection
  <2> QED
    BY <2>1 DEF IsInjective
<1> QED
  BY <1>5

(* A finite set as a sequence. *)
LEMMA SequenceOf ==
  ASSUME NEW S, IsFiniteSet(S)
  PROVE  /\ SetToSeq(S) \in Seq(S) /\ Len(SetToSeq(S)) = Cardinality(S)
         /\ ToSet(SetToSeq(S)) = S /\ Cardinality(S) \in Nat
         /\ \A x, y \in 1 .. Len(SetToSeq(S)) : SetToSeq(S)[x] = SetToSeq(S)[y] => x = y
<1> DEFINE n == Cardinality(S)
           D == 1 .. n
           s == SetToSeq(S)
<1>1. n \in Nat /\ ExistsBijection(D, S)
  BY FS_CardinalityType
<1>2. \E f \in [D -> S] : IsInjective(f)
  <2> HIDE DEF D
  <2> QED
    BY <1>1 DEF ExistsBijection, Bijection, Injection
<1>3. s \in [D -> S] /\ IsInjective(s)
  <2>1. s = CHOOSE f \in [D -> S] : IsInjective(f)
    BY DEF SetToSeq
  <2> HIDE DEF s, D
  <2> QED
    BY <2>1, <1>2
<1> HIDE DEF s
<1>4. s \in Seq(S) /\ Len(s) = n /\ DOMAIN s = D
  BY <1>1, <1>3
<1>5. IsFiniteSet(D) /\ Cardinality(D) = n
  <2> HIDE DEF n
  <2>1. 1 \in Int /\ n \in Int
    BY <1>1
  <2>2. IsFiniteSet(1 .. n) /\ Cardinality(1 .. n) = IF 1 > n THEN 0 ELSE n - 1 + 1
    BY <2>1, FS_Interval
  <2> QED
    BY <2>2, <1>1
<1>6. s \in Injection(D, S)
  <2> HIDE DEF D
  <2> QED
    BY <1>3 DEF Injection
<1>7. s \in Surjection(D, S)
  <2> HIDE DEF D
  <2> QED
    BY <1>5, <1>6, FS_Injection DEF n
<1>8. \A t \in S : \E k \in D : s[k] = t
  <2> HIDE DEF D
  <2> QED
    BY <1>7 DEF Surjection
<1>9. ToSet(s) = S
  <2> HIDE DEF D
  <2> QED
    BY <1>3, <1>4, <1>8 DEF ToSet
<1>10. \A x, y \in D : s[x] = s[y] => x = y
  BY <1>3, <1>4 DEF IsInjective
<1> QED
  BY <1>1, <1>4, <1>9, <1>10 DEF s

LEMMA GreatestOf ==
  ASSUME NEW n \in Nat, NEW S, S \subseteq 1 .. n, S # {}
  PROVE  Max(S) \in S /\ \A y \in S : y <= Max(S)
<1> DEFINE R == {x \in 0 .. n : \A y \in S : y <= x}
           Less == {ss \in Nat \X Nat : ss[1] < ss[2]}
<1>1. R \subseteq Nat /\ n \in R
  OBVIOUS
<1>2. PICK x \in R : \A y \in R : ~(<<y, x>> \in Less)
  <2>1. IsWellFoundedOn(Less, Nat)
    BY NatLessThanWellFounded DEF OpToRel
  <2> HIDE DEF R, Less
  <2> QED
    BY <2>1, <1>1, WFMin
<1>3. x \in Nat /\ x <= n /\ \A y \in S : y <= x
  OBVIOUS
<1>4. x \in S
  <2> SUFFICES ASSUME x \notin S PROVE FALSE
    OBVIOUS
  <2>1. \A y \in S : y <= x - 1
    BY <1>3
  <2>2. x - 1 \in R
    <3>1. PICK y \in S : TRUE
      OBVIOUS
    <3> QED
      BY <3>1, <2>1, <1>3
  <2>3. <<x - 1, x>> \in Less
    BY <2>2, <1>1, <1>3
  <2> QED
    BY <2>2, <2>3, <1>2
<1>5. \E z \in S : \A y \in S : z >= y
  BY <1>3, <1>4
<1>6. Max(S) \in S /\ \A y \in S : Max(S) >= y
  BY <1>5 DEF Max
<1> QED
  BY <1>6

(* A file, as a dict and with one more line. *)
LEMMA DictFrom ==
  ASSUME NEW lines, IsFile(lines), NEW f
  PROVE  /\ f \in DOMAIN Dict(lines) <=> \E k \in 1 .. Len(lines) : f \in DOMAIN lines[k]
         /\ f \in DOMAIN Dict(lines) =>
              \E k \in 1 .. Len(lines) :
                /\ f \in DOMAIN lines[k] /\ Dict(lines)[f] = lines[k][f]
                /\ k = Max(LinesFor(lines, f))
<1>1. f \in DOMAIN Dict(lines) <=> \E k \in 1 .. Len(lines) : f \in DOMAIN lines[k]
  BY DEF Dict
<1>2. ASSUME f \in DOMAIN Dict(lines)
      PROVE  \E k \in 1 .. Len(lines) :
               /\ f \in DOMAIN lines[k] /\ Dict(lines)[f] = lines[k][f]
               /\ k = Max(LinesFor(lines, f))
  <2>1. LinesFor(lines, f) \subseteq 1 .. Len(lines) /\ LinesFor(lines, f) # {}
    BY <1>1, <1>2 DEF LinesFor
  <2>2. Max(LinesFor(lines, f)) \in LinesFor(lines, f)
    BY <2>1, GreatestOf DEF IsFile
  <2>3. Dict(lines)[f] = lines[Max(LinesFor(lines, f))][f]
    BY <1>2 DEF Dict
  <2> QED
    BY <2>2, <2>3 DEF LinesFor
<1> QED
  BY <1>1, <1>2

LEMMA FileGrows ==
  ASSUME NEW lines, IsFile(lines), NEW l, IsFiniteSet(DOMAIN l)
  PROVE  /\ IsFile(Append(lines, l)) /\ Len(Append(lines, l)) = Len(lines) + 1
         /\ \A k \in 1 .. Len(lines) : Append(lines, l)[k] = lines[k]
         /\ Append(lines, l)[Len(lines) + 1] = l
<1> DEFINE R == {lines[k] : k \in 1 .. Len(lines)} \cup {l}
           n == Len(lines)
           s == Append(lines, l)
<1>1. n \in Nat /\ lines \in Seq(R) /\ l \in R
  BY DEF IsFile
<1>2. s \in Seq(R) /\ Len(s) = n + 1 /\ \A k \in 1 .. n : s[k] = lines[k]
  <2> HIDE DEF R
  <2> QED
    BY <1>1
<1>3. s[n + 1] = l
  <2> HIDE DEF R
  <2> QED
    BY <1>1
<1>4. s = [k \in 1 .. Len(s) |-> s[k]]
  <2> HIDE DEF R, s
  <2> QED
    BY <1>2
<1>5. \A k \in 1 .. Len(s) : IsFiniteSet(DOMAIN s[k])
  <2> TAKE k \in 1 .. Len(s)
  <2>1. k \in 1 .. n \/ k = n + 1
    BY <1>1, <1>2
  <2> QED
    BY <2>1, <1>2, <1>3 DEF IsFile
<1> QED
  BY <1>1, <1>2, <1>3, <1>4, <1>5 DEF IsFile

LEMMA DictGrows ==
  ASSUME NEW lines, IsFile(lines), NEW l, IsFiniteSet(DOMAIN l), NEW f
  PROVE  /\ f \in DOMAIN l =>
              /\ f \in DOMAIN Dict(Append(lines, l))
              /\ Dict(Append(lines, l))[f] = l[f]
         /\ f \notin DOMAIN l /\ f \in DOMAIN Dict(lines) =>
              /\ f \in DOMAIN Dict(Append(lines, l))
              /\ Dict(Append(lines, l))[f] = Dict(lines)[f]
<1>1. PICK n, s : n = Len(lines) /\ s = Append(lines, l)
  OBVIOUS
<1>2. /\ IsFile(s) /\ Len(s) = n + 1 /\ n \in Nat /\ s[n + 1] = l
      /\ \A k \in 1 .. n : s[k] = lines[k]
  BY <1>1, FileGrows DEF IsFile
<1>3. ASSUME f \in DOMAIN l
      PROVE  f \in DOMAIN Dict(s) /\ Dict(s)[f] = l[f]
  <2>1. n + 1 \in 1 .. Len(s) /\ f \in DOMAIN s[n + 1]
    BY <1>2, <1>3
  <2>2. f \in DOMAIN Dict(s)
    BY <2>1, <1>2, DictFrom
  <2>3. PICK k \in 1 .. Len(s) : Dict(s)[f] = s[k][f] /\ k = Max(LinesFor(s, f))
    BY <2>2, <1>2, DictFrom
  <2>4. n + 1 \in LinesFor(s, f) /\ LinesFor(s, f) \subseteq 1 .. Len(s)
    BY <2>1 DEF LinesFor
  <2>5. n + 1 <= k
    <3>1. Len(s) \in Nat /\ LinesFor(s, f) # {}
      BY <1>2, <2>4
    <3> QED
      BY <3>1, <2>3, <2>4, GreatestOf
  <2>6. k = n + 1
    BY <2>5, <1>2
  <2> QED
    BY <2>2, <2>3, <2>6, <1>2
<1>4. ASSUME f \notin DOMAIN l, f \in DOMAIN Dict(lines)
      PROVE  f \in DOMAIN Dict(s) /\ Dict(s)[f] = Dict(lines)[f]
  <2>1. PICK k \in 1 .. n : /\ f \in DOMAIN lines[k] /\ Dict(lines)[f] = lines[k][f]
                            /\ k = Max(LinesFor(lines, f))
    BY <1>1, <1>4, DictFrom
  <2>2. k \in 1 .. Len(s) /\ f \in DOMAIN s[k] /\ s[k] = lines[k]
    BY <2>1, <1>2
  <2>3. LinesFor(s, f) = LinesFor(lines, f)
    <3>1. \A j \in 1 .. n + 1 : j \in 1 .. n \/ j = n + 1
      BY <1>2
    <3>2. \A j : j \in 1 .. n + 1 /\ f \in DOMAIN s[j] <=> j \in 1 .. n /\ f \in DOMAIN lines[j]
      BY <3>1, <1>2, <1>4
    <3> QED
      BY <3>2, <1>1, <1>2 DEF LinesFor
  <2>4. f \in DOMAIN Dict(s)
    BY <2>2, <1>2, DictFrom
  <2>5. Dict(s)[f] = s[Max(LinesFor(s, f))][f]
    BY <2>4 DEF Dict
  <2> QED
    BY <2>1, <2>2, <2>3, <2>4, <2>5
<1> QED
  BY <1>1, <1>3, <1>4
-----------------------------------------------------------------------------
(* Functions and lines of a unit. *)
LEMMA SourceFacts ==
  ASSUME NEW s \in Builds, NEW u \in Units, NEW F \in ToSet(s[u].funs)
  PROVE  /\ F.blocks \in Seq(ToSet(F.blocks))
         /\ \A b \in BlocksOf(F) : SuccessorsOf(F, b) \in Seq(BlocksOf(F) \ {0})
         /\ \A g \in Callees(F) \ {INVOKE, INDIRECT} : \E G \in ToSet(s[u].funs) : G.name = g
  BY BitcodeAssumption DEF WellBuilt

LEMMA CalleesNamed ==
  ASSUME Source \in Builds, NEW u \in Units, NEW F \in DefinedIn(u), ~Unsupported(F)
  PROVE  Callees(F) \subseteq Names(u)
<1> SUFFICES ASSUME NEW g \in Callees(F)
             PROVE  g \in Names(u)
  OBVIOUS
<1>1. F \in ToSet(Source[u].funs)
  BY DEF DefinedIn, FunctionMap
<1>2. g # INVOKE /\ g # INDIRECT /\ Identified(g)
  BY DEF Callees, Unsupported
<1>3. \A h \in Callees(F) \ {INVOKE, INDIRECT} : \E G \in ToSet(Source[u].funs) : G.name = h
  BY <1>1, SourceFacts
<1>4. PICK G \in ToSet(Source[u].funs) : G.name = g
  BY <1>2, <1>3
<1> QED
  BY <1>2, <1>4 DEF Names, FunctionMap

(* ById, as the jobs use it. *)
LineOf(map, S, V) ==
  [i \in {map[F.name] : F \in S} |-> V[CHOOSE F \in S : map[F.name] = i]]

LEMMA LineWritten ==
  ASSUME Source \in Builds, NEW u \in Units, NEW S, S \subseteq DefinedIn(u),
         NEW V, DOMAIN V = S, NEW map
  PROVE  /\ IsFiniteSet(DOMAIN LineOf(map, S, V))
         /\ (\A m, n \in Names(u) : map[m] = map[n] => m = n) => IsLine(LineOf(map, S, V), map, V)
<1>1. PICK l : l = [i \in {map[F.name] : F \in S} |-> V[CHOOSE F \in S : map[F.name] = i]]
  OBVIOUS
<1>2. l = LineOf(map, S, V)
  BY <1>1 DEF LineOf
<1>3. /\ \A F, G \in FunctionMap(u) : F.name = G.name => F = G
      /\ S \subseteq FunctionMap(u) /\ IsFiniteSet(S)
      /\ \A F \in FunctionMap(u) : F.name \in Names(u)
  BY UnitFunctions, FS_Subset
<1>4. IsFiniteSet(DOMAIN l)
  <2> DEFINE g == [F \in S |-> map[F.name]]
  <2>1. DOMAIN l = {g[F] : F \in S}
    BY <1>1
  <2> HIDE DEF g
  <2>2. IsFiniteSet({g[F] : F \in S})
    BY ONLY <1>3, ImageFinite
  <2> QED
    BY ONLY <2>1, <2>2
<1>5. ASSUME \A m, n \in Names(u) : map[m] = map[n] => m = n
      PROVE  IsLine(l, map, V)
  <2>1. ASSUME NEW F \in S PROVE l[map[F.name]] = V[F]
    <3> DEFINE G == CHOOSE H \in S : map[H.name] = map[F.name]
    <3>1. G \in S /\ map[G.name] = map[F.name]
      OBVIOUS
    <3>2. l[map[F.name]] = V[G]
      BY <1>1
    <3> HIDE DEF G
    <3>3. G = F
      BY <3>1, <1>3, <1>5
    <3> QED
      BY <3>2, <3>3
  <2> QED
    BY <2>1, <1>1 DEF IsLine
<1> QED
  BY <1>2, <1>4, <1>5

(* Lines written with one map and read with another. *)
LEMMA SameIds ==
  ASSUME Source \in Builds, NEW v \in Units, NEW m1, NEW m2, \A n \in Names(v) : m1[n] = m2[n]
  PROVE  /\ Supported(v) => Calls(v, m1) = Calls(v, m2)
         /\ \A l, V : DOMAIN V \subseteq FunctionMap(v) /\ IsLine(l, m1, V) => IsLine(l, m2, V)
<1>1. ASSUME Supported(v)
      PROVE  Calls(v, m1) = Calls(v, m2)
  <2>1. \A F \in Callers(v) : Callees(F) \subseteq Names(v)
    BY <1>1, CalleesNamed DEF Callers, Supported
  <2>2. \A F \in Callers(v) : {m1[g] : g \in Callees(F)} = {m2[g] : g \in Callees(F)}
    BY <2>1
  <2> QED
    BY <2>2 DEF Calls
<1>2. ASSUME NEW l, NEW V, DOMAIN V \subseteq FunctionMap(v), IsLine(l, m1, V)
      PROVE  IsLine(l, m2, V)
  <2>1. \A F \in DOMAIN V : m1[F.name] = m2[F.name]
    BY <1>2 DEF Names
  <2>2. {m1[F.name] : F \in DOMAIN V} = {m2[F.name] : F \in DOMAIN V}
    BY <2>1
  <2> QED
    BY <2>1, <2>2, <1>2 DEF IsLine
<1> QED
  BY <1>1, <1>2

LEMMA LineDomains ==
  ASSUME NEW v \in Units, NEW map
  PROVE  /\ DOMAIN Calls(v, map) = Callers(v) /\ Callers(v) \subseteq DefinedIn(v)
         /\ DOMAIN Blocks(v) = WithBlocks(v) /\ DOMAIN Ipds(v) = WithBlocks(v)
         /\ WithBlocks(v) \subseteq DefinedIn(v) /\ DefinedIn(v) \subseteq FunctionMap(v)
  BY DEF Calls, Callers, Blocks, Ipds, WithBlocks, DefinedIn

LEMMA SameSource ==
  ASSUME Source' = Source, NEW v \in Units
  PROVE  /\ Names(v)' = Names(v) /\ DefinedIn(v)' = DefinedIn(v)
         /\ FunctionMap(v)' = FunctionMap(v) /\ WithBlocks(v)' = WithBlocks(v)
         /\ Supported(v)' <=> Supported(v)
         /\ Blocks(v)' = Blocks(v) /\ Ipds(v)' = Ipds(v)
         /\ Calls(v, known[v])' = Calls(v, known'[v]) /\ Calls(v, Ids)' = Calls(v, Ids')
<1>1. FunctionMap(v)' = FunctionMap(v)
  BY DEF FunctionMap
<1>2. Names(v)' = Names(v) /\ DefinedIn(v)' = DefinedIn(v)
  BY <1>1 DEF Names, DefinedIn
<1>3. WithBlocks(v)' = WithBlocks(v)
  BY <1>2 DEF WithBlocks, isIgnoredBlocksFunction
<1>4. Supported(v)' <=> Supported(v)
  BY <1>2 DEF Supported
<1>5. Blocks(v)' = Blocks(v) /\ Ipds(v)' = Ipds(v)
  BY <1>3 DEF Blocks, Ipds
<1>6. Callers(v)' = Callers(v)
  BY <1>2 DEF Callers
<1>7. Calls(v, known[v])' = Calls(v, known'[v]) /\ Calls(v, Ids)' = Calls(v, Ids')
  BY <1>6 DEF Calls
<1> QED
  BY <1>1, <1>2, <1>3, <1>4, <1>5, <1>7
-----------------------------------------------------------------------------
(* Steps that write no line and leave the identifiers alone. *)
LEMMA OriginStays ==
  ASSUME CompileInv, NEW u \in Units, NEW to \in Places, pc' = [pc EXCEPT ![u] = to],
         Source' = Source, \A v \in Units \ {u} : known'[v] = known[v],
         Intact' => Intact /\ Table' = Table,
         harm' = "none" =>
           /\ pc[u] \in Written \ Recording => to \in Written \ Recording /\ known'[u] = known[u]
           /\ pc[u] \in BlocksWritten \ Recording => to \in BlocksWritten \ Recording,
         repeats' = 0 => repeats = 0 /\ (pc[u] \in BlocksWritten => to \in BlocksWritten)
  PROVE  /\ Intact' => \A l : IpdOrigin(l) => IpdOrigin(l)'
         /\ harm' = "none" => \A l : CallsOrigin(l) => CallsOrigin(l)'
         /\ harm' = "none" => \A l : BlocksOrigin(l) => BlocksOrigin(l)'
<1>1. pc'[u] = to /\ \A v \in Units \ {u} : pc'[v] = pc[v]
  BY DEF CompileInv, BuildTypes
<1>2. harm' = "none" => Intact'
  BY DEF Intact
<1>3. Intact' => Table' = Table /\ Ids' = Ids
  BY DEF Ids
<1>4. ASSUME Intact', NEW l, IpdOrigin(l)
      PROVE  IpdOrigin(l)'
  <2>1. PICK v \in Units : Names(v) \subseteq DOMAIN Table /\ IsLine(l, Ids, Ipds(v))
    BY <1>4 DEF IpdOrigin
  <2>2. Names(v)' = Names(v) /\ Ipds(v)' = Ipds(v)
    BY SameSource
  <2>3. Names(v)' \subseteq DOMAIN Table' /\ IsLine(l, Ids, Ipds(v))'
    BY <2>1, <2>2, <1>3, <1>4
  <2> QED
    BY <2>3 DEF IpdOrigin
<1>5. ASSUME harm' = "none", NEW l, CallsOrigin(l)
      PROVE  CallsOrigin(l)'
  <2>1. PICK v \in Units :
          /\ Supported(v)
          /\ \/ Names(v) \subseteq DOMAIN Table /\ IsLine(l, Ids, Calls(v, Ids))
             \/ pc[v] \in Written \ Recording /\ IsLine(l, known[v], Calls(v, known[v]))
    BY <1>5 DEF CallsOrigin
  <2>2. /\ Names(v)' = Names(v) /\ Supported(v)'
        /\ Calls(v, known[v])' = Calls(v, known'[v]) /\ Calls(v, Ids)' = Calls(v, Ids')
    BY <2>1, SameSource
  <2>3. CASE Names(v) \subseteq DOMAIN Table /\ IsLine(l, Ids, Calls(v, Ids))
    <3>1. Names(v)' \subseteq DOMAIN Table' /\ IsLine(l, Ids, Calls(v, Ids))'
      BY <2>2, <2>3, <1>2, <1>3, <1>5
    <3> QED
      BY <3>1, <2>2 DEF CallsOrigin
  <2>4. CASE pc[v] \in Written \ Recording /\ IsLine(l, known[v], Calls(v, known[v]))
    <3>1. pc'[v] \in Written \ Recording /\ known'[v] = known[v]
      BY <2>4, <1>1, <1>5
    <3>2. IsLine(l, known[v], Calls(v, known[v]))'
      BY <3>1, <2>2, <2>4
    <3> QED
      BY <3>1, <3>2, <2>2 DEF CallsOrigin
  <2> QED
    BY <2>1, <2>3, <2>4
<1>6. ASSUME harm' = "none", NEW l, BlocksOrigin(l)
      PROVE  BlocksOrigin(l)'
  <2>1. PICK v \in Units :
          /\ repeats = 0 => pc[v] \in BlocksWritten
          /\ \/ Names(v) \subseteq DOMAIN Table /\ IsLine(l, Ids, Blocks(v))
             \/ pc[v] \in BlocksWritten \ Recording /\ IsLine(l, known[v], Blocks(v))
    BY <1>6 DEF BlocksOrigin
  <2>2. Names(v)' = Names(v) /\ Blocks(v)' = Blocks(v)
    BY <2>1, SameSource
  <2>3. repeats' = 0 => pc'[v] \in BlocksWritten
    BY <2>1, <1>1
  <2>4. CASE Names(v) \subseteq DOMAIN Table /\ IsLine(l, Ids, Blocks(v))
    <3>1. Names(v)' \subseteq DOMAIN Table' /\ IsLine(l, Ids, Blocks(v))'
      BY <2>2, <2>4, <1>2, <1>3, <1>6
    <3> QED
      BY <3>1, <2>3 DEF BlocksOrigin
  <2>5. CASE pc[v] \in BlocksWritten \ Recording /\ IsLine(l, known[v], Blocks(v))
    <3>1. pc'[v] \in BlocksWritten \ Recording /\ known'[v] = known[v]
      BY <2>5, <1>1, <1>6 DEF Written
    <3>2. IsLine(l, known[v], Blocks(v))'
      BY <3>1, <2>2, <2>5
    <3> QED
      BY <3>1, <3>2, <2>3 DEF BlocksOrigin
  <2> QED
    BY <2>1, <2>4, <2>5
<1> QED
  BY <1>4, <1>5, <1>6

LEMMA DoneStays ==
  ASSUME CompileInv, DoneKnows, NEW u \in Units, NEW to \in Places, pc' = [pc EXCEPT ![u] = to],
         Source' = Source, \A v \in Units \ {u} : known'[v] = known[v],
         Intact' => /\ Intact
                    /\ \A n \in DOMAIN Table : n \in DOMAIN Table' /\ Table'[n].id = Table[n].id,
         to = "done" => pc[u] = "unlocked" /\ known' = known
  PROVE  DoneKnows'
<1>1. pc'[u] = to /\ \A v \in Units \ {u} : pc'[v] = pc[v]
  BY DEF CompileInv, BuildTypes
<1>2. SUFFICES ASSUME Intact', NEW v \in Units, pc'[v] = "done"
               PROVE  Agrees(known[v], Names(v))'
  BY DEF DoneKnows
<1>3. Intact /\ \A n \in DOMAIN Table : n \in DOMAIN Table' /\ Table'[n].id = Table[n].id
  BY <1>2
<1>4. Agrees(known[v], Names(v)) /\ known'[v] = known[v]
  BY <1>1, <1>2, <1>3 DEF DoneKnows, CompileInv, Recorded
<1>5. Names(v)' = Names(v)
  BY SameSource
<1> QED
  BY <1>3, <1>4, <1>5 DEF Agrees

(* A step of job u to place `to' that writes no line and no identifier. *)
Quiet(u, to) ==
  /\ to \in Places /\ pc' = [pc EXCEPT ![u] = to]
  /\ UNCHANGED <<Source, level, trans, bbtrans, ipdom>>
  /\ \A v \in Units \ {u} : known'[v] = known[v]
  /\ Intact' => Intact /\ Table' = Table
  /\ harm' = "none" => /\ harm = "none"
                       /\ pc[u] \in Written \ Recording => to \in Written \ Recording
                       /\ pc[u] \in BlocksWritten \ Recording => to \in BlocksWritten \ Recording
  /\ to \in Written => pc[u] \in Written
  /\ pc[u] \in Written => known' = known
  /\ to \in BlocksWritten => pc[u] \in BlocksWritten
  /\ to \in Recording => pc[u] \in Recording
  /\ to = "done" => pc[u] = "unlocked"
  /\ repeats' \in Nat
  /\ repeats' = 0 => /\ repeats = 0 /\ harm' = harm /\ to # "killed"
                     /\ pc[u] \in BlocksWritten => to \in BlocksWritten
  /\ (pc[u] # "done" /\ linked' = linked) \/ linked' = "no"

LEMMA TableStays ==
  ASSUME CompileInv, CompileInv', NEW u \in Units, NEW to, pc' = [pc EXCEPT ![u] = to],
         UNCHANGED <<fctid, oldMap>>, pc[u] # "rewriting", to # "rewriting", Intact, Intact'
  PROVE  Table' = Table
<1>1. /\ pc'[u] = to /\ \A v \in Units \ {u} : pc'[v] = pc[v]
      /\ lock \in Units \cup {NoJob} /\ lock' \in Units \cup {NoJob} /\ NoJob \notin Units
  BY BuildAssumption DEF CompileInv, BuildTypes
<1>2. Exclusion /\ Exclusion'
  BY DEF CompileInv
<1>3. "rewriting" \in Holding
  BY DEF Holding
<1>4. CASE lock # NoJob /\ pc[lock] = "rewriting"
  <2>1. lock \in Units \ {u} /\ pc'[lock] = "rewriting"
    BY <1>1, <1>4
  <2>2. lock' = lock
    BY <2>1, <1>2, <1>3 DEF Exclusion
  <2> QED
    BY <2>1, <2>2, <1>4 DEF Table
<1>5. CASE ~(lock # NoJob /\ pc[lock] = "rewriting")
  <2>1. ~(lock' # NoJob /\ pc'[lock'] = "rewriting")
    <3> SUFFICES ASSUME lock' # NoJob, pc'[lock'] = "rewriting" PROVE FALSE
      OBVIOUS
    <3>1. PICK w \in Units : w = lock'
      BY <1>1
    <3>2. w # u /\ pc[w] = "rewriting"
      BY <3>1, <1>1
    <3>3. lock = w
      BY <3>2, <1>2, <1>3 DEF Exclusion
    <3> QED
      BY <3>2, <3>3, <1>1, <1>5
  <2> QED
    BY <2>1, <1>5 DEF Table
<1> QED
  BY <1>4, <1>5

(* All steps of a job but those that append lines or write .fctid. *)
LEMMA QuietSteps ==
  ASSUME CompileInv, CompileInv', FilesTyped, NEW u \in Units,
         \/ Start(u) \/ Lock(u) \/ LockFails(u) \/ IdentifyFunctions(u) \/ FatalError(u)
         \/ OpenFunctionIDs(u) \/ Unlock(u) \/ InjectCode(u) \/ Kill(u)
  PROVE  \E to : Quiet(u, to)
<1>1. /\ pc \in [Units -> Places] /\ u # NoJob /\ DOMAIN known = Units /\ DOMAIN oldMap = Units
      /\ repeats \in Nat
  BY BuildAssumption DEF CompileInv, BuildTypes, FilesTyped
<1> USE DEF Step, Places, Holding, Written, BlocksWritten, Recording, files, local, output
<1>2. CASE Start(u)
  <2>1. /\ pc[u] \in {"killed", "done"} /\ pc' = [pc EXCEPT ![u] = "waiting"]
        /\ UNCHANGED <<Source, level, trans, bbtrans, ipdom>>
        /\ UNCHANGED <<fctid, oldMap, known, harm>> /\ linked' = "no"
        /\ \/ pc[u] = "killed" /\ repeats' = repeats
           \/ pc[u] = "done" /\ repeats' = repeats + 1
    BY <1>1, <1>2 DEF Start
  <2>2. Intact' => Intact /\ Table' = Table
    BY <2>1, TableStays DEF Intact
  <2>3. repeats' \in Nat /\ (repeats' = 0 => pc[u] = "killed" /\ repeats = 0)
    BY <2>1, <1>1
  <2>4. Quiet(u, "waiting")
    BY <2>1, <2>2, <2>3 DEF Quiet
  <2> QED
    BY <2>4
<1>3. CASE Lock(u)
  <2>1. /\ pc[u] = "waiting" /\ pc' = [pc EXCEPT ![u] = "locked"]
        /\ UNCHANGED <<Source, level, trans, bbtrans, ipdom>>
        /\ UNCHANGED <<fctid, oldMap, known, harm, repeats, linked>>
    BY <1>1, <1>3 DEF Lock
  <2>2. Intact' => Intact /\ Table' = Table
    BY <2>1, TableStays DEF Intact
  <2> QED
    BY <2>1, <2>2, <1>1 DEF Quiet
<1>4. CASE LockFails(u)
  <2>1. /\ pc[u] = "waiting" /\ pc' = [pc EXCEPT ![u] = "locked"]
        /\ UNCHANGED <<Source, level, trans, bbtrans, ipdom, known, linked>>
        /\ harm' = "unlocked" /\ repeats' = repeats + 1
    BY <1>1, <1>4 DEF LockFails
  <2>2. repeats' # 0 /\ repeats' \in Nat
    BY <2>1, <1>1
  <2>3. Quiet(u, "locked")
    BY <2>1, <2>2 DEF Quiet, Intact
  <2> QED
    BY <2>3
<1>5. CASE IdentifyFunctions(u)
  <2>1. /\ pc[u] = "locked" /\ pc' = [pc EXCEPT ![u] = "identified"]
        /\ UNCHANGED <<Source, level, trans, bbtrans, ipdom>>
        /\ UNCHANGED <<fctid, oldMap, harm, repeats, linked>>
        /\ \A v \in Units \ {u} : known'[v] = known[v]
    BY <1>1, <1>5 DEF IdentifyFunctions
  <2>2. Intact' => Intact /\ Table' = Table
    BY <2>1, TableStays DEF Intact
  <2> QED
    BY <2>1, <2>2, <1>1 DEF Quiet
<1>6. CASE FatalError(u)
  <2>1. /\ pc[u] = "identified" /\ pc' = [pc EXCEPT ![u] = "failed"]
        /\ UNCHANGED <<Source, level, trans, bbtrans, ipdom>>
        /\ UNCHANGED <<fctid, oldMap, known, harm, repeats, linked>>
    BY <1>1, <1>6 DEF FatalError
  <2>2. Intact' => Intact /\ Table' = Table
    BY <2>1, TableStays DEF Intact
  <2> QED
    BY <2>1, <2>2, <1>1 DEF Quiet
<1>7. CASE OpenFunctionIDs(u)
  <2>1. /\ pc[u] = "transitions" /\ pc' = [pc EXCEPT ![u] = "rewriting"] /\ lock' = lock
        /\ oldMap'[u] = fctid
        /\ UNCHANGED <<Source, level, trans, bbtrans, ipdom, known, harm, repeats, linked>>
    BY <1>1, <1>7 DEF OpenFunctionIDs
  <2>2. Intact' => Intact /\ Table' = Table
    <3> SUFFICES ASSUME Intact' PROVE Intact /\ Table' = Table
      OBVIOUS
    <3>1. Intact /\ lock = u
      BY <2>1 DEF Intact, CompileInv, Exclusion
    <3> QED
      BY <3>1, <2>1, <1>1 DEF Table
  <2> QED
    BY <2>1, <2>2, <1>1 DEF Quiet
<1>8. CASE Unlock(u)
  <2>1. /\ pc[u] = "ipdom" /\ pc' = [pc EXCEPT ![u] = "unlocked"]
        /\ UNCHANGED <<Source, level, trans, bbtrans, ipdom>>
        /\ UNCHANGED <<fctid, oldMap, known, harm, repeats, linked>>
    BY <1>1, <1>8 DEF Unlock
  <2>2. Intact' => Intact /\ Table' = Table
    BY <2>1, TableStays DEF Intact
  <2> QED
    BY <2>1, <2>2, <1>1 DEF Quiet
<1>9. CASE InjectCode(u)
  <2>1. /\ pc[u] = "unlocked" /\ pc' = [pc EXCEPT ![u] = "done"]
        /\ UNCHANGED <<Source, level, trans, bbtrans, ipdom>>
        /\ UNCHANGED <<fctid, oldMap, known, harm, repeats, linked>>
    BY <1>1, <1>9 DEF InjectCode
  <2>2. Intact' => Intact /\ Table' = Table
    BY <2>1, TableStays DEF Intact
  <2> QED
    BY <2>1, <2>2, <1>1 DEF Quiet
<1>10. CASE Kill(u)
  <2>1. /\ pc[u] \notin {"done", "failed", "killed"} /\ pc' = [pc EXCEPT ![u] = "killed"]
        /\ UNCHANGED <<Source, level, fctid, trans, bbtrans, ipdom, known, oldMap, linked>>
        /\ repeats' = repeats + 1
        /\ harm' = CASE pc[u] = "rewriting" -> "torn"
                     [] pc[u] \in {"callgraph", "transitions"} /\ harm = "none" -> "dangling"
                     [] OTHER -> harm
    BY <1>1, <1>10 DEF Kill, Running
  <2>2. /\ Intact' => Intact /\ pc[u] # "rewriting"
        /\ harm' = "none" => harm = "none" /\ pc[u] \notin {"callgraph", "transitions", "rewriting"}
    BY <2>1 DEF Intact
  <2>3. Intact' => Intact /\ Table' = Table
    BY <2>1, <2>2, TableStays
  <2>4. repeats' # 0 /\ repeats' \in Nat
    BY <2>1, <1>1
  <2>5. Quiet(u, "killed")
    BY <2>1, <2>2, <2>3, <2>4 DEF Quiet
  <2> QED
    BY <2>5
<1> QED
  BY <1>2, <1>3, <1>4, <1>5, <1>6, <1>7, <1>8, <1>9, <1>10

LEMMA QuietKeeps ==
  ASSUME CompileInv, FilesInv, NEW u \in Units, NEW to, Quiet(u, to)
  PROVE  FilesInv' /\ (KeptInv => KeptInv') /\ (FlagsInv => FlagsInv')
<1>1. /\ to \in Places /\ pc' = [pc EXCEPT ![u] = to]
      /\ UNCHANGED <<Source, level, trans, bbtrans, ipdom>>
      /\ \A v \in Units \ {u} : known'[v] = known[v]
      /\ Intact' => Intact /\ Table' = Table
      /\ harm' = "none" => harm = "none"
      /\ repeats' \in Nat
      /\ repeats' = 0 => repeats = 0 /\ harm' = harm /\ to # "killed"
  BY DEF Quiet
<1>2. /\ pc \in [Units -> Places] /\ pc'[u] = to
      /\ \A v \in Units \ {u} : pc'[v] = pc[v]
  BY <1>1 DEF CompileInv, BuildTypes
<1>3. FilesTyped /\ LinesInv /\ LinkedInv
  BY DEF FilesInv
<1>4. FilesTyped'
  BY <1>1, <1>2, <1>3 DEF FilesTyped, IsFile
<1>5. /\ Intact' => \A l : IpdOrigin(l) => IpdOrigin(l)'
      /\ harm' = "none" => \A l : CallsOrigin(l) => CallsOrigin(l)'
      /\ harm' = "none" => \A l : BlocksOrigin(l) => BlocksOrigin(l)'
  <2>1. harm' = "none" =>
          /\ pc[u] \in Written \ Recording => to \in Written \ Recording /\ known'[u] = known[u]
          /\ pc[u] \in BlocksWritten \ Recording => to \in BlocksWritten \ Recording
    BY DEF Quiet
  <2>2. repeats' = 0 => repeats = 0 /\ (pc[u] \in BlocksWritten => to \in BlocksWritten)
    BY DEF Quiet
  <2> QED
    BY <2>1, <2>2, <1>1, OriginStays
<1>6. DoneKnows'
  <2>1. to = "done" => pc[u] = "unlocked" /\ known' = known
    BY DEF Quiet, Written, BlocksWritten, Recording
  <2>2. DoneKnows
    BY <1>3 DEF LinesInv
  <2> QED
    BY <2>1, <2>2, <1>1, DoneStays
<1>7. LinesInv'
  <2>1. Intact' => \A k \in 1 .. Len(ipdom) : IpdOrigin(ipdom[k])'
    BY <1>1, <1>3, <1>5 DEF LinesInv
  <2>2. harm' = "none" => /\ \A k \in 1 .. Len(trans) : CallsOrigin(trans[k])'
                          /\ \A k \in 1 .. Len(bbtrans) : BlocksOrigin(bbtrans[k])'
    BY <1>1, <1>3, <1>5 DEF LinesInv
  <2> QED
    BY <2>1, <2>2, <1>1, <1>6 DEF LinesInv
<1>8. LinkedInv'
  <2>1. linked' = "no"
    BY <1>3 DEF LinkedInv, Quiet
  <2> QED
    BY <2>1 DEF LinkedInv
<1>9. ASSUME KeptInv PROVE KeptInv'
  <2>1. ASSUME Intact', NEW v \in Units PROVE Kept(v)'
    <3>1. Kept(v)
      BY <1>1, <1>9, <2>1 DEF KeptInv
    <3>2. /\ pc'[v] \in Written => pc[v] \in Written /\ known'[v] = known[v]
          /\ pc'[v] \in BlocksWritten => pc[v] \in BlocksWritten /\ known'[v] = known[v]
      BY <1>1, <1>2 DEF Quiet, Written
    <3>3. /\ (Supported(v)' <=> Supported(v)) /\ Blocks(v)' = Blocks(v)
          /\ Calls(v, known[v])' = Calls(v, known'[v])
      BY <1>1, SameSource
    <3>4. pc'[v] \in Written => Supported(v)' /\ LastIs(trans, known[v], Calls(v, known[v]))'
      BY <3>1, <3>2, <3>3, <1>1 DEF Kept, LastIs
    <3>5. level' /\ pc'[v] \in BlocksWritten => LastIs(bbtrans, known[v], Blocks(v))'
      BY <3>1, <3>2, <3>3, <1>1 DEF Kept, LastIs
    <3> QED
      BY <3>4, <3>5 DEF Kept
  <2>2. repeats' = 0 => ~AlreadyProcessed(bbtrans')
    BY <1>1, <1>9 DEF KeptInv
  <2> QED
    BY <2>1, <2>2 DEF KeptInv
<1>10. ASSUME FlagsInv, Intact' PROVE FlagsInv'
  <2>1. \A v \in Units : DefinedIn(v)' = DefinedIn(v)
    BY <1>1, SameSource
  <2>2. \A v \in Units : \A F : FlagFor(v, F)' = FlagFor(v, F)
    BY <1>1 DEF FlagFor, isInitFunction, isFiniFunction, PatchCtorFunctions, PatchDtorFunctions
  <2>3. \A v \in Units : pc'[v] \in Recording => pc[v] \in Recording
    BY <1>2 DEF Quiet
  <2> QED
    BY <2>1, <2>2, <2>3, <1>1, <1>10 DEF FlagsInv
<1>11. FlagsInv => FlagsInv'
  BY <1>10 DEF FlagsInv
<1> QED
  BY <1>4, <1>7, <1>8, <1>9, <1>11 DEF FilesInv

(* picon-prelink packs the files as they are. *)
LEMMA IdleKeeps ==
  ASSUME CompileInv, FilesInv, prelink \/ BuildEnded \/ UNCHANGED vars
  PROVE  FilesInv' /\ (KeptInv => KeptInv') /\ (FlagsInv => FlagsInv')
<1>1. UNCHANGED <<Source, level, lock, fctid, trans, bbtrans, ipdom, pc, known, oldMap, object,
                  repeats, harm>>
  BY DEF prelink, BuildEnded, vars, files, local, output
<1>2. (Intact' <=> Intact) /\ Table' = Table
  BY <1>1 DEF Intact, Table
<1>3. Ids' = Ids
  BY <1>2 DEF Ids
<1>4. ASSUME NEW v \in Units
      PROVE  /\ Names(v)' = Names(v) /\ DefinedIn(v)' = DefinedIn(v)
             /\ (Supported(v)' <=> Supported(v))
             /\ Blocks(v)' = Blocks(v) /\ Ipds(v)' = Ipds(v)
             /\ Calls(v, known[v])' = Calls(v, known[v]) /\ Calls(v, Ids)' = Calls(v, Ids)
             /\ \A F : FlagFor(v, F)' = FlagFor(v, F)
  <2>1. \A F : FlagFor(v, F)' = FlagFor(v, F)
    BY <1>1 DEF FlagFor, isInitFunction, isFiniFunction, PatchCtorFunctions, PatchDtorFunctions
  <2> QED
    BY <2>1, <1>1, <1>3, SameSource
<1>5. FilesTyped'
  BY <1>1 DEF FilesInv, FilesTyped, IsFile
<1>6. LinesInv'
  <2>1. LinesInv
    BY DEF FilesInv
  <2>2. DoneKnows'
    <3>1. DoneKnows
      BY <2>1 DEF LinesInv
    <3> QED
      BY <3>1, <1>1, <1>2, <1>4 DEF DoneKnows, Agrees
  <2>3. \A l : IpdOrigin(l) => IpdOrigin(l)'
    BY <1>2, <1>3, <1>4 DEF IpdOrigin, IsLine
  <2>4. \A l : CallsOrigin(l) => CallsOrigin(l)'
    <3> SUFFICES ASSUME NEW l, CallsOrigin(l) PROVE CallsOrigin(l)'
      OBVIOUS
    <3>1. PICK v \in Units :
            /\ Supported(v)
            /\ \/ Names(v) \subseteq DOMAIN Table /\ IsLine(l, Ids, Calls(v, Ids))
               \/ pc[v] \in Written \ Recording /\ IsLine(l, known[v], Calls(v, known[v]))
      BY DEF CallsOrigin
    <3>2. /\ Supported(v)'
          /\ \/ Names(v)' \subseteq DOMAIN Table' /\ IsLine(l, Ids, Calls(v, Ids))'
             \/ pc'[v] \in Written \ Recording /\ IsLine(l, known[v], Calls(v, known[v]))'
      BY <3>1, <1>1, <1>2, <1>3, <1>4
    <3> QED
      BY <3>2 DEF CallsOrigin
  <2>5. \A l : BlocksOrigin(l) => BlocksOrigin(l)'
    <3> SUFFICES ASSUME NEW l, BlocksOrigin(l) PROVE BlocksOrigin(l)'
      OBVIOUS
    <3>1. PICK v \in Units :
            /\ repeats = 0 => pc[v] \in BlocksWritten
            /\ \/ Names(v) \subseteq DOMAIN Table /\ IsLine(l, Ids, Blocks(v))
               \/ pc[v] \in BlocksWritten \ Recording /\ IsLine(l, known[v], Blocks(v))
      BY DEF BlocksOrigin
    <3>2. /\ repeats' = 0 => pc'[v] \in BlocksWritten
          /\ \/ Names(v)' \subseteq DOMAIN Table' /\ IsLine(l, Ids, Blocks(v))'
             \/ pc'[v] \in BlocksWritten \ Recording /\ IsLine(l, known[v], Blocks(v))'
      BY <3>1, <1>1, <1>2, <1>3, <1>4
    <3> QED
      BY <3>2 DEF BlocksOrigin
  <2> QED
    BY <2>1, <2>2, <2>3, <2>4, <2>5, <1>1, <1>2 DEF LinesInv
<1>7. LinkedInv'
  <2>1. Packed' = Packed
    BY <1>1 DEF Packed, gen_packed_fctids, gen_packed_callgraph, gen_packed_bb
  <2>2. LinkedInv
    BY DEF FilesInv
  <2>3. CASE prelink
    <3>1. CASE bbtrans # <<>> /\ AlreadyProcessed(bbtrans)
      BY <3>1, <2>3, <1>1 DEF prelink, LinkedInv
    <3>2. CASE ~(bbtrans # <<>> /\ AlreadyProcessed(bbtrans))
      <4>1. linked' = "yes" /\ image' = Packed /\ \A u \in Units : pc[u] = "done"
        BY <3>2, <2>3 DEF prelink, Packed
      <4> QED
        BY <4>1, <2>1, <1>1 DEF LinkedInv
    <3> QED
      BY <3>1, <3>2
  <2>4. CASE UNCHANGED <<linked, image>>
    BY <2>1, <2>2, <2>4, <1>1 DEF LinkedInv
  <2> QED
    BY <2>3, <2>4 DEF BuildEnded, vars, output
<1>8. ASSUME KeptInv PROVE KeptInv'
  <2>1. ASSUME Intact', NEW v \in Units PROVE Kept(v)'
    <3>1. Kept(v)
      BY <2>1, <1>2, <1>8 DEF KeptInv
    <3> QED
      BY <3>1, <1>1, <1>4 DEF Kept, LastIs
  <2> QED
    BY <2>1, <1>1, <1>8 DEF KeptInv
<1>9. ASSUME FlagsInv PROVE FlagsInv'
  BY <1>1, <1>2, <1>4, <1>9 DEF FlagsInv
<1> QED
  BY <1>5, <1>6, <1>7, <1>8, <1>9 DEF FilesInv
-----------------------------------------------------------------------------
(* Steps that append a line.  Functions of two units have different        *)
(* identifiers.                                                            *)
LEMMA Apart ==
  ASSUME OneDefinition, Source \in Builds, NEW u \in Units, KnowsAll(u),
         NEW v \in Units, v # u, NEW F \in DefinedIn(v), NEW G \in DefinedIn(u),
         F.name \in DOMAIN Table
  PROVE  Table[F.name].id # known[u][G.name]
<1>1. /\ DOMAIN known[u] = DOMAIN Table \cup Names(u) /\ Numbers(known[u])
      /\ Table[F.name].id = known[u][F.name] /\ G.name \in Names(u)
  <2>1. G \in FunctionMap(u)
    BY DEF DefinedIn
  <2> QED
    BY <2>1 DEF KnowsAll, Agrees, Names
<1>2. F.name # G.name
  BY DEF OneDefinition, DefinedIn, FunctionMap
<1> QED
  BY <1>1, <1>2, NumbersDiffer

LEMMA LastGrows ==
  ASSUME NEW lines, IsFile(lines), NEW l, IsFiniteSet(DOMAIN l), NEW map, NEW V
  PROVE  /\ IsLine(l, map, V) => LastIs(Append(lines, l), map, V)
         /\ LastIs(lines, map, V) /\ (\A F \in DOMAIN V : map[F.name] \notin DOMAIN l)
              => LastIs(Append(lines, l), map, V)
<1>1. ASSUME IsLine(l, map, V), NEW F \in DOMAIN V
      PROVE  /\ map[F.name] \in DOMAIN Dict(Append(lines, l))
             /\ Dict(Append(lines, l))[map[F.name]] = V[F]
  <2>1. map[F.name] \in DOMAIN l /\ l[map[F.name]] = V[F]
    BY <1>1 DEF IsLine
  <2> QED
    BY <2>1, DictGrows
<1>2. ASSUME LastIs(lines, map, V), NEW F \in DOMAIN V, map[F.name] \notin DOMAIN l
      PROVE  /\ map[F.name] \in DOMAIN Dict(Append(lines, l))
             /\ Dict(Append(lines, l))[map[F.name]] = V[F]
  <2>1. map[F.name] \in DOMAIN Dict(lines) /\ Dict(lines)[map[F.name]] = V[F]
    BY <1>2 DEF LastIs
  <2> QED
    BY <2>1, <1>2, DictGrows
<1> QED
  BY <1>1, <1>2 DEF LastIs

(* Who does not hold the lock has recorded what it knows, or nothing. *)
LEMMA OthersRecorded ==
  ASSUME CompileInv, DoneKnows, Intact, NEW u \in Units, pc[u] \in Holding,
         NEW v \in Units, v # u, pc[v] \in Written
  PROVE  Agrees(known[v], Names(v)) /\ pc[v] \in Recording
<1>1. pc[v] \notin Holding
  BY DEF CompileInv, Exclusion
<1>2. pc[v] = "unlocked" \/ pc[v] = "done"
  BY <1>1 DEF Written, BlocksWritten, Recording, Holding
<1> QED
  BY <1>2 DEF CompileInv, Recorded, DoneKnows, Recording

LEMMA AppendedLine ==
  ASSUME CompileInv, DoneKnows, Intact, NEW u \in Units,
         pc[u] \in {"identified", "callgraph"}, NEW S, S \subseteq DefinedIn(u),
         NEW V, DOMAIN V = S, NEW l, l = LineOf(known[u], S, V),
         NEW lines, IsFile(lines)
  PROVE  /\ IsFiniteSet(DOMAIN l) /\ IsLine(l, known[u], V)
         /\ LastIs(Append(lines, l), known[u], V)
         /\ OneDefinition =>
              \A v \in Units \ {u} : \A W :
                /\ pc[v] \in Written /\ DOMAIN W \subseteq DefinedIn(v)
                /\ LastIs(lines, known[v], W)
                => LastIs(Append(lines, l), known[v], W)
<1>1. Source \in Builds /\ KnowsAll(u) /\ pc[u] \in Holding
  BY DEF CompileInv, BuildTypes, Continued, Holding
<1>2. \A m, n \in Names(u) : known[u][m] = known[u][n] => m = n
  BY <1>1, NumbersDiffer DEF KnowsAll
<1>3. IsFiniteSet(DOMAIN l) /\ IsLine(l, known[u], V)
  BY <1>1, <1>2, LineWritten
<1>4. ASSUME OneDefinition, NEW v \in Units \ {u}, NEW W, pc[v] \in Written,
             DOMAIN W \subseteq DefinedIn(v), LastIs(lines, known[v], W)
      PROVE  LastIs(Append(lines, l), known[v], W)
  <2>1. Agrees(known[v], Names(v))
    BY <1>1, <1>4, OthersRecorded
  <2>2. ASSUME NEW F \in DOMAIN W, known[v][F.name] \in DOMAIN l
        PROVE  FALSE
    <3>1. PICK G \in DOMAIN V : known[v][F.name] = known[u][G.name]
      BY <2>2, <1>3 DEF IsLine
    <3>2. F.name \in Names(v)
      BY <1>4 DEF Names, DefinedIn
    <3>3. F.name \in DOMAIN Table /\ Table[F.name].id = known[v][F.name]
      BY <2>1, <3>2 DEF Agrees
    <3>4. F \in DefinedIn(v) /\ G \in DefinedIn(u)
      BY <1>4
    <3> QED
      BY <3>1, <3>3, <3>4, <1>1, <1>4, Apart
  <2> QED
    BY <2>2, <1>3, <1>4, LastGrows
<1> QED
  BY <1>3, <1>4, LastGrows

(* What the three appending steps have in common. *)
Appends(u, from, to) ==
  /\ <<from, to>> \in {<<"identified", "callgraph">>, <<"callgraph", "transitions">>,
                       <<"ids", "ipdom">>}
  /\ pc[u] = from /\ pc' = [pc EXCEPT ![u] = to]
  /\ UNCHANGED <<Source, level, fctid, known, oldMap, linked, repeats, harm>>

LEMMA AppendsKeeps ==
  ASSUME CompileInv, CompileInv', FilesInv, NEW u \in Units, NEW from, NEW to,
         Appends(u, from, to)
  PROVE  /\ pc'[u] = to /\ \A v \in Units \ {u} : pc'[v] = pc[v]
         /\ (Intact' <=> Intact) /\ (Intact => Table' = Table /\ Ids' = Ids)
         /\ Intact' => \A l : IpdOrigin(l) => IpdOrigin(l)'
         /\ harm' = "none" => \A l : CallsOrigin(l) => CallsOrigin(l)'
         /\ harm' = "none" => \A l : BlocksOrigin(l) => BlocksOrigin(l)'
         /\ repeats' = 0 => harm' = "none" /\ \A v \in Units : pc'[v] # "killed"
         /\ DoneKnows' /\ LinkedInv' /\ (FlagsInv => FlagsInv')
<1>1. /\ \/ from = "identified" /\ to = "callgraph"
         \/ from = "callgraph" /\ to = "transitions"
         \/ from = "ids" /\ to = "ipdom"
      /\ pc[u] = from /\ pc' = [pc EXCEPT ![u] = to]
      /\ UNCHANGED <<Source, level, fctid, known, oldMap, linked, repeats, harm>>
  BY DEF Appends
<1>2. /\ pc \in [Units -> Places] /\ pc'[u] = to /\ to \in Places
      /\ \A v \in Units \ {u} : pc'[v] = pc[v]
  BY <1>1 DEF CompileInv, BuildTypes, Places, Holding
<1>3. /\ (Intact' <=> Intact) /\ (Intact => Table' = Table /\ Ids' = Ids)
  <2>1. Intact' <=> Intact
    BY <1>1 DEF Intact
  <2>2. Intact => Table' = Table
    BY <2>1, <1>1, TableStays
  <2> QED
    BY <2>1, <2>2 DEF Ids
<1>4. /\ Intact' => \A l : IpdOrigin(l) => IpdOrigin(l)'
      /\ harm' = "none" => \A l : CallsOrigin(l) => CallsOrigin(l)'
      /\ harm' = "none" => \A l : BlocksOrigin(l) => BlocksOrigin(l)'
  <2>1. harm' = "none" =>
          /\ pc[u] \in Written \ Recording => to \in Written \ Recording /\ known'[u] = known[u]
          /\ pc[u] \in BlocksWritten \ Recording => to \in BlocksWritten \ Recording
    BY <1>1 DEF Written, BlocksWritten, Recording
  <2>2. repeats' = 0 => repeats = 0 /\ (pc[u] \in BlocksWritten => to \in BlocksWritten)
    BY <1>1 DEF BlocksWritten, Recording
  <2>3. Source' = Source /\ \A v \in Units \ {u} : known'[v] = known[v]
    BY <1>1
  <2> QED
    BY <2>1, <2>2, <2>3, <1>1, <1>2, <1>3, OriginStays
<1>5. DoneKnows'
  <2>1. DoneKnows /\ to # "done" /\ known' = known
    BY <1>1 DEF FilesInv, LinesInv
  <2> QED
    BY <2>1, <1>1, <1>2, <1>3, DoneStays
<1>6. LinkedInv'
  <2>1. linked' = "no"
    BY <1>1 DEF FilesInv, LinkedInv
  <2> QED
    BY <2>1 DEF LinkedInv
<1>7. repeats' = 0 => harm' = "none" /\ \A v \in Units : pc'[v] # "killed"
  BY <1>1, <1>2 DEF FilesInv, FilesTyped
<1>8. ASSUME FlagsInv, Intact' PROVE FlagsInv'
  <2>1. \A v \in Units : DefinedIn(v)' = DefinedIn(v)
    BY <1>1, SameSource
  <2>2. \A v \in Units : \A F : FlagFor(v, F)' = FlagFor(v, F)
    BY <1>1 DEF FlagFor, isInitFunction, isFiniFunction, PatchCtorFunctions, PatchDtorFunctions
  <2>3. \A v \in Units : pc'[v] \in Recording => pc[v] \in Recording
    BY <1>1, <1>2 DEF Recording
  <2> QED
    BY <2>1, <2>2, <2>3, <1>3, <1>8 DEF FlagsInv
<1>9. FlagsInv => FlagsInv'
  BY <1>8 DEF FlagsInv
<1> QED
  BY <1>2, <1>3, <1>4, <1>5, <1>6, <1>7, <1>9

(* The other units' lines stay the last ones for their functions. *)
LEMMA CallgraphKeeps ==
  ASSUME CompileInv, CompileInv', FilesInv, NEW u \in Units, writeCallgraph(u)
  PROVE  FilesInv' /\ (OneDefinition /\ KeptInv => KeptInv') /\ (FlagsInv => FlagsInv')
<1>1. PICK l : l = LineOf(known[u], Callers(u), Calls(u, known[u]))
  OBVIOUS
<1>2. /\ Appends(u, "identified", "callgraph") /\ Supported(u)
      /\ UNCHANGED <<Source, level, known, repeats, harm, bbtrans, ipdom>>
  BY DEF Appends, writeCallgraph, Step, local, output, Supported
<1>3. trans' = Append(trans, l)
  <2> DEFINE map == known[u]
             C(i) == CHOOSE F \in Callers(u) : map[F.name] = i
             D == {map[F.name] : F \in Callers(u)}
  <2>1. trans' = Append(trans, [i \in D |-> {map[g] : g \in Callees(C(i))}])
    BY DEF writeCallgraph, ById, id, Callers
  <2>2. l = [i \in D |-> Calls(u, map)[C(i)]]
    BY <1>1 DEF LineOf
  <2>3. ASSUME NEW i \in D PROVE Calls(u, map)[C(i)] = {map[g] : g \in Callees(C(i))}
    <3>1. C(i) \in Callers(u)
      OBVIOUS
    <3> HIDE DEF C
    <3> QED
      BY <3>1 DEF Calls
  <2> HIDE DEF C, D, map
  <2> QED
    BY <2>1, <2>2, <2>3
<1>4. /\ pc'[u] = "callgraph" /\ pc[u] = "identified" /\ \A v \in Units \ {u} : pc'[v] = pc[v]
      /\ (Intact' <=> Intact) /\ DoneKnows' /\ LinkedInv' /\ (FlagsInv => FlagsInv')
      /\ repeats' = 0 => harm' = "none" /\ \A v \in Units : pc'[v] # "killed"
      /\ Intact' => \A k : IpdOrigin(k) => IpdOrigin(k)'
      /\ harm' = "none" => \A k : CallsOrigin(k) => CallsOrigin(k)'
      /\ harm' = "none" => \A k : BlocksOrigin(k) => BlocksOrigin(k)'
  BY <1>2, AppendsKeeps DEF Appends
<1>5. /\ Source \in Builds /\ IsFile(trans) /\ DoneKnows
      /\ DOMAIN Calls(u, known[u]) = Callers(u) /\ Callers(u) \subseteq DefinedIn(u)
  BY LineDomains DEF CompileInv, BuildTypes, FilesInv, FilesTyped, LinesInv
<1>6. IsFiniteSet(DOMAIN l)
  BY <1>1, <1>5, LineWritten
<1>7. /\ IsFile(trans') /\ Len(trans') = Len(trans) + 1 /\ trans'[Len(trans) + 1] = l
      /\ \A k \in 1 .. Len(trans) : trans'[k] = trans[k]
  BY <1>3, <1>5, <1>6, FileGrows
<1>8. FilesTyped'
  BY <1>2, <1>4, <1>7 DEF FilesInv, FilesTyped, IsFile
<1>9. Intact => /\ IsLine(l, known[u], Calls(u, known[u]))
                /\ LastIs(trans', known[u], Calls(u, known[u]))
                /\ OneDefinition =>
                     \A v \in Units \ {u} : \A W :
                       /\ pc[v] \in Written /\ DOMAIN W \subseteq DefinedIn(v)
                       /\ LastIs(trans, known[v], W)
                       => LastIs(trans', known[v], W)
  BY <1>1, <1>3, <1>4, <1>5, AppendedLine
<1>10. LinesInv'
  <2>1. LinesInv
    BY DEF FilesInv
  <2>2. ASSUME harm' = "none" PROVE CallsOrigin(l)'
    <3>1. IsLine(l, known[u], Calls(u, known[u]))
      BY <2>2, <1>2, <1>9 DEF Intact
    <3>2. Calls(u, known[u])' = Calls(u, known[u]) /\ Supported(u)'
      BY <1>2, SameSource
    <3>3. IsLine(l, known[u], Calls(u, known[u]))'
      BY <3>1, <3>2, <1>2
    <3>4. pc'[u] \in Written \ Recording
      BY <1>4 DEF Written, BlocksWritten, Recording
    <3> QED
      BY <3>2, <3>3, <3>4 DEF CallsOrigin
  <2>3. ASSUME harm' = "none", NEW k \in 1 .. Len(trans')
        PROVE  CallsOrigin(trans[k])'
    <3>1. PICK x : x = trans'[k]
      OBVIOUS
    <3>2. k \in 1 .. Len(trans) \/ k = Len(trans) + 1
      BY <1>5, <1>7 DEF IsFile
    <3>3. CASE k \in 1 .. Len(trans)
      <4>1. CallsOrigin(x)
        BY <3>1, <3>3, <2>1, <2>3, <1>2, <1>7 DEF LinesInv
      <4> QED
        BY <4>1, <3>1, <2>3, <1>4
    <3>4. CASE k = Len(trans) + 1
      BY <3>4, <2>2, <2>3, <1>7
    <3> QED
      BY <3>2, <3>3, <3>4
  <2>4. Intact' => \A k \in 1 .. Len(ipdom) : IpdOrigin(ipdom[k])'
    BY <2>1, <1>2, <1>4 DEF LinesInv
  <2>5. harm' = "none" => \A k \in 1 .. Len(bbtrans) : BlocksOrigin(bbtrans[k])'
    BY <2>1, <1>2, <1>4 DEF LinesInv
  <2> QED
    BY <2>3, <2>4, <2>5, <1>2, <1>4 DEF LinesInv
<1>11. ASSUME OneDefinition, KeptInv PROVE KeptInv'
  <2>1. ASSUME Intact', NEW v \in Units PROVE Kept(v)'
    <3>1. /\ (Supported(v)' <=> Supported(v)) /\ Blocks(v)' = Blocks(v)
          /\ Calls(v, known[v])' = Calls(v, known[v])
      BY <1>2, SameSource
    <3>2. Intact /\ Kept(v)
      BY <2>1, <1>4, <1>11 DEF KeptInv
    <3>3. CASE v = u
      <4>1. LastIs(trans', known[u], Calls(u, known[u]))
        BY <3>2, <1>9
      <4>2. pc'[u] \notin BlocksWritten
        BY <1>4 DEF BlocksWritten, Recording
      <4> QED
        BY <4>1, <4>2, <3>1, <3>3, <1>2 DEF Kept, LastIs
    <3>4. CASE v # u
      <4>1. DOMAIN Calls(v, known[v]) \subseteq DefinedIn(v)
        BY LineDomains
      <4>2. pc[v] \in Written => LastIs(trans', known[v], Calls(v, known[v]))
        BY <4>1, <3>2, <3>4, <1>9, <1>11 DEF Kept
      <4>3. pc'[v] = pc[v]
        BY <3>4, <1>4
      <4> QED
        BY <4>2, <4>3, <3>1, <3>2, <1>2 DEF Kept, LastIs
    <3> QED
      BY <3>3, <3>4
  <2> QED
    BY <2>1, <1>2, <1>11 DEF KeptInv
<1> QED
  BY <1>4, <1>8, <1>10, <1>11 DEF FilesInv

LEMMA BlocksKeep ==
  ASSUME CompileInv, CompileInv', FilesInv, NEW u \in Units, writeAllowedBBTrans(u)
  PROVE  FilesInv' /\ (OneDefinition /\ KeptInv => KeptInv') /\ (FlagsInv => FlagsInv')
<1>1. PICK l : l = LineOf(known[u], WithBlocks(u), Blocks(u))
  OBVIOUS
<1>2. /\ Appends(u, "callgraph", "transitions")
      /\ UNCHANGED <<Source, level, known, repeats, harm, trans, ipdom>>
  BY DEF Appends, writeAllowedBBTrans, Step, local, output
<1>3. bbtrans' = IF level THEN Append(bbtrans, l) ELSE bbtrans
  <2> DEFINE map == known[u]
             C(i) == CHOOSE F \in WithBlocks(u) : map[F.name] = i
             D == {map[F.name] : F \in WithBlocks(u)}
             L(F) == [num_block |-> Len(F.blocks), rows |-> BlockLines(F)]
  <2>1. bbtrans' = IF level THEN Append(bbtrans, [i \in D |-> L(C(i))]) ELSE bbtrans
    BY DEF writeAllowedBBTrans, ById, id
  <2>2. l = [i \in D |-> Blocks(u)[C(i)]]
    BY <1>1 DEF LineOf
  <2>3. ASSUME NEW i \in D PROVE Blocks(u)[C(i)] = L(C(i))
    <3>1. C(i) \in WithBlocks(u)
      OBVIOUS
    <3> HIDE DEF C
    <3> QED
      BY <3>1 DEF Blocks
  <2> HIDE DEF C, D, L, map
  <2> QED
    BY <2>1, <2>2, <2>3
<1>4. /\ pc'[u] = "transitions" /\ pc[u] = "callgraph"
      /\ \A v \in Units \ {u} : pc'[v] = pc[v]
      /\ (Intact' <=> Intact) /\ DoneKnows' /\ LinkedInv' /\ (FlagsInv => FlagsInv')
      /\ repeats' = 0 => harm' = "none" /\ \A v \in Units : pc'[v] # "killed"
      /\ Intact' => \A k : IpdOrigin(k) => IpdOrigin(k)'
      /\ harm' = "none" => \A k : CallsOrigin(k) => CallsOrigin(k)'
      /\ harm' = "none" => \A k : BlocksOrigin(k) => BlocksOrigin(k)'
  BY <1>2, AppendsKeeps DEF Appends
<1>5. /\ Source \in Builds /\ IsFile(bbtrans) /\ DoneKnows /\ level \in BOOLEAN
      /\ DOMAIN Blocks(u) = WithBlocks(u) /\ WithBlocks(u) \subseteq DefinedIn(u)
      /\ (~level => bbtrans = <<>>) /\ LinesInv
  <2>1. DOMAIN Blocks(u) = WithBlocks(u) /\ WithBlocks(u) \subseteq DefinedIn(u)
    BY LineDomains
  <2> QED
    BY <2>1 DEF CompileInv, BuildTypes, FilesInv, FilesTyped, LinesInv
<1>6. IsFiniteSet(DOMAIN l)
  BY <1>1, <1>5, LineWritten
<1>7. level => /\ IsFile(bbtrans') /\ Len(bbtrans') = Len(bbtrans) + 1
               /\ bbtrans'[Len(bbtrans) + 1] = l
               /\ \A k \in 1 .. Len(bbtrans) : bbtrans'[k] = bbtrans[k]
  BY <1>3, <1>5, <1>6, FileGrows
<1>8. FilesTyped'
  <2>1. IsFile(bbtrans')
    BY <1>3, <1>5, <1>7
  <2> QED
    BY <2>1, <1>2, <1>3, <1>4 DEF FilesInv, FilesTyped, IsFile
<1>9. Intact /\ level =>
        /\ IsLine(l, known[u], Blocks(u)) /\ LastIs(bbtrans', known[u], Blocks(u))
        /\ OneDefinition =>
             \A v \in Units \ {u} : \A W :
               /\ pc[v] \in Written /\ DOMAIN W \subseteq DefinedIn(v)
               /\ LastIs(bbtrans, known[v], W)
               => LastIs(bbtrans', known[v], W)
  BY <1>1, <1>3, <1>4, <1>5, AppendedLine
<1>10. LinesInv'
  <2>1. ASSUME harm' = "none", level PROVE BlocksOrigin(l)'
    <3>1. IsLine(l, known[u], Blocks(u))
      BY <2>1, <1>2, <1>9 DEF Intact
    <3>2. Blocks(u)' = Blocks(u)
      BY <1>2, SameSource
    <3>3. IsLine(l, known[u], Blocks(u))'
      BY <3>1, <3>2, <1>2
    <3>4. pc'[u] \in BlocksWritten \ Recording
      BY <1>4 DEF BlocksWritten, Recording
    <3> QED
      BY <3>3, <3>4 DEF BlocksOrigin
  <2>2. ASSUME harm' = "none", NEW k \in 1 .. Len(bbtrans')
        PROVE  BlocksOrigin(bbtrans[k])'
    <3>1. PICK x : x = bbtrans'[k]
      OBVIOUS
    <3>2. \/ k \in 1 .. Len(bbtrans) /\ bbtrans'[k] = bbtrans[k]
          \/ level /\ bbtrans'[k] = l
      BY <1>3, <1>5, <1>7 DEF IsFile
    <3>3. CASE k \in 1 .. Len(bbtrans) /\ bbtrans'[k] = bbtrans[k]
      <4>1. BlocksOrigin(x)
        BY <3>1, <3>3, <2>2, <1>2, <1>5 DEF LinesInv
      <4> QED
        BY <4>1, <3>1, <2>2, <1>4
    <3>4. CASE level /\ bbtrans'[k] = l
      BY <3>4, <2>1, <2>2
    <3> QED
      BY <3>2, <3>3, <3>4
  <2>3. Intact' => \A k \in 1 .. Len(ipdom) : IpdOrigin(ipdom[k])'
    BY <1>2, <1>4, <1>5 DEF LinesInv
  <2>4. harm' = "none" => \A k \in 1 .. Len(trans) : CallsOrigin(trans[k])'
    BY <1>2, <1>4, <1>5 DEF LinesInv
  <2> QED
    BY <2>2, <2>3, <2>4, <1>2, <1>4 DEF LinesInv
<1>11. ASSUME OneDefinition, KeptInv PROVE KeptInv'
  <2>1. ASSUME Intact', NEW v \in Units PROVE Kept(v)'
    <3>1. /\ (Supported(v)' <=> Supported(v)) /\ Blocks(v)' = Blocks(v)
          /\ Calls(v, known[v])' = Calls(v, known[v])
      BY <1>2, SameSource
    <3>2. Intact /\ Kept(v)
      BY <2>1, <1>4, <1>11 DEF KeptInv
    <3>3. pc'[v] \in Written => Supported(v)' /\ LastIs(trans, known[v], Calls(v, known[v]))'
      <4>1. pc'[v] \in Written => pc[v] \in Written
        BY <1>4 DEF Written
      <4> QED
        BY <4>1, <3>1, <3>2, <1>2 DEF Kept, LastIs
    <3>4. ASSUME level, pc'[v] \in BlocksWritten
          PROVE  LastIs(bbtrans', known[v], Blocks(v))
      <4>1. CASE v = u
        BY <4>1, <3>2, <3>4, <1>9
      <4>2. CASE v # u
        <5>1. DOMAIN Blocks(v) \subseteq DefinedIn(v)
          BY LineDomains
        <5>2. pc[v] \in BlocksWritten /\ pc[v] \in Written
          BY <4>2, <3>4, <1>4 DEF Written
        <5>3. LastIs(bbtrans, known[v], Blocks(v))
          BY <5>2, <3>2, <3>4 DEF Kept
        <5> QED
          BY <5>1, <5>2, <5>3, <4>2, <3>2, <3>4, <1>9, <1>11
      <4> QED
        BY <4>1, <4>2
    <3>5. level' /\ pc'[v] \in BlocksWritten => LastIs(bbtrans, known[v], Blocks(v))'
      BY <3>1, <3>4, <1>2 DEF LastIs
    <3> QED
      BY <3>3, <3>5 DEF Kept
  <2>2. ASSUME repeats' = 0 PROVE ~AlreadyProcessed(bbtrans')
    <3>1. harm = "none" /\ repeats = 0 /\ Intact /\ ~AlreadyProcessed(bbtrans)
      BY <2>2, <1>2, <1>4, <1>11 DEF Intact, KeptInv
    <3>2. ASSUME level, NEW k \in 1 .. Len(bbtrans)
          PROVE  DOMAIN bbtrans[k] \cap DOMAIN l = {}
      <4>1. BlocksOrigin(bbtrans[k])
        BY <3>1, <3>2, <1>5 DEF LinesInv
      <4>2. PICK v \in Units :
              /\ pc[v] \in BlocksWritten
              /\ \/ Names(v) \subseteq DOMAIN Table /\ IsLine(bbtrans[k], Ids, Blocks(v))
                 \/ pc[v] \in BlocksWritten \ Recording /\ IsLine(bbtrans[k], known[v], Blocks(v))
        BY <4>1, <3>1 DEF BlocksOrigin
      <4>3. v # u
        BY <4>2, <1>4 DEF BlocksWritten, Recording
      <4>4. pc[v] \in Recording
        BY <4>2, <4>3, <3>1, <1>4, <1>5, OthersRecorded DEF Written, Holding
      <4>5. Names(v) \subseteq DOMAIN Table /\ IsLine(bbtrans[k], Ids, Blocks(v))
        BY <4>2, <4>4
      <4>6. KnowsAll(u) /\ IsLine(l, known[u], Blocks(u))
        BY <3>1, <3>2, <1>4, <1>9 DEF CompileInv, Continued
      <4>7. ASSUME NEW i \in DOMAIN bbtrans[k], i \in DOMAIN l PROVE FALSE
        <5>1. PICK F \in DOMAIN Blocks(v) : i = Ids[F.name]
          BY <4>5 DEF IsLine
        <5>2. PICK G \in DOMAIN Blocks(u) : i = known[u][G.name]
          BY <4>6, <4>7 DEF IsLine
        <5>3. F \in DefinedIn(v) /\ G \in DefinedIn(u)
          BY LineDomains
        <5>4. F.name \in DOMAIN Table
          BY <5>3, <4>5 DEF Names, DefinedIn
        <5>5. Ids[F.name] = Table[F.name].id
          BY <5>4 DEF Ids
        <5> QED
          BY <5>1, <5>2, <5>3, <5>4, <5>5, <4>3, <4>6, <1>5, <1>11, Apart
      <4> QED
        BY <4>7
    <3>3. CASE level
      <4>1. \A k \in 1 .. Len(bbtrans') :
              \/ k \in 1 .. Len(bbtrans) /\ bbtrans'[k] = bbtrans[k]
              \/ k = Len(bbtrans) + 1 /\ bbtrans'[k] = l
        BY <3>3, <1>5, <1>7 DEF IsFile
      <4>2. ASSUME NEW j \in 1 .. Len(bbtrans'), NEW k \in 1 .. Len(bbtrans'), j # k,
                   NEW i, i \in DOMAIN bbtrans'[j], i \in DOMAIN bbtrans'[k]
            PROVE  FALSE
        <5>1. CASE j \in 1 .. Len(bbtrans) /\ k \in 1 .. Len(bbtrans)
          BY <5>1, <4>2, <3>1, <3>3, <1>7 DEF AlreadyProcessed
        <5>2. CASE j = Len(bbtrans) + 1
          BY <5>2, <4>1, <4>2, <3>2, <3>3
        <5>3. CASE k = Len(bbtrans) + 1
          BY <5>3, <4>1, <4>2, <3>2, <3>3
        <5> QED
          BY <5>1, <5>2, <5>3, <4>1
      <4> QED
        BY <4>2 DEF AlreadyProcessed
    <3>4. CASE ~level
      BY <3>1, <3>4, <1>3
    <3> QED
      BY <3>3, <3>4
  <2> QED
    BY <2>1, <2>2 DEF KeptInv
<1> QED
  BY <1>4, <1>8, <1>10, <1>11 DEF FilesInv

IpdAppended(u) ==
  \E l : /\ Intact => IsLine(l, known[u], Ipds(u))
         /\ Len(ipdom') = Len(ipdom) + 1 /\ ipdom'[Len(ipdom) + 1] = l
         /\ \A k \in 1 .. Len(ipdom) : ipdom'[k] = ipdom[k]
LEMMA IpdomKeeps ==
  ASSUME CompileInv, CompileInv', FilesInv, NEW u \in Units, writeIPDOMToFile(u)
  PROVE  /\ FilesInv' /\ (KeptInv => KeptInv') /\ (FlagsInv => FlagsInv')
         /\ IpdAppended(u)
<1>1. PICK l : l = LineOf(known[u], WithBlocks(u), Ipds(u))
  OBVIOUS
<1>2. /\ Appends(u, "ids", "ipdom")
      /\ UNCHANGED <<Source, level, known, repeats, harm, trans, bbtrans>>
  BY DEF Appends, writeIPDOMToFile, Step, local, output
<1>3. ipdom' = Append(ipdom, l)
  <2> DEFINE map == known[u]
             C(i) == CHOOSE F \in WithBlocks(u) : map[F.name] = i
             D == {map[F.name] : F \in WithBlocks(u)}
  <2>1. ipdom' = Append(ipdom, [i \in D |-> Ipdoms[C(i)]])
    BY DEF writeIPDOMToFile, ById, id
  <2>2. l = [i \in D |-> Ipds(u)[C(i)]]
    BY <1>1 DEF LineOf
  <2>3. ASSUME NEW i \in D PROVE Ipds(u)[C(i)] = Ipdoms[C(i)]
    <3>1. C(i) \in WithBlocks(u)
      OBVIOUS
    <3> HIDE DEF C
    <3> QED
      BY <3>1 DEF Ipds
  <2> HIDE DEF C, D, map
  <2> QED
    BY <2>1, <2>2, <2>3
<1>4. /\ pc'[u] = "ipdom" /\ pc[u] = "ids" /\ \A v \in Units \ {u} : pc'[v] = pc[v]
      /\ (Intact' <=> Intact) /\ DoneKnows' /\ LinkedInv' /\ (FlagsInv => FlagsInv')
      /\ Intact => Table' = Table /\ Ids' = Ids
      /\ repeats' = 0 => harm' = "none" /\ \A v \in Units : pc'[v] # "killed"
      /\ Intact' => \A k : IpdOrigin(k) => IpdOrigin(k)'
      /\ harm' = "none" => \A k : CallsOrigin(k) => CallsOrigin(k)'
      /\ harm' = "none" => \A k : BlocksOrigin(k) => BlocksOrigin(k)'
  BY <1>2, AppendsKeeps DEF Appends
<1>5. /\ Source \in Builds /\ IsFile(ipdom) /\ LinesInv
      /\ DOMAIN Ipds(u) = WithBlocks(u) /\ WithBlocks(u) \subseteq DefinedIn(u)
      /\ DefinedIn(u) \subseteq FunctionMap(u)
  <2>1. /\ DOMAIN Ipds(u) = WithBlocks(u) /\ WithBlocks(u) \subseteq DefinedIn(u)
        /\ DefinedIn(u) \subseteq FunctionMap(u)
    BY LineDomains
  <2> QED
    BY <2>1 DEF CompileInv, BuildTypes, FilesInv, FilesTyped
<1>6. IsFiniteSet(DOMAIN l)
  BY <1>1, <1>5, LineWritten
<1>7. /\ IsFile(ipdom') /\ Len(ipdom') = Len(ipdom) + 1 /\ ipdom'[Len(ipdom) + 1] = l
      /\ \A k \in 1 .. Len(ipdom) : ipdom'[k] = ipdom[k]
  BY <1>3, <1>5, <1>6, FileGrows
<1>8. FilesTyped'
  BY <1>2, <1>4, <1>7 DEF FilesInv, FilesTyped, IsFile
<1>9. ASSUME Intact PROVE IsLine(l, known[u], Ipds(u)) /\ IpdOrigin(l)'
  <2>1. Agrees(known[u], Names(u)) /\ Numbers(Ids)
    BY <1>4, <1>9 DEF CompileInv, Recorded
  <2>2. Names(u) \subseteq DOMAIN Table /\ \A n \in Names(u) : known[u][n] = Ids[n]
    BY <2>1 DEF Agrees, Ids
  <2>3. \A m, n \in DOMAIN Ids : Ids[m] = Ids[n] => m = n
    BY <2>1, NumbersDiffer
  <2>4. DOMAIN Ids = DOMAIN Table
    BY DEF Ids
  <2>5. \A m, n \in Names(u) : known[u][m] = known[u][n] => m = n
    BY <2>2, <2>3, <2>4
  <2>6. IsLine(l, known[u], Ipds(u))
    BY <2>5, <1>1, <1>5, LineWritten
  <2>7. IsLine(l, Ids, Ipds(u))
    BY <2>2, <2>6, <1>5, SameIds
  <2>8. Names(u)' = Names(u) /\ Ipds(u)' = Ipds(u)
    BY <1>2, SameSource
  <2>9. Names(u)' \subseteq DOMAIN Table' /\ IsLine(l, Ids, Ipds(u))'
    BY <2>2, <2>7, <2>8, <1>4, <1>9
  <2> QED
    BY <2>6, <2>9 DEF IpdOrigin
<1>10. LinesInv'
  <2>1. ASSUME Intact', NEW k \in 1 .. Len(ipdom')
        PROVE  IpdOrigin(ipdom[k])'
    <3>1. PICK x : x = ipdom'[k]
      OBVIOUS
    <3>2. k \in 1 .. Len(ipdom) \/ k = Len(ipdom) + 1
      BY <1>5, <1>7 DEF IsFile
    <3>3. CASE k \in 1 .. Len(ipdom)
      <4>1. IpdOrigin(x)
        BY <3>1, <3>3, <2>1, <1>4, <1>5, <1>7 DEF LinesInv
      <4> QED
        BY <4>1, <3>1, <2>1, <1>4
    <3>4. CASE k = Len(ipdom) + 1
      BY <3>4, <2>1, <1>4, <1>7, <1>9
    <3> QED
      BY <3>2, <3>3, <3>4
  <2>2. harm' = "none" => /\ \A k \in 1 .. Len(trans) : CallsOrigin(trans[k])'
                          /\ \A k \in 1 .. Len(bbtrans) : BlocksOrigin(bbtrans[k])'
    BY <1>2, <1>4, <1>5 DEF LinesInv
  <2> QED
    BY <2>1, <2>2, <1>2, <1>4 DEF LinesInv
<1>11. ASSUME KeptInv PROVE KeptInv'
  <2>1. ASSUME Intact', NEW v \in Units PROVE Kept(v)'
    <3>1. /\ (Supported(v)' <=> Supported(v)) /\ Blocks(v)' = Blocks(v)
          /\ Calls(v, known[v])' = Calls(v, known[v])
      BY <1>2, SameSource
    <3>2. Kept(v)
      BY <2>1, <1>4, <1>11 DEF KeptInv
    <3>3. /\ pc'[v] \in Written => pc[v] \in Written
          /\ pc'[v] \in BlocksWritten => pc[v] \in BlocksWritten
      BY <1>4 DEF Written, BlocksWritten, Recording
    <3> QED
      BY <3>1, <3>2, <3>3, <1>2 DEF Kept, LastIs
  <2> QED
    BY <2>1, <1>2, <1>11 DEF KeptInv
<1>12. IpdAppended(u)
  BY <1>7, <1>9 DEF IpdAppended
<1> QED
  BY <1>4, <1>8, <1>10, <1>11, <1>12 DEF FilesInv
-----------------------------------------------------------------------------
(* writeFunctionIDs: what was pending is recorded. *)
LEMMA RecordKeeps ==
  ASSUME CompileInv, CompileInv', FilesInv, NEW u \in Units, writeFunctionIDs(u)
  PROVE  FilesInv' /\ (KeptInv => KeptInv')
<1>1. /\ pc[u] = "rewriting" /\ pc' = [pc EXCEPT ![u] = "ids"]
      /\ UNCHANGED <<Source, level, known, linked, repeats, harm, trans, bbtrans, ipdom>>
  BY DEF writeFunctionIDs, Step, local, output
<1>2. pc'[u] = "ids" /\ "ids" \in Places /\ \A v \in Units \ {u} : pc'[v] = pc[v]
  BY <1>1 DEF CompileInv, BuildTypes, Places, Holding
<1>3. (Intact' <=> Intact) /\ (harm' = "none" => harm = "none" /\ Intact)
  BY <1>1 DEF Intact
<1>4. FilesTyped /\ LinesInv /\ LinkedInv /\ Source \in Builds
  BY DEF FilesInv, CompileInv, BuildTypes
<1>5. FilesTyped'
  BY <1>1, <1>2, <1>4 DEF FilesTyped, IsFile
<1>6. LinkedInv'
  <2>1. linked' = "no"
    BY <1>1, <1>4 DEF LinkedInv
  <2> QED
    BY <2>1 DEF LinkedInv
<1>7. ASSUME Intact
      PROVE  /\ \A n \in DOMAIN Table :
                  n \in DOMAIN Table' /\ Table'[n].id = Table[n].id /\ Ids'[n] = Ids[n]
             /\ \A n \in Names(u) : n \in DOMAIN Table' /\ Ids'[n] = known[u][n]
             /\ \A v \in Units : pc[v] \in Written \ Recording => v = u
  <2>1. /\ lock = u /\ KnowsAll(u) /\ DOMAIN Table' = DOMAIN known[u]
        /\ \A n \in DOMAIN known[u] : Table'[n].id = known[u][n]
    BY <1>7, Records
  <2>2. \A n \in DOMAIN Table' : Ids'[n] = Table'[n].id
    BY DEF Ids
  <2>3. \A n \in DOMAIN Table : Ids[n] = Table[n].id
    BY DEF Ids
  <2>4. /\ DOMAIN known[u] = DOMAIN Table \cup Names(u)
        /\ \A n \in DOMAIN Table : Table[n].id = known[u][n]
    BY <2>1 DEF KnowsAll, Agrees
  <2>5. \A v \in Units : pc[v] \in Written \ Recording => v = u
    BY <2>1, <1>7 DEF CompileInv, Exclusion, Holding, Written, BlocksWritten
  <2> QED
    BY <2>1, <2>2, <2>3, <2>4, <2>5
<1>8. ASSUME NEW v \in Units
      PROVE  /\ Names(v)' = Names(v) /\ Blocks(v)' = Blocks(v) /\ Ipds(v)' = Ipds(v)
             /\ (Supported(v)' <=> Supported(v)) /\ Calls(v, Ids)' = Calls(v, Ids')
             /\ Calls(v, known[v])' = Calls(v, known[v])
             /\ DOMAIN Ipds(v) \subseteq FunctionMap(v)
             /\ DOMAIN Blocks(v) \subseteq FunctionMap(v)
             /\ \A map : DOMAIN Calls(v, map) \subseteq FunctionMap(v)
  BY <1>1, SameSource, LineDomains
<1>9. ASSUME Intact, NEW l, IpdOrigin(l) PROVE IpdOrigin(l)'
  <2>1. PICK v \in Units : Names(v) \subseteq DOMAIN Table /\ IsLine(l, Ids, Ipds(v))
    BY <1>9 DEF IpdOrigin
  <2>2. Names(v) \subseteq DOMAIN Table' /\ \A n \in Names(v) : Ids[n] = Ids'[n]
    BY <2>1, <1>7, <1>9
  <2>3. IsLine(l, Ids', Ipds(v))
    BY <2>1, <2>2, <1>4, <1>8, SameIds
  <2>4. Names(v)' \subseteq DOMAIN Table' /\ IsLine(l, Ids, Ipds(v))'
    BY <2>2, <2>3, <1>8
  <2> QED
    BY <2>4 DEF IpdOrigin
<1>10. ASSUME harm' = "none", NEW l, CallsOrigin(l) PROVE CallsOrigin(l)'
  <2>1. PICK v \in Units :
          /\ Supported(v)
          /\ \/ Names(v) \subseteq DOMAIN Table /\ IsLine(l, Ids, Calls(v, Ids))
             \/ pc[v] \in Written \ Recording /\ IsLine(l, known[v], Calls(v, known[v]))
    BY <1>10 DEF CallsOrigin
  <2>2. PICK map : /\ IsLine(l, map, Calls(v, map)) /\ Names(v) \subseteq DOMAIN Table'
                   /\ \A n \in Names(v) : map[n] = Ids'[n]
    <3>1. CASE Names(v) \subseteq DOMAIN Table /\ IsLine(l, Ids, Calls(v, Ids))
      <4>1. Names(v) \subseteq DOMAIN Table' /\ \A n \in Names(v) : Ids[n] = Ids'[n]
        BY <3>1, <1>3, <1>7, <1>10
      <4> QED
        BY <4>1, <3>1
    <3>2. CASE pc[v] \in Written \ Recording /\ IsLine(l, known[v], Calls(v, known[v]))
      <4>1. v = u
        BY <3>2, <1>3, <1>7, <1>10
      <4>2. Names(v) \subseteq DOMAIN Table' /\ \A n \in Names(v) : known[v][n] = Ids'[n]
        BY <4>1, <1>3, <1>7, <1>10
      <4> QED
        BY <4>2, <3>2
    <3> QED
      BY <3>1, <3>2, <2>1
  <2>3. Calls(v, map) = Calls(v, Ids') /\ IsLine(l, Ids', Calls(v, map))
    BY <2>1, <2>2, <1>4, <1>8, SameIds
  <2>4. /\ Supported(v)' /\ Names(v)' \subseteq DOMAIN Table'
        /\ IsLine(l, Ids, Calls(v, Ids))'
    BY <2>1, <2>2, <2>3, <1>8
  <2> QED
    BY <2>4 DEF CallsOrigin
<1>11. ASSUME harm' = "none", NEW l, BlocksOrigin(l) PROVE BlocksOrigin(l)'
  <2>1. PICK v \in Units :
          /\ repeats = 0 => pc[v] \in BlocksWritten
          /\ \/ Names(v) \subseteq DOMAIN Table /\ IsLine(l, Ids, Blocks(v))
             \/ pc[v] \in BlocksWritten \ Recording /\ IsLine(l, known[v], Blocks(v))
    BY <1>11 DEF BlocksOrigin
  <2>2. PICK map : /\ IsLine(l, map, Blocks(v)) /\ Names(v) \subseteq DOMAIN Table'
                   /\ \A n \in Names(v) : map[n] = Ids'[n]
    <3>1. CASE Names(v) \subseteq DOMAIN Table /\ IsLine(l, Ids, Blocks(v))
      <4>1. Names(v) \subseteq DOMAIN Table' /\ \A n \in Names(v) : Ids[n] = Ids'[n]
        BY <3>1, <1>3, <1>7, <1>11
      <4> QED
        BY <4>1, <3>1
    <3>2. CASE pc[v] \in BlocksWritten \ Recording /\ IsLine(l, known[v], Blocks(v))
      <4>1. v = u
        BY <3>2, <1>3, <1>7, <1>11 DEF Written
      <4>2. Names(v) \subseteq DOMAIN Table' /\ \A n \in Names(v) : known[v][n] = Ids'[n]
        BY <4>1, <1>3, <1>7, <1>11
      <4> QED
        BY <4>2, <3>2
    <3> QED
      BY <3>1, <3>2, <2>1
  <2>3. IsLine(l, Ids', Blocks(v))
    BY <2>1, <2>2, <1>4, <1>8, SameIds
  <2>4. /\ Names(v)' \subseteq DOMAIN Table' /\ IsLine(l, Ids, Blocks(v))'
        /\ repeats' = 0 => pc'[v] \in BlocksWritten
    BY <2>1, <2>2, <2>3, <1>1, <1>2, <1>8 DEF BlocksWritten, Recording
  <2> QED
    BY <2>4 DEF BlocksOrigin
<1>12. LinesInv'
  <2>1. DoneKnows'
    <3>1. DoneKnows
      BY <1>4 DEF LinesInv
    <3>2. Source' = Source /\ \A v \in Units \ {u} : known'[v] = known[v]
      BY <1>1
    <3> QED
      BY <3>1, <3>2, <1>1, <1>2, <1>3, <1>7, DoneStays
  <2>2. Intact' => \A k \in 1 .. Len(ipdom) : IpdOrigin(ipdom[k])'
    BY <1>1, <1>3, <1>4, <1>9 DEF LinesInv
  <2>3. harm' = "none" => /\ \A k \in 1 .. Len(trans) : CallsOrigin(trans[k])'
                          /\ \A k \in 1 .. Len(bbtrans) : BlocksOrigin(bbtrans[k])'
    BY <1>1, <1>3, <1>4, <1>10, <1>11 DEF LinesInv
  <2> QED
    BY <2>1, <2>2, <2>3, <1>1 DEF LinesInv
<1>13. ASSUME KeptInv PROVE KeptInv'
  <2>1. ASSUME Intact', NEW v \in Units PROVE Kept(v)'
    <3>1. Kept(v)
      BY <2>1, <1>3, <1>13 DEF KeptInv
    <3>2. /\ pc'[v] \in Written => pc[v] \in Written
          /\ pc'[v] \in BlocksWritten => pc[v] \in BlocksWritten
      BY <1>1, <1>2 DEF Written, BlocksWritten
    <3> QED
      BY <3>1, <3>2, <1>1, <1>8 DEF Kept, LastIs
  <2> QED
    BY <2>1, <1>1, <1>13 DEF KeptInv
<1> QED
  BY <1>5, <1>6, <1>12, <1>13 DEF FilesInv

(* A declaration says nothing about a function another unit defines. *)
LEMMA FlagsWritten ==
  ASSUME EntryPoints, CompileInv, NEW u \in Units, NEW F \in FunctionMap(u)
  PROVE  /\ F \in DefinedIn(u) => /\ FlagsOf(u, F) = FlagFor(u, F)
                                  /\ FlagFor(u, F) # "External"
         /\ F \notin DefinedIn(u) /\ F.name = "main" =>
              /\ FlagsOf(u, F) = "Main"
              /\ \E v \in Units : \E G \in DefinedIn(v) :
                   G.name = "main" /\ FlagFor(v, G) = "Main"
         /\ F \notin DefinedIn(u) /\ F.name # "main" =>
              FlagsOf(u, F) = IF F.name \in DOMAIN oldMap[u] THEN oldMap[u][F.name].flags
                              ELSE "External"
<1>1. Source \in Builds /\ F \in ToSet(Source[u].funs) /\ Identified(F.name)
  BY DEF CompileInv, BuildTypes, FunctionMap
<1>2. ASSUME F \in DefinedIn(u)
      PROVE  FlagsOf(u, F) = FlagFor(u, F) /\ FlagFor(u, F) # "External"
  <2>1. ~isDeclaration(F)
    BY <1>2 DEF DefinedIn
  <2> QED
    BY <2>1 DEF FlagsOf, FlagFor
<1>3. \A v \in Units : ~isInitFunction(v, "main") /\ ~isFiniFunction(v, "main")
  BY <1>1 DEF EntryPoints, isInitFunction, isFiniFunction, PatchCtorFunctions, PatchDtorFunctions
<1>4. ASSUME F \notin DefinedIn(u)
      PROVE  isDeclaration(F) /\ ~isInitFunction(u, F.name) /\ ~isFiniFunction(u, F.name)
  <2>1. isDeclaration(F)
    BY <1>4 DEF DefinedIn
  <2>2. ASSUME NEW G \in ToSet(Source[u].funs), G.name = F.name PROVE G = F
    <3>1. G \in FunctionMap(u)
      BY <2>2, <1>1 DEF FunctionMap
    <3> QED
      BY <3>1, <2>2, <1>1, UnitFunctions
  <2>3. F.name \notin BeforeNull(Source[u].ctors) \cup BeforeNull(Source[u].dtors)
    BY <2>1, <2>2, <1>1 DEF EntryPoints
  <2> QED
    BY <2>1, <2>3 DEF isInitFunction, isFiniFunction, PatchCtorFunctions, PatchDtorFunctions
<1>5. ASSUME F.name = "main"
      PROVE  \E v \in Units : \E G \in DefinedIn(v) :
               G.name = "main" /\ FlagFor(v, G) = "Main"
  <2>1. PICK v \in Units : \E G \in ToSet(Source[v].funs) : G.name = "main" /\ ~isDeclaration(G)
    BY <1>1, <1>5 DEF EntryPoints
  <2>2. PICK G \in ToSet(Source[v].funs) : G.name = "main" /\ ~isDeclaration(G)
    BY <2>1
  <2>3. G \in DefinedIn(v)
    BY <2>2, <1>1, <1>5 DEF DefinedIn, FunctionMap
  <2>4. FlagFor(v, G) = "Main"
    BY <2>2, <1>3 DEF FlagFor
  <2> QED
    BY <2>2, <2>3, <2>4
<1>6. ASSUME F \notin DefinedIn(u)
      PROVE  /\ F.name = "main" => FlagsOf(u, F) = "Main"
             /\ F.name # "main" =>
                  FlagsOf(u, F) = IF F.name \in DOMAIN oldMap[u] THEN oldMap[u][F.name].flags
                                  ELSE "External"
  BY <1>4, <1>6 DEF FlagsOf
<1> QED
  BY <1>2, <1>5, <1>6

LEMMA RecordFlags ==
  ASSUME EntryPoints, CompileInv, FilesInv, FlagsInv, NEW u \in Units, writeFunctionIDs(u)
  PROVE  FlagsInv'
<1>1. /\ pc' = [pc EXCEPT ![u] = "ids"] /\ UNCHANGED <<Source, known, harm>>
      /\ pc[u] = "rewriting"
  BY DEF writeFunctionIDs, Step, local
<1>2. pc'[u] = "ids" /\ \A v \in Units \ {u} : pc'[v] = pc[v]
  BY <1>1 DEF CompileInv, BuildTypes
<1>3. ASSUME NEW v \in Units
      PROVE  DefinedIn(v)' = DefinedIn(v) /\ \A F : FlagFor(v, F)' = FlagFor(v, F)
  <2>1. \A F : FlagFor(v, F)' = FlagFor(v, F)
    BY <1>1 DEF FlagFor, isInitFunction, isFiniFunction, PatchCtorFunctions, PatchDtorFunctions
  <2> QED
    BY <2>1, <1>1, SameSource
<1>4. SUFFICES ASSUME Intact'
               PROVE  /\ \A n \in DOMAIN Table' :
                           \/ Table'[n].flags = "External" /\ n # "main"
                           \/ \E v \in Units : \E F \in DefinedIn(v) :
                                F.name = n /\ Table'[n].flags = FlagFor(v, F)
                      /\ \A v \in Units : pc'[v] \in Recording =>
                           \A F \in DefinedIn(v) : Table'[F.name].flags # "External"
  BY <1>3 DEF FlagsInv
<1>5. Intact /\ Source \in Builds
  BY <1>1, <1>4 DEF Intact, CompileInv, BuildTypes
<1>6. /\ KnowsAll(u) /\ Table = oldMap[u] /\ DOMAIN Table' = DOMAIN known[u]
      /\ \A n \in DOMAIN Table \ Names(u) : Table'[n] = Table[n]
      /\ \A F \in FunctionMap(u) : Table'[F.name].flags = FlagsOf(u, F)
  BY <1>5, Records
<1>7. DOMAIN Table' = DOMAIN Table \cup Names(u)
  BY <1>6 DEF KnowsAll
<1>8. /\ \A n \in DOMAIN Table :
           \/ Table[n].flags = "External" /\ n # "main"
           \/ \E v \in Units : \E F \in DefinedIn(v) :
                F.name = n /\ Table[n].flags = FlagFor(v, F)
      /\ \A v \in Units : pc[v] \in Recording =>
           \A F \in DefinedIn(v) : Table[F.name].flags # "External"
  BY <1>5 DEF FlagsInv
<1>9. ASSUME NEW n \in DOMAIN Table'
      PROVE  \/ Table'[n].flags = "External" /\ n # "main"
             \/ \E v \in Units : \E F \in DefinedIn(v) :
                  F.name = n /\ Table'[n].flags = FlagFor(v, F)
  <2>1. CASE n \notin Names(u)
    BY <2>1, <1>6, <1>7, <1>8
  <2>2. CASE n \in Names(u)
    <3>1. PICK F \in FunctionMap(u) : F.name = n
      BY <2>2 DEF Names
    <3>2. Table'[n].flags = FlagsOf(u, F)
      BY <3>1, <1>6
    <3>3. CASE F \in DefinedIn(u)
      BY <3>1, <3>2, <3>3, FlagsWritten
    <3>4. CASE F \notin DefinedIn(u) /\ n = "main"
      BY <3>1, <3>2, <3>4, FlagsWritten
    <3>5. CASE F \notin DefinedIn(u) /\ n # "main"
      <4>1. Table'[n].flags = IF n \in DOMAIN Table THEN Table[n].flags ELSE "External"
        BY <3>1, <3>2, <3>5, <1>6, FlagsWritten
      <4> QED
        BY <4>1, <3>5, <1>8
    <3> QED
      BY <3>3, <3>4, <3>5
  <2> QED
    BY <2>1, <2>2
<1>10. ASSUME NEW v \in Units, pc'[v] \in Recording, NEW F \in DefinedIn(v)
       PROVE  Table'[F.name].flags # "External"
  <2>1. CASE v = u
    <3>1. F \in FunctionMap(u) /\ F \in DefinedIn(u)
      BY <2>1, <1>10 DEF DefinedIn
    <3> QED
      BY <3>1, <1>6, FlagsWritten
  <2>2. CASE v # u
    <3>1. pc[v] \in Recording /\ pc[v] \in Written /\ pc[u] \in Holding /\ DoneKnows
      BY <2>2, <1>1, <1>2, <1>10 DEF Written, BlocksWritten, Holding, FilesInv, LinesInv
    <3>2. F.name \in DOMAIN Table
      <4>1. F.name \in Names(v) /\ Agrees(known[v], Names(v))
        BY <3>1, <2>2, <1>5, OthersRecorded DEF Names, DefinedIn
      <4> QED
        BY <4>1 DEF Agrees
    <3>3. Table[F.name].flags # "External"
      BY <3>1, <1>8
    <3>4. CASE F.name \notin Names(u)
      BY <3>2, <3>3, <3>4, <1>6
    <3>5. CASE F.name \in Names(u)
      <4>1. PICK G \in FunctionMap(u) : G.name = F.name
        BY <3>5 DEF Names
      <4>2. Table'[F.name].flags = FlagsOf(u, G)
        BY <4>1, <1>6
      <4> QED
        BY <4>1, <4>2, <3>2, <3>3, <1>6, FlagsWritten
    <3> QED
      BY <3>4, <3>5
  <2> QED
    BY <2>1, <2>2
<1> QED
  BY <1>9, <1>10
-----------------------------------------------------------------------------
(* The files hold what the units wrote, and picon-prelink packs them.      *)
THEOREM FilesInvariant == Spec => []FilesInv
<1>1. Init => FilesInv
  <2> SUFFICES ASSUME Init PROVE FilesInv
    OBVIOUS
  <2>1. IsFile(<<>>)
    BY DEF IsFile
  <2>2. FilesTyped /\ LinkedInv
    BY <2>1 DEF Init, FilesTyped, LinkedInv
  <2>3. LinesInv
    BY DEF Init, LinesInv, DoneKnows
  <2> QED
    BY <2>2, <2>3 DEF FilesInv
<1>2. FilesInv /\ CompileInv /\ CompileInv' /\ [Next]_vars => FilesInv'
  <2> SUFFICES ASSUME FilesInv, CompileInv, CompileInv', [Next]_vars PROVE FilesInv'
    OBVIOUS
  <2>1. ASSUME NEW u \in Units, Start(u) \/ Pass(u) \/ Kill(u)
        PROVE  FilesInv'
    <3>1. CASE \E to : Quiet(u, to)
      BY <3>1, QuietKeeps
    <3>2. CASE \/ writeCallgraph(u) \/ writeAllowedBBTrans(u)
               \/ writeFunctionIDs(u) \/ writeIPDOMToFile(u)
      BY <3>2, CallgraphKeeps, BlocksKeep, RecordKeeps, IpdomKeeps
    <3> QED
      BY <2>1, <3>1, <3>2, QuietSteps DEF Pass, FilesInv
  <2> QED
    BY <2>1, IdleKeeps DEF Next
<1> QED
  BY <1>1, <1>2, CompileInvariant, PTL DEF Spec

(* No line is lost, if functions of two units differ in their names.       *)
THEOREM KeptInvariant ==
  ASSUME OneDefinition
  PROVE  Spec => []KeptInv
<1>1. Init => KeptInv
  BY DEF Init, KeptInv, Kept, Written, BlocksWritten, Recording, AlreadyProcessed
<1>2. KeptInv /\ FilesInv /\ CompileInv /\ CompileInv' /\ [Next]_vars => KeptInv'
  <2> SUFFICES ASSUME KeptInv, FilesInv, CompileInv, CompileInv', [Next]_vars PROVE KeptInv'
    OBVIOUS
  <2>1. ASSUME NEW u \in Units, Start(u) \/ Pass(u) \/ Kill(u)
        PROVE  KeptInv'
    <3>1. CASE \E to : Quiet(u, to)
      BY <3>1, QuietKeeps
    <3>2. CASE \/ writeCallgraph(u) \/ writeAllowedBBTrans(u)
               \/ writeFunctionIDs(u) \/ writeIPDOMToFile(u)
      BY <3>2, OneDefinition, CallgraphKeeps, BlocksKeep, RecordKeeps, IpdomKeeps
    <3> QED
      BY <2>1, <3>1, <3>2, QuietSteps DEF Pass, FilesInv
  <2> QED
    BY <2>1, IdleKeeps DEF Next
<1> QED
  BY <1>1, <1>2, CompileInvariant, FilesInvariant, PTL DEF Spec

(* A job that has written its post-dominators has a line in the file. *)
IpdWritten == {"ipdom", "unlocked", "done"}
HasIpdLine(u) == \E k \in 1 .. Len(ipdom) : IsLine(ipdom[k], known[u], Ipds(u))
IpdKept == Intact => \A u \in Units : pc[u] \in IpdWritten => HasIpdLine(u)

LEMMA IpdStays ==
  ASSUME CompileInv, NEW u \in Units,
         \/ Start(u) \/ Lock(u) \/ LockFails(u) \/ IdentifyFunctions(u)
         \/ writeCallgraph(u) \/ FatalError(u) \/ writeAllowedBBTrans(u)
         \/ OpenFunctionIDs(u) \/ writeFunctionIDs(u)
         \/ Unlock(u) \/ InjectCode(u) \/ Kill(u)
  PROVE  /\ UNCHANGED <<Source, ipdom>> /\ (Intact' => Intact)
         /\ \A v \in Units : pc'[v] \in IpdWritten =>
              pc[v] \in IpdWritten /\ known'[v] = known[v]
<1> DEFINE Moves(from, to) ==
      /\ pc[u] \in from /\ pc' = [pc EXCEPT ![u] = to] /\ known' = known
      /\ UNCHANGED <<Source, ipdom>>
      /\ harm' = harm \/ harm' \in {"unlocked", "torn"} \/ (harm = "none" /\ harm' = "dangling")
<1>1. pc \in [Units -> Places] /\ DOMAIN known = Units
  BY DEF CompileInv, BuildTypes
<1>2. CASE IdentifyFunctions(u)
  <2>1. /\ pc' = [pc EXCEPT ![u] = "identified"] /\ UNCHANGED <<Source, ipdom, harm>>
        /\ \A v \in Units \ {u} : known'[v] = known[v]
    BY <1>1, <1>2 DEF IdentifyFunctions, Step, files, output, local
  <2> QED
    BY <2>1, <1>1 DEF Intact, IpdWritten
<1>3. CASE Start(u) \/ Kill(u) \/ FatalError(u)
  <2>1. Start(u) => Moves(Places, "waiting")
    BY <1>1 DEF Start, Step, files, local
  <2>2. Kill(u) => Moves(Places, "killed")
    BY <1>1 DEF Kill, Step, files, local
  <2>3. FatalError(u) => Moves(Places, "failed")
    BY <1>1 DEF FatalError, Step, files, local
  <2> QED
    BY <2>1, <2>2, <2>3, <1>1, <1>3 DEF Intact, IpdWritten
<1>4. CASE Lock(u) \/ LockFails(u)
  <2>1. Moves(Places, "locked")
    BY <1>1, <1>4 DEF Lock, LockFails, Step, files, local
  <2> QED
    BY <2>1, <1>1 DEF Intact, IpdWritten
<1>5. CASE writeCallgraph(u)
  <2>1. Moves(Places, "callgraph")
    BY <1>1, <1>5 DEF writeCallgraph, ById, Step, local, output
  <2> QED
    BY <2>1, <1>1 DEF Intact, IpdWritten
<1>6. CASE writeAllowedBBTrans(u)
  <2>1. Moves(Places, "transitions")
    BY <1>1, <1>6 DEF writeAllowedBBTrans, ById, Step, local, output
  <2> QED
    BY <2>1, <1>1 DEF Intact, IpdWritten
<1>7. CASE OpenFunctionIDs(u)
  <2>1. Moves(Places, "rewriting")
    BY <1>1, <1>7 DEF OpenFunctionIDs, Step
  <2> QED
    BY <2>1, <1>1 DEF Intact, IpdWritten
<1>8. CASE writeFunctionIDs(u)
  <2>1. Moves(Places, "ids")
    BY <1>1, <1>8 DEF writeFunctionIDs, Step, local
  <2> QED
    BY <2>1, <1>1 DEF Intact, IpdWritten
<1>9. CASE Unlock(u) \/ InjectCode(u)
  <2>1. \E to \in {"unlocked", "done"} : Moves(IpdWritten, to)
    BY <1>1, <1>9 DEF Unlock, InjectCode, Step, files, local, IpdWritten
  <2> QED
    BY <2>1, <1>1 DEF Intact, IpdWritten
<1> QED
  BY <1>2, <1>3, <1>4, <1>5, <1>6, <1>7, <1>8, <1>9

LEMMA IpdStep ==
  ASSUME CompileInv, CompileInv', FilesInv, IpdKept, NEW u \in Units, writeIPDOMToFile(u)
  PROVE  IpdKept'
<1>1. IpdAppended(u) /\ IsFile(ipdom)
  BY IpdomKeeps DEF FilesInv, FilesTyped
<1>2. PICK l : /\ Intact => IsLine(l, known[u], Ipds(u))
               /\ Len(ipdom') = Len(ipdom) + 1 /\ ipdom'[Len(ipdom) + 1] = l
               /\ \A k \in 1 .. Len(ipdom) : ipdom'[k] = ipdom[k]
  BY <1>1 DEF IpdAppended
<1>3. /\ UNCHANGED <<Source, known, harm>> /\ pc' = [pc EXCEPT ![u] = "ipdom"]
      /\ pc \in [Units -> Places] /\ Len(ipdom) \in Nat
  BY <1>1 DEF writeIPDOMToFile, Step, local, CompileInv, BuildTypes, IsFile
<1> SUFFICES ASSUME Intact', NEW v \in Units, pc'[v] \in IpdWritten
             PROVE  HasIpdLine(v)'
  BY DEF IpdKept
<1>4. Intact /\ Ipds(v)' = Ipds(v) /\ known'[v] = known[v]
  BY <1>3, SameSource DEF Intact
<1>5. \E k \in 1 .. Len(ipdom') : IsLine(ipdom'[k], known[v], Ipds(v))
  <2>1. CASE v = u
    BY <2>1, <1>2, <1>3, <1>4
  <2>2. CASE v # u
    <3>1. pc[v] \in IpdWritten
      BY <2>2, <1>3
    <3>2. PICK k \in 1 .. Len(ipdom) : IsLine(ipdom[k], known[v], Ipds(v))
      BY <3>1, <1>4 DEF IpdKept, HasIpdLine
    <3> QED
      BY <3>2, <1>2, <1>3
  <2> QED
    BY <2>1, <2>2
<1>6. PICK k \in 1 .. Len(ipdom') : IsLine(ipdom'[k], known[v], Ipds(v))
  BY <1>5
<1>7. IsLine(ipdom[k], known[v], Ipds(v))'
  BY <1>4, <1>6 DEF IsLine
<1> QED
  BY <1>6, <1>7 DEF HasIpdLine

THEOREM IpdInvariant == Spec => []IpdKept
<1>1. Init => IpdKept
  BY DEF Init, IpdKept, IpdWritten
<1>2. IpdKept /\ FilesInv /\ CompileInv /\ CompileInv' /\ [Next]_vars => IpdKept'
  <2> SUFFICES ASSUME IpdKept, FilesInv, CompileInv, CompileInv', [Next]_vars PROVE IpdKept'
    OBVIOUS
  <2>1. CASE \E u \in Units : writeIPDOMToFile(u)
    BY <2>1, IpdStep
  <2>2. CASE ~\E u \in Units : writeIPDOMToFile(u)
    <3>1. /\ UNCHANGED <<Source, ipdom>> /\ (Intact' => Intact)
          /\ \A v \in Units : pc'[v] \in IpdWritten =>
               pc[v] \in IpdWritten /\ known'[v] = known[v]
      <4>1. CASE prelink \/ BuildEnded \/ UNCHANGED vars
        BY <4>1 DEF prelink, BuildEnded, vars, files, local, Intact
      <4> QED
        BY <4>1, <2>2, IpdStays DEF Next, Pass
    <3>2. ASSUME NEW v \in Units, HasIpdLine(v), known'[v] = known[v] PROVE HasIpdLine(v)'
      <4>1. Ipds(v)' = Ipds(v)
        BY <3>1, SameSource
      <4> QED
        BY <4>1, <3>1, <3>2 DEF HasIpdLine, IsLine
    <3> QED
      BY <3>1, <3>2 DEF IpdKept
  <2> QED
    BY <2>1, <2>2
<1> QED
  BY <1>1, <1>2, CompileInvariant, FilesInvariant, PTL DEF Spec

(* The flags of the table are those of the units that define the functions.*)
THEOREM FlagsInvariant ==
  ASSUME EntryPoints
  PROVE  Spec => []FlagsInv
<1>1. Init => FlagsInv
  BY DEF Init, FlagsInv, Table, Recording
<1>2. FlagsInv /\ FilesInv /\ CompileInv /\ CompileInv' /\ [Next]_vars => FlagsInv'
  <2> SUFFICES ASSUME FlagsInv, FilesInv, CompileInv, CompileInv', [Next]_vars PROVE FlagsInv'
    OBVIOUS
  <2>1. ASSUME NEW u \in Units, Start(u) \/ Pass(u) \/ Kill(u)
        PROVE  FlagsInv'
    <3>1. CASE \E to : Quiet(u, to)
      BY <3>1, QuietKeeps
    <3>2. CASE writeCallgraph(u) \/ writeAllowedBBTrans(u) \/ writeIPDOMToFile(u)
      BY <3>2, CallgraphKeeps, BlocksKeep, IpdomKeeps
    <3>3. CASE writeFunctionIDs(u)
      BY <3>3, EntryPoints, RecordFlags
    <3> QED
      BY <2>1, <3>1, <3>2, <3>3, QuietSteps DEF Pass, FilesInv
  <2> QED
    BY <2>1, IdleKeeps DEF Next
<1> QED
  BY <1>1, <1>2, CompileInvariant, FilesInvariant, PTL DEF Spec
-----------------------------------------------------------------------------
(* What picon-prelink reads when all units are done. *)
LEMMA DictFinite ==
  ASSUME NEW lines, IsFile(lines)
  PROVE  IsFiniteSet(DOMAIN Dict(lines))
<1> DEFINE g == [k \in 1 .. Len(lines) |-> DOMAIN lines[k]]
           T == {g[k] : k \in 1 .. Len(lines)}
<1>1. Len(lines) \in Nat /\ \A k \in 1 .. Len(lines) : IsFiniteSet(DOMAIN lines[k])
  BY DEF IsFile
<1>2. DOMAIN Dict(lines) = UNION T
  BY DEF Dict
<1>3. IsFiniteSet(1 .. Len(lines))
  BY <1>1, FS_Interval
<1>4. \A t \in T : IsFiniteSet(t)
  BY <1>1
<1>5. IsFiniteSet(T)
  <2> HIDE DEF g
  <2> QED
    BY <1>3, ImageFinite
<1> HIDE DEF T
<1> QED
  BY <1>2, <1>4, <1>5, FS_UNION

LEMMA WhenLinked ==
  ASSUME CompileInv, FilesInv, linked = "yes", Intact
  PROVE  /\ image = Packed /\ IsFile(trans) /\ IsFile(bbtrans) /\ IsFile(ipdom)
         /\ Table = fctid /\ DOMAIN Ids = DOMAIN fctid /\ Numbers(Ids)
         /\ Source \in Builds /\ \A n \in DOMAIN fctid : Ids[n] = IdOf(n)
         /\ \A u \in Units : /\ pc[u] = "done" /\ Names(u) \subseteq DOMAIN fctid
                             /\ \A n \in Names(u) : known[u][n] = IdOf(n)
<1>1. /\ image = Packed /\ \A u \in Units : pc[u] = "done"
      /\ IsFile(trans) /\ IsFile(bbtrans) /\ IsFile(ipdom)
  BY DEF FilesInv, LinkedInv, FilesTyped
<1>2. lock = NoJob \/ lock \in Units
  BY DEF CompileInv, BuildTypes
<1>3. Table = fctid
  BY <1>1, <1>2 DEF Table
<1>4. DOMAIN Ids = DOMAIN fctid /\ \A n \in DOMAIN fctid : Ids[n] = IdOf(n)
  BY <1>3 DEF Ids, IdOf
<1>5. \A u \in Units : Agrees(known[u], Names(u))
  BY <1>1 DEF FilesInv, LinesInv, DoneKnows
<1>6. \A u \in Units : /\ Names(u) \subseteq DOMAIN fctid
                       /\ \A n \in Names(u) : known[u][n] = IdOf(n)
  BY <1>3, <1>5 DEF Agrees, IdOf
<1> QED
  BY <1>1, <1>3, <1>4, <1>6 DEF CompileInv, BuildTypes

(* The calls of one function, as a set and as picon-prelink packs them. *)
LEMMA CallsPacked ==
  ASSUME Source \in Builds, NEW v \in Units, Supported(v), NEW map, NEW F \in Callers(v)
  PROVE  /\ Callees(F) \subseteq Names(v)
         /\ ToSet(SetToSeq(Calls(v, map)[F])) = {map[g] : g \in Callees(F)}
         /\ IsFiniteSet(Calls(v, map)[F])
<1>1. F \in DefinedIn(v) /\ Callees(F) \subseteq Names(v)
  BY CalleesNamed DEF Callers, Supported
<1>2. IsFiniteSet(Names(v))
  <2> DEFINE g == [G \in FunctionMap(v) |-> G.name]
  <2>1. Names(v) = {g[G] : G \in FunctionMap(v)}
    BY DEF Names
  <2> HIDE DEF g
  <2> QED
    BY <2>1, UnitFunctions, ImageFinite
<1>3. IsFiniteSet(Callees(F))
  BY <1>1, <1>2, FS_Subset
<1>4. IsFiniteSet({map[g] : g \in Callees(F)})
  BY <1>3, ImageFinite
<1>5. Calls(v, map)[F] = {map[g] : g \in Callees(F)}
  BY DEF Calls
<1> QED
  BY <1>1, <1>4, <1>5, SequenceOf

(* Every line of the packed call table is the line of a function. *)
LEMMA CallLines ==
  ASSUME CompileInv, FilesInv, linked = "yes", harm = "none", NEW f \in DOMAIN Dict(trans)
  PROVE  \E v \in Units : \E F \in Callers(v) :
           /\ F.name \in DOMAIN fctid /\ f = IdOf(F.name) /\ Callees(F) \subseteq DOMAIN fctid
           /\ ToSet(SetToSeq(Dict(trans)[f])) = {IdOf(g) : g \in Callees(F)}
           /\ IsFiniteSet(Dict(trans)[f])
<1>1. Intact
  BY DEF Intact
<1>2. /\ IsFile(trans) /\ Table = fctid /\ Source \in Builds
      /\ \A n \in DOMAIN fctid : Ids[n] = IdOf(n)
      /\ \A u \in Units : pc[u] = "done" /\ Names(u) \subseteq DOMAIN fctid
  BY <1>1, WhenLinked
<1>3. PICK k \in 1 .. Len(trans) : f \in DOMAIN trans[k] /\ Dict(trans)[f] = trans[k][f]
  BY <1>2, DictFrom
<1>4. CallsOrigin(trans[k])
  BY DEF FilesInv, LinesInv
<1>5. PICK v \in Units : Supported(v) /\ IsLine(trans[k], Ids, Calls(v, Ids))
  BY <1>2, <1>4 DEF CallsOrigin, Recording
<1>6. PICK F \in Callers(v) : f = Ids[F.name] /\ trans[k][f] = Calls(v, Ids)[F]
  BY <1>3, <1>5, LineDomains DEF IsLine
<1>7. F.name \in Names(v)
  BY LineDomains DEF Names
<1>8. /\ Callees(F) \subseteq Names(v)
      /\ ToSet(SetToSeq(Dict(trans)[f])) = {Ids[g] : g \in Callees(F)}
      /\ IsFiniteSet(Dict(trans)[f])
  BY <1>2, <1>3, <1>5, <1>6, CallsPacked
<1>9. {Ids[g] : g \in Callees(F)} = {IdOf(g) : g \in Callees(F)}
  BY <1>2, <1>8
<1> QED
  BY <1>2, <1>6, <1>7, <1>8, <1>9

(* A table with one entry g[f] for every f. *)
LEMMA TableOf ==
  ASSUME NEW D, IsFiniteSet(D), NEW g, NEW s, s = SetToSeq({g[f] : f \in D})
  PROVE  /\ ToSet(s) = {g[f] : f \in D} /\ Len(s) \in Nat /\ DOMAIN s = 1 .. Len(s)
         /\ \A x \in 1 .. Len(s) : \E f \in D : s[x] = g[f]
         /\ \A f \in D : \E x \in 1 .. Len(s) : s[x] = g[f]
         /\ \A x, y \in 1 .. Len(s) : s[x] = s[y] => x = y
         /\ Len(s) = Cardinality({g[f] : f \in D})
<1> DEFINE S == {g[f] : f \in D}
<1>1. IsFiniteSet(S)
  BY ImageFinite
<1>2. \A e : e \in S <=> \E f \in D : e = g[f]
  OBVIOUS
<1> HIDE DEF S
<1>3. /\ s \in Seq(S) /\ Len(s) = Cardinality(S) /\ Cardinality(S) \in Nat /\ ToSet(s) = S
      /\ \A x, y \in 1 .. Len(s) : s[x] = s[y] => x = y
  BY <1>1, SequenceOf DEF S
<1>4. DOMAIN s = 1 .. Len(s) /\ \A x \in 1 .. Len(s) : s[x] \in S
  BY ONLY <1>3
<1>5. \A e \in S : \E x \in 1 .. Len(s) : s[x] = e
  BY ONLY <1>3, <1>4 DEF ToSet
<1>6. \A x \in 1 .. Len(s) : \E f \in D : s[x] = g[f]
  BY ONLY <1>2, <1>4
<1>7. \A f \in D : \E x \in 1 .. Len(s) : s[x] = g[f]
  BY ONLY <1>2, <1>5
<1> QED
  BY <1>3, <1>4, <1>6, <1>7 DEF S

(* The packed call table. *)
CallEntries == [f \in DOMAIN Dict(trans) |-> [f_id |-> f, f_calls |-> SetToSeq(Dict(trans)[f])]]
LEMMA CallTable ==
  image = Packed => image.trans = SetToSeq({CallEntries[f] : f \in DOMAIN Dict(trans)})
<1>1. {CallEntries[f] : f \in DOMAIN Dict(trans)}
        = {[f_id |-> f, f_calls |-> SetToSeq(Dict(trans)[f])] : f \in DOMAIN Dict(trans)}
  BY DEF CallEntries
<1>2. gen_packed_callgraph = SetToSeq({CallEntries[f] : f \in DOMAIN Dict(trans)})
  BY <1>1 DEF gen_packed_callgraph, parse_callgraph
<1> QED
  BY <1>2 DEF Packed

(* The packed call table, as a set. *)
LEMMA CallSet ==
  ASSUME image = Packed, IsFile(trans)
  PROVE  ToSet(image.trans) = {CallEntries[f] : f \in DOMAIN Dict(trans)}
<1>1. PICK s, D, e : s = image.trans /\ D = DOMAIN Dict(trans) /\ e = CallEntries
  OBVIOUS
<1>2. IsFiniteSet(D)
  BY <1>1, DictFinite
<1>3. s = SetToSeq({e[f] : f \in D})
  BY <1>1, CallTable
<1>4. ToSet(s) = {e[f] : f \in D}
  BY <1>2, <1>3, TableOf
<1> QED
  BY <1>1, <1>4

(* The tables allow no call that the source files do not make, unless a    *)
(* job was killed, or went on without the lock, at the wrong moment.       *)
THEOREM NoFalseTheorem == Spec => []NoFalseCalls
<1>1. CompileInv /\ FilesInv => NoFalseCalls
  <2> SUFFICES ASSUME CompileInv, FilesInv, linked = "yes", harm = "none",
                      NEW l \in ToSet(image.trans), NEW c \in ToSet(l.f_calls)
               PROVE  \E u \in Units : \E F \in DefinedIn(u) : \E g \in Callees(F) :
                        l.f_id = IdOf(F.name) /\ c = IdOf(g)
    BY DEF NoFalseCalls
  <2>1. IsFile(trans) /\ image = Packed
    BY WhenLinked DEF Intact
  <2>2. PICK d : d = Dict(trans)
    OBVIOUS
  <2>3. ToSet(image.trans) = {CallEntries[f] : f \in DOMAIN d}
    BY <2>1, <2>2, CallSet
  <2>4. PICK f \in DOMAIN d : l = CallEntries[f]
    BY <2>3
  <2>5. l.f_id = f /\ l.f_calls = SetToSeq(d[f])
    BY <2>2, <2>4 DEF CallEntries
  <2>6. PICK v \in Units : \E F \in Callers(v) :
          f = IdOf(F.name) /\ ToSet(SetToSeq(d[f])) = {IdOf(g) : g \in Callees(F)}
    BY <2>2, <2>5, CallLines
  <2>7. PICK F \in Callers(v) :
          f = IdOf(F.name) /\ ToSet(SetToSeq(d[f])) = {IdOf(g) : g \in Callees(F)}
    BY <2>6
  <2>8. F \in DefinedIn(v)
    BY LineDomains
  <2> QED
    BY <2>5, <2>7, <2>8
<1> QED
  BY <1>1, CompileInvariant, FilesInvariant, PTL

(* The lists of constructors and destructors are gone from finished code.  *)
ListsGone == \A u \in Units : pc[u] = "done" => object[u].listed = {}
LEMMA ListsGoneAlways == Spec => []ListsGone
<1>1. Init => ListsGone
  BY DEF Init, ListsGone
<1>2. ListsGone /\ CompileInv /\ [Next]_vars => ListsGone'
  <2> SUFFICES ASSUME ListsGone, CompileInv, [Next]_vars PROVE ListsGone'
    OBVIOUS
  <2>1. pc \in [Units -> Places] /\ DOMAIN object = Units
    BY DEF CompileInv, BuildTypes
  <2>2. ASSUME NEW u \in Units, NEW to, pc' = [pc EXCEPT ![u] = to], to # "done",
               \A v \in Units \ {u} : object'[v] = object[v]
        PROVE  ListsGone'
    BY <2>1, <2>2 DEF ListsGone
  <2>3. ASSUME NEW u \in Units, InjectCode(u) PROVE ListsGone'
    <3> DEFINE o == [ids |-> [n \in Names(u) |-> id(u, n)],
                     listed |-> PatchCtorFunctions(u).left \cup PatchDtorFunctions(u).left]
    <3>1. object' = [object EXCEPT ![u] = o] /\ pc' = [pc EXCEPT ![u] = "done"]
      BY <2>3 DEF InjectCode, Step, Names
    <3>2. o.listed = {}
      BY DEF PatchCtorFunctions, PatchDtorFunctions
    <3> HIDE DEF o
    <3> QED
      BY <3>1, <3>2, <2>1 DEF ListsGone
  <2>4. ASSUME NEW u \in Units, Start(u) PROVE ListsGone'
    <3>1. pc' = [pc EXCEPT ![u] = "waiting"] /\ object' = [object EXCEPT ![u] = NULL]
      BY <2>4 DEF Start, Step
    <3> QED
      BY <3>1, <2>1, <2>2
  <2>5. ASSUME NEW u \in Units, Pass(u) \/ Kill(u), ~InjectCode(u) PROVE ListsGone'
    <3>1. object' = object
      BY <2>5 DEF Pass, Kill, Lock, LockFails, IdentifyFunctions, writeCallgraph, FatalError,
         writeAllowedBBTrans, OpenFunctionIDs, writeFunctionIDs, writeIPDOMToFile, Unlock, output
    <3>2. \E to : to # "done" /\ pc' = [pc EXCEPT ![u] = to]
      BY <2>5 DEF Pass, Kill, Lock, LockFails, IdentifyFunctions, writeCallgraph, FatalError,
         writeAllowedBBTrans, OpenFunctionIDs, writeFunctionIDs, writeIPDOMToFile, Unlock, Step
    <3> QED
      BY <3>1, <3>2, <2>2
  <2>6. CASE prelink \/ BuildEnded \/ UNCHANGED vars
    <3>1. UNCHANGED <<pc, object>>
      BY <2>6 DEF prelink, BuildEnded, vars, output
    <3> QED
      BY <3>1 DEF ListsGone
  <2> QED
    BY <2>3, <2>4, <2>5, <2>6 DEF Next
<1> QED
  BY <1>1, <1>2, CompileInvariant, PTL DEF Spec

(* The packed table of functions. *)
FctEntries ==
  [n \in DOMAIN fctid |->
     [f_id |-> fctid[n].id, f_name |-> n, f_flags |-> flag_to_int(fctid[n].flags)]]
LEMMA FctTable ==
  image = Packed => image.fcts = SetToSeq({FctEntries[n] : n \in DOMAIN fctid})
<1>1. {FctEntries[n] : n \in DOMAIN fctid}
        = {[f_id |-> fctid[n].id, f_name |-> n, f_flags |-> flag_to_int(fctid[n].flags)]
             : n \in DOMAIN fctid}
  BY DEF FctEntries
<1>2. gen_packed_fctids = SetToSeq({FctEntries[n] : n \in DOMAIN fctid})
  BY <1>1 DEF gen_packed_fctids
<1> QED
  BY <1>2 DEF Packed

LEMMA FlagsPacked ==
  ASSUME NEW flags
  PROVE  /\ flag_to_int(flags) = "FCT_EXTERNAL" <=> flags = "External"
         /\ flag_to_int(flags) = "FCT_MAIN" <=> flags = "Main"
         /\ flag_to_int(flags) \in {"FCT_INIT", "FCT_FINI"} <=> flags \in {"Init", "Fini"}
  BY DEF flag_to_int

(* Whichever unit is compiled first and however often, a function has the  *)
(* flags its defining unit gives it, and a constructor or destructor is    *)
(* called once.                                                            *)
THEOREM EntryTheorem ==
  ASSUME OneDefinition, EntryPoints
  PROVE  Spec => []EntryPointsOnce
<1>1. CompileInv /\ FilesInv /\ FlagsInv /\ ListsGone => EntryPointsOnce
  <2> SUFFICES ASSUME CompileInv, FilesInv, FlagsInv, ListsGone, linked = "yes", Intact,
                      NEW e \in ToSet(image.fcts), NEW Defining, NEW wrapped,
                      Defining = {u \in Units : \E F \in DefinedIn(u) : F.name = e.f_name},
                      wrapped = (e.f_flags \in {"FCT_INIT", "FCT_FINI"})
               PROVE  /\ e.f_flags = "FCT_EXTERNAL" <=> Defining = {}
                      /\ e.f_flags = "FCT_MAIN" <=> e.f_name = "main"
                      /\ \A u \in Defining :
                           LET entry == e.f_name \in BeforeNull(Source[u].ctors)
                                                       \cup BeforeNull(Source[u].dtors)
                           IN /\ entry <=> wrapped \/ e.f_name \in object[u].listed
                              /\ ~(wrapped /\ e.f_name \in object[u].listed)
    BY DEF EntryPointsOnce
  <2>1. /\ image = Packed /\ Table = fctid /\ DOMAIN Ids = DOMAIN fctid /\ Numbers(Ids)
        /\ Source \in Builds /\ \A u \in Units : pc[u] = "done"
    BY WhenLinked
  <2>2. PICK n \in DOMAIN fctid : e = FctEntries[n]
    <3>1. IsFiniteSet(DOMAIN fctid)
      BY <2>1 DEF Numbers
    <3>2. image.fcts = SetToSeq({FctEntries[n] : n \in DOMAIN fctid})
      BY <2>1, FctTable
    <3>3. ToSet(image.fcts) = {FctEntries[n] : n \in DOMAIN fctid}
      BY <3>1, <3>2, TableOf
    <3> QED
      BY <3>3
  <2>3. PICK fl : fl = fctid[n].flags
    OBVIOUS
  <2>4. e.f_name = n /\ e.f_flags = flag_to_int(fl)
    BY <2>2, <2>3 DEF FctEntries
  <2>5. /\ e.f_flags = "FCT_EXTERNAL" <=> fl = "External"
        /\ e.f_flags = "FCT_MAIN" <=> fl = "Main"
        /\ wrapped <=> fl \in {"Init", "Fini"}
    BY <2>4, FlagsPacked
  <2>6. /\ \/ fl = "External" /\ n # "main"
           \/ \E u \in Units : \E F \in DefinedIn(u) : F.name = n /\ fl = FlagFor(u, F)
        /\ \A u \in Units : \A F \in DefinedIn(u) : F.name = n => fl # "External"
    BY <2>1, <2>3 DEF FlagsInv, Recording
  <2>7. ASSUME NEW u \in Units, NEW F \in DefinedIn(u), F.name = n, fl = FlagFor(u, F)
        PROVE  /\ fl = "Main" <=> n = "main"
               /\ n \in BeforeNull(Source[u].ctors) \cup BeforeNull(Source[u].dtors)
                    <=> fl \in {"Init", "Fini"}
    <3>1. /\ isInitFunction(u, n) <=> n \in BeforeNull(Source[u].ctors)
          /\ isFiniFunction(u, n) <=> n \in BeforeNull(Source[u].dtors)
      BY DEF isInitFunction, isFiniFunction, PatchCtorFunctions, PatchDtorFunctions
    <3>2. n = "main" => n \notin BeforeNull(Source[u].ctors) \cup BeforeNull(Source[u].dtors)
      BY <2>1 DEF EntryPoints
    <3> QED
      BY <3>1, <3>2, <2>7 DEF FlagFor
  <2>8. e.f_flags = "FCT_EXTERNAL" <=> Defining = {}
    BY <2>4, <2>5, <2>6 DEF FlagFor
  <2>9. e.f_flags = "FCT_MAIN" <=> e.f_name = "main"
    BY <2>4, <2>5, <2>6, <2>7
  <2>10. ASSUME NEW u \in Defining
         PROVE  /\ e.f_name \in BeforeNull(Source[u].ctors) \cup BeforeNull(Source[u].dtors)
                     <=> wrapped \/ e.f_name \in object[u].listed
                /\ ~(wrapped /\ e.f_name \in object[u].listed)
    <3>1. PICK F \in DefinedIn(u) : F.name = n /\ u \in Units
      BY <2>4
    <3>2. PICK v \in Units : \E G \in DefinedIn(v) : G.name = n /\ fl = FlagFor(v, G)
      BY <3>1, <2>6
    <3>3. v = u
      BY <3>1, <3>2, <2>1 DEF OneDefinition, DefinedIn, FunctionMap
    <3>4. object[u].listed = {}
      BY <3>1, <2>1 DEF ListsGone
    <3> QED
      BY <3>2, <3>3, <3>4, <2>4, <2>5, <2>7
  <2> QED
    BY <2>8, <2>9, <2>10
<1> QED
  BY <1>1, CompileInvariant, FilesInvariant, FlagsInvariant, ListsGoneAlways, PTL
-----------------------------------------------------------------------------
(* The lines of .ipdom, one by one. *)
LEMMA IpdLinesFinite ==
  ASSUME NEW lines, IsFile(lines),
         \A k \in 1 .. Len(lines) : \A f \in DOMAIN lines[k] : IsFiniteSet(DOMAIN lines[k][f])
  PROVE  IsFiniteSet(IpdLines(lines))
<1> DEFINE T(k, f) == {<<k, f, b>> : b \in DOMAIN lines[k][f]}
           U(k) == UNION {T(k, f) : f \in DOMAIN lines[k]}
           n == Len(lines)
<1>1. IpdLines(lines) = UNION {U(k) : k \in 1 .. n}
  BY DEF IpdLines
<1>2. n \in Nat /\ \A k \in 1 .. n : IsFiniteSet(DOMAIN lines[k])
  BY DEF IsFile
<1>3. ASSUME NEW k \in 1 .. n, NEW f \in DOMAIN lines[k]
      PROVE  IsFiniteSet(T(k, f))
  <2> DEFINE D == DOMAIN lines[k][f]
             g == [b \in D |-> <<k, f, b>>]
  <2>1. T(k, f) = {g[b] : b \in D}
    OBVIOUS
  <2>2. IsFiniteSet(D)
    OBVIOUS
  <2> HIDE DEF g, T, D
  <2> QED
    BY <2>1, <2>2, ImageFinite
<1> HIDE DEF T
<1>4. ASSUME NEW k \in 1 .. n
      PROVE  IsFiniteSet(U(k))
  <2> DEFINE D == DOMAIN lines[k]
             g == [f \in D |-> T(k, f)]
             S == {g[f] : f \in D}
  <2>1. U(k) = UNION S
    OBVIOUS
  <2>2. IsFiniteSet(S)
    <3>1. IsFiniteSet(D)
      BY <1>2
    <3> HIDE DEF g, D
    <3> QED
      BY <3>1, ImageFinite
  <2>3. \A s \in S : IsFiniteSet(s)
    BY <1>3
  <2> HIDE DEF S, U
  <2> QED
    BY <2>1, <2>2, <2>3, FS_UNION
<1> HIDE DEF U
<1> DEFINE g == [k \in 1 .. n |-> U(k)]
           S == {g[k] : k \in 1 .. n}
<1>5. IpdLines(lines) = UNION S
  BY <1>1
<1>6. IsFiniteSet(S)
  <2>1. IsFiniteSet(1 .. n)
    BY <1>2, FS_Interval
  <2> HIDE DEF g
  <2> QED
    BY <2>1, ImageFinite
<1>7. \A s \in S : IsFiniteSet(s)
  BY <1>4
<1> HIDE DEF S
<1> QED
  BY <1>5, <1>6, <1>7, FS_UNION

IpdFile(lines) ==
  /\ IsFile(lines)
  /\ \A k \in 1 .. Len(lines) : \A f \in DOMAIN lines[k] :
       f \in Nat /\ IsFiniteSet(DOMAIN lines[k][f]) /\ DOMAIN lines[k][f] \subseteq Nat
OnSomeLine(e, lines) ==
  \E k \in 1 .. Len(lines) : \E f \in DOMAIN lines[k] : \E b \in DOMAIN lines[k][f] :
    e.f_id = f /\ e.b_id = b /\ e.b_ipd_id = lines[k][f][b]
IpdsFrom(s, lines) ==
  /\ Len(s) \in Nat /\ DOMAIN s = 1 .. Len(s)
  /\ \A j \in 1 .. Len(s) : OnSomeLine(s[j], lines)
  /\ \A k \in 1 .. Len(lines) : \A f \in DOMAIN lines[k] : \A b \in DOMAIN lines[k][f] :
       \E j \in 1 .. Len(s) : s[j].f_id = f /\ s[j].b_id = b
LEMMA IpdEntries ==
  ASSUME NEW lines, IpdFile(lines)
  PROVE  IpdsFrom(parse_bb_ipd(lines), lines)
<1> USE DEF IpdFile
<1>0. PICK s : s = parse_bb_ipd(lines)
  OBVIOUS
<1> DEFINE all == IpdLines(lines)
           R == {p \in all \X all : Before(p[1], p[2])}
           c == Cardinality(all)
           Nth(j) == CHOOSE x \in all : Cardinality({y \in all : Before(y, x)}) = j - 1
           E(x) == [f_id |-> x[2], b_id |-> x[3], b_ipd_id |-> lines[x[1]][x[2]][x[3]]]
<1>1. IsFiniteSet(all) /\ c \in Nat
  BY IpdLinesFinite, FS_CardinalityType
<1>2. ASSUME NEW x \in all
      PROVE  \E k \in 1 .. Len(lines) : \E f \in DOMAIN lines[k] :
               \E b \in DOMAIN lines[k][f] : x = <<k, f, b>>
  BY DEF IpdLines
<1>3. \A x \in all : /\ x = <<x[1], x[2], x[3]>> /\ x[1] \in Nat /\ x[2] \in Nat /\ x[3] \in Nat
  <2> TAKE x \in all
  <2>1. PICK k \in 1 .. Len(lines) : \E f \in DOMAIN lines[k] :
               \E b \in DOMAIN lines[k][f] : x = <<k, f, b>>
    BY <1>2
  <2>2. PICK f \in DOMAIN lines[k] : \E b \in DOMAIN lines[k][f] : x = <<k, f, b>>
    BY <2>1
  <2>3. PICK b \in DOMAIN lines[k][f] : x = <<k, f, b>>
    BY <2>2
  <2>4. k \in Nat /\ f \in Nat /\ b \in Nat
    BY DEF IsFile
  <2> QED
    BY <2>3, <2>4
<1> HIDE DEF all
<1>4. \A x, y \in all : <<x, y>> \in R <=> Before(x, y)
  OBVIOUS
<1> HIDE DEF R
<1>5. \A x \in all : <<x, x>> \notin R
  BY <1>3, <1>4 DEF Before
<1>6. \A x, y, z \in all : <<x, y>> \in R /\ <<y, z>> \in R => <<x, z>> \in R
  <2> SUFFICES ASSUME NEW x \in all, NEW y \in all, NEW z \in all, Before(x, y), Before(y, z)
               PROVE  Before(x, z)
    BY <1>4
  <2> QED
    BY <1>3 DEF Before
<1>7. \A x, y \in all : x # y => <<x, y>> \in R \/ <<y, x>> \in R
  <2> SUFFICES ASSUME NEW x \in all, NEW y \in all, x # y
               PROVE  Before(x, y) \/ Before(y, x)
    BY <1>4
  <2>1. x[1] # y[1] \/ x[2] # y[2] \/ x[3] # y[3]
    BY <1>3
  <2> QED
    BY <2>1, <1>3 DEF Before
<1>8. {Rank(all, R, x) : x \in all} = 0 .. c - 1
  BY <1>1, <1>5, <1>6, <1>7, RanksOf
<1>9. ASSUME NEW x \in all PROVE \E j \in 1 .. c : Nth(j) = x
  <2>1. PICK r \in 0 .. c - 1 : Rank(all, R, x) = r
    BY <1>8
  <2>2. r + 1 \in 1 .. c /\ (r + 1) - 1 = r
    BY <1>1
  <2>3. \A z \in all : Rank(all, R, z) = Cardinality({y \in all : Before(y, z)})
    <3> TAKE z \in all
    <3>1. {y \in all : <<y, z>> \in R} = {y \in all : Before(y, z)}
      BY <1>4
    <3> QED
      BY <3>1 DEF Rank
  <2>4. \A z \in all : Cardinality({y \in all : Before(y, z)}) = r => z = x
    <3>1. \A z \in all : Rank(all, R, z) = Rank(all, R, x) => z = x
      BY <1>1, <1>5, <1>6, <1>7, RanksDiffer
    <3> QED
      BY <2>1, <2>3, <3>1
  <2>5. Cardinality({y \in all : Before(y, x)}) = r
    BY <2>1, <2>3
  <2>6. Nth(r + 1) = x
    BY <2>2, <2>4, <2>5
  <2> QED
    BY <2>2, <2>6
<1>10. ASSUME NEW j \in 1 .. c PROVE Nth(j) \in all
  <2>1. j - 1 \in 0 .. c - 1
    BY <1>1
  <2>2. PICK x \in all : Rank(all, R, x) = j - 1
    BY <2>1, <1>8
  <2>3. {y \in all : <<y, x>> \in R} = {y \in all : Before(y, x)}
    BY <1>4
  <2>4. Cardinality({y \in all : Before(y, x)}) = j - 1
    BY <2>2, <2>3 DEF Rank
  <2> QED
    BY <2>4
<1>11. s = [j \in 1 .. c |-> E(Nth(j))]
  BY <1>0 DEF parse_bb_ipd, all
<1> HIDE DEF Nth, c
<1> DEFINE S == {E(x) : x \in all}
<1>12. \A j \in 1 .. c : s[j] = E(Nth(j)) /\ s[j] \in S
  BY <1>10, <1>11
<1>13. s \in Seq(S) /\ Len(s) = c /\ DOMAIN s = 1 .. c
  <2>1. s \in [1 .. c -> S]
    BY <1>11, <1>12
  <2> HIDE DEF S
  <2> QED
    BY ONLY <2>1, <1>1
<1>14. ASSUME NEW j \in 1 .. c
       PROVE  OnSomeLine(s[j], lines)
  <2>1. PICK x \in all : s[j] = E(x)
    BY <1>10, <1>12
  <2>2. PICK k \in 1 .. Len(lines) : \E f \in DOMAIN lines[k] :
               \E b \in DOMAIN lines[k][f] : x = <<k, f, b>>
    BY <1>2
  <2>3. PICK f \in DOMAIN lines[k] : \E b \in DOMAIN lines[k][f] : x = <<k, f, b>>
    BY <2>2
  <2>4. PICK b \in DOMAIN lines[k][f] : x = <<k, f, b>>
    BY <2>3
  <2>5. s[j].f_id = f /\ s[j].b_id = b /\ s[j].b_ipd_id = lines[k][f][b]
    BY <2>1, <2>4
  <2> QED
    BY <2>5 DEF OnSomeLine
<1>15. ASSUME NEW k \in 1 .. Len(lines), NEW f \in DOMAIN lines[k],
              NEW b \in DOMAIN lines[k][f]
       PROVE  \E j \in 1 .. c : s[j].f_id = f /\ s[j].b_id = b
  <2>1. <<k, f, b>> \in all
    BY DEF all, IpdLines
  <2>2. PICK j \in 1 .. c : Nth(j) = <<k, f, b>>
    BY <2>1, <1>9
  <2>3. s[j] = E(<<k, f, b>>)
    BY <2>2, <1>12
  <2> QED
    BY <2>3
<1>16. IpdsFrom(s, lines)
  <2>1. Len(s) = c /\ c \in Nat /\ DOMAIN s = 1 .. c
    BY <1>1, <1>13
  <2> HIDE DEF E, S
  <2> QED
    BY ONLY <2>1, <1>14, <1>15 DEF IpdsFrom
<1> QED
  BY <1>0, <1>16
-----------------------------------------------------------------------------
(* The packed block tables.  A row per block with successors. *)
RowEntries(rows) == [b \in DOMAIN rows |-> [b_id |-> b, b_succ |-> SetToSeq(rows[b])]]
RowTable(rows) == SetToSeq({RowEntries(rows)[b] : b \in DOMAIN rows})
BlockEntries ==
  [f \in DOMAIN Dict(bbtrans) |->
     [f_id |-> f, num_block |-> Dict(bbtrans)[f].num_block,
      trans |-> RowTable(Dict(bbtrans)[f].rows)]]
LEMMA BlockTable ==
  image = Packed => image.bbs = SetToSeq({BlockEntries[f] : f \in DOMAIN Dict(bbtrans)})
<1> DEFINE d == Dict(bbtrans)
           Rows(f) == {[b_id |-> b, b_succ |-> SetToSeq(d[f].rows[b])] : b \in DOMAIN d[f].rows}
           Lines == {[f_id |-> f, num_block |-> d[f].num_block, trans |-> SetToSeq(Rows(f))]
                       : f \in DOMAIN d}
<1>1. \A f : Rows(f) = {RowEntries(d[f].rows)[b] : b \in DOMAIN d[f].rows}
  BY DEF RowEntries
<1>2. \A f : SetToSeq(Rows(f)) = RowTable(d[f].rows)
  <2> HIDE DEF Rows, d
  <2> QED
    BY <1>1 DEF RowTable
<1>3. gen_packed_bb = SetToSeq(Lines)
  BY DEF gen_packed_bb, parse_bb
<1>4. Lines = {BlockEntries[f] : f \in DOMAIN d}
  <2> HIDE DEF Rows
  <2> QED
    BY <1>2 DEF BlockEntries
<1>5. gen_packed_bb = SetToSeq({BlockEntries[f] : f \in DOMAIN Dict(bbtrans)})
  <2> HIDE DEF Lines
  <2> QED
    BY <1>3, <1>4
<1> QED
  BY <1>5 DEF Packed

LEMMA FunctionBlocks ==
  ASSUME Source \in Builds, NEW v \in Units, NEW F \in WithBlocks(v)
  PROVE  /\ F \in Functions /\ Len(F.blocks) \in Nat \ {0}
         /\ IsFiniteSet(BlocksOf(F)) /\ BlocksOf(F) \subseteq Nat
         /\ \A b \in BlocksOf(F) :
              /\ SuccessorsOf(F, b) \in Seq(BlocksOf(F) \ {0})
              /\ IsFiniteSet(ToSet(SuccessorsOf(F, b)))
              /\ ToSet(SuccessorsOf(F, b)) \subseteq BlocksOf(F)
              /\ SuccessorsOf(F, b) = <<>> => ToSet(SuccessorsOf(F, b)) = {}
              /\ Len(F.blocks) = 1 => SuccessorsOf(F, b) = <<>>
<1>1. F \in ToSet(Source[v].funs) /\ ~isDeclaration(F)
  BY DEF WithBlocks, DefinedIn, FunctionMap
<1>2. F \in Functions
  BY <1>1 DEF Functions
<1>3. /\ F.blocks \in Seq(ToSet(F.blocks))
      /\ \A b \in BlocksOf(F) : SuccessorsOf(F, b) \in Seq(BlocksOf(F) \ {0})
  BY <1>1, SourceFacts
<1>4. Len(F.blocks) \in Nat \ {0}
  <2>1. \A S, s : s \in Seq(S) /\ s # <<>> => Len(s) \in Nat \ {0}
    OBVIOUS
  <2> QED
    BY <2>1, <1>1, <1>3 DEF isDeclaration
<1>5. IsFiniteSet(BlocksOf(F)) /\ BlocksOf(F) \subseteq Nat
  <2>1. 0 \in Int /\ Len(F.blocks) - 1 \in Int
    BY <1>4
  <2> QED
    BY <2>1, <1>4, FS_Interval DEF BlocksOf
<1>6. ASSUME NEW b \in BlocksOf(F)
      PROVE  /\ IsFiniteSet(ToSet(SuccessorsOf(F, b)))
             /\ ToSet(SuccessorsOf(F, b)) \subseteq BlocksOf(F)
             /\ SuccessorsOf(F, b) = <<>> => ToSet(SuccessorsOf(F, b)) = {}
             /\ Len(F.blocks) = 1 => SuccessorsOf(F, b) = <<>>
  <2>1. PICK s : s = SuccessorsOf(F, b)
    OBVIOUS
  <2>2. s \in Seq(BlocksOf(F) \ {0})
    BY <2>1, <1>3
  <2>3. \A S : s \in Seq(S) => /\ \A k \in DOMAIN s : s[k] \in S
                               /\ s = <<>> => DOMAIN s = {}
                               /\ s # <<>> => S # {}
    <3> SUFFICES ASSUME NEW S, s \in Seq(S)
                 PROVE  /\ \A k \in DOMAIN s : s[k] \in S
                        /\ s = <<>> => DOMAIN s = {}
                        /\ s # <<>> => S # {}
      OBVIOUS
    <3>1. Len(s) \in Nat /\ DOMAIN s = 1 .. Len(s) /\ \A k \in 1 .. Len(s) : s[k] \in S
      OBVIOUS
    <3>2. s # <<>> => 1 \in 1 .. Len(s)
      OBVIOUS
    <3> QED
      BY <3>1, <3>2
  <2>4. /\ \A k \in DOMAIN s : s[k] \in BlocksOf(F) \ {0}
        /\ s = <<>> => DOMAIN s = {}
        /\ s # <<>> => BlocksOf(F) \ {0} # {}
    BY <2>2, <2>3
  <2>5. ToSet(s) \subseteq BlocksOf(F) /\ (s = <<>> => ToSet(s) = {})
    BY <2>4 DEF ToSet
  <2>6. IsFiniteSet(ToSet(s))
    BY <2>5, <1>5, FS_Subset
  <2>7. Len(F.blocks) = 1 => s = <<>>
    <3>1. Len(F.blocks) = 1 => BlocksOf(F) \ {0} = {}
      BY DEF BlocksOf
    <3> QED
      BY <3>1, <2>4
  <2> QED
    BY <2>1, <2>5, <2>6, <2>7
<1> QED
  BY <1>2, <1>3, <1>4, <1>5, <1>6

(* The rows of a function are its jumps. *)
LEMMA RowsOf ==
  ASSUME Source \in Builds, NEW v \in Units, NEW F \in WithBlocks(v),
         NEW s, s = RowTable(BlockLines(F))
  PROVE  /\ Len(s) \in Nat /\ DOMAIN s = 1 .. Len(s)
         /\ \A t \in ToSet(s) :
              /\ t.b_id \in BlocksOf(F) /\ ToSet(t.b_succ) = ToSet(SuccessorsOf(F, t.b_id))
              /\ DOMAIN t.b_succ = 1 .. Len(t.b_succ)
         /\ \A b \in BlocksOf(F) :
              SuccessorsOf(F, b) # <<>> => \E t \in ToSet(s) : t.b_id = b
<1> DEFINE R == BlockLines(F)
           D == DOMAIN R
           g == RowEntries(R)
<1>1. /\ IsFiniteSet(BlocksOf(F))
      /\ \A b \in BlocksOf(F) :
           /\ IsFiniteSet(ToSet(SuccessorsOf(F, b)))
           /\ Len(F.blocks) = 1 => SuccessorsOf(F, b) = <<>>
  BY FunctionBlocks
<1>2. D \subseteq BlocksOf(F) /\ \A b \in D : R[b] = ToSet(SuccessorsOf(F, b))
  BY DEF BlockLines
<1>3. \A b \in BlocksOf(F) : SuccessorsOf(F, b) # <<>> => b \in D
  BY <1>1 DEF BlockLines
<1> HIDE DEF R
<1>4. \A b \in D : g[b].b_id = b /\ g[b].b_succ = SetToSeq(R[b])
  BY DEF RowEntries
<1>5. s = SetToSeq({g[b] : b \in D})
  BY DEF RowTable, R
<1>6. IsFiniteSet(D)
  BY <1>1, <1>2, FS_Subset
<1> HIDE DEF D, g
<1>7. ToSet(s) = {g[b] : b \in D} /\ Len(s) \in Nat /\ DOMAIN s = 1 .. Len(s)
  BY <1>5, <1>6, TableOf
<1>8. ASSUME NEW t \in ToSet(s)
      PROVE  /\ t.b_id \in BlocksOf(F) /\ ToSet(t.b_succ) = ToSet(SuccessorsOf(F, t.b_id))
             /\ DOMAIN t.b_succ = 1 .. Len(t.b_succ)
  <2>1. PICK b \in D : t = g[b]
    BY <1>7
  <2>2. t.b_id = b /\ t.b_succ = SetToSeq(R[b]) /\ R[b] = ToSet(SuccessorsOf(F, b))
    BY <2>1, <1>2, <1>4
  <2>3. PICK S : S = R[b] /\ IsFiniteSet(S)
    BY <2>2, <1>1, <1>2
  <2>4. t.b_succ \in Seq(S) /\ ToSet(t.b_succ) = S
    BY <2>2, <2>3, SequenceOf
  <2>5. DOMAIN t.b_succ = 1 .. Len(t.b_succ)
    BY ONLY <2>4
  <2> QED
    BY <2>2, <2>3, <2>4, <2>5, <1>2
<1>9. ASSUME NEW b \in BlocksOf(F), SuccessorsOf(F, b) # <<>>
      PROVE  \E t \in ToSet(s) : t.b_id = b
  <2>1. b \in D /\ g[b] \in ToSet(s)
    BY <1>3, <1>7, <1>9
  <2> QED
    BY <2>1, <1>4
<1> QED
  BY <1>7, <1>8, <1>9

(* Every line of the packed block table is the line of a function. *)
LEMMA BlockRows ==
  ASSUME CompileInv, FilesInv, linked = "yes", harm = "none", NEW f \in DOMAIN Dict(bbtrans)
  PROVE  \E v \in Units : \E F \in WithBlocks(v) :
           /\ F.name \in DOMAIN fctid /\ f = IdOf(F.name)
           /\ Dict(bbtrans)[f] = [num_block |-> Len(F.blocks), rows |-> BlockLines(F)]
<1>1. Intact
  BY DEF Intact
<1>2. /\ IsFile(bbtrans) /\ Table = fctid /\ Source \in Builds
      /\ \A n \in DOMAIN fctid : Ids[n] = IdOf(n)
      /\ \A u \in Units : pc[u] = "done" /\ Names(u) \subseteq DOMAIN fctid
  BY <1>1, WhenLinked
<1>3. PICK k \in 1 .. Len(bbtrans) :
        f \in DOMAIN bbtrans[k] /\ Dict(bbtrans)[f] = bbtrans[k][f]
  BY <1>2, DictFrom
<1>4. BlocksOrigin(bbtrans[k])
  BY DEF FilesInv, LinesInv
<1>5. PICK v \in Units : IsLine(bbtrans[k], Ids, Blocks(v))
  BY <1>2, <1>4 DEF BlocksOrigin, Recording
<1>6. PICK F \in WithBlocks(v) : f = Ids[F.name] /\ bbtrans[k][f] = Blocks(v)[F]
  BY <1>3, <1>5, LineDomains DEF IsLine
<1>7. F.name \in Names(v)
  BY <1>6, LineDomains DEF Names
<1>8. Dict(bbtrans)[f] = [num_block |-> Len(F.blocks), rows |-> BlockLines(F)]
  BY <1>3, <1>6 DEF Blocks
<1> QED
  BY <1>2, <1>6, <1>7, <1>8

(* Every packed post-dominator is one that writeIPDOMToFile found, and     *)
(* every line of .ipdom is packed.                                         *)
LEMMA IpdRows ==
  ASSUME CompileInv, FilesInv, linked = "yes", Intact, bbtrans # <<>>
  PROVE  /\ DOMAIN image.ipds = 1 .. Len(image.ipds)
         /\ \A e \in ToSet(image.ipds) : \E v \in Units : \E F \in WithBlocks(v) :
              /\ F.name \in Names(v) /\ e.f_id = IdOf(F.name) /\ e.b_id \in BlocksOf(F)
              /\ e.b_ipd_id = Ipdoms[F][e.b_id]
         /\ \A k \in 1 .. Len(ipdom) : \A f \in DOMAIN ipdom[k] : \A b \in DOMAIN ipdom[k][f] :
              \E e \in ToSet(image.ipds) : e.f_id = f /\ e.b_id = b
<1>1. /\ IsFile(ipdom) /\ image = Packed /\ Table = fctid /\ Source \in Builds
      /\ Numbers(Ids) /\ DOMAIN Ids = DOMAIN fctid
      /\ \A n \in DOMAIN fctid : Ids[n] = IdOf(n)
      /\ \A u \in Units : Names(u) \subseteq DOMAIN fctid
  BY WhenLinked
<1>2. PICK s : s = image.ipds /\ s = parse_bb_ipd(ipdom)
  BY <1>1 DEF Packed
<1>3. ASSUME NEW k \in 1 .. Len(ipdom), NEW f \in DOMAIN ipdom[k]
      PROVE  \E v \in Units : \E F \in WithBlocks(v) :
               /\ F.name \in Names(v) /\ f = IdOf(F.name) /\ f \in Nat
               /\ ipdom[k][f] = Ipdoms[F] /\ DOMAIN ipdom[k][f] = BlocksOf(F)
               /\ IsFiniteSet(BlocksOf(F)) /\ BlocksOf(F) \subseteq Nat
  <2>1. IpdOrigin(ipdom[k])
    BY DEF FilesInv, LinesInv
  <2>2. PICK v \in Units : IsLine(ipdom[k], Ids, Ipds(v))
    BY <2>1 DEF IpdOrigin
  <2>3. PICK F \in WithBlocks(v) : f = Ids[F.name] /\ ipdom[k][f] = Ipds(v)[F]
    BY <1>3, <2>2, LineDomains DEF IsLine
  <2>4. F.name \in Names(v)
    BY <2>3, LineDomains DEF Names
  <2>5. f = IdOf(F.name)
    BY <2>3, <2>4, <1>1
  <2>6. f \in 0 .. Cardinality(DOMAIN Ids) - 1
    BY <2>3, <2>4, <1>1 DEF Numbers
  <2>7. F \in Functions /\ IsFiniteSet(BlocksOf(F)) /\ BlocksOf(F) \subseteq Nat
    BY <1>1, FunctionBlocks
  <2>8. ipdom[k][f] = Ipdoms[F] /\ DOMAIN Ipdoms[F] = BlocksOf(F)
    BY <2>3, <2>7 DEF Ipds, Ipdoms
  <2> QED
    BY <2>4, <2>5, <2>6, <2>7, <2>8
<1>4. \A k \in 1 .. Len(ipdom) : \A f \in DOMAIN ipdom[k] :
        f \in Nat /\ IsFiniteSet(DOMAIN ipdom[k][f]) /\ DOMAIN ipdom[k][f] \subseteq Nat
  BY <1>3
<1>5. IpdsFrom(s, ipdom)
  BY <1>1, <1>2, <1>4, IpdEntries DEF IpdFile
<1>6. DOMAIN s = 1 .. Len(s)
  BY <1>5 DEF IpdsFrom
<1>7. ASSUME NEW e \in ToSet(s)
      PROVE  \E v \in Units : \E F \in WithBlocks(v) :
               /\ F.name \in Names(v) /\ e.f_id = IdOf(F.name) /\ e.b_id \in BlocksOf(F)
               /\ e.b_ipd_id = Ipdoms[F][e.b_id]
  <2>1. PICK j \in 1 .. Len(s) : e = s[j]
    BY <1>6 DEF ToSet
  <2>2. PICK k \in 1 .. Len(ipdom) : \E f \in DOMAIN ipdom[k] : \E b \in DOMAIN ipdom[k][f] :
          e.f_id = f /\ e.b_id = b /\ e.b_ipd_id = ipdom[k][f][b]
    <3>1. \A i \in 1 .. Len(s) : OnSomeLine(s[i], ipdom)
      BY ONLY <1>5 DEF IpdsFrom
    <3>2. OnSomeLine(e, ipdom)
      BY ONLY <2>1, <3>1
    <3> QED
      BY ONLY <3>2 DEF OnSomeLine
  <2>3. PICK f \in DOMAIN ipdom[k] : \E b \in DOMAIN ipdom[k][f] :
          e.f_id = f /\ e.b_id = b /\ e.b_ipd_id = ipdom[k][f][b]
    BY <2>2
  <2>4. PICK v \in Units : \E F \in WithBlocks(v) :
          /\ F.name \in Names(v) /\ f = IdOf(F.name)
          /\ ipdom[k][f] = Ipdoms[F] /\ DOMAIN ipdom[k][f] = BlocksOf(F)
    BY <1>3
  <2> QED
    BY <2>3, <2>4
<1>8. \A k \in 1 .. Len(ipdom) : \A f \in DOMAIN ipdom[k] : \A b \in DOMAIN ipdom[k][f] :
        \E e \in ToSet(s) : e.f_id = f /\ e.b_id = b
  <2>1. \A k \in 1 .. Len(ipdom) : \A f \in DOMAIN ipdom[k] : \A b \in DOMAIN ipdom[k][f] :
          \E j \in 1 .. Len(s) : s[j].f_id = f /\ s[j].b_id = b
    BY <1>5 DEF IpdsFrom
  <2>2. \A j \in 1 .. Len(s) : s[j] \in ToSet(s)
    BY <1>6 DEF ToSet
  <2> QED
    BY <2>1, <2>2
<1> QED
  BY <1>2, <1>6, <1>7, <1>8

(* The blocks of every unit are in the packed tables. *)
LEMMA BlocksPresent ==
  ASSUME CompileInv, FilesInv, KeptInv, linked = "yes", Intact, level,
         NEW u \in Units, NEW F \in WithBlocks(u)
  PROVE  /\ bbtrans # <<>>
         /\ \E l \in ToSet(image.bbs) :
              /\ l.f_id = IdOf(F.name) /\ l.num_block = Len(F.blocks)
              /\ l.trans = RowTable(BlockLines(F))
<1>1. /\ IsFile(bbtrans) /\ image = Packed /\ Source \in Builds
      /\ pc[u] = "done" /\ \A n \in Names(u) : known[u][n] = IdOf(n)
  BY WhenLinked
<1>2. F \in FunctionMap(u)
  BY LineDomains
<1>3. PICK f : f = IdOf(F.name) /\ f = known[u][F.name]
  BY <1>1, <1>2, UnitFunctions
<1>4. LastIs(bbtrans, known[u], Blocks(u))
  BY <1>1 DEF KeptInv, Kept, BlocksWritten, Recording
<1>5. PICK d : d = Dict(bbtrans)
  OBVIOUS
<1>6. f \in DOMAIN d /\ d[f] = Blocks(u)[F]
  BY <1>3, <1>4, <1>5, LineDomains DEF LastIs
<1>7. d[f].num_block = Len(F.blocks) /\ d[f].rows = BlockLines(F)
  BY <1>6 DEF Blocks
<1>8. image.bbs = SetToSeq({BlockEntries[h] : h \in DOMAIN d})
  BY <1>1, <1>5, BlockTable
<1>9. IsFiniteSet(DOMAIN d)
  BY <1>1, <1>5, DictFinite
<1>10. ToSet(image.bbs) = {BlockEntries[h] : h \in DOMAIN d}
  BY <1>8, <1>9, TableOf
<1>11. /\ BlockEntries[f].f_id = f /\ BlockEntries[f].num_block = Len(F.blocks)
       /\ BlockEntries[f].trans = RowTable(BlockLines(F))
  BY <1>5, <1>6, <1>7 DEF BlockEntries
<1>12. BlockEntries[f] \in ToSet(image.bbs)
  BY <1>6, <1>10
<1>13. bbtrans # <<>>
  BY <1>5, <1>6 DEF Dict
<1> QED
  BY <1>3, <1>11, <1>12, <1>13

(* The packed post-dominators of a function: an entry for every block, and *)
(* none but those that writeIPDOMToFile found.                             *)
IpdomsKept ==
  linked = "yes" /\ Intact /\ level =>
    \A u \in Units : \A F \in WithBlocks(u) : \A b \in BlocksOf(F) :
      /\ IpdEntriesOf(F, b) # {}
      /\ \A e \in IpdEntriesOf(F, b) : e.b_ipd_id = Ipdoms[F][b]

LEMMA IpdomsPresent ==
  ASSUME OneDefinition, CompileInv, FilesInv, KeptInv, IpdKept
  PROVE  IpdomsKept
<1> SUFFICES ASSUME linked = "yes", Intact, level, NEW u \in Units, NEW F \in WithBlocks(u),
                    NEW b \in BlocksOf(F)
             PROVE  /\ IpdEntriesOf(F, b) # {}
                    /\ \A e \in IpdEntriesOf(F, b) : e.b_ipd_id = Ipdoms[F][b]
  BY DEF IpdomsKept
<1>1. /\ Source \in Builds /\ Numbers(Ids) /\ DOMAIN Ids = DOMAIN fctid
      /\ \A n \in DOMAIN fctid : Ids[n] = IdOf(n)
      /\ \A v \in Units : Names(v) \subseteq DOMAIN fctid
      /\ pc[u] = "done" /\ \A n \in Names(u) : known[u][n] = IdOf(n)
  BY WhenLinked
<1>2. bbtrans # <<>>
  BY BlocksPresent
<1>3. F \in DefinedIn(u) /\ F \in FunctionMap(u) /\ F.name \in Names(u)
  BY <1>1, LineDomains, UnitFunctions
<1>4. IpdEntriesOf(F, b) # {}
  <2>1. PICK k \in 1 .. Len(ipdom) : IsLine(ipdom[k], known[u], Ipds(u))
    BY <1>1 DEF IpdKept, IpdWritten, HasIpdLine
  <2>2. PICK f : f = IdOf(F.name) /\ f = known[u][F.name]
    BY <1>1, <1>3
  <2>3. f \in DOMAIN ipdom[k] /\ ipdom[k][f] = Ipds(u)[F]
    BY <2>1, <2>2, LineDomains DEF IsLine
  <2>4. F \in Functions
    BY <1>1, FunctionBlocks
  <2>5. b \in DOMAIN ipdom[k][f]
    BY <2>3, <2>4 DEF Ipds, Ipdoms
  <2>6. PICK e \in ToSet(image.ipds) : e.f_id = f /\ e.b_id = b
    BY <2>3, <2>5, <1>2, IpdRows
  <2> QED
    BY <2>2, <2>6 DEF IpdEntriesOf
<1>5. ASSUME NEW e \in IpdEntriesOf(F, b) PROVE e.b_ipd_id = Ipdoms[F][b]
  <2>0. e \in ToSet(image.ipds) /\ e.f_id = IdOf(F.name) /\ e.b_id = b
    BY DEF IpdEntriesOf
  <2>1. PICK v \in Units : \E G \in WithBlocks(v) :
          G.name \in Names(v) /\ e.f_id = IdOf(G.name) /\ e.b_ipd_id = Ipdoms[G][e.b_id]
    BY <2>0, <1>2, IpdRows
  <2>2. PICK G \in WithBlocks(v) :
          G.name \in Names(v) /\ e.f_id = IdOf(G.name) /\ e.b_ipd_id = Ipdoms[G][e.b_id]
    BY <2>1
  <2>3. Ids[G.name] = Ids[F.name] /\ G.name \in DOMAIN Ids /\ F.name \in DOMAIN Ids
    BY <2>0, <2>2, <1>1, <1>3
  <2>4. G.name = F.name
    BY <2>3, <1>1, NumbersDiffer
  <2>5. v = u
    BY <2>4, <1>1 DEF OneDefinition, WithBlocks, DefinedIn, FunctionMap
  <2>6. G = F
    BY <2>4, <2>5, <1>1, LineDomains, UnitFunctions
  <2> QED
    BY <2>0, <2>2, <2>6
<1> QED
  BY <1>4, <1>5

(* Whatever was compiled in which order and how often, the tables have an  *)
(* entry for every block of every unit, with what writeIPDOMToFile found.  *)
THEOREM IpdomsTheorem ==
  ASSUME OneDefinition
  PROVE  Spec => []IpdomsKept
<1>1. CompileInv /\ FilesInv /\ KeptInv /\ IpdKept => IpdomsKept
  BY IpdomsPresent
<1> QED
  BY <1>1, CompileInvariant, FilesInvariant, KeptInvariant, IpdInvariant, PTL

(* Nothing a conforming program does is missing from the tables, if        *)
(* functions differ in their names: every call and every jump, and an      *)
(* entry for every block among the post-dominators.  That these are the    *)
(* immediate post-dominators of the reference takes IpdomsRight, which the *)
(* run evaluates for its functions.                                        *)
THEOREM EdgesTheorem ==
  ASSUME OneDefinition, IpdomsRight
  PROVE  Spec => []EdgesKept
<1>1. CompileInv /\ FilesInv /\ KeptInv /\ IpdKept => EdgesKept
  <2> SUFFICES ASSUME CompileInv, FilesInv, KeptInv, IpdKept, linked = "yes", Intact,
                      NEW u \in Units, NEW F \in DefinedIn(u)
               PROVE  /\ \A g \in Callees(F) : \E l \in ToSet(image.trans) :
                           l.f_id = IdOf(F.name) /\ IdOf(g) \in ToSet(l.f_calls)
                      /\ level /\ F \in WithBlocks(u) =>
                           /\ \E l \in ToSet(image.bbs) :
                                /\ l.f_id = IdOf(F.name) /\ l.num_block = Len(F.blocks)
                                /\ \A b \in BlocksOf(F) :
                                     UNION {ToSet(t.b_succ) : t \in {r \in ToSet(l.trans) : r.b_id = b}}
                                       = ToSet(SuccessorsOf(F, b))
                           /\ \A b \in BlocksOf(F) :
                                /\ IpdEntriesOf(F, b) # {}
                                /\ b \in InTree(F) => \A e \in IpdEntriesOf(F, b) :
                                                        e.b_ipd_id = PostDominators[F][b]
    BY DEF EdgesKept
  <2>1. /\ IsFile(trans) /\ IsFile(bbtrans) /\ image = Packed /\ Source \in Builds
        /\ Numbers(Ids) /\ DOMAIN Ids = DOMAIN fctid
        /\ \A n \in DOMAIN fctid : Ids[n] = IdOf(n)
        /\ \A v \in Units : Names(v) \subseteq DOMAIN fctid
        /\ pc[u] = "done" /\ \A n \in Names(u) : known[u][n] = IdOf(n)
    BY WhenLinked
  <2>2. Kept(u)
    BY DEF KeptInv
  <2>3. PICK f : f = IdOf(F.name) /\ f = known[u][F.name] /\ F.name \in Names(u)
    BY <2>1, UnitFunctions
  <2>4. ASSUME NEW g \in Callees(F)
        PROVE  \E l \in ToSet(image.trans) :
                 l.f_id = IdOf(F.name) /\ IdOf(g) \in ToSet(l.f_calls)
    <3>1. F \in Callers(u) /\ Supported(u) /\ LastIs(trans, known[u], Calls(u, known[u]))
      BY <2>1, <2>2 DEF Callers, Kept, Written, BlocksWritten, Recording
    <3>2. PICK d : d = Dict(trans)
      OBVIOUS
    <3>3. f \in DOMAIN d /\ d[f] = Calls(u, known[u])[F]
      BY <3>1, <3>2, <2>3, LineDomains DEF LastIs
    <3>4. PICK map : map = known[u]
      OBVIOUS
    <3>5. /\ Callees(F) \subseteq Names(u)
          /\ ToSet(SetToSeq(Calls(u, map)[F])) = {map[h] : h \in Callees(F)}
      BY <2>1, <3>1, CallsPacked
    <3>6. IdOf(g) \in ToSet(SetToSeq(d[f]))
      BY <3>3, <3>4, <3>5, <2>1
    <3>7. ToSet(image.trans) = {CallEntries[h] : h \in DOMAIN d}
      BY <2>1, <3>2, CallSet
    <3>8. CallEntries[f].f_id = f /\ CallEntries[f].f_calls = SetToSeq(d[f])
      BY <3>2, <3>3 DEF CallEntries
    <3>9. CallEntries[f] \in ToSet(image.trans)
      BY <3>3, <3>7
    <3> QED
      BY <3>6, <3>8, <3>9, <2>3
  <2>5. ASSUME level, F \in WithBlocks(u)
        PROVE  /\ bbtrans # <<>>
               /\ \E l \in ToSet(image.bbs) :
                    /\ l.f_id = IdOf(F.name) /\ l.num_block = Len(F.blocks)
                    /\ l.trans = RowTable(BlockLines(F))
    BY <2>5, BlocksPresent
  <2>6. ASSUME F \in WithBlocks(u), NEW s, s = RowTable(BlockLines(F)), NEW b \in BlocksOf(F)
        PROVE  UNION {ToSet(t.b_succ) : t \in {r \in ToSet(s) : r.b_id = b}}
                 = ToSet(SuccessorsOf(F, b))
    <3>1. SuccessorsOf(F, b) = <<>> => ToSet(SuccessorsOf(F, b)) = {}
      BY <2>1, <2>6, FunctionBlocks
    <3>2. /\ \A t \in ToSet(s) : ToSet(t.b_succ) = ToSet(SuccessorsOf(F, t.b_id))
          /\ SuccessorsOf(F, b) # <<>> => \E t \in ToSet(s) : t.b_id = b
      BY <2>1, <2>6, RowsOf
    <3> QED
      BY <3>1, <3>2
  <2>7. ASSUME level, F \in WithBlocks(u), NEW b \in BlocksOf(F)
        PROVE  /\ IpdEntriesOf(F, b) # {}
               /\ b \in InTree(F) => \A e \in IpdEntriesOf(F, b) :
                                       e.b_ipd_id = PostDominators[F][b]
    <3>1. /\ IpdEntriesOf(F, b) # {}
          /\ \A e \in IpdEntriesOf(F, b) : e.b_ipd_id = Ipdoms[F][b]
      BY <2>7, OneDefinition, IpdomsPresent DEF IpdomsKept
    <3>2. F \in Functions
      BY <2>1, <2>7, FunctionBlocks
    <3>3. b \in InTree(F) => Ipdoms[F][b] = PostDominators[F][b]
      BY <3>2, IpdomsRight DEF IpdomsRight
    <3> QED
      BY <3>1, <3>3
  <2> QED
    BY <2>4, <2>5, <2>6, <2>7
<1> QED
  BY <1>1, CompileInvariant, FilesInvariant, KeptInvariant, IpdInvariant, PTL
-----------------------------------------------------------------------------
(* What monitor_load asks of the tables. *)
LEMMA CountOf ==
  ASSUME NEW D, IsFiniteSet(D), NEW g, \A m, n \in D : g[m] = g[n] => m = n
  PROVE  Cardinality({g[n] : n \in D}) = Cardinality(D)
<1> DEFINE T == {g[n] : n \in D}
           f == [n \in D |-> g[n]]
<1>1. /\ f \in [D -> T] /\ \A m, n \in D : f[m] = f[n] => m = n
      /\ \A t \in T : \E n \in D : f[n] = t
  OBVIOUS
<1> HIDE DEF f, T
<1>2. f \in Injection(D, T) /\ f \in Surjection(D, T)
  BY <1>1, Fun_IsInj, Fun_IsSurj
<1>3. Cardinality(T) = Cardinality(D)
  BY <1>2, FS_Surjection
<1> QED
  BY <1>3 DEF T

FctsGood(s) ==
  /\ s # <<>> /\ Len(s) \in Nat /\ {s[x].f_id : x \in 1 .. Len(s)} = 0 .. Len(s) - 1
  /\ \A n \in DOMAIN fctid : IdOf(n) \in 0 .. Len(s) - 1
LEMMA FctsAccepted ==
  ASSUME CompileInv, FilesInv, SomeFunction, linked = "yes", Intact
  PROVE  FctsGood(image.fcts)
<1>1. /\ image = Packed /\ Source \in Builds /\ Numbers(Ids) /\ DOMAIN Ids = DOMAIN fctid
      /\ \A n \in DOMAIN fctid : Ids[n] = IdOf(n)
      /\ \A u \in Units : Names(u) \subseteq DOMAIN fctid
  BY WhenLinked
<1>2. PICK D : D = DOMAIN fctid
  OBVIOUS
<1>3. PICK s, g : s = image.fcts /\ g = FctEntries
  OBVIOUS
<1>4. IsFiniteSet(D) /\ {Ids[n] : n \in D} = 0 .. Cardinality(D) - 1
  BY <1>1, <1>2 DEF Numbers
<1>5. \A n \in D : g[n].f_id = IdOf(n) /\ g[n].f_name = n
  BY <1>2, <1>3 DEF FctEntries, IdOf
<1>6. s = SetToSeq({g[n] : n \in D})
  BY <1>1, <1>2, <1>3, FctTable
<1>7. /\ Len(s) \in Nat /\ Len(s) = Cardinality({g[n] : n \in D})
      /\ \A x \in 1 .. Len(s) : \E n \in D : s[x] = g[n]
      /\ \A n \in D : \E x \in 1 .. Len(s) : s[x] = g[n]
  BY <1>4, <1>6, TableOf
<1>8. Cardinality({g[n] : n \in D}) = Cardinality(D)
  <2>1. \A m, n \in D : g[m] = g[n] => m = n
    BY <1>5
  <2> QED
    BY <1>4, <2>1, CountOf
<1>9. {s[x].f_id : x \in 1 .. Len(s)} = {Ids[n] : n \in D}
  <2>1. ASSUME NEW x \in 1 .. Len(s) PROVE \E n \in D : s[x].f_id = Ids[n]
    BY <1>1, <1>2, <1>5, <1>7
  <2>2. ASSUME NEW n \in D PROVE \E x \in 1 .. Len(s) : s[x].f_id = Ids[n]
    BY <1>1, <1>2, <1>5, <1>7
  <2> QED
    BY <2>1, <2>2
<1>10. s # <<>>
  <2>1. PICK u \in Units : \E F \in ToSet(Source[u].funs) : Identified(F.name)
    BY <1>1 DEF SomeFunction
  <2>2. PICK F \in FunctionMap(u) : F.name \in D
    BY <2>1, <1>1, <1>2 DEF FunctionMap, Names
  <2>3. PICK x \in 1 .. Len(s) : TRUE
    BY <2>2, <1>7
  <2> QED
    BY <2>3
<1>11. {s[x].f_id : x \in 1 .. Len(s)} = 0 .. Len(s) - 1
  BY <1>4, <1>7, <1>8, <1>9
<1>12. \A n \in D : IdOf(n) \in 0 .. Len(s) - 1
  BY <1>1, <1>2, <1>4, <1>7, <1>8
<1>13. FctsGood(s)
  BY <1>2, <1>7, <1>10, <1>11, <1>12 DEF FctsGood
<1> QED
  BY <1>3, <1>13

CallsGood(s) ==
  /\ Len(s) \in Nat /\ \A x, y \in 1 .. Len(s) : s[x].f_id = s[y].f_id => x = y
  /\ \A x \in 1 .. Len(s) :
       /\ \E n \in DOMAIN fctid : s[x].f_id = IdOf(n)
       /\ \A y \in 1 .. Len(s[x].f_calls) :
            \E n \in DOMAIN fctid : s[x].f_calls[y] = IdOf(n)
LEMMA CallsAccepted ==
  ASSUME CompileInv, FilesInv, linked = "yes", harm = "none"
  PROVE  CallsGood(image.trans)
<1>1. IsFile(trans) /\ image = Packed
  BY WhenLinked DEF Intact
<1>2. PICK s, d, D, g : /\ s = image.trans /\ g = CallEntries
                        /\ d = Dict(trans) /\ D = DOMAIN d
  OBVIOUS
<1>3. IsFiniteSet(D)
  BY <1>1, <1>2, DictFinite
<1>4. s = SetToSeq({g[f] : f \in D})
  BY <1>1, <1>2, CallTable
<1>5. /\ Len(s) \in Nat /\ \A x \in 1 .. Len(s) : \E f \in D : s[x] = g[f]
      /\ \A x, y \in 1 .. Len(s) : s[x] = s[y] => x = y
  <2>1. Len(s) \in Nat /\ DOMAIN s = 1 .. Len(s) /\ ToSet(s) = {g[f] : f \in D}
    BY <1>3, <1>4, TableOf
  <2>2. \A x \in 1 .. Len(s) : \E f \in D : s[x] = g[f]
    <3>1. \A x \in 1 .. Len(s) : s[x] \in ToSet(s)
      BY <2>1 DEF ToSet
    <3> QED
      BY <3>1, <2>1
  <2>3. \A x, y \in 1 .. Len(s) : s[x] = s[y] => x = y
    BY <1>3, <1>4, TableOf
  <2> QED
    BY <2>1, <2>2, <2>3
<1>6. \A f \in D : g[f].f_id = f /\ g[f].f_calls = SetToSeq(d[f])
  BY <1>2 DEF CallEntries
<1>7. \A x, y \in 1 .. Len(s) : s[x].f_id = s[y].f_id => x = y
  <2> TAKE x, y \in 1 .. Len(s)
  <2>1. PICK f \in D : s[x] = g[f]
    BY <1>5
  <2>2. PICK h \in D : s[y] = g[h]
    BY <1>5
  <2> QED
    BY <2>1, <2>2, <1>5, <1>6
<1>8. ASSUME NEW x \in 1 .. Len(s)
      PROVE  /\ \E n \in DOMAIN fctid : s[x].f_id = IdOf(n)
             /\ \A y \in 1 .. Len(s[x].f_calls) :
                  \E n \in DOMAIN fctid : s[x].f_calls[y] = IdOf(n)
  <2>1. PICK f \in D : s[x] = g[f]
    BY <1>5
  <2>2. PICK v \in Units : \E F \in Callers(v) :
          /\ F.name \in DOMAIN fctid /\ f = IdOf(F.name) /\ Callees(F) \subseteq DOMAIN fctid
          /\ ToSet(SetToSeq(d[f])) = {IdOf(h) : h \in Callees(F)}
          /\ IsFiniteSet(d[f])
    BY <1>2, CallLines
  <2>3. PICK F \in Callers(v) :
          /\ F.name \in DOMAIN fctid /\ f = IdOf(F.name) /\ Callees(F) \subseteq DOMAIN fctid
          /\ ToSet(SetToSeq(d[f])) = {IdOf(h) : h \in Callees(F)}
          /\ IsFiniteSet(d[f])
    BY <2>2
  <2>4. PICK c, S : c = s[x].f_calls /\ S = d[f]
    OBVIOUS
  <2>5. c = SetToSeq(S) /\ s[x].f_id = f
    BY <2>1, <2>4, <1>6
  <2>6. c \in Seq(S)
    BY <2>3, <2>4, <2>5, SequenceOf
  <2>7. DOMAIN c = 1 .. Len(c)
    BY ONLY <2>6
  <2>8. \A y \in 1 .. Len(c) : c[y] \in ToSet(c)
    BY <2>7 DEF ToSet
  <2>9. \A y \in 1 .. Len(c) : \E n \in DOMAIN fctid : c[y] = IdOf(n)
    BY <2>3, <2>4, <2>5, <2>8
  <2> QED
    BY <2>3, <2>4, <2>5, <2>9
<1>9. CallsGood(s)
  BY <1>5, <1>7, <1>8 DEF CallsGood
<1> QED
  BY <1>2, <1>9

Listed(s) == {s[x] : x \in 1 .. Len(s)}
BlocksFit(l) ==
  LET bl == 0 .. l.num_block - 1
  IN bl # {} /\ \A t \in Listed(l.trans) : t.b_id \in bl /\ Listed(t.b_succ) \subseteq bl
LEMMA RowsFit ==
  ASSUME Source \in Builds, NEW v \in Units, NEW F \in WithBlocks(v),
         NEW l, l.num_block = Len(F.blocks), l.trans = RowTable(BlockLines(F))
  PROVE  BlocksFit(l)
<1>1. /\ Len(F.blocks) \in Nat \ {0}
      /\ \A b \in BlocksOf(F) : ToSet(SuccessorsOf(F, b)) \subseteq BlocksOf(F)
  BY FunctionBlocks
<1>2. PICK s : s = l.trans /\ s = RowTable(BlockLines(F))
  OBVIOUS
<1>3. /\ DOMAIN s = 1 .. Len(s)
      /\ \A t \in ToSet(s) :
           /\ t.b_id \in BlocksOf(F) /\ ToSet(t.b_succ) = ToSet(SuccessorsOf(F, t.b_id))
           /\ DOMAIN t.b_succ = 1 .. Len(t.b_succ)
  BY <1>2, RowsOf
<1>4. Listed(s) = ToSet(s)
  BY <1>3 DEF Listed, ToSet
<1>5. ASSUME NEW t \in Listed(s)
      PROVE  t.b_id \in BlocksOf(F) /\ Listed(t.b_succ) \subseteq BlocksOf(F)
  <2>1. /\ t.b_id \in BlocksOf(F) /\ ToSet(t.b_succ) \subseteq BlocksOf(F)
        /\ DOMAIN t.b_succ = 1 .. Len(t.b_succ)
    BY <1>1, <1>3, <1>4
  <2>2. Listed(t.b_succ) = ToSet(t.b_succ)
    BY <2>1 DEF Listed, ToSet
  <2> QED
    BY <2>1, <2>2
<1>6. 0 \in BlocksOf(F) /\ BlocksOf(F) = 0 .. l.num_block - 1
  BY <1>1 DEF BlocksOf
<1> QED
  BY <1>2, <1>5, <1>6 DEF BlocksFit

BlocksGood(s) ==
  /\ Len(s) \in Nat /\ DOMAIN s = 1 .. Len(s)
  /\ \A x, y \in 1 .. Len(s) : s[x].f_id = s[y].f_id => x = y
  /\ \A x \in 1 .. Len(s) : BlocksFit(s[x]) /\ \E n \in DOMAIN fctid : s[x].f_id = IdOf(n)
LEMMA BlocksAccepted ==
  ASSUME CompileInv, FilesInv, linked = "yes", harm = "none"
  PROVE  BlocksGood(image.bbs)
<1>1. IsFile(bbtrans) /\ image = Packed /\ Source \in Builds
  BY WhenLinked DEF Intact
<1>2. PICK s, d, D, g : /\ s = image.bbs /\ g = BlockEntries
                        /\ d = Dict(bbtrans) /\ D = DOMAIN d
  OBVIOUS
<1>3. IsFiniteSet(D)
  BY <1>1, <1>2, DictFinite
<1>4. s = SetToSeq({g[f] : f \in D})
  BY <1>1, <1>2, BlockTable
<1>5. Len(s) \in Nat /\ DOMAIN s = 1 .. Len(s) /\ ToSet(s) = {g[f] : f \in D}
  BY <1>3, <1>4, TableOf
<1>6. \A x, y \in 1 .. Len(s) : s[x] = s[y] => x = y
  BY <1>3, <1>4, TableOf
<1>7. \A x \in 1 .. Len(s) : \E f \in D : s[x] = g[f]
  <2>1. \A x \in 1 .. Len(s) : s[x] \in ToSet(s)
    BY <1>5 DEF ToSet
  <2> QED
    BY <2>1, <1>5
<1>8. \A f \in D : /\ g[f].f_id = f /\ g[f].num_block = d[f].num_block
                   /\ g[f].trans = RowTable(d[f].rows)
  BY <1>2 DEF BlockEntries
<1>9. \A x, y \in 1 .. Len(s) : s[x].f_id = s[y].f_id => x = y
  <2> TAKE x, y \in 1 .. Len(s)
  <2>1. PICK f \in D : s[x] = g[f]
    BY <1>7
  <2>2. PICK h \in D : s[y] = g[h]
    BY <1>7
  <2> QED
    BY <2>1, <2>2, <1>6, <1>8
<1>10. ASSUME NEW x \in 1 .. Len(s)
       PROVE  BlocksFit(s[x]) /\ \E n \in DOMAIN fctid : s[x].f_id = IdOf(n)
  <2>1. PICK f \in D : s[x] = g[f]
    BY <1>7
  <2>2. PICK v \in Units : \E F \in WithBlocks(v) :
          /\ F.name \in DOMAIN fctid /\ f = IdOf(F.name)
          /\ d[f] = [num_block |-> Len(F.blocks), rows |-> BlockLines(F)]
    BY <1>2, BlockRows
  <2>3. PICK F \in WithBlocks(v) :
          /\ F.name \in DOMAIN fctid /\ f = IdOf(F.name)
          /\ d[f] = [num_block |-> Len(F.blocks), rows |-> BlockLines(F)]
    BY <2>2
  <2>4. d[f].num_block = Len(F.blocks) /\ d[f].rows = BlockLines(F)
    BY <2>3
  <2>5. PICK l : l = s[x]
    OBVIOUS
  <2>6. l.f_id = f /\ l.num_block = Len(F.blocks) /\ l.trans = RowTable(BlockLines(F))
    BY <2>1, <2>4, <2>5, <1>8
  <2>7. BlocksFit(l)
    BY <2>6, <1>1, RowsFit
  <2> QED
    BY <2>3, <2>5, <2>6, <2>7
<1>11. BlocksGood(s)
  BY <1>5, <1>9, <1>10 DEF BlocksGood
<1> QED
  BY <1>2, <1>11

IpdsGood(im) ==
  \A e \in Listed(im.ipds) : \E x \in 1 .. Len(im.bbs) :
    e.f_id = im.bbs[x].f_id /\ e.b_id < im.bbs[x].num_block
LEMMA IpdsAccepted ==
  ASSUME CompileInv, FilesInv, KeptInv, linked = "yes", harm = "none", bbtrans # <<>>
  PROVE  IpdsGood(image)
<1>1. Intact /\ level
  BY DEF Intact, FilesInv, FilesTyped
<1>2. Source \in Builds
  BY <1>1, WhenLinked
<1>3. PICK s, t : s = image.ipds /\ t = image.bbs
  OBVIOUS
<1>4. /\ DOMAIN s = 1 .. Len(s)
      /\ \A e \in ToSet(s) : \E v \in Units : \E F \in WithBlocks(v) :
           e.f_id = IdOf(F.name) /\ e.b_id \in BlocksOf(F)
  BY <1>1, <1>3, IpdRows
<1>5. DOMAIN t = 1 .. Len(t)
  BY <1>3, BlocksAccepted DEF BlocksGood
<1>6. Listed(s) = ToSet(s)
  BY <1>4 DEF Listed, ToSet
<1>7. ASSUME NEW e \in Listed(s)
      PROVE  \E x \in 1 .. Len(t) : e.f_id = t[x].f_id /\ e.b_id < t[x].num_block
  <2>1. PICK v \in Units : \E F \in WithBlocks(v) : e.f_id = IdOf(F.name) /\ e.b_id \in BlocksOf(F)
    BY <1>4, <1>6
  <2>2. PICK F \in WithBlocks(v) : e.f_id = IdOf(F.name) /\ e.b_id \in BlocksOf(F)
    BY <2>1
  <2>3. PICK l \in ToSet(t) : l.f_id = IdOf(F.name) /\ l.num_block = Len(F.blocks)
    BY <1>1, <1>3, BlocksPresent
  <2>4. PICK x \in 1 .. Len(t) : l = t[x]
    BY <2>3, <1>5 DEF ToSet
  <2>5. e.b_id < Len(F.blocks)
    <3>1. Len(F.blocks) \in Nat
      BY <1>2, FunctionBlocks
    <3> QED
      BY <3>1, <2>2 DEF BlocksOf
  <2> QED
    BY <2>2, <2>3, <2>4, <2>5
<1> QED
  BY <1>3, <1>7 DEF IpdsGood

(* The tables of a build that was not disturbed are well formed, so that   *)
(* monitor_load accepts them; and picon-prelink gives up only after a unit *)
(* was compiled again.  The module must have a function.                   *)
THEOREM AcceptTheorem ==
  ASSUME OneDefinition, SomeFunction
  PROVE  Spec => []LoaderAccepts
<1>1. ASSUME CompileInv, FilesInv, KeptInv, linked = "yes", harm = "none"
      PROVE  WellFormed(image)
  <2>1. PICK im : im = image
    OBVIOUS
  <2> DEFINE ids_of == {im.fcts[x].f_id : x \in 1 .. Len(im.fcts)}
             callers == [x \in 1 .. Len(im.trans) |-> im.trans[x].f_id]
             owners == [x \in 1 .. Len(im.bbs) |-> im.bbs[x].f_id]
             Distinct(s) == \A x, y \in 1 .. Len(s) : s[x] = s[y] => x = y
             Elements(s) == {s[x] : x \in 1 .. Len(s)}
  <2>2. FctsGood(im.fcts)
    BY <1>1, <2>1, SomeFunction, FctsAccepted DEF Intact
  <2>3. CallsGood(im.trans)
    BY <1>1, <2>1, CallsAccepted
  <2>4. BlocksGood(im.bbs)
    BY <1>1, <2>1, BlocksAccepted
  <2>5. im.granularity_bb => IpdsGood(im)
    <3>1. im.granularity_bb => bbtrans # <<>>
      <4>1. im = Packed
        BY <1>1, <2>1 DEF FilesInv, LinkedInv
      <4>2. Packed.granularity_bb = (bbtrans # <<>>)
        BY DEF Packed
      <4> QED
        BY <4>1, <4>2
    <3> QED
      BY <1>1, <2>1, <3>1, IpdsAccepted
  <2>6. /\ im.fcts # <<>> /\ ids_of = 0 .. Len(im.fcts) - 1
        /\ \A n \in DOMAIN fctid : IdOf(n) \in ids_of
    BY <2>2 DEF FctsGood
  <2>7. Distinct(callers) /\ Elements(callers) \subseteq ids_of
    <3>1. /\ Len(im.trans) \in Nat
          /\ \A x, y \in 1 .. Len(im.trans) : im.trans[x].f_id = im.trans[y].f_id => x = y
          /\ \A x \in 1 .. Len(im.trans) : im.trans[x].f_id \in ids_of
      <4> HIDE DEF ids_of
      <4> QED
        BY <2>3, <2>6 DEF CallsGood
    <3>2. Len(callers) = Len(im.trans) /\ \A x \in 1 .. Len(im.trans) : callers[x] = im.trans[x].f_id
      BY <3>1
    <3> HIDE DEF callers, ids_of
    <3> QED
      BY <3>1, <3>2
  <2>8. \A x \in 1 .. Len(im.trans) : Elements(im.trans[x].f_calls) \subseteq ids_of
    <3> HIDE DEF ids_of
    <3> QED
      BY <2>3, <2>6 DEF CallsGood
  <2>9. Distinct(owners) /\ Elements(owners) \subseteq ids_of
    <3>1. /\ Len(im.bbs) \in Nat
          /\ \A x, y \in 1 .. Len(im.bbs) : im.bbs[x].f_id = im.bbs[y].f_id => x = y
          /\ \A x \in 1 .. Len(im.bbs) : im.bbs[x].f_id \in ids_of
      <4> HIDE DEF ids_of
      <4> QED
        BY <2>4, <2>6 DEF BlocksGood
    <3>2. Len(owners) = Len(im.bbs) /\ \A x \in 1 .. Len(im.bbs) : owners[x] = im.bbs[x].f_id
      BY <3>1
    <3> HIDE DEF owners, ids_of
    <3> QED
      BY <3>1, <3>2
  <2>10. \A x \in 1 .. Len(im.bbs) :
           LET bl == 0 .. im.bbs[x].num_block - 1
           IN /\ bl # {}
              /\ \A t \in Elements(im.bbs[x].trans) :
                   t.b_id \in bl /\ Elements(t.b_succ) \subseteq bl
    BY <2>4 DEF BlocksGood, BlocksFit, Listed
  <2>11. im.granularity_bb => \A e \in Elements(im.ipds) : \E x \in 1 .. Len(im.bbs) :
           e.f_id = im.bbs[x].f_id /\ e.b_id < im.bbs[x].num_block
    BY <2>5 DEF IpdsGood, Listed
  <2>12. WellFormed(im)
    BY ONLY <2>6, <2>7, <2>8, <2>9, <2>10, <2>11 DEF WellFormed
  <2> QED
    BY <2>1, <2>12
<1>2. ASSUME FilesInv, KeptInv, linked = "exit255" PROVE repeats > 0
  BY <1>2 DEF FilesInv, FilesTyped, LinkedInv, KeptInv
<1>3. CompileInv /\ FilesInv /\ KeptInv => LoaderAccepts
  BY <1>1, <1>2 DEF LoaderAccepts
<1> QED
  BY <1>3, CompileInvariant, FilesInvariant, KeptInvariant, PTL
=============================================================================
