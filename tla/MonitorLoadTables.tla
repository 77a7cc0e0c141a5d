-------------------------- MODULE MonitorLoadTables ---------------------------
(***************************************************************************)
(* Facts about the packets of a module and about the tables monitor_load   *)
(* makes of them, for every program: which packet comes where, and what    *)
(* each entry of a section changes in module_data and function_data.       *)
(***************************************************************************)
EXTENDS MonitorLoad, FiniteSetTheorems, FunctionTheorems, SequenceTheorems, TLAPS

(* What the tables are made of.  A table whose count is 0 may be NULL.     *)
NoTable(n) == IF n = 0 THEN {NULL} ELSE {}
Rows(n) == {NULL} \cup SUBSET (0 .. n - 1)
Counts == Nat
FunctionOf(n) ==
  [name : STRING \cup {NULL}, flags : T!Flags, nb_blocks : {n},
   control_flow_graph : NoTable(n) \cup [0 .. n - 1 -> Rows(n)],
   immediate_post_dominator : NoTable(n) \cup [0 .. n - 1 -> Nat]]
Function == UNION {FunctionOf(n) : n \in Counts}
Place == [module : Nat, function : Nat]
ModuleOf(n) ==
  [nb_functions : {n}, nb_entrypoint_inits : Nat, nb_entrypoint_finis : Nat,
   call_graph : NoTable(n) \cup [0 .. n - 1 -> Rows(n)],
   relocations : NoTable(n) \cup [0 .. n - 1 -> Place],
   functions : NoTable(n) \cup [0 .. n - 1 -> Function]]
Module == UNION {ModuleOf(n) : n \in Counts}

(* What travels through the pipe. *)
Values == Seq(FctEntry) \cup Seq(TransEntry) \cup BbTable \cup Seq(IpdEntry)
Events ==
  {"BEGIN", "FUNCTION_ID", "FUNCTION_TRANSITION", "BLOCK_TRANSITION", "BLOCK_IPD",
   "END", "TERMINATED"}
Wire == [event : Events, value : Values, lacks : {"nothing", "size", "value"}]

(* Where END is among the packets of a module. *)
EndAt(im) == IF im.granularity_bb THEN Len(im.bbs) + 5 ELSE 4

(* A packet but for what of it can be read. *)
Same(p, q) == p.event = q.event /\ p.value = q.value
-----------------------------------------------------------------------------
(* Short sequences. *)
LEMMA ShortSeqs ==
  ASSUME NEW S, NEW a \in S, NEW b \in S
  PROVE  /\ <<a>> \in Seq(S) /\ Len(<<a>>) = 1 /\ <<a>>[1] = a
         /\ <<a, b>> \in Seq(S) /\ Len(<<a, b>>) = 2
         /\ <<a, b>>[1] = a /\ <<a, b>>[2] = b
  OBVIOUS

LEMMA Concat ==
  ASSUME NEW S, NEW s \in Seq(S), NEW t \in Seq(S)
  PROVE  /\ s \o t \in Seq(S) /\ Len(s \o t) = Len(s) + Len(t)
         /\ Len(s) \in Nat /\ Len(t) \in Nat
         /\ \A x \in 1 .. Len(s) : (s \o t)[x] = s[x]
         /\ \A x \in Len(s) + 1 .. Len(s) + Len(t) : (s \o t)[x] = t[x - Len(s)]
<1>1. Len(s) \in Nat /\ Len(t) \in Nat
  BY LenProperties
<1> QED
  BY <1>1, ConcatProperties

(* The program and its packets. *)
LEMMA ImageFacts ==
  ASSUME NEW p \in Programs
  PROVE  /\ Len(p) \in Nat \ {0}
         /\ \A k \in 1 .. Len(p) :
              /\ p[k].fcts \in Seq(FctEntry) /\ p[k].trans \in Seq(TransEntry)
              /\ p[k].granularity_bb \in BOOLEAN
              /\ p[k].bbs \in Seq(BbTable) /\ p[k].ipds \in Seq(IpdEntry)
              /\ HasMain(p[k]) <=> k = Len(p)
  BY ImageAssumption

LEMMA SectionsFacts ==
  ASSUME NEW im, im.fcts \in Seq(FctEntry), im.trans \in Seq(TransEntry),
         im.granularity_bb \in BOOLEAN, im.bbs \in Seq(BbTable), im.ipds \in Seq(IpdEntry)
  PROVE  /\ Sections(im) \in Seq(Wire) /\ Len(Sections(im)) = EndAt(im) - 2
         /\ Sections(im)[1] = Section(im, "FUNCTION_ID", im.fcts)
         /\ Sections(im)[2] = Section(im, "FUNCTION_TRANSITION", im.trans)
         /\ \A x \in 3 .. EndAt(im) - 2 :
              /\ im.granularity_bb
              /\ \/ /\ x - 2 \in 1 .. Len(im.bbs)
                    /\ Sections(im)[x] = Section(im, "BLOCK_TRANSITION", im.bbs[x - 2])
                 \/ /\ x - 2 = Len(im.bbs) + 1
                    /\ Sections(im)[x] = Section(im, "BLOCK_IPD", im.ipds)
<1>1. \A e \in Events, v \in Values : Section(im, e, v) \in Wire
  BY DEF Section, Wire
<1>0. {"FUNCTION_ID", "FUNCTION_TRANSITION", "BLOCK_TRANSITION", "BLOCK_IPD"} \subseteq Events
  BY DEF Events
<1> DEFINE A == <<Section(im, "FUNCTION_ID", im.fcts),
                  Section(im, "FUNCTION_TRANSITION", im.trans)>>
           B == [x \in 1 .. Len(im.bbs) |-> Section(im, "BLOCK_TRANSITION", im.bbs[x])]
           C == <<Section(im, "BLOCK_IPD", im.ipds)>>
<1>2. im.fcts \in Values /\ im.trans \in Values /\ im.ipds \in Values
      /\ \A x \in 1 .. Len(im.bbs) : im.bbs[x] \in Values /\ im.bbs[x] \in BbTable
  BY DEF Values
<1>3. A \in Seq(Wire) /\ Len(A) = 2 /\ A[1] = Section(im, "FUNCTION_ID", im.fcts)
      /\ A[2] = Section(im, "FUNCTION_TRANSITION", im.trans)
  <2>1. Section(im, "FUNCTION_ID", im.fcts) \in Wire
        /\ Section(im, "FUNCTION_TRANSITION", im.trans) \in Wire
    BY <1>0, <1>1, <1>2
  <2> QED
    BY <2>1, ShortSeqs
<1>4. C \in Seq(Wire) /\ Len(C) = 1 /\ C[1] = Section(im, "BLOCK_IPD", im.ipds)
  <2>1. Section(im, "BLOCK_IPD", im.ipds) \in Wire
    BY <1>0, <1>1, <1>2
  <2> QED
    BY <2>1, ShortSeqs
<1>5. Len(im.bbs) \in Nat
  OBVIOUS
<1>6. /\ B \in Seq(Wire) /\ Len(B) = Len(im.bbs)
      /\ \A x \in 1 .. Len(B) : B[x] = Section(im, "BLOCK_TRANSITION", im.bbs[x])
  <2>1. B \in [1 .. Len(im.bbs) -> Wire]
    BY <1>0, <1>1, <1>2
  <2>2. B \in Seq(Wire) /\ Len(B) = Len(im.bbs)
    BY <2>1, <1>5, SeqDef
  <2> QED
    BY <2>2, <1>2
<1>7. Sections(im) = A \o (IF im.granularity_bb THEN B \o C ELSE <<>>)
  BY DEF Sections
<1> HIDE DEF A, B, C
<1>8. CASE im.granularity_bb
  <2> DEFINE BC == B \o C
             n == Len(im.bbs)
  <2>1. /\ BC \in Seq(Wire) /\ Len(BC) = n + 1 /\ BC[n + 1] = C[1]
        /\ \A x \in 1 .. n : BC[x] = B[x]
    <3>1. /\ BC \in Seq(Wire) /\ Len(BC) = n + 1
          /\ \A x \in 1 .. n : BC[x] = B[x]
          /\ \A x \in n + 1 .. n + 1 : BC[x] = C[x - n]
      <4>1. /\ BC \in Seq(Wire) /\ Len(BC) = Len(B) + Len(C)
            /\ \A x \in 1 .. Len(B) : BC[x] = B[x]
            /\ \A x \in Len(B) + 1 .. Len(B) + Len(C) : BC[x] = C[x - Len(B)]
        <5>1. B \in Seq(Wire) /\ C \in Seq(Wire)
          BY <1>4, <1>6
        <5> QED
          BY <5>1, Concat
      <4> QED
        BY <4>1, <1>4, <1>6
    <3>2. n + 1 \in n + 1 .. n + 1 /\ (n + 1) - n = 1
      BY <1>5
    <3> QED
      BY <3>1, <3>2
  <2>2. Sections(im) = A \o BC
    BY <1>7, <1>8
  <2> HIDE DEF BC
  <2>3. /\ Sections(im) \in Seq(Wire) /\ Len(Sections(im)) = n + 3
        /\ \A x \in 1 .. 2 : Sections(im)[x] = A[x]
        /\ \A x \in 3 .. n + 3 : Sections(im)[x] = BC[x - 2]
    <3>1. /\ A \o BC \in Seq(Wire) /\ Len(A \o BC) = 2 + (n + 1)
          /\ \A x \in 1 .. 2 : (A \o BC)[x] = A[x]
          /\ \A x \in 2 + 1 .. 2 + (n + 1) : (A \o BC)[x] = BC[x - 2]
      <4>1. /\ A \o BC \in Seq(Wire) /\ Len(A \o BC) = Len(A) + Len(BC)
            /\ \A x \in 1 .. Len(A) : (A \o BC)[x] = A[x]
            /\ \A x \in Len(A) + 1 .. Len(A) + Len(BC) : (A \o BC)[x] = BC[x - Len(A)]
        BY <1>3, <2>1, Concat
      <4> QED
        BY <4>1, <1>3, <2>1
    <3> QED
      BY <3>1, <2>2, <1>5
  <2>4. \A x \in 3 .. n + 3 :
          \/ /\ x - 2 \in 1 .. n
             /\ Sections(im)[x] = Section(im, "BLOCK_TRANSITION", im.bbs[x - 2])
          \/ /\ x - 2 = n + 1
             /\ Sections(im)[x] = Section(im, "BLOCK_IPD", im.ipds)
    <3> TAKE x \in 3 .. n + 3
    <3>1. x - 2 \in 1 .. n \/ x - 2 = n + 1
      BY <1>5
    <3>2. Sections(im)[x] = BC[x - 2]
      BY <2>3
    <3>3. CASE x - 2 \in 1 .. n
      BY <3>2, <3>3, <2>1, <1>6
    <3>4. CASE x - 2 = n + 1
      BY <3>2, <3>4, <2>1, <1>4
    <3> QED
      BY <3>1, <3>3, <3>4
  <2>5. EndAt(im) - 2 = n + 3
    BY <1>5, <1>8 DEF EndAt
  <2> QED
    BY <2>3, <2>4, <2>5, <1>3, <1>8
<1>9. CASE ~im.granularity_bb
  <2>1. Sections(im) = A \o <<>>
    BY <1>7, <1>9
  <2>2. Sections(im) = A
    BY <2>1, <1>3, ConcatEmptySeq
  <2>3. EndAt(im) - 2 = 2
    BY <1>9 DEF EndAt
  <2> QED
    BY <2>2, <2>3, <1>3
<1> QED
  BY <1>8, <1>9

LEMMA PacketFacts ==
  ASSUME NEW p \in Programs, NEW k \in 1 .. Len(p)
  PROVE  /\ Packets(p[k]) \in Seq(Wire)
         /\ EndAt(p[k]) \in Nat /\ EndAt(p[k]) >= 4
         /\ Len(Packets(p[k])) = IF k = Len(p) THEN EndAt(p[k]) + 1 ELSE EndAt(p[k])
         /\ Packets(p[k])[1] = Marker("BEGIN")
         /\ Packets(p[k])[2] = Section(p[k], "FUNCTION_ID", p[k].fcts)
         /\ Packets(p[k])[3] = Section(p[k], "FUNCTION_TRANSITION", p[k].trans)
         /\ \A x \in 4 .. EndAt(p[k]) - 1 :
              /\ p[k].granularity_bb
              /\ \/ /\ x - 3 \in 1 .. Len(p[k].bbs)
                    /\ Packets(p[k])[x] = Section(p[k], "BLOCK_TRANSITION", p[k].bbs[x - 3])
                 \/ /\ x - 3 = Len(p[k].bbs) + 1
                    /\ Packets(p[k])[x] = Section(p[k], "BLOCK_IPD", p[k].ipds)
         /\ Packets(p[k])[EndAt(p[k])] = Marker("END")
         /\ k = Len(p) => Packets(p[k])[EndAt(p[k]) + 1] = Marker("TERMINATED")
<1> DEFINE im == p[k]
           S == Sections(im)
           A == <<Marker("BEGIN")>>
           C == <<Marker("END")>>
           D == IF HasMain(im) THEN <<Marker("TERMINATED")>> ELSE <<>>
<1>1. /\ im.fcts \in Seq(FctEntry) /\ im.trans \in Seq(TransEntry)
      /\ im.granularity_bb \in BOOLEAN
      /\ im.bbs \in Seq(BbTable) /\ im.ipds \in Seq(IpdEntry)
      /\ HasMain(im) <=> k = Len(p)
  BY ImageFacts
<1> HIDE DEF im
<1>2. /\ S \in Seq(Wire) /\ Len(S) = EndAt(im) - 2
      /\ S[1] = Section(im, "FUNCTION_ID", im.fcts)
      /\ S[2] = Section(im, "FUNCTION_TRANSITION", im.trans)
      /\ \A x \in 3 .. EndAt(im) - 2 :
           /\ im.granularity_bb
           /\ \/ /\ x - 2 \in 1 .. Len(im.bbs)
                 /\ S[x] = Section(im, "BLOCK_TRANSITION", im.bbs[x - 2])
              \/ /\ x - 2 = Len(im.bbs) + 1
                 /\ S[x] = Section(im, "BLOCK_IPD", im.ipds)
  BY <1>1, SectionsFacts
<1>3. EndAt(im) \in Nat /\ EndAt(im) >= 4
  BY <1>1 DEF EndAt
<1>4. Marker("BEGIN") \in Wire /\ Marker("END") \in Wire /\ Marker("TERMINATED") \in Wire
  BY EmptySeq DEF Marker, Wire, Values, Events
<1>5. A \in Seq(Wire) /\ Len(A) = 1 /\ A[1] = Marker("BEGIN")
  BY <1>4, ShortSeqs
<1>6. C \in Seq(Wire) /\ Len(C) = 1 /\ C[1] = Marker("END")
  BY <1>4, ShortSeqs
<1>7. D \in Seq(Wire) /\ Len(D) = IF k = Len(p) THEN 1 ELSE 0
  <2>1. Marker("TERMINATED") \in Wire
    BY <1>4
  <2>2. CASE k = Len(p)
    BY <2>1, <2>2, <1>1, ShortSeqs
  <2>3. CASE k # Len(p)
    BY <2>3, <1>1, EmptySeq
  <2> QED
    BY <2>2, <2>3
<1>8. k = Len(p) => D[1] = Marker("TERMINATED")
  BY <1>1
<1>9. Packets(im) = A \o S \o C \o D
  BY DEF Packets
<1> HIDE DEF A, C, D, S
<1> DEFINE AS == A \o S
              ASC == AS \o C
<1>11. /\ AS \in Seq(Wire) /\ Len(AS) = EndAt(im) - 1 /\ AS[1] = A[1]
       /\ \A x \in 2 .. EndAt(im) - 1 : AS[x] = S[x - 1]
  <2>1. /\ AS \in Seq(Wire) /\ Len(AS) = 1 + (EndAt(im) - 2)
        /\ \A x \in 1 .. 1 : AS[x] = A[x]
        /\ \A x \in 1 + 1 .. 1 + (EndAt(im) - 2) : AS[x] = S[x - 1]
    <3>1. /\ S \in Seq(Wire) /\ Len(S) = EndAt(im) - 2
          /\ A \in Seq(Wire) /\ Len(A) = 1
      BY <1>2, <1>5
    <3> QED
      BY ONLY <3>1, Concat
  <2> QED
    BY <2>1, <1>3
<1> HIDE DEF AS
<1>12. /\ ASC \in Seq(Wire) /\ Len(ASC) = EndAt(im) /\ ASC[EndAt(im)] = C[1]
       /\ \A x \in 1 .. EndAt(im) - 1 : ASC[x] = AS[x]
  <2>1. /\ ASC \in Seq(Wire) /\ Len(ASC) = (EndAt(im) - 1) + 1
        /\ \A x \in 1 .. EndAt(im) - 1 : ASC[x] = AS[x]
        /\ \A x \in (EndAt(im) - 1) + 1 .. (EndAt(im) - 1) + 1 : ASC[x] = C[x - (EndAt(im) - 1)]
    <3>1. /\ ASC \in Seq(Wire) /\ Len(ASC) = Len(AS) + Len(C)
          /\ \A x \in 1 .. Len(AS) : ASC[x] = AS[x]
          /\ \A x \in Len(AS) + 1 .. Len(AS) + Len(C) : ASC[x] = C[x - Len(AS)]
      BY <1>11, <1>6, Concat
    <3> QED
      BY <3>1, <1>11, <1>6
  <2>2. EndAt(im) \in (EndAt(im) - 1) + 1 .. (EndAt(im) - 1) + 1
        /\ EndAt(im) - (EndAt(im) - 1) = 1 /\ (EndAt(im) - 1) + 1 = EndAt(im)
    BY <1>3
  <2> QED
    BY <2>1, <2>2
<1>13. Packets(im) = ASC \o D
  BY <1>9 DEF AS
<1> HIDE DEF ASC
<1>14. /\ Packets(im) \in Seq(Wire) /\ Len(Packets(im)) = EndAt(im) + Len(D)
       /\ \A x \in 1 .. EndAt(im) : Packets(im)[x] = ASC[x]
       /\ k = Len(p) => Packets(im)[EndAt(im) + 1] = D[1]
  <2>1. /\ ASC \o D \in Seq(Wire) /\ Len(ASC \o D) = EndAt(im) + Len(D)
        /\ \A x \in 1 .. EndAt(im) : (ASC \o D)[x] = ASC[x]
        /\ \A x \in EndAt(im) + 1 .. EndAt(im) + Len(D) : (ASC \o D)[x] = D[x - EndAt(im)]
    <3>1. /\ ASC \o D \in Seq(Wire) /\ Len(ASC \o D) = Len(ASC) + Len(D)
          /\ \A x \in 1 .. Len(ASC) : (ASC \o D)[x] = ASC[x]
          /\ \A x \in Len(ASC) + 1 .. Len(ASC) + Len(D) : (ASC \o D)[x] = D[x - Len(ASC)]
      BY <1>12, <1>7, Concat
    <3> QED
      BY <3>1, <1>12
  <2>2. k = Len(p) => EndAt(im) + 1 \in EndAt(im) + 1 .. EndAt(im) + Len(D)
                      /\ (EndAt(im) + 1) - EndAt(im) = 1
    BY <1>3, <1>7
  <2> QED
    BY <2>1, <2>2, <1>13
<1>15. \A x \in 2 .. EndAt(im) - 1 : Packets(im)[x] = S[x - 1]
  BY <1>14, <1>12, <1>11, <1>3
<1>16. Packets(im)[1] = A[1] /\ Packets(im)[EndAt(im)] = C[1]
  BY <1>14, <1>12, <1>11, <1>3
<1>17. \A x \in 4 .. EndAt(im) - 1 :
         /\ im.granularity_bb
         /\ \/ /\ x - 3 \in 1 .. Len(im.bbs)
               /\ Packets(im)[x] = Section(im, "BLOCK_TRANSITION", im.bbs[x - 3])
            \/ /\ x - 3 = Len(im.bbs) + 1
               /\ Packets(im)[x] = Section(im, "BLOCK_IPD", im.ipds)
  <2> TAKE x \in 4 .. EndAt(im) - 1
  <2>1. /\ x - 1 \in 3 .. EndAt(im) - 2 /\ Packets(im)[x] = S[x - 1]
        /\ (x - 1) - 2 = x - 3
    BY <1>15, <1>3
  <2> QED
    BY <2>1, <1>2
<1>18. Packets(im)[2] = S[1] /\ Packets(im)[3] = S[2]
  BY <1>15, <1>3
<1>19. Len(Packets(im)) = IF k = Len(p) THEN EndAt(im) + 1 ELSE EndAt(im)
  BY <1>14, <1>7, <1>3
<1> QED
  BY <1>2, <1>3, <1>5, <1>6, <1>8, <1>14, <1>16, <1>17, <1>18, <1>19 DEF im
-----------------------------------------------------------------------------
(* The tables. *)
LEMMA FunctionFacts ==
  ASSUME NEW g \in Function
  PROVE  /\ g.nb_blocks \in Nat /\ g \in FunctionOf(g.nb_blocks)
         /\ g = [name |-> g.name, flags |-> g.flags, nb_blocks |-> g.nb_blocks,
                 control_flow_graph |-> g.control_flow_graph,
                 immediate_post_dominator |-> g.immediate_post_dominator]
         /\ g.name \in STRING \cup {NULL} /\ g.flags \in T!Flags
         /\ g.nb_blocks # 0 =>
              /\ g.control_flow_graph \in [0 .. g.nb_blocks - 1 -> Rows(g.nb_blocks)]
              /\ g.immediate_post_dominator \in [0 .. g.nb_blocks - 1 -> Nat]
<1>1. PICK n \in Nat : g \in FunctionOf(n)
  BY DEF Function, Counts
<1>2. g.nb_blocks = n
  BY <1>1 DEF FunctionOf
<1> QED
  BY <1>1, <1>2 DEF FunctionOf, NoTable

LEMMA FunctionMade ==
  ASSUME NEW nm \in STRING \cup {NULL}, NEW fl \in T!Flags, NEW n \in Nat,
         NEW c \in NoTable(n) \cup [0 .. n - 1 -> Rows(n)],
         NEW d \in NoTable(n) \cup [0 .. n - 1 -> Nat]
  PROVE  [name |-> nm, flags |-> fl, nb_blocks |-> n, control_flow_graph |-> c,
          immediate_post_dominator |-> d] \in Function
<1>1. [name |-> nm, flags |-> fl, nb_blocks |-> n, control_flow_graph |-> c,
       immediate_post_dominator |-> d] \in FunctionOf(n)
  BY DEF FunctionOf
<1> QED
  BY <1>1 DEF Function, Counts

(* Changing fields of a function's tables. *)
LEMMA FieldExcept ==
  ASSUME NEW nm, NEW fl, NEW n, NEW c, NEW d, NEW x, NEW g,
         g = [name |-> nm, flags |-> fl, nb_blocks |-> n, control_flow_graph |-> c,
              immediate_post_dominator |-> d]
  PROVE  /\ [g EXCEPT !.name = x] =
              [name |-> x, flags |-> fl, nb_blocks |-> n, control_flow_graph |-> c,
               immediate_post_dominator |-> d]
         /\ [g EXCEPT !.flags = x] =
              [name |-> nm, flags |-> x, nb_blocks |-> n, control_flow_graph |-> c,
               immediate_post_dominator |-> d]
         /\ [g EXCEPT !.nb_blocks = x] =
              [name |-> nm, flags |-> fl, nb_blocks |-> x, control_flow_graph |-> c,
               immediate_post_dominator |-> d]
         /\ [g EXCEPT !.control_flow_graph = x] =
              [name |-> nm, flags |-> fl, nb_blocks |-> n, control_flow_graph |-> x,
               immediate_post_dominator |-> d]
         /\ [g EXCEPT !.immediate_post_dominator = x] =
              [name |-> nm, flags |-> fl, nb_blocks |-> n, control_flow_graph |-> c,
               immediate_post_dominator |-> x]
<1>1. g \in [name : {nm}, flags : {fl}, nb_blocks : {n}, control_flow_graph : {c},
             immediate_post_dominator : {d}]
  OBVIOUS
<1> QED
  BY ONLY <1>1

LEMMA FunctionExcept ==
  ASSUME NEW g \in Function, NEW x
  PROVE  /\ [g EXCEPT !.control_flow_graph = x] =
              [name |-> g.name, flags |-> g.flags, nb_blocks |-> g.nb_blocks,
               control_flow_graph |-> x,
               immediate_post_dominator |-> g.immediate_post_dominator]
         /\ [g EXCEPT !.immediate_post_dominator = x] =
              [name |-> g.name, flags |-> g.flags, nb_blocks |-> g.nb_blocks,
               control_flow_graph |-> g.control_flow_graph, immediate_post_dominator |-> x]
         /\ [g EXCEPT !.name = x] =
              [name |-> x, flags |-> g.flags, nb_blocks |-> g.nb_blocks,
               control_flow_graph |-> g.control_flow_graph,
               immediate_post_dominator |-> g.immediate_post_dominator]
<1>1. PICK n : g \in FunctionOf(n)
  BY FunctionFacts
<1> QED
  BY <1>1 DEF FunctionOf

LEMMA NamedExcept ==
  ASSUME NEW g \in Function, NEW x, NEW y
  PROVE  [g EXCEPT !.name = x, !.flags = y] =
              [name |-> x, flags |-> y, nb_blocks |-> g.nb_blocks,
               control_flow_graph |-> g.control_flow_graph,
               immediate_post_dominator |-> g.immediate_post_dominator]
<1> DEFINE h == [g EXCEPT !.name = x]
<1>1. h = [name |-> x, flags |-> g.flags, nb_blocks |-> g.nb_blocks,
           control_flow_graph |-> g.control_flow_graph,
           immediate_post_dominator |-> g.immediate_post_dominator]
  BY FunctionExcept
<1>2. [g EXCEPT !.name = x, !.flags = y] = [h EXCEPT !.flags = y]
  OBVIOUS
<1> HIDE DEF h
<1> QED
  BY ONLY <1>1, <1>2, FieldExcept

LEMMA ModuleFacts ==
  ASSUME NEW d \in Module
  PROVE  /\ d.nb_functions \in Nat /\ d \in ModuleOf(d.nb_functions)
         /\ d.nb_entrypoint_inits \in Nat /\ d.nb_entrypoint_finis \in Nat
         /\ d = [nb_functions |-> d.nb_functions,
                 nb_entrypoint_inits |-> d.nb_entrypoint_inits,
                 nb_entrypoint_finis |-> d.nb_entrypoint_finis,
                 call_graph |-> d.call_graph, relocations |-> d.relocations,
                 functions |-> d.functions]
         /\ d.nb_functions # 0 =>
              /\ d.call_graph \in [0 .. d.nb_functions - 1 -> Rows(d.nb_functions)]
              /\ d.relocations \in [0 .. d.nb_functions - 1 -> Place]
              /\ d.functions \in [0 .. d.nb_functions - 1 -> Function]
<1>1. PICK n \in Nat : d \in ModuleOf(n)
  BY DEF Module, Counts
<1>2. d.nb_functions = n
  BY <1>1 DEF ModuleOf
<1> QED
  BY <1>1, <1>2 DEF ModuleOf, NoTable

LEMMA ModuleMade ==
  ASSUME NEW n \in Nat, NEW a \in Nat, NEW b \in Nat,
         NEW c \in NoTable(n) \cup [0 .. n - 1 -> Rows(n)],
         NEW r \in NoTable(n) \cup [0 .. n - 1 -> Place],
         NEW f \in NoTable(n) \cup [0 .. n - 1 -> Function]
  PROVE  [nb_functions |-> n, nb_entrypoint_inits |-> a, nb_entrypoint_finis |-> b,
          call_graph |-> c, relocations |-> r, functions |-> f] \in Module
<1>1. [nb_functions |-> n, nb_entrypoint_inits |-> a, nb_entrypoint_finis |-> b,
       call_graph |-> c, relocations |-> r, functions |-> f] \in ModuleOf(n)
  BY DEF ModuleOf
<1> QED
  BY <1>1 DEF Module, Counts

LEMMA ModuleMadeWhole ==
  ASSUME NEW n \in Nat, NEW a \in Nat, NEW b \in Nat,
         NEW c \in [0 .. n - 1 -> Rows(n)], NEW r \in [0 .. n - 1 -> Place],
         NEW f \in [0 .. n - 1 -> Function], NEW e,
         e = [nb_functions |-> n, nb_entrypoint_inits |-> a, nb_entrypoint_finis |-> b,
              call_graph |-> c, relocations |-> r, functions |-> f]
  PROVE  /\ e \in Module
         /\ e.nb_functions = n /\ e.nb_entrypoint_inits = a
         /\ e.call_graph = c /\ e.relocations = r /\ e.functions = f
  BY ModuleMade

LEMMA NewTables == NewModule \in Module /\ NoFunction \in Function
<1>1. NULL \in NoTable(0)
  BY DEF NoTable
<1>2. NewModule \in Module
  BY <1>1, ModuleMade DEF NewModule
<1>3. NoFunction \in Function
  BY <1>1, FunctionMade DEF NoFunction, T!Flags
<1> QED
  BY <1>2, <1>3

(* What most steps leave alone in a module's tables, and in its functions. *)
Keeps(d, e) ==
  /\ e \in Module /\ e.nb_functions = d.nb_functions /\ e.relocations = d.relocations
KeepsFunctions(d, e) ==
  /\ e.nb_entrypoint_inits = d.nb_entrypoint_inits
  /\ \A f \in 0 .. d.nb_functions - 1 :
       e.functions[f].name = d.functions[f].name /\ e.functions[f].flags = d.functions[f].flags

(* The tables of one function, one row of it, or all of them, are set. *)
Puts(d, e, f, g) ==
  /\ e.call_graph = d.call_graph /\ e.functions[f] = g
  /\ \A h \in 0 .. d.nb_functions - 1 : h # f => e.functions[h] = d.functions[h]
PutsRow(g, h, b, x) ==
  /\ h.nb_blocks = g.nb_blocks /\ h.control_flow_graph[b] = x
  /\ \A a \in 0 .. g.nb_blocks - 1 :
       a # b => h.control_flow_graph[a] = g.control_flow_graph[a]
Emptied(g, n) ==
  g.nb_blocks = n /\ \A b \in 0 .. n - 1 : g.control_flow_graph[b] = NULL

(* Changing one field of a module's tables. *)
LEMMA ModuleExcept ==
  ASSUME NEW d \in Module, NEW x
  PROVE  /\ [d EXCEPT !.functions = x] =
              [nb_functions |-> d.nb_functions, nb_entrypoint_inits |-> d.nb_entrypoint_inits,
               nb_entrypoint_finis |-> d.nb_entrypoint_finis, call_graph |-> d.call_graph,
               relocations |-> d.relocations, functions |-> x]
         /\ [d EXCEPT !.call_graph = x] =
              [nb_functions |-> d.nb_functions, nb_entrypoint_inits |-> d.nb_entrypoint_inits,
               nb_entrypoint_finis |-> d.nb_entrypoint_finis, call_graph |-> x,
               relocations |-> d.relocations, functions |-> d.functions]
         /\ [d EXCEPT !.relocations = x] =
              [nb_functions |-> d.nb_functions, nb_entrypoint_inits |-> d.nb_entrypoint_inits,
               nb_entrypoint_finis |-> d.nb_entrypoint_finis, call_graph |-> d.call_graph,
               relocations |-> x, functions |-> d.functions]
<1>1. PICK n : d \in ModuleOf(n)
  BY ModuleFacts
<1> QED
  BY <1>1 DEF ModuleOf

(* Changing the entry of one function. *)
LEMMA PutFunction ==
  ASSUME NEW d \in Module, NEW f \in 0 .. d.nb_functions - 1, NEW g \in Function,
         NEW e, e = [d EXCEPT !.functions = [d.functions EXCEPT ![f] = g]]
  PROVE  /\ e \in Module /\ e.nb_functions = d.nb_functions
         /\ e.relocations = d.relocations /\ e.call_graph = d.call_graph
         /\ e.nb_entrypoint_inits = d.nb_entrypoint_inits
         /\ e.functions[f] = g /\ Puts(d, e, f, g)
         /\ \A h \in 0 .. d.nb_functions - 1 : h # f => e.functions[h] = d.functions[h]
         /\ Keeps(d, e)
         /\ g.name = d.functions[f].name /\ g.flags = d.functions[f].flags
              => KeepsFunctions(d, e)
<1>1. d.nb_functions # 0 /\ d.nb_functions \in Nat
  BY ModuleFacts
<1>2. /\ d.functions \in [0 .. d.nb_functions - 1 -> Function]
      /\ d.call_graph \in [0 .. d.nb_functions - 1 -> Rows(d.nb_functions)]
      /\ d.relocations \in [0 .. d.nb_functions - 1 -> Place]
      /\ d.nb_entrypoint_inits \in Nat /\ d.nb_entrypoint_finis \in Nat
  BY <1>1, ModuleFacts
<1> DEFINE fs == [d.functions EXCEPT ![f] = g]
<1>3. /\ fs \in [0 .. d.nb_functions - 1 -> Function] /\ fs[f] = g
      /\ \A h \in 0 .. d.nb_functions - 1 : h # f => fs[h] = d.functions[h]
  BY <1>2
<1>4. e = [nb_functions |-> d.nb_functions, nb_entrypoint_inits |-> d.nb_entrypoint_inits,
           nb_entrypoint_finis |-> d.nb_entrypoint_finis, call_graph |-> d.call_graph,
           relocations |-> d.relocations, functions |-> fs]
  BY ModuleExcept
<1> HIDE DEF fs
<1>5. /\ e \in Module
      /\ e.nb_functions = d.nb_functions /\ e.nb_entrypoint_inits = d.nb_entrypoint_inits
      /\ e.call_graph = d.call_graph /\ e.relocations = d.relocations /\ e.functions = fs
  <2> DEFINE n == d.nb_functions
             a == d.nb_entrypoint_inits
             b == d.nb_entrypoint_finis
             c == d.call_graph
             r == d.relocations
  <2>1. /\ n \in Nat /\ a \in Nat /\ b \in Nat /\ c \in [0 .. n - 1 -> Rows(n)]
        /\ r \in [0 .. n - 1 -> Place] /\ fs \in [0 .. n - 1 -> Function]
    BY <1>1, <1>2, <1>3
  <2>2. e = [nb_functions |-> n, nb_entrypoint_inits |-> a, nb_entrypoint_finis |-> b,
             call_graph |-> c, relocations |-> r, functions |-> fs]
    BY <1>4
  <2> HIDE DEF n, a, b, c, r
  <2>3. /\ e \in Module /\ e.nb_functions = n /\ e.nb_entrypoint_inits = a
        /\ e.call_graph = c /\ e.relocations = r /\ e.functions = fs
    <3>1. e \in Module
      <4>1. e \in ModuleOf(n)
        BY ONLY <2>1, <2>2 DEF ModuleOf
      <4> QED
        BY ONLY <4>1, <2>1 DEF Module, Counts
    <3>2. /\ e.nb_functions = n /\ e.nb_entrypoint_inits = a
          /\ e.call_graph = c /\ e.relocations = r /\ e.functions = fs
      BY ONLY <2>2
    <3> QED
      BY ONLY <3>1, <3>2
  <2> QED
    BY <2>3 DEF n, a, c, r
<1>6. Keeps(d, e)
  BY ONLY <1>5 DEF Keeps
<1>7. g.name = d.functions[f].name /\ g.flags = d.functions[f].flags => KeepsFunctions(d, e)
  BY ONLY <1>3, <1>5 DEF KeepsFunctions
<1>8. Puts(d, e, f, g)
  BY ONLY <1>3, <1>5 DEF Puts
<1> QED
  BY <1>3, <1>5, <1>6, <1>7, <1>8
-----------------------------------------------------------------------------
(* What an entry of each section does to the tables.                       *)
LEMMA RowFacts ==
  ASSUME NEW list \in Seq(Nat), NEW bound \in Nat
  PROVE  Row(list, bound) \subseteq 0 .. bound - 1
<1>1. SUFFICES ASSUME NEW x \in 1 .. Len(list), InRange(SubSeq(list, 1, x), bound)
               PROVE  list[x] \in 0 .. bound - 1
  BY DEF Row
<1>2. list[x] \in Nat
  OBVIOUS
<1>3. /\ Len(SubSeq(list, 1, x)) = x
      /\ SubSeq(list, 1, x)[x] = list[x]
  OBVIOUS
<1>4. SubSeq(list, 1, x)[x] < bound
  BY <1>1, <1>3 DEF InRange
<1> QED
  BY <1>2, <1>3, <1>4

LEMMA NullInRows == \A n \in Nat : NULL \in Rows(n)
  BY DEF Rows

LEMMA FunctionIdKept ==
  ASSUME modata \in Module, entry \in FctEntry, entry.f_id < modata.nb_functions,
         NEW e, e = FunctionIdEntry.data
  PROVE  /\ Keeps(modata, e)
         /\ e.nb_entrypoint_inits =
              modata.nb_entrypoint_inits + (IF entry.f_flags = "FCT_INIT" THEN 1 ELSE 0)
         /\ e.functions[entry.f_id].flags = entry.f_flags
         /\ e.functions[entry.f_id].name = entry.f_name
         /\ \A f \in 0 .. modata.nb_functions - 1 :
              f # entry.f_id => e.functions[f] = modata.functions[f]
         /\ e.call_graph = modata.call_graph /\ e.functions[entry.f_id].nb_blocks = 0
<1> DEFINE d == modata
           w == entry
           fd == [NoFunction EXCEPT !.name = w.f_name, !.flags = w.f_flags]
           fs == [d.functions EXCEPT ![w.f_id] = fd]
           a == d.nb_entrypoint_inits + (IF w.f_flags = "FCT_INIT" THEN 1 ELSE 0)
           b == d.nb_entrypoint_finis + (IF w.f_flags = "FCT_FINI" THEN 1 ELSE 0)
<1>1. /\ w.f_id \in Nat /\ w.f_name \in STRING /\ w.f_flags \in T!Flags
      /\ w.f_id < d.nb_functions /\ d \in Module
  BY DEF FctEntry
<1>2. e = [d EXCEPT !.functions[w.f_id] = fd,
                    !.nb_entrypoint_inits = @ + (IF w.f_flags = "FCT_INIT" THEN 1 ELSE 0),
                    !.nb_entrypoint_finis = @ + (IF w.f_flags = "FCT_FINI" THEN 1 ELSE 0)]
  <2>1. ~(w.f_id >= d.nb_functions)
    BY <1>1, ModuleFacts
  <2> QED
    BY <2>1 DEF FunctionIdEntry
<1> HIDE DEF d, w
<1>3. /\ d.nb_functions \in Nat /\ d.nb_functions # 0
      /\ w.f_id \in 0 .. d.nb_functions - 1
  BY ONLY <1>1, ModuleFacts
<1>4. /\ d.functions \in [0 .. d.nb_functions - 1 -> Function]
      /\ d.call_graph \in [0 .. d.nb_functions - 1 -> Rows(d.nb_functions)]
      /\ d.relocations \in [0 .. d.nb_functions - 1 -> Place]
      /\ d.nb_entrypoint_inits \in Nat /\ d.nb_entrypoint_finis \in Nat
  BY ONLY <1>1, <1>3, ModuleFacts
<1>5. fd = [name |-> w.f_name, flags |-> w.f_flags, nb_blocks |-> 0,
            control_flow_graph |-> NULL, immediate_post_dominator |-> NULL]
  <2>1. fd = [name |-> w.f_name, flags |-> w.f_flags, nb_blocks |-> NoFunction.nb_blocks,
              control_flow_graph |-> NoFunction.control_flow_graph,
              immediate_post_dominator |-> NoFunction.immediate_post_dominator]
    BY ONLY NewTables, NamedExcept
  <2> QED
    BY ONLY <2>1 DEF NoFunction
<1>6. fd \in Function /\ fd.name = w.f_name /\ fd.flags = w.f_flags /\ fd.nb_blocks = 0
  <2>1. NULL \in NoTable(0) /\ 0 \in Nat /\ w.f_name \in STRING \cup {NULL}
    BY ONLY <1>1 DEF NoTable
  <2>2. [name |-> w.f_name, flags |-> w.f_flags, nb_blocks |-> 0,
         control_flow_graph |-> NULL, immediate_post_dominator |-> NULL] \in Function
    BY ONLY <2>1, <1>1, FunctionMade
  <2> QED
    BY ONLY <2>2, <1>5
<1> HIDE DEF fd
<1>7. e = [nb_functions |-> d.nb_functions, nb_entrypoint_inits |-> a,
           nb_entrypoint_finis |-> b, call_graph |-> d.call_graph,
           relocations |-> d.relocations, functions |-> fs]
  <2>1. d \in ModuleOf(d.nb_functions)
    BY ONLY <1>1, ModuleFacts
  <2> QED
    BY ONLY <1>2, <2>1 DEF ModuleOf
<1>8. /\ fs \in [0 .. d.nb_functions - 1 -> Function] /\ fs[w.f_id] = fd
      /\ \A f \in 0 .. d.nb_functions - 1 : f # w.f_id => fs[f] = d.functions[f]
  BY ONLY <1>3, <1>4, <1>6
<1>9. a \in Nat /\ b \in Nat
  BY ONLY <1>4
<1> DEFINE n == d.nb_functions
           c == d.call_graph
           r == d.relocations
<1>10. /\ n \in Nat /\ c \in [0 .. n - 1 -> Rows(n)]
       /\ r \in [0 .. n - 1 -> Place] /\ fs \in [0 .. n - 1 -> Function]
  BY ONLY <1>3, <1>4, <1>8
<1>11. e = [nb_functions |-> n, nb_entrypoint_inits |-> a, nb_entrypoint_finis |-> b,
            call_graph |-> c, relocations |-> r, functions |-> fs]
  BY ONLY <1>7
<1> HIDE DEF fs, a, b, n, c, r
<1>12. /\ e \in Module /\ e.nb_functions = n /\ e.nb_entrypoint_inits = a
       /\ e.call_graph = c /\ e.relocations = r /\ e.functions = fs
  BY ONLY <1>9, <1>10, <1>11, ModuleMadeWhole
<1>13. Keeps(d, e)
  BY ONLY <1>12 DEF Keeps, n, r
<1> QED
  BY ONLY <1>6, <1>8, <1>12, <1>13 DEF a, n, c, d, w

LEMMA FunctionTransitionKept ==
  ASSUME modata \in Module, entry \in TransEntry, entry.f_id < modata.nb_functions,
         NEW e, e = FunctionTransitionEntry.data
  PROVE  /\ Keeps(modata, e) /\ KeepsFunctions(modata, e) /\ e.functions = modata.functions
         /\ modata.call_graph[entry.f_id] = NULL =>
              /\ e.call_graph[entry.f_id] = Row(entry.f_calls, modata.nb_functions)
              /\ \A f \in 0 .. modata.nb_functions - 1 :
                   f # entry.f_id => e.call_graph[f] = modata.call_graph[f]
<1> DEFINE d == modata
           w == entry
           x == Row(w.f_calls, d.nb_functions)
           c == [d.call_graph EXCEPT ![w.f_id] = x]
<1>1. /\ w.f_id \in Nat /\ w.f_calls \in Seq(Nat)
      /\ w.f_id < d.nb_functions /\ d \in Module
  BY DEF TransEntry
<1>2. \/ e = d /\ d.call_graph[w.f_id] # NULL
      \/ e = [d EXCEPT !.call_graph = c]
  <2>1. ~(w.f_id >= d.nb_functions)
    BY <1>1, ModuleFacts
  <2> QED
    BY <2>1 DEF FunctionTransitionEntry
<1> SUFFICES /\ Keeps(d, e) /\ KeepsFunctions(d, e) /\ e.functions = d.functions
             /\ d.call_graph[w.f_id] = NULL =>
                  /\ e.call_graph[w.f_id] = x
                  /\ \A f \in 0 .. d.nb_functions - 1 :
                       f # w.f_id => e.call_graph[f] = d.call_graph[f]
  OBVIOUS
<1> HIDE DEF d, w
<1>3. /\ d.nb_functions \in Nat /\ d.nb_functions # 0
      /\ w.f_id \in 0 .. d.nb_functions - 1
  BY ONLY <1>1, ModuleFacts
<1>4. /\ d.functions \in [0 .. d.nb_functions - 1 -> Function]
      /\ d.call_graph \in [0 .. d.nb_functions - 1 -> Rows(d.nb_functions)]
      /\ d.relocations \in [0 .. d.nb_functions - 1 -> Place]
      /\ d.nb_entrypoint_inits \in Nat /\ d.nb_entrypoint_finis \in Nat
  BY ONLY <1>1, <1>3, ModuleFacts
<1>5. x \in Rows(d.nb_functions)
  BY ONLY <1>1, <1>3, RowFacts DEF Rows
<1>6. /\ c \in [0 .. d.nb_functions - 1 -> Rows(d.nb_functions)] /\ c[w.f_id] = x
      /\ \A f \in 0 .. d.nb_functions - 1 : f # w.f_id => c[f] = d.call_graph[f]
  BY ONLY <1>3, <1>4, <1>5
<1> HIDE DEF c, x
<1>7. CASE e = d /\ d.call_graph[w.f_id] # NULL
  BY ONLY <1>7, <1>1 DEF Keeps, KeepsFunctions
<1>8. CASE e = [d EXCEPT !.call_graph = c]
  <2> DEFINE n == d.nb_functions
             a == d.nb_entrypoint_inits
             b == d.nb_entrypoint_finis
             r == d.relocations
             fs == d.functions
  <2>1. e = [nb_functions |-> n, nb_entrypoint_inits |-> a, nb_entrypoint_finis |-> b,
             call_graph |-> c, relocations |-> r, functions |-> fs]
    BY ONLY <1>1, <1>8, ModuleExcept
  <2>2. /\ n \in Nat /\ a \in Nat /\ b \in Nat /\ c \in [0 .. n - 1 -> Rows(n)]
        /\ r \in [0 .. n - 1 -> Place] /\ fs \in [0 .. n - 1 -> Function]
    BY ONLY <1>3, <1>4, <1>6
  <2> HIDE DEF n, a, b, r, fs
  <2>3. /\ e \in Module /\ e.nb_functions = n /\ e.nb_entrypoint_inits = a
        /\ e.call_graph = c /\ e.relocations = r /\ e.functions = fs
    BY ONLY <2>1, <2>2, ModuleMadeWhole, SMTT(30)
  <2> QED
    BY ONLY <2>3, <1>6 DEF Keeps, KeepsFunctions, n, a, r, fs
<1> QED
  BY ONLY <1>2, <1>7, <1>8


(* Changing the tables of one function. *)
LEMMA PutRow ==
  ASSUME NEW g \in Function, NEW b \in 0 .. g.nb_blocks - 1, NEW x \in Rows(g.nb_blocks),
         NEW h, h = [g EXCEPT !.control_flow_graph = [g.control_flow_graph EXCEPT ![b] = x]]
  PROVE  /\ h \in Function /\ h.name = g.name /\ h.flags = g.flags
         /\ PutsRow(g, h, b, x)
<1> DEFINE c == [g.control_flow_graph EXCEPT ![b] = x]
           nm == g.name
           fl == g.flags
           n == g.nb_blocks
           d == g.immediate_post_dominator
<1>1. /\ nm \in STRING \cup {NULL} /\ fl \in T!Flags /\ n \in Nat
      /\ c \in [0 .. n - 1 -> Rows(n)] /\ d \in [0 .. n - 1 -> Nat]
  BY FunctionFacts
<1>0. c[b] = x /\ \A a \in 0 .. n - 1 : a # b => c[a] = g.control_flow_graph[a]
  BY FunctionFacts
<1>2. h = [name |-> nm, flags |-> fl, nb_blocks |-> n, control_flow_graph |-> c,
           immediate_post_dominator |-> d]
  BY FunctionExcept
<1> HIDE DEF c, nm, fl, n, d
<1>3. [name |-> nm, flags |-> fl, nb_blocks |-> n, control_flow_graph |-> c,
       immediate_post_dominator |-> d] \in Function
  BY ONLY <1>1, FunctionMade
<1>4. /\ h.name = nm /\ h.flags = fl /\ h.nb_blocks = n /\ h.control_flow_graph = c
      /\ h.immediate_post_dominator = d
  BY ONLY <1>2
<1> QED
  BY <1>0, <1>2, <1>3, <1>4 DEF nm, fl, n, PutsRow

LEMMA PutIpd ==
  ASSUME NEW g \in Function, NEW b \in 0 .. g.nb_blocks - 1, NEW x \in Nat, NEW h,
         h = [g EXCEPT !.immediate_post_dominator =
                         [g.immediate_post_dominator EXCEPT ![b] = x]]
  PROVE  /\ h \in Function /\ h.name = g.name /\ h.flags = g.flags
         /\ h.nb_blocks = g.nb_blocks /\ h.control_flow_graph = g.control_flow_graph
         /\ h.immediate_post_dominator[b] = x
         /\ \A a \in 0 .. g.nb_blocks - 1 :
              a # b => h.immediate_post_dominator[a] = g.immediate_post_dominator[a]
<1> DEFINE d == [g.immediate_post_dominator EXCEPT ![b] = x]
           nm == g.name
           fl == g.flags
           n == g.nb_blocks
           c == g.control_flow_graph
<1>1. /\ nm \in STRING \cup {NULL} /\ fl \in T!Flags /\ n \in Nat
      /\ c \in [0 .. n - 1 -> Rows(n)] /\ d \in [0 .. n - 1 -> Nat]
  BY FunctionFacts
<1>0. d[b] = x /\ \A a \in 0 .. n - 1 : a # b => d[a] = g.immediate_post_dominator[a]
  BY FunctionFacts
<1>2. h = [name |-> nm, flags |-> fl, nb_blocks |-> n, control_flow_graph |-> c,
           immediate_post_dominator |-> d]
  <2>1. h = [g EXCEPT !.immediate_post_dominator = d] /\ g \in Function
    OBVIOUS
  <2> HIDE DEF d
  <2>2. [g EXCEPT !.immediate_post_dominator = d] =
          [name |-> nm, flags |-> fl, nb_blocks |-> n, control_flow_graph |-> c,
           immediate_post_dominator |-> d]
    BY ONLY <2>1, FunctionExcept
  <2> QED
    BY ONLY <2>1, <2>2
<1> HIDE DEF c, nm, fl, n, d
<1>3. [name |-> nm, flags |-> fl, nb_blocks |-> n, control_flow_graph |-> c,
       immediate_post_dominator |-> d] \in Function
  BY ONLY <1>1, FunctionMade
<1>4. /\ h.name = nm /\ h.flags = fl /\ h.nb_blocks = n /\ h.control_flow_graph = c
      /\ h.immediate_post_dominator = d
  BY ONLY <1>2
<1> QED
  BY <1>0, <1>2, <1>3, <1>4 DEF nm, fl, n, c

LEMMA PutBlocks ==
  ASSUME NEW g \in Function, NEW n \in Nat, NEW h,
         h = [g EXCEPT !.nb_blocks = n,
                       !.control_flow_graph = [b \in 0 .. n - 1 |-> NULL],
                       !.immediate_post_dominator = [b \in 0 .. n - 1 |-> 0]]
  PROVE  /\ h \in Function /\ h.name = g.name /\ h.flags = g.flags
         /\ Emptied(h, n)
<1> DEFINE c == [b \in 0 .. n - 1 |-> NULL]
           d == [b \in 0 .. n - 1 |-> 0]
           nm == g.name
           fl == g.flags
           cg == g.control_flow_graph
           dg == g.immediate_post_dominator
           h1 == [g EXCEPT !.nb_blocks = n]
           h2 == [h1 EXCEPT !.control_flow_graph = c]
<1>1. nm \in STRING \cup {NULL} /\ fl \in T!Flags
  BY FunctionFacts
<1>0. \A b \in 0 .. n - 1 : c[b] = NULL
  OBVIOUS
<1>2. c \in [0 .. n - 1 -> Rows(n)] /\ d \in [0 .. n - 1 -> Nat]
  BY NullInRows
<1>3. h = [h2 EXCEPT !.immediate_post_dominator = d]
  OBVIOUS
<1>4. n \in Nat
  OBVIOUS
<1>5. g = [name |-> nm, flags |-> fl, nb_blocks |-> g.nb_blocks, control_flow_graph |-> cg,
           immediate_post_dominator |-> dg]
  BY FunctionFacts
<1> HIDE DEF c, d, nm, fl, cg, dg
<1>6. h1 = [name |-> nm, flags |-> fl, nb_blocks |-> n, control_flow_graph |-> cg,
            immediate_post_dominator |-> dg]
  BY ONLY <1>5, FieldExcept
<1> HIDE DEF h1
<1>7. h2 = [name |-> nm, flags |-> fl, nb_blocks |-> n, control_flow_graph |-> c,
            immediate_post_dominator |-> dg]
  BY ONLY <1>6, FieldExcept
<1> HIDE DEF h2
<1>8. h = [name |-> nm, flags |-> fl, nb_blocks |-> n, control_flow_graph |-> c,
           immediate_post_dominator |-> d]
  BY ONLY <1>3, <1>7, FieldExcept
<1>9. [name |-> nm, flags |-> fl, nb_blocks |-> n, control_flow_graph |-> c,
       immediate_post_dominator |-> d] \in Function
  BY ONLY <1>1, <1>2, <1>4, FunctionMade
<1>10. h.name = nm /\ h.flags = fl /\ h.nb_blocks = n /\ h.control_flow_graph = c
  BY ONLY <1>8
<1> QED
  BY ONLY <1>0, <1>8, <1>9, <1>10 DEF nm, fl, Emptied

(* The successors of a block are united with those it has. *)
SetsRow(g, h, b, list) ==
  /\ h.nb_blocks = g.nb_blocks
  /\ h.control_flow_graph[b] =
       Row(list, g.nb_blocks)
         \cup (IF g.control_flow_graph[b] = NULL THEN {} ELSE g.control_flow_graph[b])
  /\ \A a \in 0 .. g.nb_blocks - 1 :
       a # b => h.control_flow_graph[a] = g.control_flow_graph[a]

LEMMA BlockTransitionKept ==
  ASSUME modata \in Module, pkt.value \in BbTable, entry \in BbEntry,
         pkt.value.f_id < modata.nb_functions,
         entry.b_id < modata.functions[pkt.value.f_id].nb_blocks,
         NEW e, e = BlockTransitionEntry.data
  PROVE  /\ Keeps(modata, e) /\ KeepsFunctions(modata, e) /\ e.call_graph = modata.call_graph
         /\ SetsRow(modata.functions[pkt.value.f_id], e.functions[pkt.value.f_id], entry.b_id,
                    entry.b_succ)
         /\ \A f \in 0 .. modata.nb_functions - 1 :
              f # pkt.value.f_id => e.functions[f] = modata.functions[f]
<1> DEFINE d == modata
           w == entry
           f == pkt.value.f_id
           g == d.functions[f]
           old == g.control_flow_graph[w.b_id]
           x == Row(w.b_succ, g.nb_blocks) \cup (IF old = NULL THEN {} ELSE old)
           h == [g EXCEPT !.control_flow_graph = [g.control_flow_graph EXCEPT ![w.b_id] = x]]
<1>1. /\ w.b_id \in Nat /\ w.b_succ \in Seq(Nat) /\ f \in Nat
      /\ f < d.nb_functions /\ d \in Module /\ w.b_id < g.nb_blocks
  BY DEF BbEntry, BbTable
<1>2. f \in 0 .. d.nb_functions - 1 /\ d.nb_functions # 0
  BY <1>1, ModuleFacts
<1>3. g \in Function
  <2>1. d.functions \in [0 .. d.nb_functions - 1 -> Function]
    BY <1>1, <1>2, ModuleFacts
  <2> QED
    BY <1>2, <2>1
<1>4. g.nb_blocks \in Nat
  BY <1>3, FunctionFacts
<1>5. e = [d EXCEPT !.functions = [d.functions EXCEPT ![f] = h]]
  <2>1. ~(w.b_id >= g.nb_blocks)
    BY <1>1, <1>4
  <2> QED
    BY <2>1 DEF BlockTransitionEntry
<1> SUFFICES /\ Keeps(d, e) /\ KeepsFunctions(d, e) /\ e.call_graph = d.call_graph
             /\ SetsRow(d.functions[f], e.functions[f], w.b_id, w.b_succ)
             /\ \A k \in 0 .. d.nb_functions - 1 : k # f => e.functions[k] = d.functions[k]
  OBVIOUS
<1> HIDE DEF d, w, f
<1>6. w.b_id \in 0 .. g.nb_blocks - 1 /\ g.nb_blocks # 0
  BY ONLY <1>1, <1>4
<1>7. x \in Rows(g.nb_blocks)
  <2>1. g.control_flow_graph \in [0 .. g.nb_blocks - 1 -> Rows(g.nb_blocks)]
    BY ONLY <1>3, <1>6, FunctionFacts
  <2>2. old \in Rows(g.nb_blocks)
    BY ONLY <2>1, <1>6
  <2>3. (IF old = NULL THEN {} ELSE old) \subseteq 0 .. g.nb_blocks - 1
    BY ONLY <2>2 DEF Rows
  <2>4. Row(w.b_succ, g.nb_blocks) \subseteq 0 .. g.nb_blocks - 1
    BY ONLY <1>1, <1>4, RowFacts
  <2> QED
    BY ONLY <2>3, <2>4 DEF Rows
<1>10. x = Row(w.b_succ, g.nb_blocks) \cup (IF old = NULL THEN {} ELSE old)
  OBVIOUS
<1> HIDE DEF x
<1>8. /\ h \in Function /\ h.name = g.name /\ h.flags = g.flags
      /\ PutsRow(g, h, w.b_id, x)
  <2> DEFINE b == w.b_id
  <2>1. h = [g EXCEPT !.control_flow_graph = [g.control_flow_graph EXCEPT ![b] = x]]
    OBVIOUS
  <2>2. b \in 0 .. g.nb_blocks - 1
    BY ONLY <1>6
  <2> HIDE DEF b, g, h
  <2>3. h \in Function /\ h.name = g.name /\ h.flags = g.flags
    BY ONLY <1>3, <1>7, <2>1, <2>2, PutRow
  <2>4. PutsRow(g, h, b, x)
    BY ONLY <1>3, <1>7, <2>1, <2>2, PutRow
  <2> QED
    BY ONLY <2>3, <2>4 DEF b
<1>11. SetsRow(g, h, w.b_id, w.b_succ)
  <2> HIDE DEF h
  <2> QED
    BY ONLY <1>8, <1>10 DEF SetsRow, PutsRow
<1> HIDE DEF h
<1>9. h.name = d.functions[f].name /\ h.flags = d.functions[f].flags
  BY ONLY <1>8
<1>12. d \in Module /\ h \in Function
  BY ONLY <1>1, <1>8
<1>13. Keeps(d, e) /\ KeepsFunctions(d, e)
  BY ONLY <1>12, <1>2, <1>5, <1>9, PutFunction
<1>14. Puts(d, e, f, h)
  BY ONLY <1>12, <1>2, <1>5, PutFunction
<1> QED
  BY ONLY <1>11, <1>13, <1>14 DEF Puts

(* The post-dominator of a block is set. *)
SetsIpd(g, h, b, x) ==
  /\ h.nb_blocks = g.nb_blocks /\ h.control_flow_graph = g.control_flow_graph
  /\ h.immediate_post_dominator[b] = x
  /\ \A a \in 0 .. g.nb_blocks - 1 :
       a # b => h.immediate_post_dominator[a] = g.immediate_post_dominator[a]

LEMMA BlockIpdKept ==
  ASSUME modata \in Module, entry \in IpdEntry, entry.f_id < modata.nb_functions,
         entry.b_id < modata.functions[entry.f_id].nb_blocks,
         NEW e, e = BlockIpdEntry.data
  PROVE  /\ Keeps(modata, e) /\ KeepsFunctions(modata, e) /\ e.call_graph = modata.call_graph
         /\ modata.functions[entry.f_id].immediate_post_dominator # NULL =>
              SetsIpd(modata.functions[entry.f_id], e.functions[entry.f_id], entry.b_id,
                      entry.b_ipd_id)
         /\ \A f \in 0 .. modata.nb_functions - 1 :
              f # entry.f_id => e.functions[f] = modata.functions[f]
<1> DEFINE d == modata
           w == entry
           f == w.f_id
           g == d.functions[f]
           h == [g EXCEPT !.immediate_post_dominator =
                            [g.immediate_post_dominator EXCEPT ![w.b_id] = w.b_ipd_id]]
<1>1. /\ w.b_id \in Nat /\ w.b_ipd_id \in Nat /\ f \in Nat
      /\ f < d.nb_functions /\ d \in Module /\ w.b_id < g.nb_blocks
  BY DEF IpdEntry
<1>2. f \in 0 .. d.nb_functions - 1 /\ d.nb_functions # 0
  BY <1>1, ModuleFacts
<1>3. g \in Function
  <2>1. d.functions \in [0 .. d.nb_functions - 1 -> Function]
    BY <1>1, <1>2, ModuleFacts
  <2> QED
    BY <1>2, <2>1
<1>4. g.nb_blocks \in Nat
  BY <1>3, FunctionFacts
<1>5. \/ e = d /\ g.immediate_post_dominator = NULL
      \/ e = [d EXCEPT !.functions = [d.functions EXCEPT ![f] = h]]
  <2>1. ~(w.f_id >= d.nb_functions) /\ ~(w.b_id >= g.nb_blocks)
    BY <1>1, <1>4, ModuleFacts
  <2> QED
    BY <2>1 DEF BlockIpdEntry
<1> SUFFICES /\ Keeps(d, e) /\ KeepsFunctions(d, e) /\ e.call_graph = d.call_graph
             /\ d.functions[f].immediate_post_dominator # NULL =>
                  SetsIpd(d.functions[f], e.functions[f], w.b_id, w.b_ipd_id)
             /\ \A k \in 0 .. d.nb_functions - 1 : k # f => e.functions[k] = d.functions[k]
  OBVIOUS
<1> HIDE DEF d, w
<1>6. w.b_id \in 0 .. g.nb_blocks - 1
  BY ONLY <1>1, <1>4
<1>8. /\ h \in Function /\ h.name = g.name /\ h.flags = g.flags
      /\ SetsIpd(g, h, w.b_id, w.b_ipd_id)
  <2> DEFINE b == w.b_id
             x == w.b_ipd_id
  <2>1. /\ h = [g EXCEPT !.immediate_post_dominator =
                            [g.immediate_post_dominator EXCEPT ![b] = x]]
        /\ x \in Nat /\ b \in 0 .. g.nb_blocks - 1
    BY <1>1, <1>6
  <2> HIDE DEF g, h, b, x
  <2>2. /\ h \in Function /\ h.name = g.name /\ h.flags = g.flags
        /\ SetsIpd(g, h, b, x)
    BY ONLY <1>3, <2>1, PutIpd DEF SetsIpd
  <2> QED
    BY ONLY <2>2 DEF b, x
<1> HIDE DEF h
<1>9. h.name = d.functions[f].name /\ h.flags = d.functions[f].flags
  BY ONLY <1>8
<1>10. CASE e = d /\ g.immediate_post_dominator = NULL
  BY ONLY <1>1, <1>10 DEF Keeps, KeepsFunctions
<1>11. CASE e = [d EXCEPT !.functions = [d.functions EXCEPT ![f] = h]]
  <2>1. d \in Module /\ h \in Function
    BY ONLY <1>1, <1>8
  <2>2. Keeps(d, e) /\ KeepsFunctions(d, e)
    BY ONLY <2>1, <1>2, <1>11, <1>9, PutFunction
  <2>3. Puts(d, e, f, h)
    BY ONLY <2>1, <1>2, <1>11, PutFunction
  <2> QED
    BY ONLY <1>8, <2>2, <2>3 DEF Puts
<1> QED
  BY ONLY <1>5, <1>10, <1>11

LEMMA NamelessKept ==
  ASSUME NEW d \in Module, NEW f \in 0 .. d.nb_functions - 1, NEW e,
         e = [d EXCEPT !.functions[f].name = NULL]
  PROVE  /\ Keeps(d, e) /\ e.nb_entrypoint_inits = d.nb_entrypoint_inits
         /\ \A h \in 0 .. d.nb_functions - 1 : e.functions[h].flags = d.functions[h].flags
<1> DEFINE g == d.functions[f]
           k == [g EXCEPT !.name = NULL]
<1>1. e = [d EXCEPT !.functions = [d.functions EXCEPT ![f] = k]]
  OBVIOUS
<1>2. f \in 0 .. d.nb_functions - 1 /\ d \in Module
  OBVIOUS
<1>3. g \in Function
  <2>1. d.nb_functions \in Nat
    BY ONLY <1>2, ModuleFacts
  <2>2. d.nb_functions # 0
    BY ONLY <1>2, <2>1
  <2>3. d.functions \in [0 .. d.nb_functions - 1 -> Function]
    BY ONLY <1>2, <2>2, ModuleFacts
  <2> QED
    BY ONLY <1>2, <2>3
<1>4. k \in Function /\ k.flags = g.flags
  <2> DEFINE fl == g.flags
             n == g.nb_blocks
             c == g.control_flow_graph
             i1 == g.immediate_post_dominator
  <2> HIDE DEF g
  <2>1. k = [name |-> NULL, flags |-> fl, nb_blocks |-> n, control_flow_graph |-> c,
             immediate_post_dominator |-> i1]
    BY ONLY <1>3, FunctionExcept
  <2>2. g \in FunctionOf(n) /\ n \in Nat
    BY ONLY <1>3, FunctionFacts
  <2>3. /\ fl \in T!Flags /\ c \in NoTable(n) \cup [0 .. n - 1 -> Rows(n)]
        /\ i1 \in NoTable(n) \cup [0 .. n - 1 -> Nat]
    BY ONLY <2>2 DEF FunctionOf
  <2> HIDE DEF fl, n, c, i1
  <2>4. NULL \in STRING \cup {NULL}
    OBVIOUS
  <2>5. [name |-> NULL, flags |-> fl, nb_blocks |-> n, control_flow_graph |-> c,
         immediate_post_dominator |-> i1] \in Function
    BY ONLY <2>2, <2>3, <2>4, FunctionMade
  <2>6. k.flags = fl
    BY ONLY <2>1
  <2> QED
    BY ONLY <2>1, <2>5, <2>6 DEF fl
<1>0. k \in Function
  BY ONLY <1>4
<1> HIDE DEF k
<1>5. Keeps(d, e)
  BY ONLY <1>1, <1>2, <1>0, PutFunction
<1>6. e.nb_entrypoint_inits = d.nb_entrypoint_inits
  BY ONLY <1>1, <1>2, <1>0, PutFunction
<1>7. e.functions[f] = k
  <2>1. e.functions = [d.functions EXCEPT ![f] = k]
    BY ONLY <1>1, <1>2, ModuleExcept
  <2>2. d.nb_functions \in Nat
    BY ONLY <1>2, ModuleFacts
  <2>3. d.nb_functions # 0
    BY ONLY <1>2, <2>2
  <2>4. d.functions \in [0 .. d.nb_functions - 1 -> Function]
    BY ONLY <1>2, <2>3, ModuleFacts
  <2> QED
    BY ONLY <1>2, <2>1, <2>4
<1>8. \A h \in 0 .. d.nb_functions - 1 : h # f => e.functions[h] = d.functions[h]
  BY ONLY <1>1, <1>2, <1>0, PutFunction
<1> QED
  BY ONLY <1>4, <1>5, <1>6, <1>7, <1>8

LEMMA FunctionTablesMade ==
  ASSUME modata \in Module, NEW size \in Nat, NEW e, e = FunctionTables(size)
  PROVE  /\ e \in Module /\ e.nb_functions = size
         /\ e.nb_entrypoint_inits = modata.nb_entrypoint_inits
         /\ \A f \in 0 .. size - 1 : e.relocations[f] = [module |-> 0, function |-> 0]
         /\ \A f \in 0 .. size - 1 : e.call_graph[f] = NULL /\ e.functions[f].nb_blocks = 0
<1> DEFINE d == modata
           a == d.nb_entrypoint_inits
           b == d.nb_entrypoint_finis
           c == [f \in 0 .. size - 1 |-> NULL]
           r == [f \in 0 .. size - 1 |-> [module |-> 0, function |-> 0]]
           fs == [f \in 0 .. size - 1 |-> NoFunction]
<1>1. e = [d EXCEPT !.nb_functions = size, !.call_graph = c, !.relocations = r, !.functions = fs]
  BY DEF FunctionTables
<1>2. d \in Module /\ size \in Nat
  OBVIOUS
<1> SUFFICES /\ e \in Module /\ e.nb_functions = size /\ e.nb_entrypoint_inits = a
             /\ \A f \in 0 .. size - 1 : e.relocations[f] = [module |-> 0, function |-> 0]
             /\ \A f \in 0 .. size - 1 : e.call_graph[f] = NULL /\ e.functions[f].nb_blocks = 0
  OBVIOUS
<1> HIDE DEF d
<1>3. /\ c \in [0 .. size - 1 -> Rows(size)] /\ r \in [0 .. size - 1 -> Place]
      /\ fs \in [0 .. size - 1 -> Function]
  BY ONLY <1>2, NullInRows, NewTables DEF Place
<1>0. d \in ModuleOf(d.nb_functions)
  BY ONLY <1>2, ModuleFacts
<1>4. a \in Nat /\ b \in Nat /\ size \in Nat
  BY ONLY <1>2, ModuleFacts
<1>5. \A f \in 0 .. size - 1 :
        r[f] = [module |-> 0, function |-> 0] /\ c[f] = NULL /\ fs[f].nb_blocks = 0
  <2>1. NoFunction.nb_blocks = 0
    BY DEF NoFunction
  <2> QED
    BY <2>1
<1> HIDE DEF c, r, fs
<1>6. e = [nb_functions |-> size, nb_entrypoint_inits |-> a, nb_entrypoint_finis |-> b,
           call_graph |-> c, relocations |-> r, functions |-> fs]
  BY ONLY <1>0, <1>1, <1>3, <1>4 DEF ModuleOf
<1> HIDE DEF a, b
<1>7. /\ e \in Module /\ e.nb_functions = size /\ e.nb_entrypoint_inits = a
      /\ e.call_graph = c /\ e.relocations = r /\ e.functions = fs
  BY ONLY <1>3, <1>4, <1>6, ModuleMadeWhole
<1> QED
  BY ONLY <1>5, <1>7

LEMMA BlockTablesKept ==
  ASSUME modata \in Module, NEW f \in 0 .. modata.nb_functions - 1, NEW size \in Nat,
         NEW e, e = BlockTables(f, size)
  PROVE  /\ Keeps(modata, e) /\ KeepsFunctions(modata, e) /\ e.call_graph = modata.call_graph
         /\ e.functions[f].nb_blocks = size
         /\ \A b \in 0 .. size - 1 : e.functions[f].control_flow_graph[b] = NULL
         /\ \A k \in 0 .. modata.nb_functions - 1 : k # f => e.functions[k] = modata.functions[k]
<1> DEFINE d == modata
           g == d.functions[f]
           h == [g EXCEPT !.nb_blocks = size,
                          !.control_flow_graph = [b \in 0 .. size - 1 |-> NULL],
                          !.immediate_post_dominator = [b \in 0 .. size - 1 |-> 0]]
<1>1. e = [d EXCEPT !.functions = [d.functions EXCEPT ![f] = h]]
  BY DEF BlockTables
<1>2. d \in Module /\ f \in 0 .. d.nb_functions - 1 /\ size \in Nat
  OBVIOUS
<1> SUFFICES /\ Keeps(d, e) /\ KeepsFunctions(d, e) /\ e.call_graph = d.call_graph
             /\ e.functions[f].nb_blocks = size
             /\ \A b \in 0 .. size - 1 : e.functions[f].control_flow_graph[b] = NULL
             /\ \A k \in 0 .. d.nb_functions - 1 : k # f => e.functions[k] = d.functions[k]
  OBVIOUS
<1> HIDE DEF d
<1>3. d.functions \in [0 .. d.nb_functions - 1 -> Function]
  <2>1. d.nb_functions \in Nat
    BY ONLY <1>2, ModuleFacts
  <2>2. d.nb_functions # 0
    BY ONLY <1>2, <2>1
  <2> QED
    BY ONLY <1>2, <2>2, ModuleFacts
<1>4. g \in Function
  BY ONLY <1>2, <1>3
<1>5. /\ h \in Function /\ h.name = g.name /\ h.flags = g.flags
      /\ Emptied(h, size)
  <2>1. h = [g EXCEPT !.nb_blocks = size,
                      !.control_flow_graph = [b \in 0 .. size - 1 |-> NULL],
                      !.immediate_post_dominator = [b \in 0 .. size - 1 |-> 0]]
    OBVIOUS
  <2> HIDE DEF h, g
  <2>2. h \in Function /\ h.name = g.name /\ h.flags = g.flags
    BY ONLY <1>2, <1>4, <2>1, PutBlocks
  <2>3. Emptied(h, size)
    BY ONLY <1>2, <1>4, <2>1, PutBlocks
  <2> QED
    BY ONLY <2>2, <2>3
<1> HIDE DEF h
<1>6. h.name = d.functions[f].name /\ h.flags = d.functions[f].flags
  BY ONLY <1>5
<1>7. d \in Module /\ h \in Function
  BY ONLY <1>2, <1>5
<1>8. Keeps(d, e) /\ KeepsFunctions(d, e)
  BY ONLY <1>1, <1>2, <1>6, <1>7, PutFunction
<1>9. Puts(d, e, f, h)
  BY ONLY <1>1, <1>2, <1>7, PutFunction
<1> QED
  BY ONLY <1>5, <1>8, <1>9 DEF Puts, Emptied
-----------------------------------------------------------------------------
(* Where the monitor is among the packets of a module. *)
LEMMA EventAt ==
  ASSUME NEW p \in Programs, NEW k \in 1 .. Len(p), NEW x \in 1 .. Len(Packets(p[k])),
         NEW q, Same(q, Packets(p[k])[x])
  PROVE  /\ q.event = "BEGIN" <=> x = 1
         /\ q.event = "FUNCTION_ID" <=> x = 2
         /\ q.event = "FUNCTION_TRANSITION" <=> x = 3
         /\ q.event \in {"BLOCK_TRANSITION", "BLOCK_IPD"} <=> x \in 4 .. EndAt(p[k]) - 1
         /\ q.event = "END" <=> x = EndAt(p[k])
         /\ q.event = "TERMINATED" <=> x = EndAt(p[k]) + 1
         /\ x = EndAt(p[k]) + 1 => k = Len(p)
         /\ x = 2 => q.value = p[k].fcts
         /\ x = 3 => q.value = p[k].trans
         /\ x \in 4 .. EndAt(p[k]) - 1 => p[k].granularity_bb
         /\ q.event = "BLOCK_TRANSITION" =>
              /\ q.value \in BbTable /\ x - 3 \in 1 .. Len(p[k].bbs)
              /\ q.value = p[k].bbs[x - 3]
         /\ q.event = "BLOCK_IPD" => q.value = p[k].ipds /\ x = Len(p[k].bbs) + 4
<1> DEFINE im == p[k]
           y == Packets(im)[x]
           E == EndAt(im)
<1>1. /\ E \in Nat /\ E >= 4
      /\ Len(Packets(im)) = IF k = Len(p) THEN E + 1 ELSE E
      /\ Packets(im)[1] = Marker("BEGIN")
      /\ Packets(im)[2] = Section(im, "FUNCTION_ID", im.fcts)
      /\ Packets(im)[3] = Section(im, "FUNCTION_TRANSITION", im.trans)
      /\ \A z \in 4 .. E - 1 :
           /\ im.granularity_bb
           /\ \/ /\ z - 3 \in 1 .. Len(im.bbs)
                 /\ Packets(im)[z] = Section(im, "BLOCK_TRANSITION", im.bbs[z - 3])
              \/ /\ z - 3 = Len(im.bbs) + 1
                 /\ Packets(im)[z] = Section(im, "BLOCK_IPD", im.ipds)
      /\ Packets(im)[E] = Marker("END")
      /\ k = Len(p) => Packets(im)[E + 1] = Marker("TERMINATED")
  <2>1. /\ EndAt(p[k]) \in Nat /\ EndAt(p[k]) >= 4
        /\ Len(Packets(p[k])) = IF k = Len(p) THEN EndAt(p[k]) + 1 ELSE EndAt(p[k])
        /\ Packets(p[k])[1] = Marker("BEGIN")
        /\ Packets(p[k])[2] = Section(p[k], "FUNCTION_ID", p[k].fcts)
        /\ Packets(p[k])[3] = Section(p[k], "FUNCTION_TRANSITION", p[k].trans)
        /\ \A z \in 4 .. EndAt(p[k]) - 1 :
             /\ p[k].granularity_bb
             /\ \/ /\ z - 3 \in 1 .. Len(p[k].bbs)
                   /\ Packets(p[k])[z] = Section(p[k], "BLOCK_TRANSITION", p[k].bbs[z - 3])
                \/ /\ z - 3 = Len(p[k].bbs) + 1
                   /\ Packets(p[k])[z] = Section(p[k], "BLOCK_IPD", p[k].ipds)
        /\ Packets(p[k])[EndAt(p[k])] = Marker("END")
        /\ k = Len(p) => Packets(p[k])[EndAt(p[k]) + 1] = Marker("TERMINATED")
    BY ONLY p \in Programs, k \in 1 .. Len(p), PacketFacts
  <2> QED
    BY ONLY <2>1 DEF im, E
<1>2. q.event = y.event /\ q.value = y.value /\ x \in 1 .. Len(Packets(im))
  BY DEF Same
<1> SUFFICES /\ y.event = "BEGIN" <=> x = 1
             /\ y.event = "FUNCTION_ID" <=> x = 2
             /\ y.event = "FUNCTION_TRANSITION" <=> x = 3
             /\ y.event \in {"BLOCK_TRANSITION", "BLOCK_IPD"} <=> x \in 4 .. E - 1
             /\ y.event = "END" <=> x = E
             /\ y.event = "TERMINATED" <=> x = E + 1
             /\ x = E + 1 => k = Len(p)
             /\ x = 2 => y.value = im.fcts
             /\ x = 3 => y.value = im.trans
             /\ x \in 4 .. E - 1 => im.granularity_bb
             /\ y.event = "BLOCK_TRANSITION" =>
                  /\ y.value \in BbTable /\ x - 3 \in 1 .. Len(im.bbs)
                  /\ y.value = im.bbs[x - 3]
             /\ y.event = "BLOCK_IPD" => y.value = im.ipds /\ x = Len(im.bbs) + 4
  BY <1>2
<1>0. im.bbs \in Seq(BbTable) /\ Len(im.bbs) \in Nat
  BY ImageFacts
<1> HIDE DEF im, E
<1>3. x = 1 \/ x = 2 \/ x = 3 \/ x \in 4 .. E - 1 \/ x = E \/ (x = E + 1 /\ k = Len(p))
  BY ONLY <1>1, <1>2
<1>4. x \in Nat
  BY <1>2
<1>5. CASE x = 1
  BY ONLY <1>1, <1>4, <1>5 DEF Marker
<1>6. CASE x = 2
  BY ONLY <1>1, <1>4, <1>6 DEF Section
<1>7. CASE x = 3
  BY ONLY <1>1, <1>4, <1>7 DEF Section
<1>8. CASE x \in 4 .. E - 1
  <2>1. CASE x - 3 \in 1 .. Len(im.bbs) /\ y = Section(im, "BLOCK_TRANSITION", im.bbs[x - 3])
    <3>1. y.event = "BLOCK_TRANSITION" /\ y.value = im.bbs[x - 3]
      BY ONLY <2>1 DEF Section
    <3>2. im.bbs[x - 3] \in BbTable
      BY ONLY <2>1, <1>0
    <3> QED
      BY ONLY <1>1, <1>4, <1>8, <2>1, <3>1, <3>2
  <2>2. CASE x - 3 = Len(im.bbs) + 1 /\ y = Section(im, "BLOCK_IPD", im.ipds)
    <3>1. y.event = "BLOCK_IPD" /\ y.value = im.ipds
      BY ONLY <2>2 DEF Section
    <3>2. x = Len(im.bbs) + 4
      BY ONLY <2>2, <1>0, <1>4
    <3> QED
      BY ONLY <1>1, <1>4, <1>8, <3>1, <3>2
  <2> QED
    BY ONLY <1>1, <1>8, <2>1, <2>2
<1>9. CASE x = E
  BY ONLY <1>1, <1>4, <1>9 DEF Marker
<1>10. CASE x = E + 1 /\ k = Len(p)
  BY ONLY <1>1, <1>4, <1>10 DEF Marker
<1> QED
  BY ONLY <1>3, <1>5, <1>6, <1>7, <1>8, <1>9, <1>10
=============================================================================
