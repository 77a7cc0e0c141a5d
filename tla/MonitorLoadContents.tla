------------------------- MODULE MonitorLoadContents --------------------------
(***************************************************************************)
(* What the tables contain, for every program: the identifiers the client  *)
(* received lead to tables that hold exactly what the module's constructor *)
(* sent, and only a program that the reference of ModuleImage accepts is   *)
(* ever loaded.                                                            *)
(*                                                                         *)
(* The argument: when the monitor is at entry c of packet r of a module,   *)
(* the module's tables hold the sections before r and the entries of r up  *)
(* to c, and all of these passed the checks of the handlers.  A row, a     *)
(* block table or a function met twice would have been found by the row or *)
(* the count it left behind, which is why the tables also have to be known *)
(* to be empty where nothing was sent.                                     *)
(***************************************************************************)
EXTENDS MonitorLoadResolution

(* How many entries of the packet it is at the monitor has loaded, and     *)
(* with c of those of packet r, how many of n entries in packet p.         *)
Got == IF mpc = "entries" THEN i - 1 ELSE Len(Entries)
Upto(p, r, c, n) == IF r < p THEN 0 ELSE IF r = p THEN c ELSE n

(* The tables hold the first n entries of FUNCTION_TRANSITION. *)
CallsFrom(d, trans, n) ==
  /\ \A x \in 1 .. n : trans[x].f_id < d.nb_functions
                       /\ InRange(trans[x].f_calls, d.nb_functions)
  /\ \A x, y \in 1 .. n : trans[x].f_id = trans[y].f_id => x = y
  /\ \A f \in 0 .. d.nb_functions - 1 : d.call_graph[f] = CallsOf(trans, n, f)

(* Those of a function hold the first n entries of its BLOCK_TRANSITION;   *)
(* the sections up to packet r are held, with c entries of the one in r.   *)
BlocksFrom(g, bb, n) ==
  /\ g.nb_blocks = bb.num_block /\ bb.num_block # 0
  /\ \A y \in 1 .. n : bb.trans[y].b_id < bb.num_block
                       /\ InRange(bb.trans[y].b_succ, bb.num_block)
  /\ \A b \in 0 .. bb.num_block - 1 : g.control_flow_graph[b] = FlowOf(bb.trans, n, b)
SectionsFrom(d, bbs, r, c) ==
  /\ \A x \in 1 .. Len(bbs) : x + 3 <= r =>
       /\ bbs[x].f_id < d.nb_functions
       /\ BlocksFrom(d.functions[bbs[x].f_id], bbs[x], Upto(x + 3, r, c, Len(bbs[x].trans)))
  /\ \A x, y \in 1 .. Len(bbs) :
       x + 3 <= r /\ y + 3 <= r /\ bbs[x].f_id = bbs[y].f_id => x = y
  /\ \A f \in 0 .. d.nb_functions - 1 :
       (\A x \in 1 .. Len(bbs) : x + 3 <= r => bbs[x].f_id # f) => d.functions[f].nb_blocks = 0

(* The first n entries of BLOCK_IPD. *)
IpdsFrom(d, ipds, n) ==
  \A x \in 1 .. n :
    LET e == ipds[x]
    IN /\ e.f_id < d.nb_functions /\ e.b_id < d.functions[e.f_id].nb_blocks
       /\ Later(ipds, n, x) = {} =>
            d.functions[e.f_id].immediate_post_dominator[e.b_id] = e.b_ipd_id

ContentsOf(d, im, r, c) ==
  /\ CallsFrom(d, im.trans, Upto(3, r, c, Len(im.trans)))
  /\ im.granularity_bb =>
       /\ SectionsFrom(d, im.bbs, r, c)
       /\ IpdsFrom(d, im.ipds, Upto(Len(im.bbs) + 4, r, c, Len(im.ipds)))
ContentsAt(r) ==
  \A m \in T!ModuleIds :
    IF m < current THEN ContentsOf(modules[m], Image[m + 1], EndAt(Image[m + 1]), 0)
    ELSE ContentsOf(modules[m], Image[m + 1], r, Got)
ContentsInv == Loading => \E r \in Nat : At(r) /\ (~oom => ContentsAt(r))
-----------------------------------------------------------------------------
(* Rows of the graphs. *)
LEMMA RowIsRowOf ==
  ASSUME NEW list \in Seq(Nat), NEW bound \in Nat, InRange(list, bound)
  PROVE  Row(list, bound) = RowOf(list) /\ RowOf(list) \subseteq Nat
<1>1. ASSUME NEW y \in 1 .. Len(list)
      PROVE  InRange(SubSeq(list, 1, y), bound)
  <2>1. /\ Len(SubSeq(list, 1, y)) = y
        /\ \A x \in 1 .. y : SubSeq(list, 1, y)[x] = list[x]
    OBVIOUS
  <2>2. \A x \in 1 .. y : x \in 1 .. Len(list)
    OBVIOUS
  <2> QED
    BY <2>1, <2>2 DEF InRange
<1>2. {y \in 1 .. Len(list) : InRange(SubSeq(list, 1, y), bound)} = 1 .. Len(list)
  BY <1>1
<1> QED
  BY <1>2 DEF Row, RowOf

LEMMA UnitedAdds ==
  ASSUME NULL \notin SUBSET Nat, NEW R, \A r \in R : r \subseteq Nat, NEW a, a \subseteq Nat
  PROVE  /\ United(R) = NULL <=> R = {}
         /\ United(R \cup {a}) = a \cup (IF United(R) = NULL THEN {} ELSE United(R))
<1>1. UNION R \subseteq Nat
  OBVIOUS
<1>2. United(R) = NULL <=> R = {}
  BY <1>1 DEF United
<1>3. UNION (R \cup {a}) = a \cup UNION R /\ R \cup {a} # {}
  OBVIOUS
<1>4. R = {} => UNION R = {}
  OBVIOUS
<1> QED
  BY <1>2, <1>3, <1>4 DEF United

(* One more entry adds to the row it is about, and to no other. *)
LEMMA CallsOfAdds ==
  ASSUME NULL \notin SUBSET Nat, NEW trans \in Seq(TransEntry), NEW n \in 1 .. Len(trans), NEW f
  PROVE  /\ CallsOf(trans, n - 1, f) = NULL <=> \A x \in 1 .. n - 1 : trans[x].f_id # f
         /\ CallsOf(trans, n, f) =
              IF trans[n].f_id # f THEN CallsOf(trans, n - 1, f)
              ELSE RowOf(trans[n].f_calls)
                     \cup (IF CallsOf(trans, n - 1, f) = NULL THEN {}
                           ELSE CallsOf(trans, n - 1, f))
<1> DEFINE K(k) == {y \in 1 .. k : trans[y].f_id = f}
           R(k) == {RowOf(trans[x].f_calls) : x \in K(k)}
           a == RowOf(trans[n].f_calls)
<1>1. \A x \in 1 .. n : trans[x] \in TransEntry
  OBVIOUS
<1>2. \A x \in 1 .. n : RowOf(trans[x].f_calls) \subseteq Nat
  BY <1>1 DEF RowOf, TransEntry
<1>3. n \in Nat \ {0} /\ 1 .. n = 1 .. n - 1 \cup {n}
  OBVIOUS
<1>4. CallsOf(trans, n, f) = United(R(n)) /\ CallsOf(trans, n - 1, f) = United(R(n - 1))
  BY DEF CallsOf
<1>5. K(n) = IF trans[n].f_id # f THEN K(n - 1) ELSE K(n - 1) \cup {n}
  BY <1>3
<1>6. R(n) = IF trans[n].f_id # f THEN R(n - 1) ELSE R(n - 1) \cup {a}
  <2> HIDE DEF K
  <2> QED
    BY <1>5
<1>7. (\A r \in R(n - 1) : r \subseteq Nat) /\ a \subseteq Nat
  BY <1>2, <1>3
<1>8. R(n - 1) = {} <=> \A x \in 1 .. n - 1 : trans[x].f_id # f
  OBVIOUS
<1> HIDE DEF R, a
<1>9. /\ United(R(n - 1)) = NULL <=> R(n - 1) = {}
      /\ United(R(n - 1) \cup {a}) =
           a \cup (IF United(R(n - 1)) = NULL THEN {} ELSE United(R(n - 1)))
  <2>1. PICK S : S = R(n - 1)
    OBVIOUS
  <2>2. /\ United(S) = NULL <=> S = {}
        /\ United(S \cup {a}) = a \cup (IF United(S) = NULL THEN {} ELSE United(S))
    BY <2>1, <1>7, UnitedAdds
  <2> QED
    BY <2>1, <2>2
<1> QED
  BY <1>4, <1>6, <1>8, <1>9 DEF a

LEMMA FlowOfAdds ==
  ASSUME NULL \notin SUBSET Nat, NEW trans \in Seq(BbEntry), NEW n \in 1 .. Len(trans), NEW b
  PROVE  FlowOf(trans, n, b) =
           IF trans[n].b_id # b THEN FlowOf(trans, n - 1, b)
           ELSE RowOf(trans[n].b_succ)
                  \cup (IF FlowOf(trans, n - 1, b) = NULL THEN {} ELSE FlowOf(trans, n - 1, b))
<1> DEFINE K(k) == {y \in 1 .. k : trans[y].b_id = b}
           R(k) == {RowOf(trans[x].b_succ) : x \in K(k)}
           a == RowOf(trans[n].b_succ)
<1>1. \A x \in 1 .. n : trans[x] \in BbEntry
  OBVIOUS
<1>2. \A x \in 1 .. n : RowOf(trans[x].b_succ) \subseteq Nat
  BY <1>1 DEF RowOf, BbEntry
<1>3. n \in Nat \ {0} /\ 1 .. n = 1 .. n - 1 \cup {n}
  OBVIOUS
<1>4. FlowOf(trans, n, b) = United(R(n)) /\ FlowOf(trans, n - 1, b) = United(R(n - 1))
  BY DEF FlowOf
<1>5. K(n) = IF trans[n].b_id # b THEN K(n - 1) ELSE K(n - 1) \cup {n}
  BY <1>3
<1>6. R(n) = IF trans[n].b_id # b THEN R(n - 1) ELSE R(n - 1) \cup {a}
  <2> HIDE DEF K
  <2> QED
    BY <1>5
<1>7. (\A r \in R(n - 1) : r \subseteq Nat) /\ a \subseteq Nat
  BY <1>2, <1>3
<1> HIDE DEF R, a
<1>9. United(R(n - 1) \cup {a}) =
        a \cup (IF United(R(n - 1)) = NULL THEN {} ELSE United(R(n - 1)))
  <2>1. PICK S : S = R(n - 1)
    OBVIOUS
  <2>2. United(S \cup {a}) = a \cup (IF United(S) = NULL THEN {} ELSE United(S))
    BY <2>1, <1>7, UnitedAdds
  <2> QED
    BY <2>1, <2>2
<1> QED
  BY <1>4, <1>6, <1>9 DEF a

LEMMA NothingOf ==
  \A trans, f : CallsOf(trans, 0, f) = NULL /\ FlowOf(trans, 0, f) = NULL
<1> TAKE trans, f
<1>1. 1 .. 0 = {}
  OBVIOUS
<1>2. {y \in 1 .. 0 : trans[y].f_id = f} = {} /\ {y \in 1 .. 0 : trans[y].b_id = f} = {}
  BY <1>1
<1> QED
  BY <1>2 DEF CallsOf, FlowOf, United
-----------------------------------------------------------------------------
(* What the tables hold after one more entry, and where others change. *)
LEMMA CallsNone ==
  ASSUME NEW d, NEW trans, \A f \in 0 .. d.nb_functions - 1 : d.call_graph[f] = NULL
  PROVE  CallsFrom(d, trans, 0)
<1>1. 1 .. 0 = {}
  OBVIOUS
<1> QED
  BY <1>1, NothingOf DEF CallsFrom

LEMMA CallsKept ==
  ASSUME NEW d, NEW e, e.nb_functions = d.nb_functions, e.call_graph = d.call_graph,
         NEW trans, NEW n, CallsFrom(d, trans, n)
  PROVE  CallsFrom(e, trans, n)
  BY DEF CallsFrom

LEMMA CallsAdds ==
  ASSUME NULL \notin SUBSET Nat, NEW d, NEW e, d.nb_functions \in Nat,
         e.nb_functions = d.nb_functions,
         NEW trans \in Seq(TransEntry), NEW n \in 1 .. Len(trans),
         CallsFrom(d, trans, n - 1), trans[n].f_id < d.nb_functions,
         InRange(trans[n].f_calls, d.nb_functions), d.call_graph[trans[n].f_id] = NULL,
         e.call_graph[trans[n].f_id] = Row(trans[n].f_calls, d.nb_functions),
         \A f \in 0 .. d.nb_functions - 1 :
           f # trans[n].f_id => e.call_graph[f] = d.call_graph[f]
  PROVE  CallsFrom(e, trans, n)
<1> DEFINE g == trans[n].f_id
           list == trans[n].f_calls
<1>1. g \in Nat /\ list \in Seq(Nat) /\ \A x \in 1 .. n : trans[x].f_id \in Nat
  <2>1. \A x \in 1 .. n : trans[x] \in TransEntry
    OBVIOUS
  <2> QED
    BY <2>1 DEF TransEntry
<1>2. g \in 0 .. d.nb_functions - 1
  BY <1>1
<1>3. Row(list, d.nb_functions) = RowOf(list)
  BY <1>1, RowIsRowOf
<1>4. \A x \in 1 .. n : x = n \/ x \in 1 .. n - 1
  OBVIOUS
<1>5. CallsOf(trans, n - 1, g) = NULL
  BY <1>2 DEF CallsFrom
<1>0. \A f :
        /\ CallsOf(trans, n - 1, f) = NULL <=> \A x \in 1 .. n - 1 : trans[x].f_id # f
        /\ CallsOf(trans, n, f) =
             IF trans[n].f_id # f THEN CallsOf(trans, n - 1, f)
             ELSE RowOf(trans[n].f_calls)
                    \cup (IF CallsOf(trans, n - 1, f) = NULL THEN {}
                          ELSE CallsOf(trans, n - 1, f))
  BY CallsOfAdds
<1>6. \A x \in 1 .. n - 1 : trans[x].f_id # g
  BY <1>0, <1>5
<1>7. CallsOf(trans, n, g) = RowOf(list)
  <2>1. CallsOf(trans, n, g) = RowOf(list) \cup {}
    BY <1>0, <1>5
  <2> QED
    BY <2>1
<1>8. \A f : f # g => CallsOf(trans, n, f) = CallsOf(trans, n - 1, f)
  BY <1>0
<1>9. \A x \in 1 .. n : trans[x].f_id < e.nb_functions /\ InRange(trans[x].f_calls, e.nb_functions)
  BY <1>4 DEF CallsFrom
<1>10. \A x, y \in 1 .. n : trans[x].f_id = trans[y].f_id => x = y
  BY <1>4, <1>6 DEF CallsFrom
<1>11. \A f \in 0 .. e.nb_functions - 1 : e.call_graph[f] = CallsOf(trans, n, f)
  <2> TAKE f \in 0 .. e.nb_functions - 1
  <2>1. CASE f = g
    BY <2>1, <1>3, <1>7
  <2>2. CASE f # g
    <3>1. e.call_graph[f] = d.call_graph[f] /\ d.call_graph[f] = CallsOf(trans, n - 1, f)
      BY <2>2 DEF CallsFrom
    <3> QED
      BY <3>1, <2>2, <1>8
  <2> QED
    BY <2>1, <2>2
<1> QED
  BY <1>9, <1>10, <1>11 DEF CallsFrom

LEMMA BlocksNone ==
  ASSUME NEW g, NEW bb, bb.num_block # 0, Emptied(g, bb.num_block)
  PROVE  BlocksFrom(g, bb, 0)
<1>1. 1 .. 0 = {}
  OBVIOUS
<1> QED
  BY <1>1, NothingOf DEF BlocksFrom, Emptied

LEMMA BlocksAdds ==
  ASSUME NULL \notin SUBSET Nat, NEW g, NEW h, NEW bb \in BbTable, NEW n \in 1 .. Len(bb.trans),
         BlocksFrom(g, bb, n - 1), bb.trans[n].b_id < bb.num_block,
         InRange(bb.trans[n].b_succ, bb.num_block),
         SetsRow(g, h, bb.trans[n].b_id, bb.trans[n].b_succ)
  PROVE  BlocksFrom(h, bb, n)
<1> DEFINE trans == bb.trans
           b == trans[n].b_id
           list == trans[n].b_succ
           N == bb.num_block
<1>1. trans \in Seq(BbEntry) /\ N \in Nat
  BY DEF BbTable
<1>2. b \in Nat /\ list \in Seq(Nat)
  <2>1. trans[n] \in BbEntry
    BY <1>1
  <2> QED
    BY <2>1 DEF BbEntry
<1>3. b \in 0 .. N - 1 /\ g.nb_blocks = N /\ N # 0
  BY <1>1, <1>2 DEF BlocksFrom
<1>4. Row(list, N) = RowOf(list)
  BY <1>1, <1>2, RowIsRowOf
<1>5. \A y \in 1 .. n : y = n \/ y \in 1 .. n - 1
  OBVIOUS
<1>6. \A y \in 1 .. n : trans[y].b_id < N /\ InRange(trans[y].b_succ, N)
  BY <1>5 DEF BlocksFrom
<1>7. \A a \in 0 .. N - 1 : g.control_flow_graph[a] = FlowOf(trans, n - 1, a)
  BY DEF BlocksFrom
<1>8. /\ h.nb_blocks = N
      /\ h.control_flow_graph[b] =
           RowOf(list) \cup (IF g.control_flow_graph[b] = NULL THEN {} ELSE g.control_flow_graph[b])
      /\ \A a \in 0 .. N - 1 : a # b => h.control_flow_graph[a] = g.control_flow_graph[a]
  BY <1>3, <1>4 DEF SetsRow
<1>0. \A a : FlowOf(trans, n, a) =
             IF trans[n].b_id # a THEN FlowOf(trans, n - 1, a)
             ELSE RowOf(trans[n].b_succ)
                    \cup (IF FlowOf(trans, n - 1, a) = NULL THEN {} ELSE FlowOf(trans, n - 1, a))
  BY <1>1, FlowOfAdds
<1>9. \A a \in 0 .. N - 1 : h.control_flow_graph[a] = FlowOf(trans, n, a)
  <2> TAKE a \in 0 .. N - 1
  <2> HIDE DEF trans, N
  <2>1. FlowOf(trans, n, a) =
          IF b # a THEN FlowOf(trans, n - 1, a)
          ELSE RowOf(list)
                 \cup (IF FlowOf(trans, n - 1, a) = NULL THEN {} ELSE FlowOf(trans, n - 1, a))
    BY <1>0
  <2> HIDE DEF b, list
  <2>2. g.control_flow_graph[a] = FlowOf(trans, n - 1, a)
    BY <1>7
  <2>3. CASE a = b
    BY <2>1, <2>2, <2>3, <1>8
  <2>4. CASE a # b
    BY <2>1, <2>2, <2>4, <1>8
  <2> QED
    BY <2>3, <2>4
<1> QED
  BY <1>3, <1>6, <1>8, <1>9 DEF BlocksFrom

(* The block tables, before the first one is sent. *)
LEMMA SectionsNone ==
  ASSUME NEW d, NEW bbs \in Seq(BbTable), NEW r \in Nat, r <= 3, NEW c
  PROVE  SectionsFrom(d, bbs, r, c) <=>
           \A f \in 0 .. d.nb_functions - 1 : d.functions[f].nb_blocks = 0
<1>1. \A x \in 1 .. Len(bbs) : ~(x + 3 <= r)
  OBVIOUS
<1> QED
  BY <1>1 DEF SectionsFrom

(* Another entry of the table the monitor is at. *)
LEMMA SectionsAdds ==
  ASSUME NEW d, NEW e, d.nb_functions \in Nat, e.nb_functions = d.nb_functions,
         NEW bbs \in Seq(BbTable), NEW k \in 1 .. Len(bbs), NEW c,
         SectionsFrom(d, bbs, k + 3, c - 1),
         BlocksFrom(e.functions[bbs[k].f_id], bbs[k], c),
         \A f \in 0 .. d.nb_functions - 1 :
           f # bbs[k].f_id => e.functions[f] = d.functions[f]
  PROVE  SectionsFrom(e, bbs, k + 3, c)
<1>1. ASSUME NEW x \in 1 .. Len(bbs), x + 3 <= k + 3
      PROVE  /\ bbs[x].f_id < e.nb_functions
             /\ BlocksFrom(e.functions[bbs[x].f_id], bbs[x],
                           Upto(x + 3, k + 3, c, Len(bbs[x].trans)))
  <2>1. CASE x = k
    BY <1>1, <2>1 DEF SectionsFrom, Upto
  <2>2. CASE x # k
    <3>1. ~(k + 3 < x + 3) /\ k + 3 # x + 3 /\ k + 3 <= k + 3
      BY <1>1, <2>2
    <3>2. Upto(x + 3, k + 3, c, Len(bbs[x].trans)) = Upto(x + 3, k + 3, c - 1, Len(bbs[x].trans))
      BY <3>1 DEF Upto
    <3>3. bbs[x].f_id # bbs[k].f_id
      BY <1>1, <2>2, <3>1 DEF SectionsFrom
    <3>4. bbs[x].f_id \in 0 .. d.nb_functions - 1
      <4>1. bbs[x] \in BbTable
        OBVIOUS
      <4>2. bbs[x].f_id \in Nat
        BY <4>1 DEF BbTable
      <4>3. bbs[x].f_id < d.nb_functions
        BY <1>1 DEF SectionsFrom
      <4> QED
        BY <4>2, <4>3
    <3>5. e.functions[bbs[x].f_id] = d.functions[bbs[x].f_id]
      BY <3>3, <3>4
    <3> QED
      BY <1>1, <3>2, <3>5 DEF SectionsFrom
  <2> QED
    BY <2>1, <2>2
<1>2. \A x, y \in 1 .. Len(bbs) :
        x + 3 <= k + 3 /\ y + 3 <= k + 3 /\ bbs[x].f_id = bbs[y].f_id => x = y
  BY DEF SectionsFrom
<1>3. ASSUME NEW f \in 0 .. e.nb_functions - 1,
             \A x \in 1 .. Len(bbs) : x + 3 <= k + 3 => bbs[x].f_id # f
      PROVE  e.functions[f].nb_blocks = 0
  <2>1. k + 3 <= k + 3
    OBVIOUS
  <2>2. f # bbs[k].f_id
    BY <1>3, <2>1
  <2> QED
    BY <1>3, <2>2 DEF SectionsFrom
<1> QED
  BY <1>1, <1>2, <1>3 DEF SectionsFrom

(* The next table begins: its function has none yet. *)
LEMMA SectionsBegin ==
  ASSUME NEW d, NEW e, d.nb_functions \in Nat, e.nb_functions = d.nb_functions,
         NEW bbs \in Seq(BbTable), NEW k \in 1 .. Len(bbs), NEW c,
         SectionsFrom(d, bbs, k + 2, c), k > 1 => c = Len(bbs[k - 1].trans),
         bbs[k].f_id < d.nb_functions, d.functions[bbs[k].f_id].nb_blocks = 0,
         BlocksFrom(e.functions[bbs[k].f_id], bbs[k], 0),
         \A f \in 0 .. d.nb_functions - 1 :
           f # bbs[k].f_id => e.functions[f] = d.functions[f]
  PROVE  SectionsFrom(e, bbs, k + 3, 0)
<1>0. \A x \in 1 .. Len(bbs) : bbs[x].f_id \in Nat
  <2>1. \A x \in 1 .. Len(bbs) : bbs[x] \in BbTable
    OBVIOUS
  <2> QED
    BY <2>1 DEF BbTable
<1>1. ASSUME NEW x \in 1 .. Len(bbs), x < k
      PROVE  /\ bbs[x].f_id < d.nb_functions /\ bbs[x].f_id # bbs[k].f_id
             /\ BlocksFrom(d.functions[bbs[x].f_id], bbs[x], Len(bbs[x].trans))
  <2>1. x + 3 <= k + 2 /\ ~(k + 2 < x + 3) /\ (k + 2 = x + 3 => k - 1 = x /\ k > 1)
    BY <1>1
  <2>2. Upto(x + 3, k + 2, c, Len(bbs[x].trans)) = Len(bbs[x].trans)
    BY <2>1 DEF Upto
  <2>3. /\ bbs[x].f_id < d.nb_functions
        /\ BlocksFrom(d.functions[bbs[x].f_id], bbs[x], Len(bbs[x].trans))
    BY <2>1, <2>2 DEF SectionsFrom
  <2> QED
    BY <2>3 DEF BlocksFrom
<1>2. ASSUME NEW x \in 1 .. Len(bbs), x + 3 <= k + 3
      PROVE  /\ bbs[x].f_id < e.nb_functions
             /\ BlocksFrom(e.functions[bbs[x].f_id], bbs[x],
                           Upto(x + 3, k + 3, 0, Len(bbs[x].trans)))
  <2>1. CASE x = k
    BY <1>2, <2>1 DEF Upto
  <2>2. CASE x # k
    <3>1. x < k /\ ~(k + 3 < x + 3) /\ k + 3 # x + 3
      BY <1>2, <2>2
    <3>2. Upto(x + 3, k + 3, 0, Len(bbs[x].trans)) = Len(bbs[x].trans)
      BY <3>1 DEF Upto
    <3>3. bbs[x].f_id \in 0 .. d.nb_functions - 1
      BY <3>1, <1>0, <1>1
    <3>4. e.functions[bbs[x].f_id] = d.functions[bbs[x].f_id]
      BY <3>1, <3>3, <1>1
    <3> QED
      BY <3>1, <3>2, <3>4, <1>1
  <2> QED
    BY <2>1, <2>2
<1>3. ASSUME NEW x \in 1 .. Len(bbs), NEW y \in 1 .. Len(bbs),
             x + 3 <= k + 3, y + 3 <= k + 3, bbs[x].f_id = bbs[y].f_id
      PROVE  x = y
  <2>1. (x = k \/ x < k) /\ (y = k \/ y < k)
    BY <1>3
  <2>2. CASE x < k /\ y < k
    <3>1. x + 3 <= k + 2 /\ y + 3 <= k + 2
      BY <2>2
    <3> QED
      BY <3>1, <1>3 DEF SectionsFrom
  <2> QED
    BY <2>1, <2>2, <1>1, <1>3
<1>4. ASSUME NEW f \in 0 .. e.nb_functions - 1,
             \A x \in 1 .. Len(bbs) : x + 3 <= k + 3 => bbs[x].f_id # f
      PROVE  e.functions[f].nb_blocks = 0
  <2>1. \A x \in 1 .. Len(bbs) : x + 3 <= k + 2 => x + 3 <= k + 3
    OBVIOUS
  <2>2. d.functions[f].nb_blocks = 0
    BY <1>4, <2>1 DEF SectionsFrom
  <2>3. f # bbs[k].f_id
    BY <1>4
  <2> QED
    BY <2>2, <2>3
<1> QED
  BY <1>2, <1>3, <1>4 DEF SectionsFrom

(* The last table has been read, and stays. *)
LEMMA SectionsPast ==
  ASSUME NEW d, NEW e, e.nb_functions = d.nb_functions,
         \A f \in 0 .. d.nb_functions - 1 :
           /\ e.functions[f].nb_blocks = d.functions[f].nb_blocks
           /\ e.functions[f].control_flow_graph = d.functions[f].control_flow_graph,
         NEW bbs \in Seq(BbTable), NEW r \in Nat, r >= Len(bbs) + 3, d.nb_functions \in Nat,
         NEW c, SectionsFrom(d, bbs, r, c),
         \A x \in 1 .. Len(bbs) : r = x + 3 => c = Len(bbs[x].trans),
         NEW s \in Nat, s > Len(bbs) + 3, NEW v
  PROVE  SectionsFrom(e, bbs, s, v)
<1>0. \A x \in 1 .. Len(bbs) : bbs[x].f_id \in Nat
  <2>1. \A x \in 1 .. Len(bbs) : bbs[x] \in BbTable
    OBVIOUS
  <2> QED
    BY <2>1 DEF BbTable
<1>1. \A x \in 1 .. Len(bbs) : /\ x + 3 <= r /\ x + 3 <= s /\ ~(r < x + 3)
                               /\ ~(s < x + 3) /\ s # x + 3
  OBVIOUS
<1>2. ASSUME NEW x \in 1 .. Len(bbs)
      PROVE  /\ bbs[x].f_id < e.nb_functions
             /\ BlocksFrom(e.functions[bbs[x].f_id], bbs[x], Upto(x + 3, s, v, Len(bbs[x].trans)))
  <2>1. Upto(x + 3, s, v, Len(bbs[x].trans)) = Upto(x + 3, r, c, Len(bbs[x].trans))
    BY <1>1 DEF Upto
  <2>2. /\ bbs[x].f_id < d.nb_functions
        /\ BlocksFrom(d.functions[bbs[x].f_id], bbs[x], Upto(x + 3, r, c, Len(bbs[x].trans)))
    BY <1>1 DEF SectionsFrom
  <2>3. bbs[x].f_id \in 0 .. d.nb_functions - 1
    BY <2>2, <1>0
  <2> QED
    BY <2>1, <2>2, <2>3 DEF BlocksFrom
<1>3. \A x, y \in 1 .. Len(bbs) : bbs[x].f_id = bbs[y].f_id => x = y
  BY <1>1 DEF SectionsFrom
<1>4. ASSUME NEW f \in 0 .. e.nb_functions - 1, \A x \in 1 .. Len(bbs) : bbs[x].f_id # f
      PROVE  e.functions[f].nb_blocks = 0
  BY <1>1, <1>4 DEF SectionsFrom
<1> QED
  BY <1>1, <1>2, <1>3, <1>4 DEF SectionsFrom

(* The post-dominators. *)
LEMMA IpdsNone == \A d, ipds : IpdsFrom(d, ipds, 0)
<1>1. 1 .. 0 = {}
  OBVIOUS
<1> QED
  BY <1>1 DEF IpdsFrom

LEMMA IpdsAdds ==
  ASSUME NEW d, NEW e, d.nb_functions \in Nat, e.nb_functions = d.nb_functions,
         NEW ipds \in Seq(IpdEntry), NEW n \in 1 .. Len(ipds), IpdsFrom(d, ipds, n - 1),
         ipds[n].f_id < d.nb_functions, ipds[n].b_id < d.functions[ipds[n].f_id].nb_blocks,
         d.functions[ipds[n].f_id].nb_blocks \in Nat,
         SetsIpd(d.functions[ipds[n].f_id], e.functions[ipds[n].f_id], ipds[n].b_id,
                 ipds[n].b_ipd_id),
         \A f \in 0 .. d.nb_functions - 1 :
           f # ipds[n].f_id => e.functions[f] = d.functions[f]
  PROVE  IpdsFrom(e, ipds, n)
<1>0. \A x \in 1 .. n : ipds[x].f_id \in Nat /\ ipds[x].b_id \in Nat
  <2>1. \A x \in 1 .. n : ipds[x] \in IpdEntry
    OBVIOUS
  <2> QED
    BY <2>1 DEF IpdEntry
<1> DEFINE f == ipds[n].f_id
           b == ipds[n].b_id
<1>1. /\ e.functions[f].nb_blocks = d.functions[f].nb_blocks
      /\ e.functions[f].immediate_post_dominator[b] = ipds[n].b_ipd_id
      /\ \A a \in 0 .. d.functions[f].nb_blocks - 1 : a # b =>
           e.functions[f].immediate_post_dominator[a] = d.functions[f].immediate_post_dominator[a]
  BY DEF SetsIpd
<1> SUFFICES ASSUME NEW x \in 1 .. n
             PROVE  /\ ipds[x].f_id < e.nb_functions
                    /\ ipds[x].b_id < e.functions[ipds[x].f_id].nb_blocks
                    /\ Later(ipds, n, x) = {} =>
                         e.functions[ipds[x].f_id].immediate_post_dominator[ipds[x].b_id]
                           = ipds[x].b_ipd_id
  BY DEF IpdsFrom
<1>2. CASE x = n
  BY <1>1, <1>2
<1>3. CASE x # n
  <2>1. x \in 1 .. n - 1 /\ n \in x + 1 .. n /\ \A y \in x + 1 .. n - 1 : y \in x + 1 .. n
    BY <1>3
  <2> DEFINE g == ipds[x].f_id
             a == ipds[x].b_id
  <2>2. /\ g < d.nb_functions /\ a < d.functions[g].nb_blocks
        /\ Later(ipds, n - 1, x) = {} =>
             d.functions[g].immediate_post_dominator[a] = ipds[x].b_ipd_id
    BY <2>1 DEF IpdsFrom
  <2>3. Later(ipds, n, x) = {} => Later(ipds, n - 1, x) = {} /\ (g # f \/ a # b)
    BY <2>1 DEF Later
  <2>4. g \in 0 .. d.nb_functions - 1 /\ a \in Nat
    BY <2>2, <1>0
  <2>5. CASE g # f
    <3>1. e.functions[g] = d.functions[g]
      BY <2>4, <2>5
    <3> QED
      BY <3>1, <2>2, <2>3
  <2>6. CASE g = f
    <3>1. a < e.functions[g].nb_blocks
      BY <2>2, <2>6, <1>1
    <3>2. a \in 0 .. d.functions[f].nb_blocks - 1
      BY <2>2, <2>4, <2>6
    <3>3. a # b => e.functions[g].immediate_post_dominator[a]
                     = d.functions[g].immediate_post_dominator[a]
      BY <3>2, <2>6, <1>1
    <3> QED
      BY <3>1, <3>3, <2>2, <2>3, <2>6
  <2> QED
    BY <2>5, <2>6
<1> QED
  BY <1>2, <1>3
-----------------------------------------------------------------------------
(* The contents of a module's tables from packet to packet. *)
ImageTyped(im) ==
  /\ im.trans \in Seq(TransEntry) /\ im.granularity_bb \in BOOLEAN
  /\ im.bbs \in Seq(BbTable) /\ im.ipds \in Seq(IpdEntry)

(* With c entries, packet r has been loaded whole. *)
WholeAt(im, r, c) ==
  /\ r = 3 => c = Len(im.trans)
  /\ im.granularity_bb =>
       /\ \A x \in 1 .. Len(im.bbs) : r = x + 3 => c = Len(im.bbs[x].trans)
       /\ r = Len(im.bbs) + 4 => c = Len(im.ipds)

(* Until FUNCTION_TRANSITION begins, nothing but functions is there. *)
LEMMA ContentsEmpty ==
  ASSUME NEW im, ImageTyped(im), NEW r \in Nat, r <= 2, NEW c, NEW d
  PROVE  ContentsOf(d, im, r, c) <=>
           /\ \A f \in 0 .. d.nb_functions - 1 : d.call_graph[f] = NULL
           /\ im.granularity_bb =>
                \A f \in 0 .. d.nb_functions - 1 : d.functions[f].nb_blocks = 0
<1>1. Len(im.bbs) \in Nat
  BY DEF ImageTyped
<1>2. Upto(3, r, c, Len(im.trans)) = 0 /\ Upto(Len(im.bbs) + 4, r, c, Len(im.ipds)) = 0
  BY <1>1 DEF Upto
<1>3. CallsFrom(d, im.trans, 0) <=> \A f \in 0 .. d.nb_functions - 1 : d.call_graph[f] = NULL
  BY CallsNone, NothingOf DEF CallsFrom
<1>4. SectionsFrom(d, im.bbs, r, c) <=>
        \A f \in 0 .. d.nb_functions - 1 : d.functions[f].nb_blocks = 0
  <2>1. r <= 3 /\ im.bbs \in Seq(BbTable)
    BY DEF ImageTyped
  <2> QED
    BY <2>1, SectionsNone
<1>5. IpdsFrom(d, im.ipds, 0)
  BY IpdsNone
<1> QED
  BY <1>2, <1>3, <1>4, <1>5 DEF ContentsOf

(* The next packet is taken, and it allocates nothing. *)
LEMMA ContentsNext ==
  ASSUME NEW im, ImageTyped(im), NEW r \in Nat \ {0}, NEW c, WholeAt(im, r, c),
         NEW d, d.nb_functions \in Nat, ContentsOf(d, im, r, c),
         im.granularity_bb => \A x \in 1 .. Len(im.bbs) : r + 1 # x + 3
  PROVE  ContentsOf(d, im, r + 1, 0)
<1>1. Len(im.bbs) \in Nat /\ im.bbs \in Seq(BbTable)
  BY DEF ImageTyped
<1>2. Upto(3, r + 1, 0, Len(im.trans)) = Upto(3, r, c, Len(im.trans))
  <2>1. r < 2 \/ r = 2 \/ r = 3 \/ r > 3
    OBVIOUS
  <2> QED
    BY <2>1 DEF Upto, WholeAt
<1>3. CallsFrom(d, im.trans, Upto(3, r + 1, 0, Len(im.trans)))
  BY <1>2 DEF ContentsOf
<1>4. ASSUME im.granularity_bb
      PROVE  IpdsFrom(d, im.ipds, Upto(Len(im.bbs) + 4, r + 1, 0, Len(im.ipds)))
  <2> DEFINE p == Len(im.bbs) + 4
  <2>1. \/ r < p - 1 \/ r = p - 1 \/ r = p \/ r > p
    BY <1>1
  <2>2. r = p => c = Len(im.ipds)
    BY <1>4 DEF WholeAt
  <2>3. p \in Nat
    BY <1>1
  <2> HIDE DEF p
  <2>4. Upto(p, r + 1, 0, Len(im.ipds)) = Upto(p, r, c, Len(im.ipds))
    BY <2>1, <2>2, <2>3 DEF Upto
  <2>5. IpdsFrom(d, im.ipds, Upto(p, r, c, Len(im.ipds)))
    BY <1>4 DEF ContentsOf, p
  <2> QED
    BY <2>4, <2>5 DEF p
<1>5. ASSUME im.granularity_bb
      PROVE  SectionsFrom(d, im.bbs, r + 1, 0)
  <2>1. SectionsFrom(d, im.bbs, r, c)
    BY <1>5 DEF ContentsOf
  <2>2. r + 1 <= 3 \/ r >= Len(im.bbs) + 3
    <3>1. ASSUME r + 1 > 3, r < Len(im.bbs) + 3
          PROVE  FALSE
      <4>1. r - 2 \in 1 .. Len(im.bbs) /\ r + 1 = (r - 2) + 3
        BY <3>1, <1>1
      <4> QED
        BY <4>1, <1>5
    <3> QED
      BY <3>1, <1>1
  <2>3. CASE r + 1 <= 3
    <3>1. r <= 3 /\ r + 1 \in Nat
      BY <2>3
    <3>2. \A f \in 0 .. d.nb_functions - 1 : d.functions[f].nb_blocks = 0
      BY <3>1, <2>1, <1>1, SectionsNone
    <3> QED
      BY <3>1, <3>2, <2>3, <1>1, SectionsNone
  <2>4. CASE r >= Len(im.bbs) + 3
    <3>1. r + 1 \in Nat /\ r + 1 > Len(im.bbs) + 3
      BY <2>4, <1>1
    <3>2. \A x \in 1 .. Len(im.bbs) : r = x + 3 => c = Len(im.bbs[x].trans)
      BY <1>5 DEF WholeAt
    <3> QED
      BY <3>1, <3>2, <2>1, <2>4, <1>1, SectionsPast
  <2> QED
    BY <2>2, <2>3, <2>4
<1> QED
  BY <1>3, <1>4, <1>5 DEF ContentsOf

(* An entry of FUNCTION_TRANSITION. *)
LEMMA ContentsCalls ==
  ASSUME NULL \notin SUBSET Nat, NEW im, ImageTyped(im),
         NEW d, NEW e, d.nb_functions \in Nat, e.nb_functions = d.nb_functions,
         e.functions = d.functions, NEW n \in 1 .. Len(im.trans), ContentsOf(d, im, 3, n - 1),
         im.trans[n].f_id < d.nb_functions,
         InRange(im.trans[n].f_calls, d.nb_functions), d.call_graph[im.trans[n].f_id] = NULL,
         e.call_graph[im.trans[n].f_id] = Row(im.trans[n].f_calls, d.nb_functions),
         \A f \in 0 .. d.nb_functions - 1 :
           f # im.trans[n].f_id => e.call_graph[f] = d.call_graph[f]
  PROVE  ContentsOf(e, im, 3, n)
<1>1. im.trans \in Seq(TransEntry) /\ im.bbs \in Seq(BbTable) /\ Len(im.bbs) \in Nat
  BY DEF ImageTyped
<1>2. \A c : /\ Upto(3, 3, c, Len(im.trans)) = c
             /\ Upto(Len(im.bbs) + 4, 3, c, Len(im.ipds)) = 0
  BY <1>1 DEF Upto
<1>3. CallsFrom(d, im.trans, n - 1)
  BY <1>2 DEF ContentsOf
<1>4. CallsFrom(e, im.trans, n)
  BY <1>1, <1>3, CallsAdds
<1>5. ASSUME im.granularity_bb
      PROVE  SectionsFrom(e, im.bbs, 3, n)
  <2>1. SectionsFrom(d, im.bbs, 3, n - 1)
    BY <1>5 DEF ContentsOf
  <2>2. PICK r \in Nat : r = 3 /\ r <= 3
    OBVIOUS
  <2>3. SectionsFrom(d, im.bbs, r, n - 1)
    BY <2>1, <2>2
  <2>4. \A f \in 0 .. d.nb_functions - 1 : d.functions[f].nb_blocks = 0
    BY <2>2, <2>3, <1>1, SectionsNone
  <2>5. SectionsFrom(e, im.bbs, r, n)
    BY <2>2, <2>4, <1>1, SectionsNone
  <2> QED
    BY <2>2, <2>5
<1>6. IpdsFrom(e, im.ipds, 0)
  BY IpdsNone
<1> QED
  BY <1>2, <1>4, <1>5, <1>6 DEF ContentsOf

(* BLOCK_TRANSITION begins. *)
LEMMA ContentsSection ==
  ASSUME NEW im, ImageTyped(im), im.granularity_bb, NEW k \in 1 .. Len(im.bbs),
         NEW c, WholeAt(im, k + 2, c), NEW d, NEW e, d.nb_functions \in Nat,
         ContentsOf(d, im, k + 2, c),
         e.nb_functions = d.nb_functions, e.call_graph = d.call_graph,
         im.bbs[k].f_id < d.nb_functions, d.functions[im.bbs[k].f_id].nb_blocks = 0,
         im.bbs[k].num_block # 0,
         Emptied(e.functions[im.bbs[k].f_id], im.bbs[k].num_block),
         \A f \in 0 .. d.nb_functions - 1 :
           f # im.bbs[k].f_id => e.functions[f] = d.functions[f]
  PROVE  ContentsOf(e, im, k + 3, 0)
<1>1. im.bbs \in Seq(BbTable) /\ Len(im.bbs) \in Nat
  BY DEF ImageTyped
<1>2. /\ Upto(3, k + 2, c, Len(im.trans)) = Len(im.trans)
      /\ Upto(3, k + 3, 0, Len(im.trans)) = Len(im.trans)
      /\ Upto(Len(im.bbs) + 4, k + 3, 0, Len(im.ipds)) = 0
  <2>1. /\ ~(k + 2 < 3) /\ ~(k + 3 < 3) /\ k + 3 # 3 /\ k + 3 < Len(im.bbs) + 4
        /\ k + 2 = 3 => c = Len(im.trans)
    BY <1>1 DEF WholeAt
  <2> QED
    BY <2>1 DEF Upto
<1>3. CallsFrom(e, im.trans, Len(im.trans))
  BY <1>2, CallsKept DEF ContentsOf
<1>4. BlocksFrom(e.functions[im.bbs[k].f_id], im.bbs[k], 0)
  BY BlocksNone
<1>5. k > 1 => c = Len(im.bbs[k - 1].trans)
  <2> HAVE k > 1
  <2>1. k - 1 \in 1 .. Len(im.bbs) /\ k + 2 = (k - 1) + 3
    BY <1>1
  <2> QED
    BY <2>1 DEF WholeAt
<1>6. SectionsFrom(d, im.bbs, k + 2, c)
  BY DEF ContentsOf
<1>7. SectionsFrom(e, im.bbs, k + 3, 0)
  BY <1>1, <1>4, <1>5, <1>6, SectionsBegin
<1>8. IpdsFrom(e, im.ipds, 0)
  BY IpdsNone
<1> QED
  BY <1>2, <1>3, <1>7, <1>8 DEF ContentsOf

(* An entry of BLOCK_TRANSITION. *)
LEMMA ContentsBlock ==
  ASSUME NULL \notin SUBSET Nat, NEW im, ImageTyped(im), im.granularity_bb,
         NEW k \in 1 .. Len(im.bbs), NEW n \in 1 .. Len(im.bbs[k].trans),
         NEW d, NEW e, d.nb_functions \in Nat, ContentsOf(d, im, k + 3, n - 1),
         e.nb_functions = d.nb_functions, e.call_graph = d.call_graph,
         im.bbs[k].trans[n].b_id < d.functions[im.bbs[k].f_id].nb_blocks,
         InRange(im.bbs[k].trans[n].b_succ, d.functions[im.bbs[k].f_id].nb_blocks),
         SetsRow(d.functions[im.bbs[k].f_id], e.functions[im.bbs[k].f_id],
                 im.bbs[k].trans[n].b_id, im.bbs[k].trans[n].b_succ),
         \A f \in 0 .. d.nb_functions - 1 :
           f # im.bbs[k].f_id => e.functions[f] = d.functions[f]
  PROVE  ContentsOf(e, im, k + 3, n)
<1>1. im.bbs \in Seq(BbTable) /\ Len(im.bbs) \in Nat
  BY DEF ImageTyped
<1>2. \A c : /\ Upto(3, k + 3, c, Len(im.trans)) = Len(im.trans)
             /\ Upto(Len(im.bbs) + 4, k + 3, c, Len(im.ipds)) = 0
             /\ Upto(k + 3, k + 3, c, Len(im.bbs[k].trans)) = c
  <2>1. ~(k + 3 < 3) /\ k + 3 # 3 /\ k + 3 < Len(im.bbs) + 4 /\ ~(k + 3 < k + 3)
    BY <1>1
  <2> QED
    BY <2>1 DEF Upto
<1>3. CallsFrom(e, im.trans, Len(im.trans))
  BY <1>2, CallsKept DEF ContentsOf
<1> DEFINE bb == im.bbs[k]
           g == d.functions[bb.f_id]
           h == e.functions[bb.f_id]
<1>4. SectionsFrom(d, im.bbs, k + 3, n - 1) /\ k + 3 <= k + 3
  BY DEF ContentsOf
<1>5. BlocksFrom(g, bb, n - 1)
  BY <1>2, <1>4 DEF SectionsFrom
<1>6. bb \in BbTable /\ g.nb_blocks = bb.num_block
  BY <1>1, <1>5 DEF BlocksFrom
<1>7. BlocksFrom(h, bb, n)
  <2>1. /\ bb.trans[n].b_id < bb.num_block /\ InRange(bb.trans[n].b_succ, bb.num_block)
        /\ SetsRow(g, h, bb.trans[n].b_id, bb.trans[n].b_succ) /\ n \in 1 .. Len(bb.trans)
    BY <1>6
  <2> HIDE DEF bb, g, h
  <2> QED
    BY <2>1, <1>5, <1>6, BlocksAdds
<1>8. SectionsFrom(e, im.bbs, k + 3, n)
  BY <1>1, <1>4, <1>7, SectionsAdds
<1>9. IpdsFrom(e, im.ipds, 0)
  BY IpdsNone
<1> QED
  BY <1>2, <1>3, <1>8, <1>9 DEF ContentsOf

(* An entry of BLOCK_IPD. *)
LEMMA ContentsIpd ==
  ASSUME NEW im, ImageTyped(im), im.granularity_bb, NEW n \in 1 .. Len(im.ipds),
         NEW d, NEW e, d.nb_functions \in Nat, ContentsOf(d, im, Len(im.bbs) + 4, n - 1),
         e.nb_functions = d.nb_functions, e.call_graph = d.call_graph,
         im.ipds[n].f_id < d.nb_functions,
         im.ipds[n].b_id < d.functions[im.ipds[n].f_id].nb_blocks,
         d.functions[im.ipds[n].f_id].nb_blocks \in Nat,
         SetsIpd(d.functions[im.ipds[n].f_id], e.functions[im.ipds[n].f_id],
                 im.ipds[n].b_id, im.ipds[n].b_ipd_id),
         \A f \in 0 .. d.nb_functions - 1 :
           f # im.ipds[n].f_id => e.functions[f] = d.functions[f]
  PROVE  ContentsOf(e, im, Len(im.bbs) + 4, n)
<1> DEFINE p == Len(im.bbs) + 4
<1>1. im.bbs \in Seq(BbTable) /\ Len(im.bbs) \in Nat /\ im.ipds \in Seq(IpdEntry)
  BY DEF ImageTyped
<1>2. \A c : /\ Upto(3, p, c, Len(im.trans)) = Len(im.trans)
             /\ Upto(p, p, c, Len(im.ipds)) = c
  <2>1. ~(p < 3) /\ p # 3 /\ ~(p < p)
    BY <1>1
  <2> QED
    BY <2>1 DEF Upto
<1>3. CallsFrom(e, im.trans, Len(im.trans))
  BY <1>2, CallsKept DEF ContentsOf
<1>4. IpdsFrom(d, im.ipds, n - 1)
  BY <1>2 DEF ContentsOf
<1>5. IpdsFrom(e, im.ipds, n)
  <2> DEFINE ipds == im.ipds
  <2>1. /\ ipds \in Seq(IpdEntry) /\ n \in 1 .. Len(ipds) /\ IpdsFrom(d, ipds, n - 1)
        /\ ipds[n].f_id < d.nb_functions /\ ipds[n].b_id < d.functions[ipds[n].f_id].nb_blocks
        /\ d.functions[ipds[n].f_id].nb_blocks \in Nat
        /\ SetsIpd(d.functions[ipds[n].f_id], e.functions[ipds[n].f_id], ipds[n].b_id,
                   ipds[n].b_ipd_id)
        /\ \A f \in 0 .. d.nb_functions - 1 :
             f # ipds[n].f_id => e.functions[f] = d.functions[f]
        /\ d.nb_functions \in Nat /\ e.nb_functions = d.nb_functions
    BY <1>1, <1>4
  <2> HIDE DEF ipds
  <2>2. IpdsFrom(e, ipds, n)
    BY ONLY <2>1, IpdsAdds
  <2> QED
    BY <2>2 DEF ipds
<1>6. \A f \in 0 .. d.nb_functions - 1 :
        /\ e.functions[f].nb_blocks = d.functions[f].nb_blocks
        /\ e.functions[f].control_flow_graph = d.functions[f].control_flow_graph
  <2> TAKE f \in 0 .. d.nb_functions - 1
  <2>1. CASE f = im.ipds[n].f_id
    BY <2>1 DEF SetsIpd
  <2>2. CASE f # im.ipds[n].f_id
    BY <2>2
  <2> QED
    BY <2>1, <2>2
<1>7. SectionsFrom(d, im.bbs, p, n - 1)
  BY DEF ContentsOf
<1>8. /\ p \in Nat /\ p >= Len(im.bbs) + 3 /\ p > Len(im.bbs) + 3
      /\ \A x \in 1 .. Len(im.bbs) : p # x + 3
  BY <1>1
<1>9. SectionsFrom(e, im.bbs, p, n)
  <2> HIDE DEF p
  <2>1. e.nb_functions = d.nb_functions /\ d.nb_functions \in Nat
    OBVIOUS
  <2>2. \A x \in 1 .. Len(im.bbs) : p = x + 3 => n - 1 = Len(im.bbs[x].trans)
    BY <1>8
  <2>3. PICK c : c = n - 1
    OBVIOUS
  <2> QED
    BY ONLY <2>1, <2>2, <2>3, <1>1, <1>6, <1>7, <1>8, SectionsPast
<1> QED
  BY <1>2, <1>3, <1>5, <1>9 DEF ContentsOf
-----------------------------------------------------------------------------
(* Where the monitor is, and what it is reading there. *)
LEMMA PlaceAt ==
  ASSUME LoadInv, nb_modules # 0, NEW r \in Nat, At(r)
  PROVE  LET im == Image[nb_modules]
         IN /\ ImageTyped(im) /\ r \in Nat \ {0} /\ EndAt(im) \in Nat /\ EndAt(im) >= 4
            /\ r <= EndAt(im) + 1
            /\ pkt.event = "FUNCTION_ID" <=> r = 2
            /\ pkt.event = "FUNCTION_TRANSITION" <=> r = 3
            /\ pkt.event = "BLOCK_TRANSITION" =>
                 /\ im.granularity_bb /\ r - 3 \in 1 .. Len(im.bbs) /\ pkt.value = im.bbs[r - 3]
            /\ pkt.event = "BLOCK_IPD" => im.granularity_bb /\ r = Len(im.bbs) + 4
            /\ WholeAt(im, r, Len(Entries))
            /\ r = 3 => Entries = im.trans
            /\ pkt.event = "BLOCK_TRANSITION" => Entries = im.bbs[r - 3].trans
            /\ pkt.event = "BLOCK_IPD" => Entries = im.ipds
            /\ pkt.event \notin {"BEGIN", "END", "TERMINATED"} => Len(Entries) \in Nat
<1> DEFINE im == Image[nb_modules]
           E == EndAt(im)
           L == Len(im.bbs)
<1>0. ClientInv /\ PipesInv
  BY DEF LoadInv
<1>1. /\ nb_modules \in 1 .. Len(Image)
      /\ r \in 1 .. Len(Packets(im))
      /\ pkt.event = "FUNCTION_ID" <=> r = 2
      /\ pkt.event = "FUNCTION_TRANSITION" <=> r = 3
      /\ pkt.event \in {"BLOCK_TRANSITION", "BLOCK_IPD"} <=> r \in 4 .. E - 1
      /\ r = 2 => pkt.value = im.fcts
      /\ r = 3 => pkt.value = im.trans
      /\ r \in 4 .. E - 1 => im.granularity_bb
      /\ pkt.event = "BLOCK_TRANSITION" =>
           /\ pkt.value \in BbTable /\ r - 3 \in 1 .. L
           /\ pkt.value = im.bbs[r - 3]
      /\ pkt.event = "BLOCK_IPD" => pkt.value = im.ipds /\ r = L + 4
  BY <1>0, PktAt
<1>2. Image \in Programs
  BY <1>0 DEF ClientInv
<1>3. /\ im.fcts \in Seq(FctEntry) /\ im.trans \in Seq(TransEntry)
      /\ im.granularity_bb \in BOOLEAN
      /\ im.bbs \in Seq(BbTable) /\ im.ipds \in Seq(IpdEntry)
  BY <1>1, <1>2, ImageFacts
<1>4. E \in Nat /\ E >= 4
      /\ Len(Packets(im)) = IF nb_modules = Len(Image) THEN E + 1 ELSE E
  BY <1>1, <1>2, PacketFacts
<1>5. L \in Nat /\ (im.granularity_bb => E = L + 5)
  BY <1>3 DEF EndAt
<1>6. r \in Nat \ {0} /\ r <= E + 1
  BY <1>1, <1>4
<1>7. /\ r = 3 => Entries = im.trans
      /\ pkt.event = "FUNCTION_ID" => Entries = im.fcts
      /\ pkt.event = "BLOCK_TRANSITION" => Entries = im.bbs[r - 3].trans
      /\ pkt.event = "BLOCK_IPD" => Entries = im.ipds
  BY <1>1 DEF Entries
<1>8. ASSUME im.granularity_bb
      PROVE  /\ \A x \in 1 .. L : r = x + 3 => Len(Entries) = Len(im.bbs[x].trans)
             /\ r = L + 4 => Len(Entries) = Len(im.ipds)
  <2>1. ASSUME NEW x \in 1 .. L, r = x + 3
        PROVE  Len(Entries) = Len(im.bbs[x].trans)
    <3>1. r \in 4 .. E - 1 /\ r # L + 4 /\ r - 3 = x
      BY <2>1, <1>8, <1>5
    <3>2. pkt.event = "BLOCK_TRANSITION"
      BY <3>1, <1>1
    <3> QED
      BY <3>1, <3>2, <1>7
  <2>2. ASSUME r = L + 4
        PROVE  Len(Entries) = Len(im.ipds)
    <3>1. r \in 4 .. E - 1 /\ r - 3 \notin 1 .. L
      BY <2>2, <1>8, <1>5
    <3>2. pkt.event = "BLOCK_IPD"
      BY <3>1, <1>1
    <3> QED
      BY <3>2, <1>7
  <2> QED
    BY <2>1, <2>2
<1>9. WholeAt(im, r, Len(Entries))
  BY <1>7, <1>8 DEF WholeAt
<1>10. ASSUME pkt.event \notin {"BEGIN", "END", "TERMINATED"}
       PROVE  Len(Entries) \in Nat
  <2>1. pkt.event \in {"FUNCTION_ID", "FUNCTION_TRANSITION", "BLOCK_TRANSITION", "BLOCK_IPD"}
    BY <1>0, <1>10 DEF PipesInv, Wire, Events
  <2>2. pkt.event = "BLOCK_TRANSITION" => pkt.value.trans \in Seq(BbEntry)
    BY <1>1 DEF BbTable
  <2>3. pkt.event = "BLOCK_TRANSITION" => Entries = pkt.value.trans
    BY DEF Entries
  <2>4. CASE pkt.event = "FUNCTION_ID"
    BY <2>4, <1>3, <1>7
  <2>5. CASE pkt.event = "FUNCTION_TRANSITION"
    BY <2>5, <1>1, <1>3, <1>7
  <2>6. CASE pkt.event = "BLOCK_TRANSITION"
    BY <2>2, <2>3, <2>6
  <2>7. CASE pkt.event = "BLOCK_IPD"
    BY <2>7, <1>3, <1>7
  <2> QED
    BY <2>1, <2>4, <2>5, <2>6, <2>7
<1>11. ImageTyped(im)
  BY <1>3 DEF ImageTyped
<1>12. /\ pkt.event = "BLOCK_TRANSITION" => im.granularity_bb
       /\ pkt.event = "BLOCK_IPD" => im.granularity_bb
  BY <1>1
<1> QED
  BY <1>1, <1>4, <1>6, <1>7, <1>9, <1>10, <1>11, <1>12
-----------------------------------------------------------------------------
(* The steps that leave the tables of all modules alone. *)
LEMMA ContentsSame ==
  ASSUME NEW d, NEW e, e.nb_functions = d.nb_functions, e.functions = d.functions,
         e.call_graph = d.call_graph, NEW im, NEW r, NEW c, ContentsOf(d, im, r, c)
  PROVE  ContentsOf(e, im, r, c)
  BY DEF ContentsOf, CallsFrom, SectionsFrom, IpdsFrom

LEMMA ContentsFrame ==
  ASSUME UNCHANGED <<Image, nb_modules>>, Got' = Got,
         \A m \in T!ModuleIds : /\ modules'[m].nb_functions = modules[m].nb_functions
                                /\ modules'[m].functions = modules[m].functions
                                /\ modules'[m].call_graph = modules[m].call_graph,
         NEW r, ContentsAt(r)
  PROVE  ContentsAt(r)'
<1>1. T!ModuleIds' = T!ModuleIds /\ current' = current
  BY DEF T!ModuleIds, current
<1>2. PICK c : c = Got
  OBVIOUS
<1>3. ASSUME NEW m \in T!ModuleIds
      PROVE  IF m < current
             THEN ContentsOf(modules'[m], Image[m + 1], EndAt(Image[m + 1]), 0)
             ELSE ContentsOf(modules'[m], Image[m + 1], r, c)
  <2>1. IF m < current
        THEN ContentsOf(modules[m], Image[m + 1], EndAt(Image[m + 1]), 0)
        ELSE ContentsOf(modules[m], Image[m + 1], r, c)
    BY <1>2 DEF ContentsAt
  <2> QED
    BY <2>1, ContentsSame
<1>4. c = Got'
  BY <1>2
<1> QED
  BY <1>1, <1>3, <1>4 DEF ContentsAt

LEMMA ContentsClient ==
  ASSUME LoadInv, ContentsInv,
         SendPacket \/ ReceiveId \/ ConstructorEnds \/ ClientAborts \/ ClientDies
  PROVE  ContentsInv'
<1>1. UNCHANGED <<Image, monitor>>
  BY DEF SendPacket, ReceiveId, ConstructorEnds, ClientAborts, ClientDies
<1>2. UNCHANGED <<Image, mpc, nb_modules, modules, pkt, i, oom>> /\ (Loading' <=> Loading)
  BY <1>1 DEF monitor, tables, Loading
<1>3. Got' = Got
  BY <1>2 DEF Got, Entries
<1> SUFFICES ASSUME Loading
             PROVE  (\E r \in Nat : At(r) /\ (~oom => ContentsAt(r)))'
  BY <1>2 DEF ContentsInv
<1>4. PICK r \in Nat : At(r) /\ (~oom => ContentsAt(r))
  BY DEF ContentsInv
<1>5. ~ClientAborts
  BY DEF ClientAborts, Loading, Stopped, MonitorUp
<1>6. At(r)'
  BY <1>4, <1>5, SendAt, ReceiveIdAt, ConstructorEndsAt, ClientDiesAt
<1>7. ~oom' => ContentsAt(r)'
  BY <1>2, <1>3, <1>4, ContentsFrame
<1> QED
  BY <1>6, <1>7

LEMMA ContentsWorks ==
  ASSUME LoadInv, ContentsInv, Loading, UNCHANGED <<l2m, m2l, Image, cpc, cmod, cpos, nb_modules, pkt, oom>>,
         mpc # "first" \/ mpc' = "first", Got' = Got,
         \A m \in T!ModuleIds : /\ modules'[m].nb_functions = modules[m].nb_functions
                                /\ modules'[m].functions = modules[m].functions
                                /\ modules'[m].call_graph = modules[m].call_graph
  PROVE  ContentsInv'
<1>1. PICK r \in Nat : At(r) /\ (~oom => ContentsAt(r))
  BY DEF ContentsInv
<1>2. At(r)'
  BY <1>1, WorksAt
<1>3. ~oom' => ContentsAt(r)'
  BY <1>1, ContentsFrame
<1> QED
  BY <1>2, <1>3 DEF ContentsInv

LEMMA ContentsQuiet ==
  ASSUME LoadInv, ContentsInv,
         \/ SectionEnds \/ Relocate \/ InitRun \/ InitsEnd \/ FinalRelocation
         \/ UNCHANGED vars
  PROVE  ContentsInv'
<1>0. CASE ~Loading'
  BY <1>0 DEF ContentsInv
<1> SUFFICES ASSUME Loading'
             PROVE  ContentsInv'
  BY <1>0
<1>1. Loading /\ ControlInv
  <2>1. Loading
    BY DEF Loading, Stopped, SectionEnds, Relocate, InitRun, InitsEnd, FinalRelocation,
           vars, monitor
  <2> QED
    BY <2>1 DEF LoadInv
<1>2. UNCHANGED <<l2m, m2l, Image, cpc, cmod, cpos, nb_modules, pkt, oom>>
      /\ (mpc # "first" \/ mpc' = "first")
  <2>1. CASE SectionEnds
    BY <2>1 DEF SectionEnds, client, tables
  <2>2. CASE Relocate
    BY <2>2 DEF Relocate, client
  <2>3. CASE InitRun
    BY <2>3 DEF InitRun, tables
  <2>4. CASE InitsEnd
    BY <2>4 DEF InitsEnd, client, tables
  <2>5. CASE FinalRelocation
    BY <2>5 DEF FinalRelocation, client
  <2>6. CASE UNCHANGED vars
    BY <2>6 DEF vars, client, monitor, tables
  <2> QED
    BY <2>1, <2>2, <2>3, <2>4, <2>5, <2>6
<1>3. Entries' = Entries
  BY <1>2 DEF Entries
<1>4. Got' = Got
  <2>1. CASE SectionEnds
    <3>1. mpc = "entries" /\ mpc' = "sections" /\ i > Len(Entries) /\ i \in 1 .. Len(Entries) + 1
      BY <2>1, <1>1 DEF SectionEnds, ControlInv
    <3>2. Len(Entries) \in Nat
      <4>1. nb_modules # 0 /\ pkt.event \notin {"BEGIN", "END", "TERMINATED"}
        BY <3>1, <1>1 DEF ControlInv
      <4>2. PICK r \in Nat : At(r)
        BY <1>1 DEF LoadInv, InStep
      <4> QED
        BY <4>1, <4>2, PlaceAt
    <3>3. i - 1 = Len(Entries)
      BY <3>1, <3>2
    <3> QED
      BY <3>1, <3>3, <1>3 DEF Got
  <2>2. CASE UNCHANGED vars
    BY <2>2, <1>3 DEF vars, monitor, Got
  <2>3. Relocate \/ InitRun \/ InitsEnd \/ FinalRelocation => mpc # "entries" /\ mpc' # "entries"
    BY DEF Relocate, InitRun, InitsEnd, FinalRelocation
  <2>4. CASE Relocate \/ InitRun \/ InitsEnd \/ FinalRelocation
    BY <2>3, <2>4, <1>3 DEF Got
  <2> QED
    BY <2>1, <2>2, <2>4
<1>5. \A m \in T!ModuleIds : /\ modules'[m].nb_functions = modules[m].nb_functions
                             /\ modules'[m].functions = modules[m].functions
                             /\ modules'[m].call_graph = modules[m].call_graph
  <2>1. CASE UNCHANGED modules
    BY <2>1
  <2>2. CASE Relocate /\ mpc' = "inits"
    <3>1. mpc = "relocate" /\ modules' = Relocated(current, FALSE)
      BY <2>2 DEF Relocate
    <3> QED
      BY <3>1, <1>2, LoadedTables, RelocatedKept
  <2>3. CASE FinalRelocation /\ ~UNCHANGED modules
    <3>1. mpc = "final" /\ modules' = Relocated(i, TRUE) /\ i # nb_modules
      BY <2>3 DEF FinalRelocation
    <3>2. /\ TablesTyped /\ nb_modules \in Nat \ {0} /\ i \in T!ModuleIds
          /\ modules[i].nb_functions > 0
      <4>1. /\ TablesTyped /\ nb_modules \in Nat \ {0}
            /\ \A m \in T!ModuleIds : modules[m].nb_functions > 0
        BY <3>1, LoadedTables
      <4>2. i \in 0 .. nb_modules
        BY <3>1, <1>1 DEF ControlInv
      <4>3. i \in T!ModuleIds
        BY <4>1, <4>2, <3>1 DEF T!ModuleIds
      <4> QED
        BY <4>1, <4>3
    <3> QED
      BY <3>1, <3>2, <1>2, RelocatedKept
  <2>4. Relocate => mpc' = "inits" \/ UNCHANGED modules
    BY DEF Relocate
  <2>5. SectionEnds \/ InitRun \/ InitsEnd \/ UNCHANGED vars => UNCHANGED modules
    BY DEF SectionEnds, InitRun, InitsEnd, vars, monitor, tables
  <2> QED
    BY <2>1, <2>2, <2>3, <2>4, <2>5
<1> QED
  BY <1>1, <1>2, <1>4, <1>5, ContentsWorks
-----------------------------------------------------------------------------
(* The loops over the entries. *)
LEMMA ContentsCurrent ==
  ASSUME UNCHANGED <<Image, nb_modules>>, nb_modules \in Nat \ {0}, NEW r, ContentsAt(r),
         \A m \in T!ModuleIds : m # current => modules'[m] = modules[m],
         NEW s, ContentsOf(modules'[current], Image[nb_modules], s, Got')
  PROVE  ContentsAt(s)'
<1>1. T!ModuleIds' = T!ModuleIds /\ current' = current /\ current + 1 = nb_modules
      /\ current \in Int
  BY DEF T!ModuleIds, current
<1>2. PICK c, g : c = Got' /\ g = Got
  OBVIOUS
<1>3. ASSUME NEW m \in T!ModuleIds
      PROVE  IF m < current
             THEN ContentsOf(modules'[m], Image[m + 1], EndAt(Image[m + 1]), 0)
             ELSE ContentsOf(modules'[m], Image[m + 1], s, c)
  <2>1. m \in Nat /\ (~(m < current) => m = current)
    BY <1>1 DEF T!ModuleIds
  <2>2. CASE m < current
    <3>1. ContentsOf(modules[m], Image[m + 1], EndAt(Image[m + 1]), 0)
      BY <1>2, <2>2 DEF ContentsAt
    <3>2. m # current
      BY <2>1, <2>2, <1>1
    <3> QED
      BY <3>1, <3>2, <2>2
  <2>3. CASE ~(m < current)
    BY <2>1, <2>3, <1>1, <1>2
  <2> QED
    BY <2>2, <2>3
<1> QED
  BY <1>1, <1>2, <1>3 DEF ContentsAt

LEMMA EntryContents ==
  ASSUME NULL \notin SUBSET Nat, LoadInv, mpc = "entries", i <= Len(Entries),
         ~EntryResult.error, NEW e, e = EntryResult.data, NEW r \in Nat, At(r),
         ContentsOf(modata, Image[nb_modules], r, i - 1)
  PROVE  ContentsOf(e, Image[nb_modules], r, i)
<1> DEFINE im == Image[nb_modules]
           n == modata.nb_functions
<1>1. /\ modata \in Module /\ i \in Nat \ {0} /\ nb_modules # 0
      /\ pkt.event \in {"FUNCTION_ID", "FUNCTION_TRANSITION", "BLOCK_TRANSITION", "BLOCK_IPD"}
      /\ pkt.event = "FUNCTION_ID" => entry \in FctEntry
      /\ pkt.event = "FUNCTION_TRANSITION" => entry \in TransEntry
      /\ pkt.event = "BLOCK_TRANSITION" =>
           /\ entry \in BbEntry /\ pkt.value \in BbTable
           /\ pkt.value.f_id < modata.nb_functions
      /\ pkt.event = "BLOCK_IPD" => entry \in IpdEntry
  BY EntryTyped
<1>2. /\ ImageTyped(im)
      /\ pkt.event = "FUNCTION_ID" <=> r = 2
      /\ pkt.event = "FUNCTION_TRANSITION" <=> r = 3
      /\ pkt.event = "BLOCK_TRANSITION" =>
           /\ im.granularity_bb /\ r - 3 \in 1 .. Len(im.bbs) /\ pkt.value = im.bbs[r - 3]
      /\ pkt.event = "BLOCK_IPD" => im.granularity_bb /\ r = Len(im.bbs) + 4
      /\ r = 3 => Entries = im.trans
      /\ pkt.event = "BLOCK_TRANSITION" => Entries = im.bbs[r - 3].trans
      /\ pkt.event = "BLOCK_IPD" => Entries = im.ipds
  BY <1>1, PlaceAt
<1>3. n \in Nat
  BY <1>1, ModuleFacts
<1>4. Keeps(modata, e)
  BY EntryKept
<1>5. e.nb_functions = n
  BY <1>4 DEF Keeps
<1>6. i \in 1 .. Len(Entries) /\ entry = Entries[i]
  <2>1. Len(Entries) \in Nat
    BY EntryTyped
  <2> QED
    BY <2>1, <1>1 DEF entry
<1>7. CASE pkt.event = "FUNCTION_ID"
  <2>1. entry.f_id < n /\ e = FunctionIdEntry.data
    BY <1>7, EntryKept
  <2>2. /\ \A f \in 0 .. n - 1 : f # entry.f_id => e.functions[f] = modata.functions[f]
        /\ e.call_graph = modata.call_graph /\ e.functions[entry.f_id].nb_blocks = 0
    BY <2>1, <1>1, <1>7, FunctionIdKept
  <2>3. r = 2 /\ r <= 2
    BY <1>2, <1>7
  <2>4. PICK c : c = i - 1
    OBVIOUS
  <2>5. ContentsOf(modata, im, r, c)
    BY <2>4
  <2>6. /\ \A f \in 0 .. n - 1 : modata.call_graph[f] = NULL
        /\ im.granularity_bb => \A f \in 0 .. n - 1 : modata.functions[f].nb_blocks = 0
    BY <2>3, <2>5, <1>2, ContentsEmpty
  <2>7. /\ \A f \in 0 .. e.nb_functions - 1 : e.call_graph[f] = NULL
        /\ im.granularity_bb => \A f \in 0 .. e.nb_functions - 1 : e.functions[f].nb_blocks = 0
    BY <2>2, <2>6, <1>5
  <2> QED
    BY <2>3, <2>7, <1>2, ContentsEmpty
<1>8. CASE pkt.event = "FUNCTION_TRANSITION"
  <2>1. EntryResult = FunctionTransitionEntry
    BY <1>8 DEF EntryResult
  <2>2. entry.f_id \in Nat
    BY <1>1, <1>8 DEF TransEntry
  <2>3. ~(entry.f_id >= n) /\ modata.call_graph[entry.f_id] = NULL /\ InRange(entry.f_calls, n)
    BY <2>1 DEF FunctionTransitionEntry
  <2>4. entry.f_id < n
    BY ONLY <2>2, <2>3, <1>3
  <2>5. e = FunctionTransitionEntry.data
    BY <2>1
  <2>6. /\ e.functions = modata.functions
        /\ e.call_graph[entry.f_id] = Row(entry.f_calls, n)
        /\ \A f \in 0 .. n - 1 : f # entry.f_id => e.call_graph[f] = modata.call_graph[f]
    BY <2>3, <2>4, <2>5, <1>1, <1>8, FunctionTransitionKept
  <2>7. r = 3 /\ entry = im.trans[i] /\ i \in 1 .. Len(im.trans)
    BY <1>2, <1>6, <1>8
  <2>8. ContentsOf(modata, im, 3, i - 1)
    BY <2>7
  <2>9. /\ ImageTyped(im) /\ modata.nb_functions \in Nat
        /\ e.nb_functions = modata.nb_functions /\ e.functions = modata.functions
        /\ i \in 1 .. Len(im.trans) /\ ContentsOf(modata, im, 3, i - 1)
        /\ im.trans[i].f_id < modata.nb_functions
        /\ InRange(im.trans[i].f_calls, modata.nb_functions)
        /\ modata.call_graph[im.trans[i].f_id] = NULL
        /\ e.call_graph[im.trans[i].f_id] = Row(im.trans[i].f_calls, modata.nb_functions)
        /\ \A f \in 0 .. modata.nb_functions - 1 :
             f # im.trans[i].f_id => e.call_graph[f] = modata.call_graph[f]
    BY <2>3, <2>4, <2>6, <2>7, <2>8, <1>2, <1>3, <1>5
  <2>10. PICK d, m : d = modata /\ m = im
    OBVIOUS
  <2>11. ContentsOf(e, m, 3, i)
    <3>1. NULL \notin SUBSET Nat
      OBVIOUS
    <3> QED
      BY ONLY <3>1, <2>9, <2>10, ContentsCalls
  <2> QED
    BY <2>7, <2>10, <2>11
<1>9. CASE pkt.event = "BLOCK_TRANSITION"
  <2> DEFINE f == pkt.value.f_id
             nb == modata.functions[f].nb_blocks
             b == entry.b_id
             k == r - 3
  <2>1. EntryResult = BlockTransitionEntry
    BY <1>9 DEF EntryResult
  <2>2. f \in Nat /\ b \in Nat /\ f < n
    BY <1>1, <1>9 DEF BbEntry, BbTable
  <2>3. nb \in Nat
    <3>1. f \in 0 .. n - 1 /\ n # 0
      BY ONLY <2>2, <1>3
    <3>2. modata.functions[f] \in Function
      BY <3>1, <1>1, ModuleFacts
    <3> QED
      BY <3>2, FunctionFacts
  <2>4. ~(b >= nb) /\ InRange(entry.b_succ, nb)
    BY <2>1 DEF BlockTransitionEntry
  <2>5. b < nb
    BY ONLY <2>2, <2>3, <2>4
  <2>6. e = BlockTransitionEntry.data
    BY <2>1
  <2>7. /\ e.call_graph = modata.call_graph
        /\ SetsRow(modata.functions[f], e.functions[f], b, entry.b_succ)
        /\ \A h \in 0 .. n - 1 : h # f => e.functions[h] = modata.functions[h]
    BY <2>2, <2>5, <2>6, <1>1, <1>9, BlockTransitionKept
  <2>8. /\ k \in 1 .. Len(im.bbs) /\ pkt.value = im.bbs[k] /\ Entries = im.bbs[k].trans
        /\ im.granularity_bb
    BY <1>2, <1>9
  <2>9. r = k + 3 /\ i \in 1 .. Len(im.bbs[k].trans) /\ entry = im.bbs[k].trans[i]
    BY <2>8, <1>6
  <2>10. ContentsOf(modata, im, k + 3, i - 1)
    BY <2>9
  <2>11. PICK x \in 1 .. Len(im.bbs) : x = k
    BY <2>8
  <2>12. /\ i \in 1 .. Len(im.bbs[x].trans) /\ ContentsOf(modata, im, x + 3, i - 1)
         /\ im.bbs[x].trans[i].b_id < modata.functions[im.bbs[x].f_id].nb_blocks
         /\ InRange(im.bbs[x].trans[i].b_succ, modata.functions[im.bbs[x].f_id].nb_blocks)
         /\ SetsRow(modata.functions[im.bbs[x].f_id], e.functions[im.bbs[x].f_id],
                    im.bbs[x].trans[i].b_id, im.bbs[x].trans[i].b_succ)
         /\ \A h \in 0 .. n - 1 : h # im.bbs[x].f_id => e.functions[h] = modata.functions[h]
    BY <2>4, <2>5, <2>7, <2>8, <2>9, <2>10, <2>11
  <2>13. ContentsOf(e, im, x + 3, i)
    BY <2>7, <2>8, <2>12, <1>2, <1>3, <1>5, ContentsBlock
  <2> QED
    BY <2>9, <2>11, <2>13
<1>10. CASE pkt.event = "BLOCK_IPD"
  <2> DEFINE f == entry.f_id
             nb == modata.functions[f].nb_blocks
             b == entry.b_id
  <2>1. EntryResult = BlockIpdEntry
    BY <1>10 DEF EntryResult
  <2>2. f \in Nat /\ b \in Nat
    BY <1>1, <1>10 DEF IpdEntry
  <2>3. ~(f >= n) /\ modata.functions[f].immediate_post_dominator # NULL /\ ~(b >= nb)
    BY <2>1 DEF BlockIpdEntry
  <2>4. f < n
    BY ONLY <2>2, <2>3, <1>3
  <2>5. nb \in Nat
    <3>1. f \in 0 .. n - 1 /\ n # 0
      BY ONLY <2>2, <2>4, <1>3
    <3>2. modata.functions[f] \in Function
      BY <3>1, <1>1, ModuleFacts
    <3> QED
      BY <3>2, FunctionFacts
  <2>6. b < nb
    BY ONLY <2>2, <2>3, <2>5
  <2>7. e = BlockIpdEntry.data
    BY <2>1
  <2>8. /\ e.call_graph = modata.call_graph
        /\ SetsIpd(modata.functions[f], e.functions[f], b, entry.b_ipd_id)
        /\ \A h \in 0 .. n - 1 : h # f => e.functions[h] = modata.functions[h]
    BY <2>3, <2>4, <2>6, <2>7, <1>1, <1>10, BlockIpdKept
  <2>9. /\ im.granularity_bb /\ r = Len(im.bbs) + 4 /\ i \in 1 .. Len(im.ipds)
        /\ entry = im.ipds[i]
    BY <1>2, <1>6, <1>10
  <2>10. ContentsOf(modata, im, Len(im.bbs) + 4, i - 1)
    BY <2>9
  <2>11. ContentsOf(e, im, Len(im.bbs) + 4, i)
    BY <2>4, <2>5, <2>6, <2>8, <2>9, <2>10, <1>2, <1>3, <1>5, ContentsIpd
  <2> QED
    BY <2>9, <2>11
<1> QED
  BY <1>1, <1>7, <1>8, <1>9, <1>10

(* Once memory has run out nothing is claimed but where the monitor is. *)
LEMMA ContentsEntry ==
  ASSUME NULL \notin SUBSET Nat, LoadInv, ContentsInv, LoadEntry \/ NoName
  PROVE  ContentsInv'
<1>1. mpc = "entries" /\ i <= Len(Entries) /\ i' = i + 1
  BY DEF LoadEntry, NoName
<1>2. UNCHANGED <<l2m, m2l, Image, cpc, cmod, cpos, nb_modules, pkt>>
  BY DEF LoadEntry, NoName, client
<1>3. Loading
  BY <1>1 DEF Loading, Stopped
<1> SUFFICES ASSUME Loading'
             PROVE  (\E r \in Nat : At(r) /\ (~oom => ContentsAt(r)))'
  BY DEF ContentsInv
<1>4. PICK r \in Nat : At(r) /\ (~oom => ContentsAt(r))
  BY <1>3 DEF ContentsInv
<1>5. At(r)'
  BY <1>1, <1>2, <1>3, <1>4, WorksAt
<1>6. ASSUME ~oom'
      PROVE  ContentsAt(r)'
  <2>1. LoadEntry /\ ~oom
    BY <1>6 DEF LoadEntry, NoName
  <2>2. PICK e : e = EntryResult.data
    OBVIOUS
  <2>3. /\ modules' = [modules EXCEPT ![current] = e]
        /\ mpc' = IF EntryResult.error THEN "failed" ELSE "entries"
    BY <2>1, <2>2 DEF LoadEntry
  <2>4. ~EntryResult.error /\ mpc' = "entries"
    BY <2>3 DEF Loading, Stopped
  <2>5. /\ nb_modules \in 1 .. Len(Image) /\ Image \in Programs /\ i \in Nat \ {0}
        /\ current \in T!ModuleIds /\ current + 1 = nb_modules
        /\ modules \in [T!ModuleIds -> Module] /\ modata = modules[current]
    BY <1>1, EntryTyped
  <2>6. nb_modules \in Nat \ {0}
    BY <2>5, ImageFacts
  <2>7. Got = i - 1 /\ Got' = i
    BY <2>4, <2>5, <1>1 DEF Got
  <2>8. ContentsOf(modata, Image[nb_modules], r, i - 1)
    <3>1. ~(current < current)
      BY <2>5, <2>6 DEF T!ModuleIds
    <3>2. ContentsOf(modules[current], Image[current + 1], r, Got)
      BY <3>1, <2>1, <2>5, <1>4 DEF ContentsAt
    <3> QED
      BY <3>2, <2>5, <2>7
  <2>9. ContentsOf(e, Image[nb_modules], r, i)
    BY <2>2, <2>4, <2>8, <1>1, <1>4, EntryContents
  <2>10. /\ modules'[current] = e
         /\ \A m \in T!ModuleIds : m # current => modules'[m] = modules[m]
    BY <2>3, <2>5
  <2>11. ContentsOf(modules'[current], Image[nb_modules], r, Got')
    BY <2>7, <2>9, <2>10
  <2>12. ContentsAt(r)
    BY <2>1, <1>4
  <2> QED
    BY <2>6, <2>10, <2>11, <2>12, <1>2, ContentsCurrent
<1> QED
  BY <1>5, <1>6
-----------------------------------------------------------------------------
(* A packet is read. *)
LEMMA ReadPlace ==
  ASSUME LoadInv, NEW r \in Nat, At(r), Read, nb_modules # 0,
         r + 1 <= Len(Sent(nb_modules)), UNCHANGED <<m2l, client, nb_modules>>
  PROVE  LET im == Image[nb_modules]
         IN /\ At(r + 1)' /\ pkt'.event \in Events
            /\ pkt'.event = "BEGIN" <=> r + 1 = 1
            /\ pkt'.event = "FUNCTION_ID" <=> r + 1 = 2
            /\ pkt'.event = "END" <=> r + 1 = EndAt(im)
            /\ pkt'.event = "TERMINATED" <=> r + 1 = EndAt(im) + 1
            /\ pkt'.event = "FUNCTION_ID" => pkt'.value = im.fcts
            /\ pkt'.event = "BLOCK_TRANSITION" =>
                 /\ im.granularity_bb /\ pkt'.value \in BbTable
                 /\ r - 2 \in 1 .. Len(im.bbs) /\ pkt'.value = im.bbs[r - 2]
            /\ pkt'.event # "BLOCK_TRANSITION" =>
                 (im.granularity_bb => \A x \in 1 .. Len(im.bbs) : r + 1 # x + 3)
<1> DEFINE im == Image[nb_modules]
<1>1. UNCHANGED <<m2l, Image, cpc, cmod, cpos, nb_modules>>
  BY DEF client
<1>2. /\ At(r + 1)' /\ r + 1 \in 1 .. Len(Packets(im)) /\ Same(pkt', Packets(im)[r + 1])
      /\ nb_modules \in 1 .. Len(Image) /\ Image \in Programs
  BY <1>1, ReadOn
<1>3. pkt'.event \in Events
  BY ReadOne DEF Wire
<1>4. PICK q, x : q = pkt' /\ x = r + 1
  OBVIOUS
<1>5. /\ q.event = "BEGIN" <=> x = 1
      /\ q.event = "FUNCTION_ID" <=> x = 2
      /\ q.event \in {"BLOCK_TRANSITION", "BLOCK_IPD"} <=> x \in 4 .. EndAt(im) - 1
      /\ q.event = "END" <=> x = EndAt(im)
      /\ q.event = "TERMINATED" <=> x = EndAt(im) + 1
      /\ x = 2 => q.value = im.fcts
      /\ x \in 4 .. EndAt(im) - 1 => im.granularity_bb
      /\ q.event = "BLOCK_TRANSITION" =>
           /\ q.value \in BbTable /\ x - 3 \in 1 .. Len(im.bbs)
           /\ q.value = im.bbs[x - 3]
      /\ q.event = "BLOCK_IPD" => q.value = im.ipds /\ x = Len(im.bbs) + 4
  <2>1. x \in 1 .. Len(Packets(Image[nb_modules])) /\ Same(q, Packets(Image[nb_modules])[x])
    BY <1>2, <1>4
  <2> QED
    BY ONLY <2>1, <1>2, EventAt
<1>6. x - 3 = r - 2
  BY <1>4
<1>7. ASSUME im.granularity_bb, q.event # "BLOCK_TRANSITION", NEW y \in 1 .. Len(im.bbs),
             x = y + 3
      PROVE  FALSE
  <2>1. Len(im.bbs) \in Nat /\ EndAt(im) = Len(im.bbs) + 5
    BY <1>2, <1>7, ImageFacts DEF EndAt
  <2>2. x \in 4 .. EndAt(im) - 1 /\ x # Len(im.bbs) + 4
    BY <2>1, <1>7
  <2> QED
    BY <2>2, <1>5, <1>7
<1> QED
  BY <1>2, <1>3, <1>4, <1>5, <1>6, <1>7

(* After the last section, how far the last packet was read is irrelevant. *)
LEMMA ContentsEnd ==
  ASSUME NEW im, ImageTyped(im), NEW r \in Nat, r >= EndAt(im), NEW d, NEW b, NEW c,
         ContentsOf(d, im, r, b)
  PROVE  ContentsOf(d, im, r, c)
<1>1. Len(im.bbs) \in Nat /\ im.granularity_bb \in BOOLEAN
  BY DEF ImageTyped
<1>2. r >= 4 /\ (im.granularity_bb => r >= Len(im.bbs) + 5)
  BY <1>1 DEF EndAt
<1>3. \A n : Upto(3, r, b, n) = n /\ Upto(3, r, c, n) = n
  BY <1>2 DEF Upto
<1>4. CallsFrom(d, im.trans, Upto(3, r, c, Len(im.trans)))
  BY <1>3 DEF ContentsOf
<1>5. ASSUME im.granularity_bb
      PROVE  /\ SectionsFrom(d, im.bbs, r, c)
             /\ IpdsFrom(d, im.ipds, Upto(Len(im.bbs) + 4, r, c, Len(im.ipds)))
  <2>1. /\ \A n : Upto(Len(im.bbs) + 4, r, b, n) = n /\ Upto(Len(im.bbs) + 4, r, c, n) = n
        /\ \A n : \A x \in 1 .. Len(im.bbs) : Upto(x + 3, r, b, n) = n /\ Upto(x + 3, r, c, n) = n
    <3>1. ~(r < Len(im.bbs) + 4) /\ r # Len(im.bbs) + 4
      BY <1>1, <1>2, <1>5
    <3>2. \A x \in 1 .. Len(im.bbs) : ~(r < x + 3) /\ r # x + 3
      BY <1>1, <1>2, <1>5
    <3> QED
      BY <3>1, <3>2 DEF Upto
  <2>2. SectionsFrom(d, im.bbs, r, b)
        /\ IpdsFrom(d, im.ipds, Upto(Len(im.bbs) + 4, r, b, Len(im.ipds)))
    BY <1>5 DEF ContentsOf
  <2>3. SectionsFrom(d, im.bbs, r, c)
    BY <2>1, <2>2 DEF SectionsFrom
  <2> QED
    BY <2>1, <2>2, <2>3
<1> QED
  BY <1>4, <1>5 DEF ContentsOf

(* What the monitor has of the module it is at. *)
LEMMA ContentsHere ==
  ASSUME LoadInv, Loading, nb_modules # 0, NEW r, ContentsAt(r)
  PROVE  /\ nb_modules \in Nat \ {0} /\ current \in T!ModuleIds /\ current + 1 = nb_modules
         /\ modata = modules[current] /\ modata \in Module /\ modata.nb_functions \in Nat
         /\ modules \in [T!ModuleIds -> Module]
         /\ ContentsOf(modata, Image[nb_modules], r, Got)
<1>1. ClientInv /\ PipesInv /\ TablesTyped
  BY DEF LoadInv, Whole, MonitorUp, Loading, Stopped
<1>2. Image \in Programs /\ Len(Image) \in Nat /\ cmod \in 1 .. Len(Image)
  BY <1>1, ImageFacts DEF ClientInv
<1>3. nb_modules \in Nat \ {0}
  BY <1>1, <1>2 DEF PipesInv
<1>4. /\ current \in T!ModuleIds /\ current + 1 = nb_modules /\ nb_modules > 0
      /\ ~(current < current) /\ modata = modules[current]
  BY <1>3 DEF T!ModuleIds, current, modata
<1>5. modules \in [T!ModuleIds -> Module]
  BY <1>1, <1>4 DEF TablesTyped
<1>6. modata \in Module
  BY <1>4, <1>5
<1>7. ContentsOf(modules[current], Image[current + 1], r, Got)
  BY <1>4 DEF ContentsAt
<1> QED
  BY <1>3, <1>4, <1>5, <1>6, <1>7, ModuleFacts

(* The tables a section begins with. *)
LEMMA AllocatedContents ==
  ASSUME LoadInv, mpc = "sections", Read, UNCHANGED <<m2l, client, nb_modules>>,
         pkt'.event # "END", ~SectionRefused, NEW e, e = Allocated,
         NEW r \in Nat, At(r), r + 1 <= Len(Sent(nb_modules)), ContentsAt(r),
         nb_modules # 0
  PROVE  ContentsOf(e, Image[nb_modules], r + 1, 0)
<1> DEFINE im == Image[nb_modules]
           n == modata.nb_functions
<1>0. Loading
  BY DEF Loading, Stopped
<1>1. /\ modata \in Module /\ n \in Nat
      /\ ContentsOf(modata, im, r, Got)
  BY <1>0, ContentsHere
<1>2. Got = Len(Entries)
  BY DEF Got
<1>3. /\ ImageTyped(im) /\ r \in Nat \ {0} /\ EndAt(im) \in Nat
      /\ WholeAt(im, r, Got)
  BY <1>2, PlaceAt
<1>4. /\ pkt'.event \in Events
      /\ pkt'.event = "BEGIN" <=> r + 1 = 1
      /\ pkt'.event = "FUNCTION_ID" <=> r + 1 = 2
      /\ pkt'.event = "FUNCTION_ID" => pkt'.value = im.fcts
      /\ pkt'.event = "BLOCK_TRANSITION" =>
           /\ im.granularity_bb /\ pkt'.value \in BbTable
           /\ r - 2 \in 1 .. Len(im.bbs) /\ pkt'.value = im.bbs[r - 2]
      /\ pkt'.event # "BLOCK_TRANSITION" =>
           (im.granularity_bb => \A x \in 1 .. Len(im.bbs) : r + 1 # x + 3)
  BY ReadPlace
<1>5. CASE pkt'.event = "FUNCTION_ID"
  <2>1. PICK size : size = Len(pkt'.value)
    OBVIOUS
  <2>2. e = FunctionTables(size)
    BY <2>1, <1>5 DEF Allocated
  <2>3. size \in Nat
    <3>1. Image \in Programs /\ nb_modules \in 1 .. Len(Image)
      <4>1. ClientInv /\ PipesInv
        BY DEF LoadInv
      <4> QED
        BY <4>1, PktAt DEF ClientInv
    <3>2. im.fcts \in Seq(FctEntry)
      BY <3>1, ImageFacts
    <3> QED
      BY <3>2, <2>1, <1>4, <1>5
  <2>4. /\ e.nb_functions = size
        /\ \A f \in 0 .. size - 1 : e.call_graph[f] = NULL /\ e.functions[f].nb_blocks = 0
    BY <2>2, <2>3, <1>1, FunctionTablesMade
  <2>5. PICK s, c : s \in Nat /\ s = r + 1 /\ s <= 2 /\ c = 0
    BY <1>4, <1>5
  <2>6. ContentsOf(e, im, s, c)
    BY <2>4, <2>5, <1>3, ContentsEmpty
  <2> QED
    BY <2>5, <2>6
<1>6. CASE pkt'.event \in {"FUNCTION_TRANSITION", "BLOCK_IPD"}
  <2>1. e = modata
    BY <1>6 DEF Allocated
  <2>2. im.granularity_bb => \A x \in 1 .. Len(im.bbs) : r + 1 # x + 3
    BY <1>4, <1>6
  <2>3. PICK d, m, c : d = modata /\ m = im /\ c = Got
    OBVIOUS
  <2>4. ContentsOf(d, m, r + 1, 0)
    BY ONLY <2>2, <2>3, <1>1, <1>3, ContentsNext
  <2> QED
    BY <2>1, <2>3, <2>4
<1>7. CASE pkt'.event = "BLOCK_TRANSITION"
  <2>1. PICK bb : bb = pkt'.value
    OBVIOUS
  <2>2. e = BlockTables(bb.f_id, bb.num_block)
    BY <2>1, <1>7 DEF Allocated
  <2>3. bb.f_id \in Nat /\ bb.num_block \in Nat
    BY <2>1, <1>4, <1>7 DEF BbTable
  <2>4. /\ ~(bb.f_id >= n) /\ modata.functions[bb.f_id].nb_blocks = 0
        /\ bb.num_block # 0
    BY <2>1, <1>7 DEF SectionRefused
  <2>5. bb.f_id \in 0 .. n - 1 /\ bb.f_id < n
    BY ONLY <2>3, <2>4, <1>1
  <2>6. /\ Keeps(modata, e) /\ e.call_graph = modata.call_graph
        /\ e.functions[bb.f_id].nb_blocks = bb.num_block
        /\ \A b \in 0 .. bb.num_block - 1 : e.functions[bb.f_id].control_flow_graph[b] = NULL
        /\ \A f \in 0 .. n - 1 : f # bb.f_id => e.functions[f] = modata.functions[f]
    <3>1. PICK f, size : f = bb.f_id /\ size = bb.num_block
      OBVIOUS
    <3>2. f \in 0 .. n - 1 /\ size \in Nat /\ e = BlockTables(f, size)
      BY <3>1, <2>2, <2>3, <2>5
    <3>3. /\ Keeps(modata, e) /\ e.call_graph = modata.call_graph
          /\ e.functions[f].nb_blocks = size
          /\ \A b \in 0 .. size - 1 : e.functions[f].control_flow_graph[b] = NULL
          /\ \A k \in 0 .. n - 1 : k # f => e.functions[k] = modata.functions[k]
      BY <3>2, <1>1, BlockTablesKept
    <3> QED
      BY <3>1, <3>3
  <2>7. e.nb_functions = n /\ Emptied(e.functions[bb.f_id], bb.num_block)
    BY <2>6 DEF Keeps, Emptied
  <2>8. PICK k \in 1 .. Len(im.bbs) : k = r - 2 /\ bb = im.bbs[k]
    BY <2>1, <1>4, <1>7
  <2>9. r = k + 2 /\ r + 1 = k + 3
    BY <2>8
  <2>10. PICK d, m, c : d = modata /\ m = im /\ c = Got
    OBVIOUS
  <2>11. /\ ImageTyped(m) /\ m.granularity_bb /\ k \in 1 .. Len(m.bbs) /\ WholeAt(m, k + 2, c)
         /\ d.nb_functions \in Nat /\ ContentsOf(d, m, k + 2, c)
         /\ e.nb_functions = d.nb_functions /\ e.call_graph = d.call_graph
         /\ m.bbs[k].f_id < d.nb_functions /\ d.functions[m.bbs[k].f_id].nb_blocks = 0
         /\ m.bbs[k].num_block # 0
         /\ Emptied(e.functions[m.bbs[k].f_id], m.bbs[k].num_block)
         /\ \A f \in 0 .. d.nb_functions - 1 :
              f # m.bbs[k].f_id => e.functions[f] = d.functions[f]
    <3>1. m.bbs[k] = bb /\ m.granularity_bb /\ k \in 1 .. Len(m.bbs) /\ ImageTyped(m)
      BY <2>8, <2>10, <1>3, <1>4, <1>7
    <3>2. WholeAt(m, k + 2, c) /\ ContentsOf(d, m, k + 2, c) /\ d.nb_functions \in Nat
      BY <2>9, <2>10, <1>1, <1>3
    <3>3. /\ e.nb_functions = d.nb_functions /\ e.call_graph = d.call_graph
          /\ bb.f_id < d.nb_functions /\ d.functions[bb.f_id].nb_blocks = 0
          /\ \A f \in 0 .. d.nb_functions - 1 : f # bb.f_id => e.functions[f] = d.functions[f]
      BY <2>4, <2>5, <2>6, <2>7, <2>10
    <3> QED
      BY ONLY <3>1, <3>2, <3>3, <2>4, <2>7
  <2>12. ContentsOf(e, m, k + 3, 0)
    BY ONLY <2>11, ContentsSection
  <2> QED
    BY <2>9, <2>10, <2>12
<1>8. pkt'.event \notin {"BEGIN", "TERMINATED"}
  <2>1. pkt'.event # "BEGIN"
    BY <1>3, <1>4
  <2>2. pkt'.event # "TERMINATED"
    BY DEF SectionRefused
  <2> QED
    BY <2>1, <2>2
<1> QED
  BY <1>4, <1>5, <1>6, <1>7, <1>8 DEF Events

LEMMA ContentsSections ==
  ASSUME LoadInv, ContentsInv, SectionPacket
  PROVE  ContentsInv'
<1>1. /\ mpc = "sections" /\ Read /\ UNCHANGED <<m2l, client, nb_modules, inits>>
      /\ \/ pkt'.event = "END" /\ mpc' = "relocate" /\ UNCHANGED <<modules, i, oom>>
         \/ mpc' = "failed"
         \/ /\ pkt'.event # "END" /\ ~SectionRefused
            /\ modules' = [modules EXCEPT ![current] = Allocated]
            /\ mpc' = "entries" /\ i' = 1 /\ UNCHANGED oom
  BY DEF SectionPacket
<1>2. Loading /\ ControlInv /\ ClientInv /\ PipesInv
  BY <1>1 DEF Loading, Stopped, LoadInv
<1>3. CASE mpc' = "failed"
  BY <1>3 DEF ContentsInv, Loading, Stopped
<1> SUFFICES ASSUME mpc' # "failed"
             PROVE  (\E r \in Nat : At(r) /\ (~oom => ContentsAt(r)))'
  BY <1>3 DEF ContentsInv
<1>4. PICK r \in Nat : At(r) /\ (~oom => ContentsAt(r))
  BY <1>2 DEF ContentsInv
<1> DEFINE im == Image[nb_modules]
<1>5. nb_modules # 0 /\ pkt.event \notin {"END", "TERMINATED"}
  BY <1>1, <1>2 DEF ControlInv
<1>6. /\ nb_modules \in 1 .. Len(Image) /\ Sent(nb_modules) = Packets(im)
      /\ r \in 1 .. Len(Packets(im)) /\ r # EndAt(im) /\ r # EndAt(im) + 1
  BY <1>2, <1>4, <1>5, PktAt
<1>7. /\ EndAt(im) \in Nat
      /\ Len(Packets(im)) = IF nb_modules = Len(Image) THEN EndAt(im) + 1 ELSE EndAt(im)
  BY <1>2, <1>6, PacketFacts DEF ClientInv
<1>8. r + 1 <= Len(Sent(nb_modules))
  BY <1>6, <1>7
<1>9. /\ At(r + 1)' /\ r + 1 \in Nat
      /\ pkt'.event = "END" <=> r + 1 = EndAt(im)
      /\ pkt'.event # "BLOCK_TRANSITION" =>
           (im.granularity_bb => \A x \in 1 .. Len(im.bbs) : r + 1 # x + 3)
  BY <1>1, <1>4, <1>5, <1>8, ReadPlace
<1>10. UNCHANGED <<Image, nb_modules>> /\ oom' = oom
  BY <1>1 DEF client
<1>11. ASSUME ~oom
       PROVE  ContentsAt(r + 1)'
  <2>1. ContentsAt(r)
    BY <1>4, <1>11
  <2>2. /\ nb_modules \in Nat \ {0} /\ current \in T!ModuleIds
        /\ modata = modules[current] /\ modata \in Module /\ modata.nb_functions \in Nat
        /\ modules \in [T!ModuleIds -> Module]
        /\ ContentsOf(modata, im, r, Got)
    BY <2>1, <1>2, <1>5, ContentsHere
  <2>3. CASE pkt'.event = "END"
    <3>1. UNCHANGED modules
      BY <2>3, <1>1
    <3>2. ImageTyped(im) /\ r \in Nat \ {0} /\ WholeAt(im, r, Got) /\ r + 1 >= EndAt(im)
      BY <2>3, <1>1, <1>4, <1>5, <1>7, <1>9, PlaceAt DEF Got
    <3>3. PICK d, m, c, g : d = modata /\ m = im /\ c = Got /\ g = Got'
      OBVIOUS
    <3>4. im.granularity_bb => \A x \in 1 .. Len(im.bbs) : r + 1 # x + 3
      BY <2>3, <1>9
    <3>5. ContentsOf(d, m, r + 1, 0)
      BY ONLY <2>2, <3>2, <3>3, <3>4, ContentsNext
    <3>6. ContentsOf(d, m, r + 1, g)
      BY ONLY <3>2, <3>3, <3>5, <1>9, ContentsEnd
    <3>7. ContentsOf(modules'[current], im, r + 1, Got')
      BY <3>1, <3>3, <3>6, <2>2
    <3>8. PICK s : s = r + 1
      OBVIOUS
    <3>9. ContentsAt(s)'
      BY <3>1, <3>7, <3>8, <2>1, <2>2, <1>10, ContentsCurrent
    <3> QED
      BY <3>8, <3>9
  <2>4. CASE pkt'.event # "END"
    <3>1. PICK e : e = Allocated
      OBVIOUS
    <3>2. /\ ~SectionRefused /\ modules' = [modules EXCEPT ![current] = e]
          /\ mpc' = "entries" /\ i' = 1
      BY <3>1, <2>4, <1>1
    <3>3. ContentsOf(e, im, r + 1, 0)
      BY <3>1, <3>2, <2>1, <2>4, <1>1, <1>4, <1>5, <1>8, AllocatedContents
    <3>4. Got' = 0
      BY <3>2 DEF Got
    <3>5. /\ modules'[current] = e
          /\ \A m \in T!ModuleIds : m # current => modules'[m] = modules[m]
      BY <3>2, <2>2
    <3>6. ContentsOf(modules'[current], im, r + 1, Got')
      BY <3>3, <3>4, <3>5
    <3>7. PICK s : s = r + 1
      OBVIOUS
    <3>8. ContentsAt(s)'
      BY <3>5, <3>6, <3>7, <2>1, <2>2, <1>10, ContentsCurrent
    <3> QED
      BY <3>7, <3>8
  <2> QED
    BY <2>3, <2>4
<1> QED
  BY <1>9, <1>10, <1>11
-----------------------------------------------------------------------------
(* A module begins, or the last one has ended. *)
LEMMA ContentsBegin ==
  ASSUME LoadInv, ContentsInv, mpc = "first", Read, pkt'.event = "BEGIN", ModuleBegin,
         UNCHANGED <<client, inits>>
  PROVE  ContentsInv'
<1>1. Loading /\ ControlInv /\ TablesTyped
  BY DEF Loading, Stopped, LoadInv, Whole, MonitorUp
<1> SUFFICES ASSUME Loading'
             PROVE  (\E r \in Nat : At(r) /\ (~oom => ContentsAt(r)))'
  BY DEF ContentsInv
<1>2. /\ nb_modules' = nb_modules + 1 /\ cpc # "dead" /\ m2l' = Append(m2l, nb_modules)
      /\ modules' = [m \in 0 .. nb_modules |->
                       IF m = nb_modules THEN NewModule ELSE modules[m]]
      /\ oom' = oom
  BY DEF ModuleBegin, Loading, Stopped
<1>3. At(1)'
  BY <1>2, ModuleBeginAt
<1>4. nb_modules \in Nat /\ nb_modules + 1 \in 1 .. Len(Image) /\ Image' = Image
      /\ Image \in Programs
  BY BeginAt DEF client, LoadInv, ClientInv
<1>5. /\ T!ModuleIds' = T!ModuleIds \cup {nb_modules} /\ nb_modules \notin T!ModuleIds
      /\ modules'[nb_modules] = NewModule
      /\ \A m \in T!ModuleIds : modules'[m] = modules[m]
  BY <1>1, <1>2, <1>4, ModuleAdded
<1>6. current' = nb_modules /\ T!ModuleIds = 0 .. nb_modules - 1 /\ current = nb_modules - 1
  BY <1>2, <1>4 DEF current, T!ModuleIds
<1>7. PICK r \in Nat : At(r) /\ (~oom => ContentsAt(r))
  BY <1>1 DEF ContentsInv
<1>8. PICK g, c : g = Got' /\ c = Got
  OBVIOUS
<1>9. \A k \in 1 .. Len(Image) : ImageTyped(Image[k])
  BY <1>4, ImageFacts DEF ImageTyped
<1>10. ContentsOf(NewModule, Image[nb_modules + 1], 1, g)
  <2>1. \A f \in 0 .. NewModule.nb_functions - 1 : FALSE
    BY DEF NewModule
  <2>2. PICK s \in Nat : s = 1 /\ s <= 2
    OBVIOUS
  <2>3. PICK d : d = NewModule
    OBVIOUS
  <2>4. ImageTyped(Image[nb_modules + 1])
    BY <1>4, <1>9
  <2>5. ContentsOf(d, Image[nb_modules + 1], s, g)
    BY <2>1, <2>2, <2>3, <2>4, ContentsEmpty
  <2> QED
    BY <2>2, <2>3, <2>5
<1>11. ASSUME ~oom, NEW m \in T!ModuleIds
       PROVE  ContentsOf(modules[m], Image[m + 1], EndAt(Image[m + 1]), 0)
  <2>1. IF m < current THEN ContentsOf(modules[m], Image[m + 1], EndAt(Image[m + 1]), 0)
        ELSE ContentsOf(modules[m], Image[m + 1], r, c)
    BY <1>7, <1>8, <1>11 DEF ContentsAt
  <2>2. CASE ~(m < current)
    <3>1. m + 1 = nb_modules /\ nb_modules # 0
      BY <2>2, <1>4, <1>6
    <3>2. pkt.event = "END"
      BY <3>1, <1>1 DEF ControlInv
    <3>3. r = EndAt(Image[nb_modules])
      <4>1. ClientInv /\ PipesInv
        BY DEF LoadInv
      <4> QED
        BY <4>1, <3>1, <3>2, <1>7, PktAt
    <3>4. r >= EndAt(Image[nb_modules]) /\ ImageTyped(Image[nb_modules])
      BY <3>3, <3>1, <1>4, <1>9
    <3>5. PICK z : z = 0
      OBVIOUS
    <3>6. ContentsOf(modules[m], Image[nb_modules], r, c)
      BY <3>1, <2>1, <2>2
    <3>7. PICK im : im = Image[nb_modules]
      OBVIOUS
    <3>8. ContentsOf(modules[m], im, r, z)
      BY <3>4, <3>6, <3>7, ContentsEnd
    <3> QED
      BY <3>1, <3>3, <3>5, <3>7, <3>8
  <2> QED
    BY <2>1, <2>2
<1>12. ASSUME ~oom, NEW m \in T!ModuleIds'
       PROVE  IF m < current'
              THEN ContentsOf(modules'[m], Image[m + 1], EndAt(Image[m + 1]), 0)
              ELSE ContentsOf(modules'[m], Image[m + 1], 1, g)
  <2>1. CASE m = nb_modules
    <3>1. ~(m < current')
      BY <2>1, <1>4, <1>6
    <3> QED
      BY <3>1, <2>1, <1>5, <1>10
  <2>2. CASE m \in T!ModuleIds
    <3>1. m < current'
      BY <2>2, <1>4, <1>6
    <3>2. ContentsOf(modules[m], Image[m + 1], EndAt(Image[m + 1]), 0)
      BY <2>2, <1>11, <1>12
    <3> QED
      BY <3>1, <3>2, <2>2, <1>5
  <2> QED
    BY <2>1, <2>2, <1>5
<1>13. ~oom' => ContentsAt(1)'
  BY <1>2, <1>4, <1>8, <1>12 DEF ContentsAt
<1> QED
  BY <1>3, <1>13

LEMMA ContentsFirst ==
  ASSUME LoadInv, ContentsInv, FirstPacket
  PROVE  ContentsInv'
<1>1. mpc = "first" /\ Read /\ UNCHANGED <<client, inits>>
  BY DEF FirstPacket
<1>2. Loading /\ ControlInv /\ ClientInv /\ PipesInv
  BY <1>1 DEF Loading, Stopped, LoadInv
<1>3. CASE pkt'.event = "BEGIN"
  BY <1>1, <1>3, ContentsBegin DEF FirstPacket
<1>4. CASE pkt'.event \notin {"BEGIN", "TERMINATED"}
  <2>1. mpc' = "failed"
    BY <1>4 DEF FirstPacket
  <2> QED
    BY <2>1 DEF ContentsInv, Loading, Stopped
<1>5. CASE pkt'.event = "TERMINATED"
  <2>1. UNCHANGED <<m2l, nb_modules, modules, oom>>
    BY <1>5 DEF FirstPacket, tables
  <2>2. PICK r \in Nat : At(r) /\ (~oom => ContentsAt(r))
    BY <1>2 DEF ContentsInv
  <2>3. Same(pkt', Expected(r + 1)) /\ Len(Sent(nb_modules)) \in Nat
    BY <2>2, <1>1, ReadOne
  <2>4. r + 1 <= Len(Sent(nb_modules)) /\ nb_modules # 0
    <3>1. r + 1 <= Len(Sent(nb_modules))
      BY <2>3, <1>5 DEF Expected, Same, Marker
    <3>2. nb_modules = 0 => Len(Sent(nb_modules)) = 0
      BY DEF Sent
    <3> QED
      BY <3>1, <3>2
  <2> DEFINE im == Image[nb_modules]
  <2>5. /\ At(r + 1)' /\ r + 1 \in Nat /\ r + 1 = EndAt(im) + 1
        /\ im.granularity_bb => \A x \in 1 .. Len(im.bbs) : r + 1 # x + 3
    BY <2>1, <2>2, <2>4, <1>1, <1>5, ReadPlace
  <2>6. UNCHANGED <<Image, nb_modules>>
    BY <2>1, <1>1 DEF client
  <2>7. ASSUME ~oom
        PROVE  ContentsAt(r + 1)'
    <3>1. ContentsAt(r)
      BY <2>2, <2>7
    <3>2. /\ nb_modules \in Nat \ {0} /\ current \in T!ModuleIds
          /\ modata = modules[current] /\ modata.nb_functions \in Nat
          /\ ContentsOf(modata, im, r, Got)
      BY <3>1, <2>4, <1>2, ContentsHere
    <3>3. ImageTyped(im) /\ r \in Nat \ {0} /\ EndAt(im) \in Nat /\ WholeAt(im, r, Got)
      BY <2>2, <2>4, <1>1, PlaceAt DEF Got
    <3>4. r + 1 >= EndAt(im)
      BY <2>5, <3>3
    <3>5. PICK d, m, c, g : d = modata /\ m = im /\ c = Got /\ g = Got'
      OBVIOUS
    <3>6. ContentsOf(d, m, r + 1, 0)
      BY ONLY <2>5, <3>2, <3>3, <3>5, ContentsNext
    <3>7. ContentsOf(d, m, r + 1, g)
      BY ONLY <2>5, <3>3, <3>4, <3>5, <3>6, ContentsEnd
    <3>8. ContentsOf(modules'[current], im, r + 1, Got')
      BY <2>1, <3>2, <3>5, <3>7
    <3>9. PICK s : s = r + 1
      OBVIOUS
    <3>10. ContentsAt(s)'
      BY <2>1, <2>6, <3>1, <3>2, <3>8, <3>9, ContentsCurrent
    <3> QED
      BY <3>9, <3>10
  <2> QED
    BY <2>1, <2>5, <2>7 DEF ContentsInv
<1> QED
  BY <1>3, <1>4, <1>5
-----------------------------------------------------------------------------
LEMMA InitContents ==
  ASSUME Init
  PROVE  ContentsInv
<1>1. /\ nb_modules = 0 /\ mpc = "first" /\ l2m = <<>> /\ m2l = <<>> /\ cmod = 1 /\ cpos = 1
      /\ cpc = "send"
  BY DEF Init
<1>2. LoadInv
  BY InitLoadInv
<1>3. Loading
  BY <1>1 DEF Loading, Stopped
<1>4. PICK r \in Nat : At(r)
  BY <1>2, <1>3 DEF LoadInv, InStep
<1>5. T!ModuleIds = {}
  BY <1>1 DEF T!ModuleIds
<1>6. ContentsAt(r)
  BY <1>5 DEF ContentsAt
<1> QED
  BY <1>4, <1>6 DEF ContentsInv

LEMMA NextContents ==
  ASSUME NULL \notin SUBSET Nat, LoadInv, ContentsInv, [Next]_vars
  PROVE  ContentsInv'
<1>1. CASE SendPacket \/ ReceiveId \/ ConstructorEnds \/ ClientAborts \/ ClientDies
  BY <1>1, ContentsClient
<1>2. CASE \/ SectionEnds \/ Relocate \/ InitRun \/ InitsEnd \/ FinalRelocation
           \/ UNCHANGED vars
  BY <1>2, ContentsQuiet
<1>3. CASE Terminated
  BY <1>3, ContentsQuiet DEF Terminated
<1>4. CASE FirstPacket
  BY <1>4, ContentsFirst
<1>5. CASE SectionPacket
  BY <1>5, ContentsSections
<1>6. CASE LoadEntry \/ NoName
  BY <1>6, ContentsEntry
<1>7. CASE ReadFails \/ NoRow \/ RunFindsNoClient \/ MainRuns \/ Kill \/ monitor_data_free
  <2>1. mpc' \in Stopped
    BY <1>7 DEF ReadFails, NoRow, RunFindsNoClient, MainRuns, Kill, monitor_data_free, Stopped
  <2> QED
    BY <2>1 DEF ContentsInv, Loading
<1> QED
  BY <1>1, <1>2, <1>3, <1>4, <1>5, <1>6, <1>7 DEF Next
-----------------------------------------------------------------------------
(* The identifiers.  Modules are numbered in the order of their            *)
(* constructors, and an answer that was not read yet is the last one: a    *)
(* client that waits for it, or died waiting, has sent nothing after BEGIN. *)
IdsInv ==
  Loading =>
    /\ ids \in Seq(Nat) /\ Len(ids) + Len(m2l) = nb_modules
    /\ \A k \in 1 .. Len(ids) : ids[k] = k - 1
    /\ m2l # <<>> => m2l = <<nb_modules - 1>> /\ l2m = <<>> /\ pkt.event = "BEGIN"

LEMMA InitIds ==
  ASSUME Init
  PROVE  IdsInv
<1>1. ids = <<>> /\ m2l = <<>> /\ nb_modules = 0
  BY DEF Init
<1>2. ids \in Seq(Nat) /\ Len(ids) = 0 /\ Len(m2l) = 0
  BY <1>1
<1> QED
  BY <1>1, <1>2 DEF IdsInv

LEMMA SenderHasId ==
  ASSUME LoadInv, Loading, cpc = "send"
  PROVE  m2l = <<>>
<1>1. PICK r \in Nat : At(r)
  BY DEF LoadInv, InStep
<1>2. Alive
  BY DEF Alive
<1> QED
  BY <1>1, <1>2 DEF At

LEMMA IdsFrame ==
  ASSUME IdsInv, Loading, UNCHANGED <<ids, m2l, nb_modules>>,
         m2l = <<>> \/ UNCHANGED <<l2m, pkt>>
  PROVE  IdsInv'
  BY DEF IdsInv

LEMMA ReceivedId ==
  ASSUME LoadInv, IdsInv, Loading, ReceiveId
  PROVE  IdsInv'
<1>1. m2l # <<>> /\ ids' = Append(ids, Head(m2l)) /\ m2l' = Tail(m2l)
  BY DEF ReceiveId
<1>2. nb_modules' = nb_modules
  BY DEF ReceiveId, monitor, tables
<1>3. /\ ids \in Seq(Nat) /\ Len(ids) + Len(m2l) = nb_modules
      /\ \A k \in 1 .. Len(ids) : ids[k] = k - 1
      /\ m2l = <<nb_modules - 1>>
  BY <1>1 DEF IdsInv
<1>4. Head(m2l) = nb_modules - 1 /\ m2l' = <<>> /\ Len(m2l) = 1 /\ Len(m2l') = 0
  BY <1>1, <1>3
<1>5. Len(ids) \in Nat /\ nb_modules = Len(ids) + 1 /\ Head(m2l) = Len(ids)
  BY <1>3, <1>4
<1>6. /\ ids' \in Seq(Nat) /\ Len(ids') = Len(ids) + 1 /\ ids'[Len(ids) + 1] = Len(ids)
      /\ \A k \in 1 .. Len(ids) : ids'[k] = ids[k]
  <2>1. PICK n \in Nat : n = Head(m2l)
    BY <1>5
  <2>2. ids' = Append(ids, n) /\ ids \in Seq(Nat)
    BY <2>1, <1>1, <1>3
  <2>3. /\ ids' \in Seq(Nat) /\ Len(ids') = Len(ids) + 1 /\ ids'[Len(ids) + 1] = n
        /\ \A k \in 1 .. Len(ids) : ids'[k] = ids[k]
    BY ONLY <2>2
  <2> QED
    BY <2>1, <2>3, <1>5
<1>7. \A k \in 1 .. Len(ids') : ids'[k] = k - 1
  <2> TAKE k \in 1 .. Len(ids')
  <2>1. CASE k \in 1 .. Len(ids)
    BY <2>1, <1>3, <1>6
  <2>2. CASE k = Len(ids) + 1
    BY <2>2, <1>5, <1>6
  <2> QED
    BY <2>1, <2>2, <1>5, <1>6
<1>8. Len(ids') + Len(m2l') = nb_modules'
  BY <1>2, <1>4, <1>5, <1>6
<1> QED
  BY <1>4, <1>6, <1>7, <1>8 DEF IdsInv

LEMMA NewId ==
  ASSUME LoadInv, IdsInv, Loading, FirstPacket
  PROVE  IdsInv'
<1>1. mpc = "first" /\ Read /\ UNCHANGED <<client, inits>>
  BY DEF FirstPacket
<1>2. l2m # <<>> /\ ids' = ids
  BY <1>1 DEF Read, client
<1>3. m2l = <<>> /\ ids \in Seq(Nat) /\ Len(ids) + Len(m2l) = nb_modules
      /\ \A k \in 1 .. Len(ids) : ids[k] = k - 1
  BY <1>2 DEF IdsInv
<1>4. CASE pkt'.event = "BEGIN"
  <2> SUFFICES ASSUME Loading'
               PROVE  IdsInv'
    BY DEF IdsInv
  <2>1. /\ nb_modules' = nb_modules + 1 /\ cpc # "dead" /\ m2l' = Append(m2l, nb_modules)
    BY <1>4 DEF FirstPacket, ModuleBegin, Loading, Stopped
  <2>2. m2l' = <<nb_modules>>
    BY <2>1, <1>1, <1>4, ModuleBeginAt
  <2>3. nb_modules \in Nat /\ l2m' = <<>>
    BY <1>1, <1>4, BeginAt
  <2>4. Len(ids) \in Nat /\ Len(ids) = nb_modules /\ Len(m2l') = 1 /\ nb_modules' - 1 = nb_modules
    BY <2>1, <2>2, <2>3, <1>3
  <2> QED
    BY <2>1, <2>2, <2>3, <2>4, <1>2, <1>3, <1>4 DEF IdsInv
<1>5. CASE pkt'.event # "BEGIN"
  <2>1. UNCHANGED <<m2l, tables>>
    BY <1>5 DEF FirstPacket
  <2> QED
    BY <2>1, <1>2, <1>3, IdsFrame DEF tables
<1> QED
  BY <1>4, <1>5

LEMMA NextIds ==
  ASSUME LoadInv, IdsInv, [Next]_vars
  PROVE  IdsInv'
<1>1. CASE ~Loading
  <2>1. CASE SendPacket \/ ReceiveId \/ ConstructorEnds \/ ClientAborts \/ ClientDies
    <3>1. mpc' = mpc
      BY <2>1 DEF SendPacket, ReceiveId, ConstructorEnds, ClientAborts, ClientDies, monitor
    <3> QED
      BY <3>1, <1>1 DEF IdsInv, Loading
  <2>2. CASE Kill \/ monitor_data_free \/ Terminated \/ UNCHANGED vars
    <3>1. mpc' \in Stopped
      BY <2>2, <1>1 DEF Kill, monitor_data_free, Terminated, vars, monitor, Loading, Stopped
    <3> QED
      BY <3>1 DEF IdsInv, Loading
  <2>3. CASE \/ ReadFails \/ FirstPacket \/ SectionPacket \/ LoadEntry \/ NoRow \/ NoName
             \/ SectionEnds \/ Relocate \/ InitRun \/ InitsEnd \/ RunFindsNoClient
             \/ FinalRelocation \/ MainRuns
    BY <2>3, <1>1 DEF ReadFails, FirstPacket, SectionPacket, LoadEntry, NoRow, NoName,
         SectionEnds, Relocate, InitRun, InitsEnd, RunFindsNoClient, FinalRelocation, MainRuns,
         Loading, Stopped
  <2> QED
    BY <2>1, <2>2, <2>3 DEF Next
<1>2. CASE Loading
  <2>1. CASE SendPacket
    <3>1. m2l = <<>> /\ UNCHANGED <<ids, m2l, nb_modules>>
      BY <2>1, <1>2, SenderHasId DEF SendPacket, monitor, tables
    <3> QED
      BY <3>1, <1>2, IdsFrame
  <2>2. CASE ClientDies
    <3>1. UNCHANGED <<ids, m2l, nb_modules, pkt>> /\ (cpc = "send" \/ UNCHANGED l2m)
      BY <2>2 DEF ClientDies, monitor, tables
    <3> QED
      BY <3>1, <1>2, SenderHasId, IdsFrame
  <2>3. CASE ReceiveId
    BY <2>3, <1>2, ReceivedId
  <2>4. CASE FirstPacket
    BY <2>4, <1>2, NewId
  <2>5. CASE SectionPacket
    <3>1. UNCHANGED <<ids, m2l, nb_modules>> /\ l2m # <<>>
      BY <2>5 DEF SectionPacket, Read, client
    <3>2. m2l = <<>>
      BY <3>1, <1>2 DEF IdsInv
    <3> QED
      BY <3>1, <3>2, <1>2, IdsFrame
  <2>6. CASE \/ ConstructorEnds \/ ClientAborts \/ LoadEntry \/ NoName
             \/ SectionEnds \/ Relocate \/ InitRun \/ InitsEnd \/ FinalRelocation
             \/ Terminated \/ UNCHANGED vars
    <3>1. UNCHANGED <<ids, m2l, l2m, pkt, nb_modules>>
      <4>1. CASE ConstructorEnds \/ ClientAborts
        BY <4>1 DEF ConstructorEnds, ClientAborts, monitor, tables
      <4>2. CASE LoadEntry \/ NoName \/ SectionEnds
        BY <4>2 DEF LoadEntry, NoName, SectionEnds, client, tables
      <4>3. CASE Relocate \/ InitRun \/ InitsEnd
        BY <4>3 DEF Relocate, InitRun, InitsEnd, client, tables
      <4>4. CASE FinalRelocation
        BY <4>4 DEF FinalRelocation, client
      <4>5. CASE Terminated \/ UNCHANGED vars
        BY <4>5 DEF Terminated, vars, client, monitor, tables
      <4> QED
        BY <4>1, <4>2, <4>3, <4>4, <4>5, <2>6
    <3> QED
      BY <3>1, <1>2, IdsFrame
  <2>7. CASE ReadFails \/ NoRow \/ RunFindsNoClient \/ MainRuns \/ Kill \/ monitor_data_free
    <3>1. mpc' \in Stopped
      BY <2>7 DEF ReadFails, NoRow, RunFindsNoClient, MainRuns, Kill, monitor_data_free, Stopped
    <3> QED
      BY <3>1 DEF IdsInv, Loading
  <2> QED
    BY <2>1, <2>2, <2>3, <2>4, <2>5, <2>6, <2>7 DEF Next
<1> QED
  BY <1>1, <1>2
-----------------------------------------------------------------------------
(* Everything a module's constructor sent is in the tables, and it all     *)
(* passed the checks.                                                      *)
Holds(d, im) ==
  /\ d \in Module /\ d.nb_functions = Len(im.fcts) /\ Len(im.fcts) > 0
  /\ FilledFrom(d, im.fcts, Len(im.fcts), TRUE)
  /\ CallsFrom(d, im.trans, Len(im.trans))
  /\ im.granularity_bb =>
       /\ \A x \in 1 .. Len(im.bbs) :
            /\ im.bbs[x].f_id < d.nb_functions
            /\ BlocksFrom(d.functions[im.bbs[x].f_id], im.bbs[x], Len(im.bbs[x].trans))
       /\ \A x, y \in 1 .. Len(im.bbs) : im.bbs[x].f_id = im.bbs[y].f_id => x = y
       /\ \A f \in 0 .. d.nb_functions - 1 :
            (\A x \in 1 .. Len(im.bbs) : im.bbs[x].f_id # f) => d.functions[f].nb_blocks = 0
       /\ IpdsFrom(d, im.ipds, Len(im.ipds))

LEMMA ContentsWhole ==
  ASSUME NEW im, ImageTyped(im), NEW r \in Nat, r >= EndAt(im), NEW d, NEW c,
         ContentsOf(d, im, r, c), d \in Module, d.nb_functions = Len(im.fcts),
         Len(im.fcts) > 0, FilledFrom(d, im.fcts, Len(im.fcts), TRUE)
  PROVE  Holds(d, im)
<1>1. Len(im.bbs) \in Nat /\ im.granularity_bb \in BOOLEAN
  BY DEF ImageTyped
<1>2. r >= 4 /\ (im.granularity_bb => r >= Len(im.bbs) + 5)
  BY <1>1 DEF EndAt
<1>3. \A n : Upto(3, r, c, n) = n
  BY <1>2 DEF Upto
<1>4. CallsFrom(d, im.trans, Len(im.trans))
  BY <1>3 DEF ContentsOf
<1>5. ASSUME im.granularity_bb
      PROVE  /\ \A x \in 1 .. Len(im.bbs) :
                  /\ im.bbs[x].f_id < d.nb_functions
                  /\ BlocksFrom(d.functions[im.bbs[x].f_id], im.bbs[x], Len(im.bbs[x].trans))
             /\ \A x, y \in 1 .. Len(im.bbs) : im.bbs[x].f_id = im.bbs[y].f_id => x = y
             /\ \A f \in 0 .. d.nb_functions - 1 :
                  (\A x \in 1 .. Len(im.bbs) : im.bbs[x].f_id # f)
                    => d.functions[f].nb_blocks = 0
             /\ IpdsFrom(d, im.ipds, Len(im.ipds))
  <2>1. ~(r < Len(im.bbs) + 4) /\ r # Len(im.bbs) + 4
    BY <1>1, <1>2, <1>5
  <2>2. \A x \in 1 .. Len(im.bbs) : ~(r < x + 3) /\ r # x + 3 /\ x + 3 <= r
    BY <1>1, <1>2, <1>5
  <2>3. SectionsFrom(d, im.bbs, r, c)
        /\ IpdsFrom(d, im.ipds, Upto(Len(im.bbs) + 4, r, c, Len(im.ipds)))
    BY <1>5 DEF ContentsOf
  <2>4. IpdsFrom(d, im.ipds, Len(im.ipds))
    BY <2>1, <2>3 DEF Upto
  <2>5. ASSUME NEW x \in 1 .. Len(im.bbs)
        PROVE  /\ im.bbs[x].f_id < d.nb_functions
               /\ BlocksFrom(d.functions[im.bbs[x].f_id], im.bbs[x], Len(im.bbs[x].trans))
    <3>1. Upto(x + 3, r, c, Len(im.bbs[x].trans)) = Len(im.bbs[x].trans)
      BY <2>2 DEF Upto
    <3> QED
      BY <3>1, <2>2, <2>3 DEF SectionsFrom
  <2>6. /\ \A x, y \in 1 .. Len(im.bbs) : im.bbs[x].f_id = im.bbs[y].f_id => x = y
        /\ \A f \in 0 .. d.nb_functions - 1 :
             (\A x \in 1 .. Len(im.bbs) : im.bbs[x].f_id # f) => d.functions[f].nb_blocks = 0
    BY <2>2, <2>3 DEF SectionsFrom
  <2> QED
    BY <2>4, <2>5, <2>6
<1> QED
  BY <1>4, <1>5 DEF Holds

LEMMA LoadedHolds ==
  ASSUME LoadInv, ContentsInv, mpc \in {"inits", "loaded"}, ~oom, NEW m \in T!ModuleIds
  PROVE  m + 1 \in 1 .. Len(Image) /\ Holds(modules[m], Image[m + 1])
<1>1. Loading /\ ControlInv /\ FunctionsInv /\ ClientInv /\ PipesInv
  BY DEF LoadInv, Loading, Stopped
<1>2. /\ TablesTyped /\ nb_modules \in Nat \ {0} /\ current \in T!ModuleIds
      /\ m \in Nat /\ modules[m].nb_functions > 0
  BY LoadedTables
<1>3. Image \in Programs /\ Len(Image) \in Nat /\ cmod \in 1 .. Len(Image)
  BY <1>1, ImageFacts DEF ClientInv
<1>4. m + 1 \in 1 .. Len(Image) /\ m < nb_modules /\ current = nb_modules - 1
  BY <1>1, <1>2, <1>3 DEF PipesInv, T!ModuleIds, current
<1> DEFINE im == Image[m + 1]
           d == modules[m]
<1>5. ImageTyped(im)
  BY <1>3, <1>4, ImageFacts DEF ImageTyped
<1>6. pkt.event \in {"END", "TERMINATED"}
  BY <1>1 DEF ControlInv
<1>7. Filled(m) = Len(im.fcts)
  BY <1>6 DEF Filled
<1>8. d.nb_functions = Len(im.fcts) /\ FilledFrom(d, im.fcts, Len(im.fcts), TRUE)
  <2>1. /\ d.nb_functions = IF m = current /\ pkt.event = "BEGIN" THEN 0 ELSE Len(im.fcts)
        /\ FilledFrom(d, im.fcts, Filled(m), ~oom)
    BY <1>1 DEF FunctionsInv
  <2>2. (~oom) = TRUE
    OBVIOUS
  <2>3. d.nb_functions = Len(im.fcts)
    BY <2>1, <1>6
  <2>4. FilledFrom(d, im.fcts, Len(im.fcts), ~oom)
    BY <2>1, <1>7
  <2> QED
    BY <2>3, <2>4 DEF FilledFrom
<1>9. d \in Module
  BY <1>2 DEF TablesTyped
<1>10. PICK r \in Nat : At(r) /\ ContentsAt(r)
  BY <1>1 DEF ContentsInv
<1>11. EndAt(im) \in Nat
  BY <1>3, <1>4, PacketFacts
<1>12. CASE m < current
  <2>1. ContentsOf(d, im, EndAt(im), 0)
    BY <1>10, <1>12 DEF ContentsAt
  <2>2. PICK s, c : s = EndAt(im) /\ c = 0
    OBVIOUS
  <2>3. s \in Nat /\ s >= EndAt(im) /\ ContentsOf(d, im, s, c)
    BY <2>1, <2>2, <1>11
  <2>4. Holds(d, im)
    BY <2>3, <1>2, <1>5, <1>8, <1>9, ContentsWhole
  <2> QED
    BY <2>4, <1>4
<1>13. CASE ~(m < current)
  <2>1. m + 1 = nb_modules /\ nb_modules # 0
    BY <1>2, <1>4, <1>13
  <2>2. r = EndAt(im) \/ r = EndAt(im) + 1
    BY <2>1, <1>1, <1>6, <1>10, PktAt
  <2>3. PICK c : c = Got
    OBVIOUS
  <2>4. ContentsOf(d, im, r, c)
    BY <2>3, <1>10, <1>13 DEF ContentsAt
  <2>5. r >= EndAt(im)
    BY <2>2, <1>11
  <2>6. Holds(d, im)
    BY <2>4, <2>5, <1>2, <1>5, <1>8, <1>9, ContentsWhole
  <2> QED
    BY <2>6, <1>4
<1> QED
  BY <1>12, <1>13

LEMMA IdsLead ==
  ASSUME LoadInv, ContentsInv, IdsInv
  PROVE  IdsLeadToOwnTables
<1> SUFFICES ASSUME mpc \in {"inits", "loaded"}, ~oom, NEW k \in 1 .. nb_modules
             PROVE  LET im == Image[k]
                        d == modules[ids[k]]
                    IN /\ ids[k] \in T!ModuleIds
                       /\ d.nb_functions = Len(im.fcts)
                       /\ \A x \in 1 .. Len(im.fcts) :
                            /\ d.functions[im.fcts[x].f_id].name = im.fcts[x].f_name
                            /\ d.functions[im.fcts[x].f_id].flags = im.fcts[x].f_flags
                       /\ \A f \in 0 .. d.nb_functions - 1 :
                            d.call_graph[f] = CallsOf(im.trans, Len(im.trans), f)
                       /\ im.granularity_bb =>
                            /\ \A x \in 1 .. Len(im.bbs) :
                                 LET g == d.functions[im.bbs[x].f_id]
                                     trans == im.bbs[x].trans
                                 IN /\ g.nb_blocks = im.bbs[x].num_block
                                    /\ \A b \in 0 .. g.nb_blocks - 1 :
                                         g.control_flow_graph[b] = FlowOf(trans, Len(trans), b)
                            /\ \A x \in 1 .. Len(im.ipds) :
                                 LET e == im.ipds[x]
                                 IN Later(im.ipds, Len(im.ipds), x) = {} =>
                                      d.functions[e.f_id].immediate_post_dominator[e.b_id]
                                        = e.b_ipd_id
  BY DEF IdsLeadToOwnTables
<1>1. Loading /\ ControlInv
  BY DEF LoadInv, Loading, Stopped
<1>2. m2l = <<>>
  BY <1>1 DEF IdsInv, ControlInv
<1>3. Len(ids) = nb_modules /\ \A x \in 1 .. Len(ids) : ids[x] = x - 1
  <2>1. Len(m2l) = 0 /\ Len(ids) \in Nat
    BY <1>1, <1>2 DEF IdsInv
  <2> QED
    BY <2>1, <1>1 DEF IdsInv
<1>4. nb_modules \in Nat \ {0}
  BY LoadedTables
<1>5. ids[k] = k - 1 /\ ids[k] \in T!ModuleIds /\ ids[k] + 1 = k
  BY <1>3, <1>4 DEF T!ModuleIds
<1>6. Holds(modules[ids[k]], Image[ids[k] + 1])
  <2>1. PICK m \in T!ModuleIds : m = ids[k]
    BY <1>5
  <2>2. Holds(modules[m], Image[m + 1])
    BY LoadedHolds
  <2> QED
    BY <2>1, <2>2
<1>7. PICK im, d : im = Image[k] /\ d = modules[ids[k]]
  OBVIOUS
<1>8. Holds(d, im)
  BY <1>5, <1>6, <1>7
<1>9. /\ d.nb_functions = Len(im.fcts)
      /\ \A x \in 1 .. Len(im.fcts) :
           /\ d.functions[im.fcts[x].f_id].name = im.fcts[x].f_name
           /\ d.functions[im.fcts[x].f_id].flags = im.fcts[x].f_flags
  BY <1>8 DEF Holds, FilledFrom
<1>10. \A f \in 0 .. d.nb_functions - 1 : d.call_graph[f] = CallsOf(im.trans, Len(im.trans), f)
  BY <1>8 DEF Holds, CallsFrom
<1>11. ASSUME im.granularity_bb
       PROVE  /\ \A x \in 1 .. Len(im.bbs) :
                   LET g == d.functions[im.bbs[x].f_id]
                       trans == im.bbs[x].trans
                   IN /\ g.nb_blocks = im.bbs[x].num_block
                      /\ \A b \in 0 .. g.nb_blocks - 1 :
                           g.control_flow_graph[b] = FlowOf(trans, Len(trans), b)
              /\ \A x \in 1 .. Len(im.ipds) :
                   LET e == im.ipds[x]
                   IN Later(im.ipds, Len(im.ipds), x) = {} =>
                        d.functions[e.f_id].immediate_post_dominator[e.b_id] = e.b_ipd_id
  <2>1. /\ \A x \in 1 .. Len(im.bbs) :
             BlocksFrom(d.functions[im.bbs[x].f_id], im.bbs[x], Len(im.bbs[x].trans))
        /\ IpdsFrom(d, im.ipds, Len(im.ipds))
    BY <1>8, <1>11 DEF Holds
  <2>2. ASSUME NEW x \in 1 .. Len(im.bbs)
        PROVE  LET g == d.functions[im.bbs[x].f_id]
                   trans == im.bbs[x].trans
               IN /\ g.nb_blocks = im.bbs[x].num_block
                  /\ \A b \in 0 .. g.nb_blocks - 1 :
                       g.control_flow_graph[b] = FlowOf(trans, Len(trans), b)
    BY <2>1 DEF BlocksFrom
  <2> QED
    BY <2>1, <2>2 DEF IpdsFrom
<1> QED
  BY <1>5, <1>7, <1>9, <1>10, <1>11

(* The identifier the monitor gave a module, with which the module marks   *)
(* all its signals, leads to tables that hold exactly what its constructor *)
(* sent: no section, list or post-dominator is lost, doubled or put into   *)
(* another module's tables.  NULL is a pointer, no set of identifiers.     *)
THEOREM IdsTheorem ==
  ASSUME NULL \notin SUBSET Nat
  PROVE  Spec => []IdsLeadToOwnTables
<1> DEFINE Inv == ContentsInv /\ IdsInv
<1>1. Init => Inv
  BY InitContents, InitIds
<1>2. LoadInv /\ Inv /\ [Next]_vars => Inv'
  BY NextContents, NextIds
<1>3. LoadInv /\ Inv => IdsLeadToOwnTables
  BY IdsLead
<1> QED
  BY <1>1, <1>2, <1>3, LoadInvariant, PTL DEF Spec
-----------------------------------------------------------------------------
(* A list whose members are all below a bound.                             *)
LEMMA ListWithin ==
  ASSUME NEW list \in Seq(Nat), NEW n \in Nat, InRange(list, n)
  PROVE  {list[x] : x \in 1 .. Len(list)} \subseteq 0 .. n - 1
<1>1. \A x \in 1 .. Len(list) : list[x] \in Nat
  OBVIOUS
<1>2. \A x \in 1 .. Len(list) : list[x] \in 0 .. n - 1
  BY <1>1 DEF InRange
<1> QED
  BY <1>2

(* Tables that were filled to the end are those of a well-formed module:   *)
(* the checks of the handlers leave out nothing the reference asks for.    *)
LEMMA HeldIsWellFormed ==
  ASSUME NEW p \in Programs, NEW k \in 1 .. Len(p), NEW d, Holds(d, p[k])
  PROVE  WellFormed(p[k])
<1>1. PICK im : im = p[k]
  OBVIOUS
<1> DEFINE n == Len(im.fcts)
           ids_of == {im.fcts[x].f_id : x \in 1 .. Len(im.fcts)}
           callers == [x \in 1 .. Len(im.trans) |-> im.trans[x].f_id]
           owners == [x \in 1 .. Len(im.bbs) |-> im.bbs[x].f_id]
           Distinct(s) == \A x, y \in 1 .. Len(s) : s[x] = s[y] => x = y
           Elements(s) == {s[x] : x \in 1 .. Len(s)}
<1>2. /\ im.fcts \in Seq(FctEntry) /\ im.trans \in Seq(TransEntry)
      /\ im.bbs \in Seq(BbTable) /\ im.ipds \in Seq(IpdEntry)
  BY <1>1, ImageFacts
<1>3. Holds(d, im) /\ n \in Nat /\ n > 0 /\ d.nb_functions = n
  <2>1. Holds(d, im)
    BY <1>1
  <2>2. Len(im.fcts) \in Nat
    BY <1>2
  <2> QED
    BY <2>1, <2>2 DEF Holds
<1>4. /\ \A x \in 1 .. n : im.fcts[x].f_id \in Nat
      /\ \A x \in 1 .. Len(im.trans) : im.trans[x].f_id \in Nat /\ im.trans[x].f_calls \in Seq(Nat)
      /\ \A x \in 1 .. Len(im.bbs) : im.bbs[x].f_id \in Nat /\ im.bbs[x].num_block \in Nat
                                     /\ im.bbs[x].trans \in Seq(BbEntry)
      /\ \A x \in 1 .. Len(im.ipds) : im.ipds[x].f_id \in Nat /\ im.ipds[x].b_id \in Nat
  <2>1. /\ \A x \in 1 .. n : im.fcts[x] \in FctEntry
        /\ \A x \in 1 .. Len(im.trans) : im.trans[x] \in TransEntry
        /\ \A x \in 1 .. Len(im.bbs) : im.bbs[x] \in BbTable
        /\ \A x \in 1 .. Len(im.ipds) : im.ipds[x] \in IpdEntry
    BY <1>2
  <2> QED
    BY <2>1 DEF FctEntry, TransEntry, BbTable, IpdEntry
<1>5. ids_of = 0 .. n - 1 /\ im.fcts # <<>>
  <2>1. \A x \in 1 .. n : im.fcts[x].f_id < n
    BY <1>3 DEF Holds, FilledFrom
  <2>2. ids_of \subseteq 0 .. n - 1
    BY <2>1, <1>3, <1>4
  <2>3. Numbered(im.fcts)
    <3>1. d.nb_functions = Len(p[k].fcts) /\ FilledFrom(d, p[k].fcts, Len(p[k].fcts), TRUE)
      BY DEF Holds
    <3> QED
      BY <3>1, <1>1, AllNumbered
  <2>4. 0 .. n - 1 \subseteq ids_of
    BY <2>3 DEF Numbered
  <2> QED
    BY <2>2, <2>4, <1>3
<1>6. /\ \A x \in 1 .. Len(im.trans) : im.trans[x].f_id < n /\ InRange(im.trans[x].f_calls, n)
      /\ \A x, y \in 1 .. Len(im.trans) : im.trans[x].f_id = im.trans[y].f_id => x = y
  BY <1>3 DEF Holds, CallsFrom
<1>7. Len(callers) = Len(im.trans) /\ \A x \in 1 .. Len(im.trans) : callers[x] = im.trans[x].f_id
  BY <1>2
<1>8. Distinct(callers) /\ Elements(callers) \subseteq ids_of
  <2>1. \A x \in 1 .. Len(im.trans) : im.trans[x].f_id \in 0 .. n - 1
    BY <1>3, <1>4, <1>6
  <2> HIDE DEF callers, ids_of, n
  <2>2. Distinct(callers)
    BY <1>6, <1>7
  <2>3. \A x \in 1 .. Len(callers) : callers[x] \in ids_of
    BY <1>5, <1>7, <2>1
  <2> QED
    BY <2>2, <2>3
<1>9. \A x \in 1 .. Len(im.trans) : Elements(im.trans[x].f_calls) \subseteq ids_of
  <2> TAKE x \in 1 .. Len(im.trans)
  <2>1. PICK list : list = im.trans[x].f_calls
    OBVIOUS
  <2>2. list \in Seq(Nat) /\ InRange(list, n)
    BY <2>1, <1>4, <1>6
  <2>3. Elements(list) \subseteq ids_of
    BY <2>2, <1>3, <1>5, ListWithin
  <2> QED
    BY <2>1, <2>3
<1>10. ASSUME im.granularity_bb
       PROVE  /\ Distinct(owners) /\ Elements(owners) \subseteq ids_of
              /\ \A x \in 1 .. Len(im.bbs) :
                   /\ 0 .. im.bbs[x].num_block - 1 # {}
                   /\ \A t \in Elements(im.bbs[x].trans) :
                        /\ t.b_id \in 0 .. im.bbs[x].num_block - 1
                        /\ Elements(t.b_succ) \subseteq 0 .. im.bbs[x].num_block - 1
              /\ \A e \in Elements(im.ipds) : \E x \in 1 .. Len(im.bbs) :
                   e.f_id = im.bbs[x].f_id /\ e.b_id < im.bbs[x].num_block
  <2>1. /\ \A x \in 1 .. Len(im.bbs) :
             /\ im.bbs[x].f_id < n
             /\ BlocksFrom(d.functions[im.bbs[x].f_id], im.bbs[x], Len(im.bbs[x].trans))
        /\ \A x, y \in 1 .. Len(im.bbs) : im.bbs[x].f_id = im.bbs[y].f_id => x = y
        /\ \A f \in 0 .. n - 1 :
             (\A x \in 1 .. Len(im.bbs) : im.bbs[x].f_id # f) => d.functions[f].nb_blocks = 0
        /\ IpdsFrom(d, im.ipds, Len(im.ipds))
    BY <1>3, <1>10 DEF Holds
  <2>2. Len(owners) = Len(im.bbs) /\ \A x \in 1 .. Len(im.bbs) : owners[x] = im.bbs[x].f_id
    BY <1>2
  <2>3. Distinct(owners) /\ Elements(owners) \subseteq ids_of
    <3>1. \A x \in 1 .. Len(im.bbs) : im.bbs[x].f_id \in 0 .. n - 1
      BY <2>1, <1>3, <1>4
    <3> HIDE DEF owners, ids_of, n
    <3>2. Distinct(owners)
      BY <2>1, <2>2
    <3>3. \A x \in 1 .. Len(owners) : owners[x] \in ids_of
      BY <1>5, <2>2, <3>1
    <3> QED
      BY <3>2, <3>3
  <2>4. ASSUME NEW x \in 1 .. Len(im.bbs)
        PROVE  /\ 0 .. im.bbs[x].num_block - 1 # {}
               /\ \A t \in Elements(im.bbs[x].trans) :
                    /\ t.b_id \in 0 .. im.bbs[x].num_block - 1
                    /\ Elements(t.b_succ) \subseteq 0 .. im.bbs[x].num_block - 1
    <3> DEFINE trans == im.bbs[x].trans
               N == im.bbs[x].num_block
    <3>1. N \in Nat /\ trans \in Seq(BbEntry)
      BY <1>4
    <3>2. N # 0 /\ \A y \in 1 .. Len(trans) : trans[y].b_id < N /\ InRange(trans[y].b_succ, N)
      BY <2>1 DEF BlocksFrom
    <3>3. \A y \in 1 .. Len(trans) : trans[y].b_id \in Nat /\ trans[y].b_succ \in Seq(Nat)
      <4>1. \A y \in 1 .. Len(trans) : trans[y] \in BbEntry
        BY <3>1
      <4> QED
        BY <4>1 DEF BbEntry
    <3> HIDE DEF trans, N
    <3>4. 0 .. N - 1 # {}
      <4>1. 0 \in 0 .. N - 1
        BY <3>1, <3>2
      <4> QED
        BY <4>1
    <3>5. \A y \in 1 .. Len(trans) :
            trans[y].b_id \in 0 .. N - 1 /\ Elements(trans[y].b_succ) \subseteq 0 .. N - 1
      <4> TAKE y \in 1 .. Len(trans)
      <4>1. trans[y].b_id \in 0 .. N - 1
        BY <3>1, <3>2, <3>3
      <4>2. PICK list : list = trans[y].b_succ
        OBVIOUS
      <4>3. list \in Seq(Nat) /\ InRange(list, N)
        BY <4>2, <3>2, <3>3
      <4>4. Elements(list) \subseteq 0 .. N - 1
        BY <4>3, <3>1, ListWithin
      <4> QED
        BY <4>1, <4>2, <4>4
    <3>6. \A t \in Elements(trans) : t.b_id \in 0 .. N - 1 /\ Elements(t.b_succ) \subseteq 0 .. N - 1
      <4> TAKE t \in Elements(trans)
      <4>1. PICK y \in 1 .. Len(trans) : t = trans[y]
        OBVIOUS
      <4> QED
        BY <4>1, <3>5
    <3> QED
      BY <3>4, <3>6 DEF trans, N
  <2>5. ASSUME NEW y \in 1 .. Len(im.ipds)
        PROVE  \E x \in 1 .. Len(im.bbs) :
                 im.ipds[y].f_id = im.bbs[x].f_id /\ im.ipds[y].b_id < im.bbs[x].num_block
    <3> DEFINE f == im.ipds[y].f_id
               b == im.ipds[y].b_id
    <3>1. f \in Nat /\ b \in Nat
      BY <1>4
    <3>2. f < n /\ b < d.functions[f].nb_blocks
      BY <2>1, <1>3 DEF IpdsFrom
    <3>3. d.functions[f].nb_blocks # 0 /\ f \in 0 .. n - 1
      BY <3>1, <3>2, <1>3
    <3>4. PICK x \in 1 .. Len(im.bbs) : im.bbs[x].f_id = f
      BY <3>3, <2>1
    <3>5. d.functions[f].nb_blocks = im.bbs[x].num_block
      BY <3>4, <2>1 DEF BlocksFrom
    <3> QED
      BY <3>2, <3>4, <3>5
  <2>6. \A e \in Elements(im.ipds) : \E x \in 1 .. Len(im.bbs) :
          e.f_id = im.bbs[x].f_id /\ e.b_id < im.bbs[x].num_block
    BY <2>5
  <2> QED
    BY <2>3, <2>4, <2>6
<1>11. WellFormed(im)
  BY ONLY <1>5, <1>8, <1>9, <1>10 DEF WellFormed
<1> QED
  BY <1>1, <1>11

(* When the final pass found every external function, each is defined by   *)
(* another module of the program.                                          *)
LEMMA ResolvedIsComplete ==
  ASSUME \A m \in 0 .. Len(Image) - 1 : Holds(modules[m], Image[m + 1]), Image \in Programs,
         nb_modules = Len(Image), \A m \in T!ModuleIds : ResolvedIn(m, FALSE)
  PROVE  Complete(Image)
<1> SUFFICES ASSUME NEW k \in 1 .. Len(Image), NEW x \in 1 .. Len(Image[k].fcts),
                    Image[k].fcts[x].f_flags = "FCT_EXTERNAL"
             PROVE  \E n \in (1 .. Len(Image)) \ {k} : \E y \in 1 .. Len(Image[n].fcts) :
                      /\ Image[n].fcts[y].f_name = Image[k].fcts[x].f_name
                      /\ Image[n].fcts[y].f_flags # "FCT_EXTERNAL"
  BY DEF Complete
<1>1. Len(Image) \in Nat /\ T!ModuleIds = 0 .. Len(Image) - 1
  BY ImageFacts DEF T!ModuleIds
<1>2. \A a \in 1 .. Len(Image) :
        /\ a - 1 \in T!ModuleIds /\ Len(Image[a].fcts) \in Nat
        /\ modules[a - 1].nb_functions = Len(Image[a].fcts)
        /\ \A y \in 1 .. Len(Image[a].fcts) :
             LET e == Image[a].fcts[y]
             IN /\ e.f_id \in T!FunctionIds(a - 1)
                /\ modules[a - 1].functions[e.f_id].flags = e.f_flags
                /\ modules[a - 1].functions[e.f_id].name = e.f_name
        /\ Numbered(Image[a].fcts)
  <2> TAKE a \in 1 .. Len(Image)
  <2>1. a - 1 \in 0 .. Len(Image) - 1 /\ (a - 1) + 1 = a
    BY <1>1
  <2>2. PICK d, fcts : d = modules[a - 1] /\ fcts = Image[a].fcts
    OBVIOUS
  <2>3. Holds(d, Image[a])
    <3>1. PICK m \in 0 .. Len(Image) - 1 : m = a - 1
      BY <2>1
    <3>2. Holds(modules[m], Image[m + 1])
      OBVIOUS
    <3> QED
      BY <3>1, <3>2, <2>1, <2>2
  <2>4. d.nb_functions = Len(fcts) /\ FilledFrom(d, fcts, Len(fcts), TRUE)
    BY <2>2, <2>3 DEF Holds
  <2>5. Numbered(fcts)
    BY <2>2, <2>4, AllNumbered
  <2>6. fcts \in Seq(FctEntry)
    BY <2>2, ImageFacts
  <2>7. \A y \in 1 .. Len(fcts) : fcts[y].f_id \in Nat
    <3>1. \A y \in 1 .. Len(fcts) : fcts[y] \in FctEntry
      BY <2>6
    <3> QED
      BY <3>1 DEF FctEntry
  <2>8. \A y \in 1 .. Len(fcts) :
          /\ fcts[y].f_id < d.nb_functions
          /\ d.functions[fcts[y].f_id].flags = fcts[y].f_flags
          /\ d.functions[fcts[y].f_id].name = fcts[y].f_name
    BY <2>4 DEF FilledFrom
  <2>9. \A y \in 1 .. Len(fcts) : fcts[y].f_id \in 0 .. d.nb_functions - 1
    BY <2>4, <2>6, <2>7, <2>8
  <2> QED
    <3>1. a - 1 \in T!ModuleIds /\ Len(fcts) \in Nat
      BY <2>1, <2>6, <1>1
    <3>2. T!FunctionIds(a - 1) = 0 .. d.nb_functions - 1
      BY <2>2 DEF T!FunctionIds
    <3>3. \A y \in 1 .. Len(fcts) :
            /\ fcts[y].f_id \in T!FunctionIds(a - 1)
            /\ modules[a - 1].functions[fcts[y].f_id].flags = fcts[y].f_flags
            /\ modules[a - 1].functions[fcts[y].f_id].name = fcts[y].f_name
      BY <2>2, <2>8, <2>9, <3>2
    <3> QED
      BY <2>2, <2>4, <2>5, <3>1, <3>3
<1> DEFINE m == k - 1
           j == Image[k].fcts[x].f_id
<1>3. m \in T!ModuleIds /\ j \in Externals(m) /\ Name(m, j) = Image[k].fcts[x].f_name
  BY <1>2 DEF Externals, T!FUNCTION_IS_EXTERNAL, Name
<1>4. DefiningModules(m, j) # {}
  <2>1. PICK a, b : a = m /\ b = j
    OBVIOUS
  <2>2. ResolvedIn(a, FALSE) /\ b \in Externals(a)
    BY <2>1, <1>3
  <2>3. DefiningModules(a, b) # {}
    BY <2>2 DEF ResolvedIn
  <2> QED
    BY <2>1, <2>3
<1>5. PICK h \in T!ModuleIds \ {m} : \E l \in T!FunctionIds(h) :
        ~T!FUNCTION_IS_EXTERNAL(h, l) /\ Name(h, l) = Name(m, j)
  BY <1>4 DEF DefiningModules
<1>6. PICK l \in T!FunctionIds(h) :
        ~T!FUNCTION_IS_EXTERNAL(h, l) /\ Name(h, l) = Name(m, j)
  BY <1>5
<1>7. h + 1 \in (1 .. Len(Image)) \ {k} /\ (h + 1) - 1 = h
  BY <1>1, <1>5
<1>8. PICK n \in (1 .. Len(Image)) \ {k} : n = h + 1 /\ n - 1 = h
  BY <1>7
<1>9. l \in 0 .. Len(Image[n].fcts) - 1
  BY <1>2, <1>6, <1>8 DEF T!FunctionIds
<1>10. PICK y \in 1 .. Len(Image[n].fcts) : Image[n].fcts[y].f_id = l
  BY <1>2, <1>9 DEF Numbered
<1>11. /\ modules[h].functions[l].flags = Image[n].fcts[y].f_flags
       /\ modules[h].functions[l].name = Image[n].fcts[y].f_name
  BY <1>2, <1>8, <1>10
<1>12. /\ Image[n].fcts[y].f_name = Image[k].fcts[x].f_name
       /\ Image[n].fcts[y].f_flags # "FCT_EXTERNAL"
  BY <1>3, <1>6, <1>11 DEF T!FUNCTION_IS_EXTERNAL, Name
<1> QED
  BY <1>12

LEMMA LoadedIsProper ==
  ASSUME LoadInv, ContentsInv, ResolutionInv
  PROVE  OnlyProperLoads
<1> SUFFICES ASSUME mpc = "loaded", ~oom
             PROVE  Proper(Image)
  BY DEF OnlyProperLoads
<1>1. Loading /\ ControlInv /\ ClientInv /\ PipesInv
  BY DEF LoadInv, Loading, Stopped
<1>2. pkt.event = "TERMINATED" /\ nb_modules # 0
  BY <1>1 DEF ControlInv
<1>3. nb_modules = Len(Image)
  <2>1. PICK r \in Nat : At(r)
    BY <1>1 DEF LoadInv, InStep
  <2> QED
    BY <2>1, <1>1, <1>2, PktAt
<1>4. Image \in Programs /\ Len(Image) \in Nat
  BY <1>1, ImageFacts DEF ClientInv
<1>5. T!ModuleIds = 0 .. Len(Image) - 1
  BY <1>3 DEF T!ModuleIds
<1>6. \A m \in T!ModuleIds : Holds(modules[m], Image[m + 1])
  BY LoadedHolds
<1>7. Complete(Image)
  BY <1>3, <1>4, <1>5, <1>6, ResolvedIsComplete DEF ResolutionInv
<1>8. ASSUME NEW k \in 1 .. Len(Image)
      PROVE  WellFormed(Image[k])
  <2>1. PICK m \in T!ModuleIds : m + 1 = k
    <3>1. k - 1 \in T!ModuleIds /\ (k - 1) + 1 = k
      BY <1>4, <1>5
    <3> QED
      BY <3>1
  <2>2. Holds(modules[m], Image[k])
    BY <2>1, <1>6
  <2>3. PICK d : d = modules[m]
    OBVIOUS
  <2> QED
    BY <2>2, <2>3, <1>4, HeldIsWellFormed
<1> QED
  BY <1>7, <1>8 DEF Proper

(* Loading ends well only for programs that the reference accepts: unless  *)
(* memory ran out, the checks of the section handlers and the final pass   *)
(* let no module through whose tables are broken, and no program with a    *)
(* call that leads nowhere.                                                *)
THEOREM ProperTheorem ==
  ASSUME NULL \notin SUBSET Nat
  PROVE  Spec => []OnlyProperLoads
<1>1. Init => ContentsInv
  BY InitContents
<1>2. LoadInv /\ ContentsInv /\ [Next]_vars => ContentsInv'
  BY NextContents
<1>3. LoadInv /\ ContentsInv /\ ResolutionInv => OnlyProperLoads
  BY LoadedIsProper
<1> QED
  BY <1>1, <1>2, <1>3, LoadInvariant, ResolutionInvariant, PTL DEF Spec
=============================================================================
