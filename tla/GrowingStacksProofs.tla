------------------------- MODULE GrowingStacksProofs -------------------------
(***************************************************************************)
(* When realloc extends an array where it is, the stacks of monitor_run    *)
(* are stacks: for every array size, with and without tracing, to every    *)
(* depth.  That is the premise under which MonitorRun takes both of them   *)
(* for sequences.                                                          *)
(*                                                                         *)
(* The argument: the two arrays stay the first two allocations; the i-th   *)
(* saved pointer leads to the blocks of the i-th suspended caller; saved   *)
(* pointers are a caller's blocks apart, so that popping one caller leaves *)
(* the blocks of the callers below it alone.                               *)
(***************************************************************************)
EXTENDS GrowingStacks, TLAPS

(* Allocation k lives in, and what a cell, a pointer and a caller are.     *)
Array(k) == IF k = "calls" THEN 1 ELSE 2
Pointer == [base : Nat, off : Int]
Cell == Block \cup {Unused} \cup Pointer
Caller == [topblock : Block, curblock : Block]
Memories == [heap : Seq(Seq(Cell)),
             stk : [Stacks -> [first : Pointer, last : Pointer, top : Pointer]],
             err : Int, wild : BOOLEAN]

(* Both arrays are where they were allocated, and top is inside its array. *)
Sound(m) ==
  /\ m \in Memories
  /\ m.err = 0 /\ m.wild = FALSE /\ Len(m.heap) = 2
  /\ \A k \in Stacks :
       /\ m.stk[k].first = Ptr(Array(k), 0)
       /\ m.stk[k].last = Ptr(Array(k), Len(m.heap[Array(k)]) - 1)
       /\ m.stk[k].top.base = Array(k)
       /\ m.stk[k].top.off \in -1 .. Len(m.heap[Array(k)]) - 1

(* Entries of the block stack a suspended caller takes up. *)
Width == IF OPTION_sm_trace THEN 2 ELSE 1

CallTop(m) == m.stk["calls"].top.off
BlockTop(m) == m.stk["blocks"].top.off
SavedAt(m, i) == m.heap[1][i].off

(* The i-th entry of the call stack leads to the blocks of caller i.       *)
Saved(m, i, c) ==
  /\ m.heap[1][i] = Ptr(2, SavedAt(m, i))
  /\ SavedAt(m, i) \in Width - 1 .. BlockTop(m)
  /\ m.heap[2][SavedAt(m, i) + 1] = c.curblock
  /\ OPTION_sm_trace => m.heap[2][SavedAt(m, i)] = c.topblock

(* The memory holds the callers cs, innermost last, with the blocks of     *)
(* each one above those of the callers below it.                           *)
Holds(m, cs) ==
  /\ CallTop(m) = Len(cs) - 1
  /\ \A i \in 1 .. Len(cs) : Saved(m, i, cs[i])
  /\ \A i, j \in 1 .. Len(cs) : i < j => SavedAt(m, i) + Width <= SavedAt(m, j)

StacksInv ==
  /\ ~wild
  /\ pushed \in Seq(Caller)
  /\ err = 0 => Sound(Current) /\ Holds(Current, pushed)
  /\ err # 0 => heap = <<>>
  /\ PopsWhatWasPushed
-----------------------------------------------------------------------------
LEMMA ArrayFacts == \A k \in Stacks : Array(k) \in 1 .. 2 /\ Array(k) # 0
  BY DEF Stacks, Array

LEMMA PtrFacts ==
  ASSUME NEW b, NEW o
  PROVE  /\ Ptr(b, o).base = b /\ Ptr(b, o).off = o
         /\ b \in Nat /\ o \in Int => Ptr(b, o) \in Pointer
  BY DEF Ptr, Pointer

LEMMA NextPtr ==
  ASSUME NEW p \in Pointer
  PROVE  /\ [p EXCEPT !.off = @ + 1] \in Pointer
         /\ [p EXCEPT !.off = @ + 1].base = p.base
         /\ [p EXCEPT !.off = @ + 1].off = p.off + 1
         /\ p.off \in Int
  BY DEF Pointer

LEMMA ConcatLemma ==
  ASSUME NEW S, NEW s \in Seq(S), NEW t \in Seq(S)
  PROVE  /\ s \o t \in Seq(S)
         /\ Len(s \o t) = Len(s) + Len(t)
         /\ \A i \in 1 .. Len(s) : (s \o t)[i] = s[i]
  OBVIOUS

LEMMA FrontLemma ==
  ASSUME NEW S, NEW s \in Seq(S), NEW k \in 0 .. Len(s)
  PROVE  /\ SubSeq(s, 1, k) \in Seq(S)
         /\ Len(SubSeq(s, 1, k)) = k
         /\ \A j \in 1 .. k : SubSeq(s, 1, k)[j] = s[j]
  OBVIOUS

LEMMA UpdateLemma ==
  ASSUME NEW S, NEW s \in Seq(S), NEW a \in 1 .. Len(s), NEW v \in S
  PROVE  /\ [s EXCEPT ![a] = v] \in Seq(S)
         /\ Len([s EXCEPT ![a] = v]) = Len(s)
         /\ [s EXCEPT ![a] = v][a] = v
         /\ \A i \in 1 .. Len(s) : i # a => [s EXCEPT ![a] = v][i] = s[i]
  OBVIOUS

(* What is pushed stays below top: memory x keeps m's entries and adds v   *)
(* to stack k.                                                             *)
Adds(m, x, k, v) ==
  /\ Sound(x)
  /\ x.stk[k].top.off = m.stk[k].top.off + 1
  /\ x.heap[Array(k)][m.stk[k].top.off + 2] = v
  /\ \A j \in Stacks \ {k} : x.stk[j].top = m.stk[j].top
  /\ \A j \in Stacks : \A i \in 1 .. m.stk[j].top.off + 1 :
       x.heap[Array(j)][i] = m.heap[Array(j)][i]

(* realloc in place gives the array room for at least one more entry and   *)
(* leaves everything else alone.                                           *)
LEMMA ExtendLemma ==
  ASSUME ~ReallocMoves, ~ReallocFails, NEW m, Sound(m), NEW k \in Stacks,
         NEW x \in Extend(m, k)
  PROVE  /\ Sound(x)
         /\ x.stk[k].top.off + 1 < Len(x.heap[Array(k)])
         /\ \A j \in Stacks : x.stk[j].top = m.stk[j].top
         /\ \A j \in Stacks : \A i \in 1 .. Len(m.heap[Array(j)]) :
              x.heap[Array(j)][i] = m.heap[Array(j)][i]
<1> DEFINE a == Array(k)
           cells == m.heap[a] \o NewCells(EXTEND_SIZE[k])
           ns == [m.stk[k] EXCEPT !.first = Ptr(a, 0), !.last = Ptr(a, Len(cells) - 1)]
<1>1. EXTEND_SIZE[k] \in Nat \ {0} /\ a \in 1 .. 2 /\ a # 0
  BY StacksAssumption, ArrayFacts DEF Stacks
<1>2. NewCells(EXTEND_SIZE[k]) \in Seq(Cell) /\ Len(NewCells(EXTEND_SIZE[k])) = EXTEND_SIZE[k]
  BY <1>1 DEF NewCells, Cell
<1>3. m.heap \in Seq(Seq(Cell)) /\ Len(m.heap) = 2 /\ m.heap[a] \in Seq(Cell)
  BY <1>1 DEF Sound, Memories
<1>4. /\ cells \in Seq(Cell)
      /\ Len(cells) = Len(m.heap[a]) + EXTEND_SIZE[k]
      /\ \A i \in 1 .. Len(m.heap[a]) : cells[i] = m.heap[a][i]
  <2> DEFINE new == NewCells(EXTEND_SIZE[k])
  <2>1. m.heap[a] \in Seq(Cell) /\ new \in Seq(Cell) /\ Len(new) = EXTEND_SIZE[k]
    BY <1>2, <1>3
  <2> HIDE DEF new, a
  <2>2. /\ m.heap[a] \o new \in Seq(Cell)
        /\ Len(m.heap[a] \o new) = Len(m.heap[a]) + Len(new)
        /\ \A i \in 1 .. Len(m.heap[a]) : (m.heap[a] \o new)[i] = m.heap[a][i]
    BY <2>1, ConcatLemma
  <2>3. QED
    BY <2>1, <2>2 DEF new
<1>5. m.stk[k].first.base = a /\ m.stk[k].first # NULL
  <2>1. m.stk[k].first = Ptr(a, 0)
    BY DEF Sound
  <2>2. m.stk[k].first.base = a /\ NULL.base = 0
    BY <2>1, PtrFacts DEF NULL
  <2>3. QED
    BY <1>1, <2>2
<1>6. x = [m EXCEPT !.heap[a] = cells, !.stk[k] = ns, !.err = 0]
  BY <1>5 DEF Extend
<1> HIDE DEF cells
<1>7. /\ x.heap = [m.heap EXCEPT ![a] = cells]
      /\ x.stk = [m.stk EXCEPT ![k] = ns]
      /\ x.err = 0 /\ x.wild = FALSE
  BY <1>6 DEF Sound, Memories
<1>8. /\ ns \in [first : Pointer, last : Pointer, top : Pointer]
      /\ ns.first = Ptr(a, 0) /\ ns.last = Ptr(a, Len(cells) - 1) /\ ns.top = m.stk[k].top
  <2>1. m.stk[k] \in [first : Pointer, last : Pointer, top : Pointer]
    BY DEF Sound, Memories
  <2>2. Ptr(a, 0) \in Pointer /\ Ptr(a, Len(cells) - 1) \in Pointer
    BY <1>1, <1>4, PtrFacts
  <2>3. QED
    BY <2>1, <2>2
<1> HIDE DEF ns
<1>9. /\ x.heap \in Seq(Seq(Cell)) /\ Len(x.heap) = 2 /\ x.heap[a] = cells
      /\ \A j \in 1 .. 2 : j # a => x.heap[j] = m.heap[j]
  BY <1>1, <1>3, <1>4, <1>7
<1>10. /\ x.stk \in [Stacks -> [first : Pointer, last : Pointer, top : Pointer]]
       /\ x.stk[k] = ns /\ \A j \in Stacks : j # k => x.stk[j] = m.stk[j]
  BY <1>7, <1>8 DEF Sound, Memories
<1>11. Len(m.heap[a]) \in Nat /\ m.stk[k].top.base = a
       /\ m.stk[k].top.off \in -1 .. Len(m.heap[a]) - 1
  BY <1>3 DEF Sound
<1>12. ASSUME NEW j \in Stacks, j # k PROVE Array(j) # a /\ Array(j) \in 1 .. 2
  BY <1>12 DEF Stacks, Array
<1>13. x \in Memories
  BY <1>6, <1>7, <1>9, <1>10 DEF Sound, Memories
<1>14. ASSUME NEW j \in Stacks
       PROVE  /\ x.stk[j].first = Ptr(Array(j), 0)
              /\ x.stk[j].last = Ptr(Array(j), Len(x.heap[Array(j)]) - 1)
              /\ x.stk[j].top = m.stk[j].top
              /\ x.stk[j].top.base = Array(j)
              /\ x.stk[j].top.off \in -1 .. Len(x.heap[Array(j)]) - 1
              /\ \A i \in 1 .. Len(m.heap[Array(j)]) :
                   x.heap[Array(j)][i] = m.heap[Array(j)][i]
  <2>1. CASE j = k
    <3>1. Array(j) = a /\ x.stk[j] = ns /\ x.heap[a] = cells
      BY <1>9, <1>10, <2>1
    <3> HIDE DEF a
    <3>2. m.stk[k].top.off \in -1 .. Len(cells) - 1
      BY <1>1, <1>4, <1>11
    <3>3. QED
      BY <1>4, <1>8, <1>11, <2>1, <3>1, <3>2
  <2>2. CASE j # k
    BY <1>9, <1>10, <1>12, <2>2 DEF Sound
  <2>3. QED
    BY <2>1, <2>2
<1>15. Sound(x)
  BY <1>7, <1>9, <1>13, <1>14 DEF Sound
<1>16. x.stk[k].top.off + 1 < Len(x.heap[Array(k)])
  <2>1. x.stk[k].top = m.stk[k].top /\ x.heap[Array(k)] = cells
    BY <1>9, <1>14
  <2> DEFINE t == m.stk[k].top.off
             n == Len(m.heap[a])
  <2>2. t \in -1 .. n - 1 /\ n \in Nat /\ Len(cells) = n + EXTEND_SIZE[k]
    BY <1>4, <1>11
  <2> HIDE DEF t, n
  <2>3. t + 1 < Len(cells)
    BY <1>1, <2>2
  <2>4. QED
    BY <2>1, <2>3 DEF t
<1>17. QED
  BY <1>14, <1>15, <1>16

(* A push adds one entry and keeps the others, grown or not.               *)
LEMMA PushAdds ==
  ASSUME ~ReallocMoves, ~ReallocFails, NEW m, Sound(m), NEW k \in Stacks,
         NEW v \in Cell, NEW y \in PUSH(m, k, v)
  PROVE  Adds(m, y, k, v)
<1> DEFINE a == Array(k)
           room == UNION {IF full THEN Extend(m, k) ELSE {m} :
                            full \in GreaterOrEqual(m.stk[k].top, m.stk[k].last)}
<1>1. PICK x \in room : y = IF x.err = 0 THEN Store(x, k, v) ELSE x
  BY DEF PUSH
<1>2. PICK full \in GreaterOrEqual(m.stk[k].top, m.stk[k].last) :
        x \in IF full THEN Extend(m, k) ELSE {m}
  BY <1>1
<1>3. a \in 1 .. 2 /\ a # 0
  BY ArrayFacts
<1>4. m.heap[a] \in Seq(Cell) /\ Len(m.heap[a]) \in Nat
  BY <1>3 DEF Sound, Memories
<1>5. full = (m.stk[k].top.off >= Len(m.heap[a]) - 1)
  <2>1. /\ m.stk[k].last = Ptr(a, Len(m.heap[a]) - 1)
        /\ m.stk[k].top.base = a
    BY DEF Sound
  <2>2. m.stk[k].last.base = a /\ m.stk[k].last.off = Len(m.heap[a]) - 1
    BY <2>1, PtrFacts
  <2>3. QED
    BY <1>2, <2>1, <2>2 DEF GreaterOrEqual
<1>6. /\ Sound(x)
      /\ x.stk[k].top.off + 1 < Len(x.heap[a])
      /\ \A j \in Stacks : x.stk[j].top = m.stk[j].top
      /\ \A j \in Stacks : \A i \in 1 .. m.stk[j].top.off + 1 :
           x.heap[Array(j)][i] = m.heap[Array(j)][i]
  <2>1. \A j \in Stacks : \A i \in 1 .. m.stk[j].top.off + 1 : i \in 1 .. Len(m.heap[Array(j)])
    <3>1. ASSUME NEW j \in Stacks
          PROVE  Len(m.heap[Array(j)]) \in Nat
                 /\ m.stk[j].top.off \in -1 .. Len(m.heap[Array(j)]) - 1
      BY ArrayFacts DEF Sound, Memories
    <3>2. QED
      BY <3>1
  <2>2. CASE full
    <3>1. x \in Extend(m, k)
      BY <1>2, <2>2
    <3>2. QED
      BY <2>1, <3>1, ExtendLemma
  <2>3. CASE ~full
    <3>1. x = m
      BY <1>2, <2>3
    <3>2. m.stk[k].top.off \in Int
      BY DEF Sound, Memories, Pointer
    <3>3. m.stk[k].top.off + 1 < Len(m.heap[a])
      <4> DEFINE t == m.stk[k].top.off
                 n == Len(m.heap[a])
      <4>1. t \in Int /\ n \in Nat /\ ~(t >= n - 1)
        BY <1>4, <1>5, <2>3, <3>2
      <4> HIDE DEF t, n
      <4>2. t + 1 < n
        BY <4>1
      <4>3. QED
        BY <4>2 DEF t, n
    <3>4. QED
      BY <3>1, <3>3
  <2>4. QED
    BY <1>5, <2>2, <2>3
<1> DEFINE o == x.stk[k].top.off + 1
           p == [x.stk[k].top EXCEPT !.off = @ + 1]
<1>7. /\ x.stk[k].top \in Pointer /\ x.stk[k].top.base = a /\ x.stk[k].top.off >= -1
      /\ x.stk[k].top.off \in Int
      /\ Len(x.heap) = 2 /\ x.heap \in Seq(Seq(Cell)) /\ x.heap[a] \in Seq(Cell)
      /\ Len(x.heap[a]) \in Nat
  <2>1. x.heap \in Seq(Seq(Cell)) /\ Len(x.heap) = 2 /\ x.stk[k].top \in Pointer
    BY <1>6 DEF Sound, Memories
  <2>2. x.heap[a] \in Seq(Cell) /\ Len(x.heap[a]) \in Nat
    BY <1>3, <2>1
  <2>3. x.stk[k].top.base = a /\ x.stk[k].top.off \in -1 .. Len(x.heap[a]) - 1
    BY <1>6 DEF Sound
  <2>4. QED
    BY <2>1, <2>2, <2>3
<1>8. p \in Pointer /\ p.base = a /\ p.off = o /\ o \in 0 .. Len(x.heap[a]) - 1
  <2>1. p \in Pointer /\ p.base = a /\ p.off = o
    BY <1>7, NextPtr
  <2> DEFINE t == x.stk[k].top.off
             n == Len(x.heap[a])
  <2>2. t \in Int /\ t >= -1 /\ n \in Nat /\ t + 1 < n /\ o = t + 1
    BY <1>6, <1>7
  <2> HIDE DEF t, n, o, p
  <2>3. o \in 0 .. n - 1
    BY <2>2
  <2>4. QED
    BY <2>1, <2>3 DEF n
<1>9. Live(x, p)
  BY <1>3, <1>7, <1>8 DEF Live
<1> HIDE DEF p
<1>10. /\ y.heap = [x.heap EXCEPT ![a] = [x.heap[a] EXCEPT ![o + 1] = v]]
       /\ y.stk = [x.stk EXCEPT ![k] = [x.stk[k] EXCEPT !.top = p]]
       /\ y.err = 0 /\ y.wild = FALSE
       /\ y = [[x EXCEPT !.stk[k].top = p] EXCEPT !.heap[a][o + 1] = v]
  <2>1. x \in Memories /\ x.err = 0 /\ x.wild = FALSE
    BY <1>6 DEF Sound
  <2>2. y = [[x EXCEPT !.stk[k].top = p] EXCEPT !.heap[p.base][p.off + 1] = v]
    BY <1>1, <1>9, <2>1 DEF Store, p
  <2>3. y = [[x EXCEPT !.stk[k].top = p] EXCEPT !.heap[a][o + 1] = v]
    BY <1>8, <2>2
  <2>4. QED
    BY <2>1, <2>3 DEF Memories
<1> DEFINE cells == [x.heap[a] EXCEPT ![o + 1] = v]
           ns == [x.stk[k] EXCEPT !.top = p]
<1>11. /\ cells \in Seq(Cell) /\ Len(cells) = Len(x.heap[a])
       /\ cells[o + 1] = v
       /\ \A i \in 1 .. Len(x.heap[a]) : i # o + 1 => cells[i] = x.heap[a][i]
  <2> HIDE DEF o
  <2>1. o + 1 \in 1 .. Len(x.heap[a])
    BY <1>7, <1>8
  <2>2. QED
    BY <1>7, <2>1, UpdateLemma
<1> HIDE DEF cells
<1>12. /\ y.heap \in Seq(Seq(Cell)) /\ Len(y.heap) = 2 /\ y.heap[a] = cells
       /\ \A i \in 1 .. 2 : i # a => y.heap[i] = x.heap[i]
  <2>1. y.heap = [x.heap EXCEPT ![a] = cells]
    BY <1>10 DEF cells
  <2> HIDE DEF a
  <2>2. QED
    BY <1>3, <1>7, <1>11, <2>1, UpdateLemma
<1>13. /\ y.stk \in [Stacks -> [first : Pointer, last : Pointer, top : Pointer]]
       /\ y.stk[k].top = p /\ y.stk[k].first = x.stk[k].first /\ y.stk[k].last = x.stk[k].last
       /\ \A j \in Stacks : j # k => y.stk[j] = x.stk[j]
  <2>1. x.stk \in [Stacks -> [first : Pointer, last : Pointer, top : Pointer]]
    BY <1>6 DEF Sound, Memories
  <2>2. ns \in [first : Pointer, last : Pointer, top : Pointer]
        /\ ns.top = p /\ ns.first = x.stk[k].first /\ ns.last = x.stk[k].last
    BY <1>8, <2>1
  <2>3. y.stk = [x.stk EXCEPT ![k] = ns]
    BY <1>10
  <2> HIDE DEF ns
  <2>4. QED
    BY <2>1, <2>2, <2>3
<1>14. y \in Memories
  <2>1. x \in Memories
    BY <1>6 DEF Sound
  <2>2. QED
    BY <1>10, <1>12, <1>13, <2>1 DEF Memories
<1>15. ASSUME NEW j \in Stacks, j # k PROVE Array(j) # a /\ Array(j) \in 1 .. 2
  BY <1>15 DEF Stacks, Array
<1>16. ASSUME NEW j \in Stacks
       PROVE  /\ y.stk[j].first = Ptr(Array(j), 0)
              /\ y.stk[j].last = Ptr(Array(j), Len(y.heap[Array(j)]) - 1)
              /\ y.stk[j].top.base = Array(j)
              /\ y.stk[j].top.off \in -1 .. Len(y.heap[Array(j)]) - 1
  <2>1. CASE j = k
    <3>1. /\ Array(j) = a /\ y.heap[a] = cells /\ Len(cells) = Len(x.heap[a])
          /\ x.stk[j].first = Ptr(a, 0) /\ x.stk[j].last = Ptr(a, Len(x.heap[a]) - 1)
      BY <1>6, <1>11, <1>12, <2>1 DEF Sound
    <3> HIDE DEF a, o
    <3>2. QED
      BY <1>7, <1>8, <1>13, <2>1, <3>1
  <2>2. CASE j # k
    BY <1>6, <1>12, <1>13, <1>15, <2>2 DEF Sound
  <2>3. QED
    BY <2>1, <2>2
<1>17. Sound(y)
  BY <1>10, <1>12, <1>14, <1>16 DEF Sound
<1>18. ASSUME NEW j \in Stacks, NEW i \in 1 .. m.stk[j].top.off + 1
       PROVE  y.heap[Array(j)][i] = m.heap[Array(j)][i]
  <2>1. x.heap[Array(j)][i] = m.heap[Array(j)][i]
    BY <1>6
  <2>2. CASE j = k
    <3>1. i \in 1 .. Len(x.heap[a]) /\ i # o + 1
      <4>1. i \in 1 .. o
        BY <1>6, <2>2
      <4> HIDE DEF o
      <4>2. QED
        BY <1>7, <1>8, <4>1
    <3>2. QED
      BY <1>11, <1>12, <2>1, <2>2, <3>1
  <2>3. CASE j # k
    BY <1>12, <1>15, <2>1, <2>3
  <2>4. QED
    BY <2>2, <2>3
<1>19. /\ y.stk[k].top.off = m.stk[k].top.off + 1
       /\ y.heap[a][m.stk[k].top.off + 2] = v
  <2>1. m.stk[k].top.off = x.stk[k].top.off /\ o + 1 = m.stk[k].top.off + 2
    <3> DEFINE t == x.stk[k].top.off
    <3>1. m.stk[k].top.off = t /\ t \in Int /\ o = t + 1
      BY <1>6, <1>7
    <3> HIDE DEF t, o
    <3>2. t + 2 = o + 1
      BY <3>1
    <3>3. QED
      BY <3>1, <3>2 DEF t
  <2>2. QED
    BY <1>8, <1>11, <1>12, <1>13, <2>1
<1>20. QED
  BY <1>6, <1>13, <1>17, <1>18, <1>19 DEF Adds

(* Both tops are one below their array or in it. *)
LEMMA TopFacts ==
  ASSUME NEW m, Sound(m)
  PROVE  /\ CallTop(m) \in Int /\ CallTop(m) >= -1
         /\ BlockTop(m) \in Int /\ BlockTop(m) >= -1
         /\ m.heap[1] \in Seq(Cell) /\ m.heap[2] \in Seq(Cell)
         /\ CallTop(m) < Len(m.heap[1]) /\ BlockTop(m) < Len(m.heap[2])
<1>1. "calls" \in Stacks /\ "blocks" \in Stacks /\ Array("calls") = 1 /\ Array("blocks") = 2
  BY DEF Stacks, Array
<1>2. m.heap[1] \in Seq(Cell) /\ m.heap[2] \in Seq(Cell)
  BY DEF Sound, Memories
<1>3. Len(m.heap[1]) \in Nat /\ Len(m.heap[2]) \in Nat
  BY <1>2
<1>4. CallTop(m) \in -1 .. Len(m.heap[1]) - 1 /\ BlockTop(m) \in -1 .. Len(m.heap[2]) - 1
  BY <1>1 DEF Sound, CallTop, BlockTop
<1>5. QED
  BY <1>2, <1>3, <1>4

LEMMA AddsBlock ==
  ASSUME NEW m, NEW x, NEW v, Adds(m, x, "blocks", v)
  PROVE  /\ Sound(x) /\ BlockTop(x) = BlockTop(m) + 1 /\ CallTop(x) = CallTop(m)
         /\ x.heap[2][BlockTop(m) + 2] = v
         /\ \A i \in 1 .. BlockTop(m) + 1 : x.heap[2][i] = m.heap[2][i]
         /\ \A i \in 1 .. CallTop(m) + 1 : x.heap[1][i] = m.heap[1][i]
<1>1. /\ "calls" \in Stacks /\ "calls" \in Stacks \ {"blocks"} /\ "blocks" \in Stacks
      /\ Array("calls") = 1 /\ Array("blocks") = 2
  BY DEF Stacks, Array
<1>2. QED
  BY <1>1 DEF Adds, CallTop, BlockTop

LEMMA AddsCall ==
  ASSUME NEW m, NEW x, NEW v, Adds(m, x, "calls", v)
  PROVE  /\ Sound(x) /\ CallTop(x) = CallTop(m) + 1 /\ BlockTop(x) = BlockTop(m)
         /\ x.heap[1][CallTop(m) + 2] = v
         /\ \A i \in 1 .. BlockTop(m) + 1 : x.heap[2][i] = m.heap[2][i]
         /\ \A i \in 1 .. CallTop(m) + 1 : x.heap[1][i] = m.heap[1][i]
<1>1. /\ "blocks" \in Stacks /\ "blocks" \in Stacks \ {"calls"} /\ "calls" \in Stacks
      /\ Array("calls") = 1 /\ Array("blocks") = 2
  BY DEF Stacks, Array
<1>2. QED
  BY <1>1 DEF Adds, CallTop, BlockTop

(* What a caller has saved depends on the live part of both arrays only.   *)
LEMMA SavedKept ==
  ASSUME NEW m, NEW x, NEW i \in Nat, NEW c, Sound(m), Saved(m, i, c),
         BlockTop(x) \in Int, BlockTop(m) <= BlockTop(x), x.heap[1][i] = m.heap[1][i],
         \A l \in 1 .. BlockTop(m) + 1 : x.heap[2][l] = m.heap[2][l]
  PROVE  Saved(x, i, c) /\ SavedAt(x, i) = SavedAt(m, i)
<1> DEFINE o == SavedAt(m, i)
<1>1. SavedAt(x, i) = o
  BY DEF SavedAt
<1>2. o \in Width - 1 .. BlockTop(m) /\ Width \in {1, 2} /\ BlockTop(m) \in Int
      /\ (OPTION_sm_trace => Width = 2)
  BY TopFacts, StacksAssumption DEF Saved, Width
<1> HIDE DEF o
<1>3. o \in Width - 1 .. BlockTop(x) /\ o + 1 \in 1 .. BlockTop(m) + 1
      /\ (OPTION_sm_trace => o \in 1 .. BlockTop(m) + 1)
  BY <1>2
<1>4. QED
  BY <1>1, <1>3 DEF Saved, o

(* Pushing a block disturbs no suspended caller. *)
LEMMA BlockKeepsCallers ==
  ASSUME NEW m, NEW x, NEW v, NEW cs \in Seq(Caller), Sound(m), Holds(m, cs),
         Adds(m, x, "blocks", v)
  PROVE  Holds(x, cs) /\ \A i \in 1 .. Len(cs) : SavedAt(x, i) = SavedAt(m, i)
<1>1. /\ Len(cs) \in Nat /\ CallTop(m) = Len(cs) - 1 /\ CallTop(x) = Len(cs) - 1
      /\ \A i \in 1 .. Len(cs) : i \in 1 .. CallTop(m) + 1
  BY AddsBlock DEF Holds
<1>2. BlockTop(x) \in Int /\ BlockTop(m) <= BlockTop(x)
  BY TopFacts, AddsBlock
<1>3. \A i \in 1 .. Len(cs) : Saved(x, i, cs[i]) /\ SavedAt(x, i) = SavedAt(m, i)
  BY <1>1, <1>2, AddsBlock, SavedKept DEF Holds
<1>4. QED
  BY <1>1, <1>3 DEF Holds

(* CALL's pushes on the block stack. *)
LEMMA BlocksPushed ==
  ASSUME ~ReallocMoves, ~ReallocFails, NEW m, Sound(m), NEW cs \in Seq(Caller), Holds(m, cs),
         NEW c \in Caller, NEW x \in PushBlocks(m, c)
  PROVE  /\ Sound(x) /\ Holds(x, cs)
         /\ BlockTop(x) \in Int /\ BlockTop(x) >= Width - 1
         /\ x.heap[2][BlockTop(x) + 1] = c.curblock
         /\ OPTION_sm_trace => x.heap[2][BlockTop(x)] = c.topblock
         /\ \A i \in 1 .. Len(cs) : SavedAt(x, i) + Width <= BlockTop(x)
<1>1. c.topblock \in Cell /\ c.curblock \in Cell /\ "blocks" \in Stacks
  BY DEF Caller, Cell, Stacks
<1>2. PICK m1 \in (IF OPTION_sm_trace THEN PUSH(m, "blocks", c.topblock) ELSE {m}) :
        x \in PUSH(m1, "blocks", c.curblock)
  BY DEF PushBlocks
<1>3. BlockTop(m) \in Int /\ BlockTop(m) >= -1
  BY TopFacts
<1>4. ASSUME NEW i \in 1 .. Len(cs) PROVE SavedAt(m, i) \in Int /\ SavedAt(m, i) <= BlockTop(m)
  <2>1. SavedAt(m, i) \in Width - 1 .. BlockTop(m)
    BY DEF Holds, Saved
  <2>2. QED
    BY <1>3, <2>1, StacksAssumption DEF Width
<1>5. CASE OPTION_sm_trace
  <2>1. Adds(m, m1, "blocks", c.topblock)
    BY <1>1, <1>2, <1>5, PushAdds
  <2>2. /\ Sound(m1) /\ Holds(m1, cs) /\ \A i \in 1 .. Len(cs) : SavedAt(m1, i) = SavedAt(m, i)
        /\ BlockTop(m1) = BlockTop(m) + 1 /\ m1.heap[2][BlockTop(m) + 2] = c.topblock
    BY <2>1, AddsBlock, BlockKeepsCallers
  <2>3. Adds(m1, x, "blocks", c.curblock)
    BY <1>1, <1>2, <2>2, PushAdds
  <2>4. /\ Sound(x) /\ Holds(x, cs) /\ \A i \in 1 .. Len(cs) : SavedAt(x, i) = SavedAt(m1, i)
        /\ BlockTop(x) = BlockTop(m1) + 1 /\ x.heap[2][BlockTop(m1) + 2] = c.curblock
        /\ \A i \in 1 .. BlockTop(m1) + 1 : x.heap[2][i] = m1.heap[2][i]
    BY <2>2, <2>3, AddsBlock, BlockKeepsCallers
  <2>5. /\ BlockTop(x) = BlockTop(m) + 2 /\ BlockTop(x) = BlockTop(m1) + 1
        /\ BlockTop(x) \in 1 .. BlockTop(m1) + 1 /\ Width = 2
        /\ BlockTop(m1) + 2 = BlockTop(x) + 1 /\ BlockTop(m) + 2 = BlockTop(x)
    BY <1>3, <1>5, <2>2, <2>4 DEF Width
  <2>6. x.heap[2][BlockTop(x) + 1] = c.curblock
    BY <2>4, <2>5
  <2>7. x.heap[2][BlockTop(x)] = c.topblock
    BY <2>2, <2>4, <2>5
  <2>8. BlockTop(x) \in Int /\ BlockTop(x) >= Width - 1
    BY <1>3, <2>5
  <2>9. ASSUME NEW i \in 1 .. Len(cs) PROVE SavedAt(x, i) + Width <= BlockTop(x)
    BY <1>3, <1>4, <2>2, <2>4, <2>5
  <2>10. QED
    BY <2>4, <2>6, <2>7, <2>8, <2>9
<1>6. CASE ~OPTION_sm_trace
  <2>1. Adds(m, x, "blocks", c.curblock)
    BY <1>1, <1>2, <1>6, PushAdds
  <2>2. /\ Sound(x) /\ Holds(x, cs) /\ \A i \in 1 .. Len(cs) : SavedAt(x, i) = SavedAt(m, i)
        /\ BlockTop(x) = BlockTop(m) + 1 /\ x.heap[2][BlockTop(m) + 2] = c.curblock
    BY <2>1, AddsBlock, BlockKeepsCallers
  <2>3. BlockTop(m) + 2 = BlockTop(x) + 1 /\ Width = 1
    BY <1>3, <1>6, <2>2 DEF Width
  <2>4. x.heap[2][BlockTop(x) + 1] = c.curblock
    BY <2>2, <2>3
  <2>5. BlockTop(x) \in Int /\ BlockTop(x) >= Width - 1
    BY <1>3, <2>2, <2>3
  <2>6. ASSUME NEW i \in 1 .. Len(cs) PROVE SavedAt(x, i) + Width <= BlockTop(x)
    BY <1>3, <1>4, <2>2, <2>3
  <2>7. QED
    BY <1>6, <2>2, <2>4, <2>5, <2>6
<1>7. QED
  BY <1>5, <1>6

(* CALL's push on the call stack makes caller c the innermost one. *)
LEMMA CallerPushed ==
  ASSUME NEW x, Sound(x), NEW cs \in Seq(Caller), Holds(x, cs), NEW c \in Caller,
         BlockTop(x) \in Int, BlockTop(x) >= Width - 1,
         x.heap[2][BlockTop(x) + 1] = c.curblock,
         OPTION_sm_trace => x.heap[2][BlockTop(x)] = c.topblock,
         \A i \in 1 .. Len(cs) : SavedAt(x, i) + Width <= BlockTop(x),
         NEW y, Adds(x, y, "calls", x.stk["blocks"].top)
  PROVE  Holds(y, Append(cs, c))
<1> DEFINE ds == Append(cs, c)
           top == Len(cs) + 1
<1>1. /\ Len(cs) \in Nat /\ ds \in Seq(Caller) /\ Len(ds) = top /\ ds[top] = c
      /\ \A i \in 1 .. Len(cs) : ds[i] = cs[i]
  OBVIOUS
<1>2. CallTop(x) = Len(cs) - 1 /\ CallTop(y) = top - 1 /\ BlockTop(y) = BlockTop(x)
  BY <1>1, AddsCall DEF Holds
<1>3. /\ y.heap[1][top] = x.stk["blocks"].top
      /\ \A i \in 1 .. BlockTop(x) + 1 : y.heap[2][i] = x.heap[2][i]
      /\ \A i \in 1 .. Len(cs) : y.heap[1][i] = x.heap[1][i]
  <2>1. CallTop(x) + 2 = top /\ CallTop(x) + 1 = Len(cs)
    BY <1>1, <1>2
  <2>2. QED
    BY <2>1, AddsCall
<1>4. \A i \in 1 .. Len(cs) : Saved(y, i, ds[i]) /\ SavedAt(y, i) = SavedAt(x, i)
  BY <1>1, <1>2, <1>3, SavedKept DEF Holds
<1>5. SavedAt(y, top) = BlockTop(x)
  BY <1>3 DEF SavedAt, BlockTop
<1>6. x.stk["blocks"].top = Ptr(2, BlockTop(x))
  <2>1. "blocks" \in Stacks /\ Array("blocks") = 2
    BY DEF Stacks, Array
  <2>2. x.stk["blocks"].top \in Pointer /\ x.stk["blocks"].top.base = 2
    BY <2>1 DEF Sound, Memories
  <2>3. QED
    BY <2>2 DEF Pointer, Ptr, BlockTop
<1>7. Saved(y, top, ds[top])
  <2>1. Width \in {1, 2} /\ (OPTION_sm_trace => Width = 2)
    BY DEF Width
  <2>2. /\ BlockTop(x) \in Width - 1 .. BlockTop(y) /\ BlockTop(x) + 1 \in 1 .. BlockTop(x) + 1
        /\ OPTION_sm_trace => BlockTop(x) \in 1 .. BlockTop(x) + 1
    BY <1>2, <2>1
  <2>3. QED
    BY <1>1, <1>3, <1>5, <1>6, <2>2 DEF Saved
<1> HIDE DEF ds
<1>8. ASSUME NEW i \in 1 .. top PROVE Saved(y, i, ds[i])
  BY <1>1, <1>4, <1>7
<1>9. ASSUME NEW i \in 1 .. top, NEW j \in 1 .. top, i < j
      PROVE  SavedAt(y, i) + Width <= SavedAt(y, j)
  <2>1. i \in 1 .. Len(cs) /\ (j = top \/ j \in 1 .. Len(cs))
    BY <1>1, <1>9
  <2>2. CASE j = top
    BY <1>4, <1>5, <2>1, <2>2
  <2>3. CASE j \in 1 .. Len(cs)
    BY <1>4, <1>9, <2>1, <2>3 DEF Holds
  <2>4. QED
    BY <2>1, <2>2, <2>3
<1>10. Holds(y, ds)
  BY <1>1, <1>2, <1>8, <1>9 DEF Holds
<1>11. QED
  BY <1>10 DEF ds

(* A memory is what its four parts are. *)
LEMMA MemoryParts ==
  ASSUME NEW m, Sound(m)
  PROVE  Memory(m.heap, m.stk, m.err, m.wild) = m
  BY DEF Sound, Memories, Memory

LEMMA CallStep ==
  ASSUME ~ReallocMoves, ~ReallocFails, StacksInv, NEW v \in Caller, CALL(v)
  PROVE  StacksInv'
<1>1. Sound(Current) /\ Holds(Current, pushed) /\ pushed \in Seq(Caller) /\ "calls" \in Stacks
  BY DEF StacksInv, CALL, Running, Stacks
<1>2. PICK m1 \in PushBlocks(Current, v) :
        \E m2 \in PUSH(m1, "calls", m1.stk["blocks"].top) : Becomes(m2)
  BY DEF CALL
<1>3. PICK m2 \in PUSH(m1, "calls", m1.stk["blocks"].top) : Becomes(m2)
  BY <1>2
<1>4. /\ Sound(m1) /\ Holds(m1, pushed)
      /\ BlockTop(m1) \in Int /\ BlockTop(m1) >= Width - 1
      /\ m1.heap[2][BlockTop(m1) + 1] = v.curblock
      /\ OPTION_sm_trace => m1.heap[2][BlockTop(m1)] = v.topblock
      /\ \A i \in 1 .. Len(pushed) : SavedAt(m1, i) + Width <= BlockTop(m1)
  BY <1>1, BlocksPushed
<1>5. m1.stk["blocks"].top \in Cell
  <2>1. "blocks" \in Stacks
    BY DEF Stacks
  <2>2. QED
    BY <1>4, <2>1 DEF Sound, Memories, Cell
<1>6. Adds(m1, m2, "calls", m1.stk["blocks"].top)
  BY <1>1, <1>4, <1>5, PushAdds
<1>7. Sound(m2) /\ Holds(m2, Append(pushed, v))
  BY <1>1, <1>4, <1>6, AddsCall, CallerPushed
<1>8. Current' = m2
  BY <1>3, <1>7, MemoryParts DEF Becomes, Current
<1>9. err' = 0 /\ ~wild' /\ pushed' = Append(pushed, v) /\ popped' = popped
  BY <1>3, <1>7 DEF Becomes, Sound, CALL
<1>10. pushed' \in Seq(Caller)
  BY <1>1, <1>9
<1>11. QED
  BY <1>7, <1>8, <1>9, <1>10 DEF StacksInv, PopsWhatWasPushed

LEMMA JumpStep ==
  ASSUME ~ReallocMoves, ~ReallocFails, StacksInv, NEW b \in Block, AFTER_JUMP(b)
  PROVE  StacksInv'
<1>1. Sound(Current) /\ Holds(Current, pushed) /\ pushed \in Seq(Caller)
      /\ b \in Cell /\ "blocks" \in Stacks
  BY DEF StacksInv, AFTER_JUMP, Running, Cell, Stacks
<1>2. PICK m \in PUSH(Current, "blocks", b) : Becomes(m)
  BY DEF AFTER_JUMP
<1>3. Adds(Current, m, "blocks", b)
  BY <1>1, PushAdds
<1>4. Sound(m) /\ Holds(m, pushed)
  BY <1>1, <1>3, AddsBlock, BlockKeepsCallers
<1>5. Current' = m
  BY <1>2, <1>4, MemoryParts DEF Becomes, Current
<1>6. err' = 0 /\ ~wild' /\ pushed' = pushed /\ popped' = popped
  BY <1>2, <1>4 DEF Becomes, Sound, AFTER_JUMP
<1>7. QED
  BY <1>1, <1>4, <1>5, <1>6 DEF StacksInv, PopsWhatWasPushed

(* The trace after a refused signal stays inside both arrays. *)
LEMMA ErrorExitStep ==
  ASSUME ~ReallocMoves, ~ReallocFails, StacksInv, NEW b \in Block, ErrorExit(b)
  PROVE  StacksInv'
<1>1. err = 0 /\ Sound(Current) /\ b \in Cell /\ "blocks" \in Stacks /\ "calls" \in Stacks
  BY DEF StacksInv, ErrorExit, Cell, Stacks
<1>2. [Current EXCEPT !.err = 0] = Current
  BY <1>1 DEF Current, Memory
<1>3. PICK m1 \in PUSH(Current, "blocks", b) :
        \E m2 \in PUSH(m1, "calls", m1.stk["blocks"].top) :
         wild' = /\ OPTION_sm_trace
                 /\ \/ m2.wild \/ ~Walked(m2, "calls") \/ ~Walked(m2, "blocks")
                    \/ \E k \in Stacks : ~Live(m2, m2.stk[k].top)
  BY <1>2 DEF ErrorExit
<1>4. PICK m2 \in PUSH(m1, "calls", m1.stk["blocks"].top) :
         wild' = /\ OPTION_sm_trace
                 /\ \/ m2.wild \/ ~Walked(m2, "calls") \/ ~Walked(m2, "blocks")
                    \/ \E k \in Stacks : ~Live(m2, m2.stk[k].top)
  BY <1>3
<1>5. Adds(Current, m1, "blocks", b)
  BY <1>1, PushAdds
<1>6. Sound(m1) /\ BlockTop(m1) >= 0 /\ CallTop(m1) >= -1
      /\ BlockTop(m1) \in Int /\ CallTop(m1) \in Int
  BY <1>1, <1>5, TopFacts, AddsBlock
<1>7. m1.stk["blocks"].top \in Cell
  BY <1>1, <1>6 DEF Sound, Memories, Cell
<1>8. Adds(m1, m2, "calls", m1.stk["blocks"].top)
  BY <1>1, <1>6, <1>7, PushAdds
<1>9. Sound(m2) /\ BlockTop(m2) >= 0 /\ CallTop(m2) >= 0
      /\ BlockTop(m2) \in Int /\ CallTop(m2) \in Int
  BY <1>6, <1>8, TopFacts, AddsCall
<1>10. ASSUME NEW k \in Stacks PROVE Walked(m2, k) /\ Live(m2, m2.stk[k].top)
  <2> DEFINE t == m2.stk[k].top.off
             size == Len(m2.heap[Array(k)])
  <2>1. /\ Array(k) \in 1 .. Len(m2.heap) /\ m2.stk[k].top.base = Array(k)
        /\ m2.stk[k].first.base = Array(k)
    BY <1>9, ArrayFacts, PtrFacts DEF Sound
  <2>2. t \in 0 .. size - 1 /\ size \in Nat
    <3>1. /\ 0 <= CallTop(m2) /\ CallTop(m2) < Len(m2.heap[1]) /\ CallTop(m2) \in Int
          /\ 0 <= BlockTop(m2) /\ BlockTop(m2) < Len(m2.heap[2]) /\ BlockTop(m2) \in Int
          /\ Len(m2.heap[1]) \in Nat /\ Len(m2.heap[2]) \in Nat
      BY <1>9, TopFacts
    <3>2. CASE k = "calls"
      <4>1. t = CallTop(m2) /\ size = Len(m2.heap[1])
        BY <3>2 DEF Array, CallTop
      <4>2. QED
        BY <3>1, <4>1
    <3>3. CASE k = "blocks"
      <4>1. t = BlockTop(m2) /\ size = Len(m2.heap[2])
        BY <3>3 DEF Array, BlockTop
      <4>2. QED
        BY <3>1, <4>1
    <3>4. QED
      BY <3>2, <3>3 DEF Stacks
  <2>3. Live(m2, m2.stk[k].top)
    BY <2>1, <2>2 DEF Live
  <2>4. ASSUME NEW o \in 0 .. t PROVE Live(m2, Ptr(Array(k), o))
    <3>1. o \in 0 .. size - 1
      <4> HIDE DEF t, size
      <4>1. QED
        BY <2>2
    <3>2. QED
      BY <2>1, <3>1, PtrFacts DEF Live
  <2>5. QED
    BY <2>1, <2>3, <2>4 DEF Walked
<1>11. ~wild'
  BY <1>1, <1>4, <1>9, <1>10 DEF Sound
<1>12. QED
  BY <1>1, <1>11 DEF StacksInv, ErrorExit, PopsWhatWasPushed

(* Forgetting what is above a pointer keeps what is below. *)
LEMMA ForgottenFacts ==
  ASSUME NEW h \in Seq(Seq(Cell)), NEW a \in 1 .. Len(h), NEW o \in Int
  PROVE  /\ Forgotten(h, Ptr(a, o)) \in Seq(Seq(Cell)) /\ Len(Forgotten(h, Ptr(a, o))) = Len(h)
         /\ Len(Forgotten(h, Ptr(a, o))[a]) = Len(h[a])
         /\ \A i \in 1 .. Len(h[a]) : i <= o + 1 => Forgotten(h, Ptr(a, o))[a][i] = h[a][i]
         /\ \A b \in 1 .. Len(h) : b # a => Forgotten(h, Ptr(a, o))[b] = h[b]
<1> DEFINE cells == [i \in DOMAIN h[a] |-> IF i > o + 1 THEN Unused ELSE h[a][i]]
<1>1. h[a] \in Seq(Cell) /\ DOMAIN h[a] = 1 .. Len(h[a]) /\ Len(h[a]) \in Nat /\ Unused \in Cell
  BY DEF Cell
<1>2. Forgotten(h, Ptr(a, o)) = [h EXCEPT ![a] = cells]
  BY DEF Forgotten, Ptr
<1>3. /\ cells \in Seq(Cell) /\ Len(cells) = Len(h[a])
      /\ \A i \in 1 .. Len(h[a]) : i <= o + 1 => cells[i] = h[a][i]
  BY <1>1
<1> HIDE DEF cells
<1>4. /\ [h EXCEPT ![a] = cells] \in Seq(Seq(Cell)) /\ Len([h EXCEPT ![a] = cells]) = Len(h)
      /\ [h EXCEPT ![a] = cells][a] = cells
      /\ \A i \in 1 .. Len(h) : i # a => [h EXCEPT ![a] = cells][i] = h[i]
  BY <1>3, UpdateLemma
<1>5. QED
  BY <1>2, <1>3, <1>4

(* A return finds its caller's entry and blocks where its call left them,  *)
(* and leaves those of the remaining callers.                              *)
LEMMA ExitStep ==
  ASSUME StacksInv, EXIT
  PROVE  StacksInv'
<1> DEFINE n == Len(pushed)
           c == pushed[n]
           cs == SubSeq(pushed, 1, n - 1)
           top == stk["calls"].top
           sp == Load(Current, top)
           o == SavedAt(Current, n)
           below == Ptr(sp.base, sp.off - 1)
           rest == Ptr(sp.base, sp.off - (IF OPTION_sm_trace THEN 2 ELSE 1))
<1>1. /\ Sound(Current) /\ Holds(Current, pushed) /\ pushed \in Seq(Caller)
      /\ n \in Nat \ {0} /\ err = 0 /\ ~wild
      /\ "calls" \in Stacks /\ "blocks" \in Stacks
      /\ Array("calls") = 1 /\ Array("blocks") = 2
  BY DEF StacksInv, EXIT, Running, Stacks, Array
<1>2. /\ c \in Caller /\ cs \in Seq(Caller) /\ Len(cs) = n - 1
      /\ \A i \in 1 .. n - 1 : cs[i] = pushed[i]
  <2>1. n - 1 \in 0 .. Len(pushed) /\ n \in 1 .. Len(pushed)
    BY <1>1
  <2> HIDE DEF n
  <2>2. QED
    BY <1>1, <2>1, FrontLemma
<1>3. /\ Current.heap = heap /\ Current.stk = stk /\ Current.err = err /\ Current.wild = wild
      /\ heap \in Seq(Seq(Cell)) /\ Len(heap) = 2
      /\ stk \in [Stacks -> [first : Pointer, last : Pointer, top : Pointer]]
  <2>1. /\ Current.heap = heap /\ Current.stk = stk /\ Current.err = err /\ Current.wild = wild
    BY DEF Current, Memory
  <2>2. QED
    BY <1>1, <2>1 DEF Sound, Memories
<1>4. /\ heap[1] \in Seq(Cell) /\ heap[2] \in Seq(Cell)
      /\ CallTop(Current) = n - 1 /\ n - 1 < Len(heap[1])
      /\ BlockTop(Current) \in Int /\ BlockTop(Current) < Len(heap[2])
      /\ Len(heap[1]) \in Nat /\ Len(heap[2]) \in Nat
  BY <1>1, <1>3, TopFacts DEF Holds
<1>5. top \in Pointer /\ top.base = 1 /\ top.off = n - 1
  BY <1>1, <1>3, <1>4 DEF Sound, CallTop
<1>6. Saved(Current, n, c)
  BY <1>1 DEF Holds
<1>7. sp = heap[1][n] /\ sp = Ptr(2, o) /\ Live(Current, top)
  BY <1>1, <1>3, <1>4, <1>5, <1>6 DEF Load, Live, Saved
<1>8. Width \in {1, 2} /\ (OPTION_sm_trace => Width = 2) /\ (~OPTION_sm_trace => Width = 1)
  BY DEF Width
<1>9. /\ o \in Width - 1 .. BlockTop(Current) /\ o \in Int
      /\ heap[2][o + 1] = c.curblock
      /\ OPTION_sm_trace => heap[2][o] = c.topblock
  BY <1>3, <1>4, <1>6, <1>8 DEF Saved
<1>10. sp.base = 2 /\ sp.off = o
  BY <1>7, PtrFacts
<1> HIDE DEF o, sp
<1>11. below = Ptr(2, o - 1) /\ rest = Ptr(2, o - Width)
  BY <1>10 DEF Width
<1>12. /\ below.base = 2 /\ below.off = o - 1
       /\ rest.base = 2 /\ rest.off = o - Width /\ rest \in Pointer
  BY <1>8, <1>9, <1>11, PtrFacts
<1> HIDE DEF below, rest
<1>13. Live(Current, sp) /\ (OPTION_sm_trace => Live(Current, below))
  <2>1. o \in 0 .. Len(heap[2]) - 1 /\ (OPTION_sm_trace => o - 1 \in 0 .. Len(heap[2]) - 1)
    BY <1>4, <1>8, <1>9
  <2>2. QED
    BY <1>3, <1>10, <1>12, <2>1 DEF Live
<1> DEFINE down == Ptr(top.base, top.off - 1)
<1>14. /\ stk' = [stk EXCEPT !["calls"].top.off = @ - 1, !["blocks"].top = rest]
       /\ popped' = <<[curblock |-> Load(Current, sp),
                       topblock |-> IF OPTION_sm_trace THEN Load(Current, below)
                                    ELSE c.topblock], c>>
       /\ heap' = Forgotten(Forgotten(heap, down), rest)
       /\ err' = err /\ wild' = wild /\ pushed' = cs
  BY <1>7, <1>13 DEF EXIT, sp, below, rest
<1>15. popped'[1] = popped'[2]
  <2>1. Load(Current, sp) = c.curblock
    BY <1>3, <1>9, <1>10 DEF Load
  <2>2. OPTION_sm_trace => Load(Current, below) = c.topblock
    BY <1>3, <1>9, <1>12 DEF Load
  <2>3. c = [curblock |-> c.curblock, topblock |-> c.topblock]
    BY <1>2 DEF Caller
  <2> HIDE DEF c
  <2>4. popped' = <<[curblock |-> c.curblock, topblock |-> c.topblock], c>>
    BY <1>14, <2>1, <2>2
  <2>5. QED
    BY <2>3, <2>4
<1> HIDE DEF n, cs, c
<1>16. down \in Pointer /\ down.base = 1 /\ down.off = n - 2
  BY <1>1, <1>5, PtrFacts
<1> HIDE DEF down, top
<1>17. /\ heap' \in Seq(Seq(Cell)) /\ Len(heap') = 2
       /\ Len(heap'[1]) = Len(heap[1]) /\ Len(heap'[2]) = Len(heap[2])
       /\ \A i \in 1 .. Len(heap[1]) : i <= n - 1 => heap'[1][i] = heap[1][i]
       /\ \A i \in 1 .. Len(heap[2]) : i <= o - Width + 1 => heap'[2][i] = heap[2][i]
  <2> DEFINE h == Forgotten(heap, down)
  <2>1. /\ h \in Seq(Seq(Cell)) /\ Len(h) = 2 /\ Len(h[1]) = Len(heap[1])
        /\ \A i \in 1 .. Len(heap[1]) : i <= n - 1 => h[1][i] = heap[1][i]
        /\ h[2] = heap[2]
    <3> DEFINE e == n - 2
    <3>1. 1 \in 1 .. Len(heap) /\ e \in Int /\ e + 1 = n - 1 /\ down = Ptr(1, e)
      BY <1>1, <1>3, <1>5 DEF down
    <3> HIDE DEF e
    <3>2. /\ h \in Seq(Seq(Cell)) /\ Len(h) = Len(heap) /\ Len(h[1]) = Len(heap[1])
          /\ \A i \in 1 .. Len(heap[1]) : i <= e + 1 => h[1][i] = heap[1][i]
          /\ \A b \in 1 .. Len(heap) : b # 1 => h[b] = heap[b]
      BY <1>3, <3>1, ForgottenFacts
    <3>3. QED
      BY <1>3, <3>1, <3>2
  <2> HIDE DEF h
  <2>2. heap' = Forgotten(h, rest)
    BY <1>14 DEF h
  <2>3. /\ heap' \in Seq(Seq(Cell)) /\ Len(heap') = 2 /\ Len(heap'[2]) = Len(h[2])
        /\ \A i \in 1 .. Len(h[2]) : i <= o - Width + 1 => heap'[2][i] = h[2][i]
        /\ heap'[1] = h[1]
    <3> DEFINE e == o - Width
    <3>1. 2 \in 1 .. Len(h) /\ e \in Int /\ rest = Ptr(2, e)
      BY <1>8, <1>9, <1>11, <2>1
    <3> HIDE DEF e
    <3>2. /\ Forgotten(h, rest) \in Seq(Seq(Cell)) /\ Len(Forgotten(h, rest)) = Len(h)
          /\ Len(Forgotten(h, rest)[2]) = Len(h[2])
          /\ \A i \in 1 .. Len(h[2]) : i <= e + 1 => Forgotten(h, rest)[2][i] = h[2][i]
          /\ \A b \in 1 .. Len(h) : b # 2 => Forgotten(h, rest)[b] = h[b]
      BY <2>1, <3>1, ForgottenFacts
    <3>3. QED
      BY <2>1, <2>2, <3>2 DEF e
  <2>4. QED
    BY <2>1, <2>3
<1>18. /\ stk' \in [Stacks -> [first : Pointer, last : Pointer, top : Pointer]]
       /\ stk'["blocks"].top = rest /\ stk'["calls"].top.base = 1 /\ stk'["calls"].top.off = n - 2
       /\ \A k \in Stacks : stk'[k].first = stk[k].first /\ stk'[k].last = stk[k].last
  <2> DEFINE nc == [stk["calls"] EXCEPT !.top.off = @ - 1]
             nb == [stk["blocks"] EXCEPT !.top = rest]
  <2>1. stk' = [[stk EXCEPT !["calls"] = nc] EXCEPT !["blocks"] = nb]
    BY <1>1, <1>3, <1>14
  <2>2. stk["calls"].top \in Pointer /\ stk["calls"].top.base = 1 /\ stk["calls"].top.off = n - 1
    BY <1>5 DEF top
  <2>3. /\ nc \in [first : Pointer, last : Pointer, top : Pointer]
        /\ nc.top.base = 1 /\ nc.top.off = n - 2
        /\ nc.first = stk["calls"].first /\ nc.last = stk["calls"].last
    <3> DEFINE r == stk["calls"]
               q == [r.top EXCEPT !.off = @ - 1]
    <3>1. r \in [first : Pointer, last : Pointer, top : Pointer]
      BY <1>1, <1>3
    <3>2. nc = [r EXCEPT !.top = q]
      OBVIOUS
    <3>3. q \in Pointer /\ q.base = 1 /\ q.off = n - 2
      BY <1>1, <2>2 DEF Pointer
    <3> HIDE DEF nc, q, r
    <3>4. /\ nc \in [first : Pointer, last : Pointer, top : Pointer]
          /\ nc.top = q /\ nc.first = r.first /\ nc.last = r.last
      BY <3>1, <3>2, <3>3
    <3>5. QED
      BY <3>3, <3>4 DEF r
  <2>4. /\ nb \in [first : Pointer, last : Pointer, top : Pointer]
        /\ nb.top = rest /\ nb.first = stk["blocks"].first /\ nb.last = stk["blocks"].last
    BY <1>1, <1>3, <1>12
  <2> HIDE DEF nc, nb
  <2>5. stk'["calls"] = nc /\ stk'["blocks"] = nb
        /\ stk' \in [Stacks -> [first : Pointer, last : Pointer, top : Pointer]]
    BY <1>1, <1>3, <2>1, <2>3, <2>4
  <2>6. QED
    BY <2>3, <2>4, <2>5 DEF Stacks
<1>19. /\ Current'.heap = heap' /\ Current'.stk = stk' /\ Current'.err = 0 /\ Current'.wild = FALSE
       /\ Current' \in Memories
  <2>1. Current' = [heap |-> heap', stk |-> stk', err |-> err', wild |-> wild']
    BY DEF Current, Memory
  <2>2. err' = 0 /\ wild' = FALSE
    BY <1>1, <1>3, <1>14 DEF Sound
  <2>3. [heap |-> heap', stk |-> stk', err |-> 0, wild |-> FALSE] \in Memories
    BY <1>17, <1>18 DEF Memories
  <2>4. QED
    BY <2>1, <2>2, <2>3
<1>20. CallTop(Current') = n - 2 /\ BlockTop(Current') = o - Width
  BY <1>12, <1>18, <1>19 DEF CallTop, BlockTop
<1>21. Sound(Current')
  <2>1. ASSUME NEW k \in Stacks
        PROVE  /\ stk'[k].first = Ptr(Array(k), 0)
               /\ stk'[k].last = Ptr(Array(k), Len(heap'[Array(k)]) - 1)
    <3>1. Len(heap'[Array(k)]) = Len(heap[Array(k)])
      BY <1>17 DEF Stacks, Array
    <3>2. QED
      BY <1>1, <1>3, <1>18, <3>1 DEF Sound
  <2>2. /\ stk'["calls"].top.base = 1 /\ stk'["blocks"].top.base = 2
        /\ stk'["calls"].top.off \in -1 .. Len(heap'[1]) - 1
        /\ stk'["blocks"].top.off \in -1 .. Len(heap'[2]) - 1
    <3>1. n - 2 \in -1 .. Len(heap'[1]) - 1 /\ o - Width \in -1 .. Len(heap'[2]) - 1
      BY <1>1, <1>4, <1>8, <1>9, <1>17
    <3>2. QED
      BY <1>12, <1>18, <3>1
  <2>3. ASSUME NEW k \in Stacks
        PROVE  /\ stk'[k].top.base = Array(k)
               /\ stk'[k].top.off \in -1 .. Len(heap'[Array(k)]) - 1
    BY <2>2 DEF Stacks, Array
  <2>4. QED
    BY <1>17, <1>19, <2>1, <2>3 DEF Sound
<1>22. Holds(Current', cs)
  <2>1. ASSUME NEW i \in 1 .. n - 1
        PROVE  Saved(Current', i, cs[i]) /\ SavedAt(Current', i) = SavedAt(Current, i)
    <3> DEFINE q == SavedAt(Current, i)
    <3>1. i \in 1 .. n /\ n \in 1 .. n /\ i < n /\ i \in 1 .. Len(heap[1])
      BY <1>1, <1>4
    <3>2. Saved(Current, i, pushed[i]) /\ q + Width <= o
      BY <1>1, <3>1 DEF Holds, o, n
    <3>3. heap'[1][i] = heap[1][i]
      BY <1>17, <3>1
    <3>4. /\ heap[1][i] = Ptr(2, q) /\ q \in Width - 1 .. BlockTop(Current)
          /\ heap[2][q + 1] = pushed[i].curblock
          /\ OPTION_sm_trace => heap[2][q] = pushed[i].topblock
      BY <1>3, <3>2 DEF Saved
    <3>5. SavedAt(Current', i) = q
      BY <1>3, <1>19, <3>3 DEF SavedAt
    <3> HIDE DEF q
    <3>6. /\ q \in Width - 1 .. o - Width
          /\ q + 1 \in 1 .. Len(heap[2]) /\ q + 1 <= o - Width + 1
          /\ OPTION_sm_trace => q \in 1 .. Len(heap[2]) /\ q <= o - Width + 1
      BY <1>4, <1>8, <1>9, <3>2, <3>4
    <3>7. heap'[2][q + 1] = heap[2][q + 1] /\ (OPTION_sm_trace => heap'[2][q] = heap[2][q])
      BY <1>17, <3>6
    <3>8. Saved(Current', i, cs[i])
      BY <1>2, <1>19, <1>20, <3>3, <3>4, <3>5, <3>6, <3>7 DEF Saved
    <3>9. QED
      BY <3>5, <3>8 DEF q
  <2>2. ASSUME NEW i \in 1 .. n - 1, NEW j \in 1 .. n - 1, i < j
        PROVE  SavedAt(Current, i) + Width <= SavedAt(Current, j)
    <3>1. i \in 1 .. n /\ j \in 1 .. n
      BY <1>1
    <3>2. QED
      BY <1>1, <2>2, <3>1 DEF Holds, n
  <2>3. CallTop(Current') = Len(cs) - 1
    BY <1>1, <1>2, <1>20
  <2>4. QED
    BY <1>2, <2>1, <2>2, <2>3 DEF Holds
<1>23. QED
  BY <1>1, <1>2, <1>14, <1>15, <1>21, <1>22 DEF StacksInv, PopsWhatWasPushed

LEMMA InitStacks == Init => StacksInv
<1> SUFFICES ASSUME Init PROVE StacksInv
  OBVIOUS
<1> DEFINE C == NewCells(EXTEND_SIZE["calls"])
           B == NewCells(EXTEND_SIZE["blocks"])
<1>1. EXTEND_SIZE["calls"] \in Nat \ {0} /\ EXTEND_SIZE["blocks"] \in Nat \ {0}
  BY StacksAssumption
<1>2. /\ C \in Seq(Cell) /\ Len(C) = EXTEND_SIZE["calls"]
      /\ B \in Seq(Cell) /\ Len(B) = EXTEND_SIZE["blocks"]
  BY <1>1 DEF NewCells, Cell
<1> HIDE DEF C, B
<1>3. heap = <<C, B>> /\ err = 0 /\ wild = FALSE /\ pushed = <<>> /\ popped = <<>>
  BY DEF Init, C, B
<1>4. heap \in Seq(Seq(Cell)) /\ Len(heap) = 2 /\ heap[1] = C /\ heap[2] = B
  BY <1>2, <1>3
<1>5. /\ stk["calls"] = [first |-> Ptr(1, 0), last |-> Ptr(1, Len(C) - 1), top |-> Ptr(1, -1)]
      /\ stk["blocks"] = [first |-> Ptr(2, 0), last |-> Ptr(2, Len(B) - 1), top |-> Ptr(2, -1)]
      /\ stk = [calls |-> stk["calls"], blocks |-> stk["blocks"]]
  BY <1>2 DEF Init
<1>6. /\ Ptr(1, 0) \in Pointer /\ Ptr(1, Len(C) - 1) \in Pointer /\ Ptr(1, -1) \in Pointer
      /\ Ptr(2, 0) \in Pointer /\ Ptr(2, Len(B) - 1) \in Pointer /\ Ptr(2, -1) \in Pointer
      /\ Ptr(1, -1).base = 1 /\ Ptr(1, -1).off = -1 /\ Ptr(2, -1).base = 2 /\ Ptr(2, -1).off = -1
  BY <1>1, <1>2, PtrFacts
<1>7. stk \in [Stacks -> [first : Pointer, last : Pointer, top : Pointer]]
  <2> DEFINE R == [first : Pointer, last : Pointer, top : Pointer]
  <2>1. stk["calls"] \in R /\ stk["blocks"] \in R
    BY <1>5, <1>6
  <2> HIDE DEF R
  <2>2. stk \in [Stacks -> R]
    BY <1>5, <2>1 DEF Stacks
  <2>3. QED
    BY <2>2 DEF R
<1>8. /\ Current.heap = heap /\ Current.stk = stk /\ Current.err = 0 /\ Current.wild = FALSE
      /\ Current \in Memories
  <2>1. Current = [heap |-> heap, stk |-> stk, err |-> 0, wild |-> FALSE]
    BY <1>3 DEF Current, Memory
  <2>2. [heap |-> heap, stk |-> stk, err |-> 0, wild |-> FALSE] \in Memories
    BY <1>4, <1>7 DEF Memories
  <2>3. QED
    BY <2>1, <2>2
<1>9. ASSUME NEW k \in Stacks
      PROVE  /\ stk[k].first = Ptr(Array(k), 0)
             /\ stk[k].last = Ptr(Array(k), Len(heap[Array(k)]) - 1)
             /\ stk[k].top.base = Array(k) /\ stk[k].top.off = -1
             /\ Len(heap[Array(k)]) \in Nat
  BY <1>2, <1>4, <1>5, <1>6 DEF Stacks, Array
<1>10. Sound(Current)
  BY <1>4, <1>8, <1>9 DEF Sound
<1>11. Holds(Current, pushed)
  <2>1. CallTop(Current) = -1
    BY <1>8, <1>9 DEF CallTop, Stacks
  <2>2. QED
    BY <1>3, <2>1 DEF Holds
<1>12. QED
  BY <1>3, <1>10, <1>11 DEF StacksInv, PopsWhatWasPushed

(* Whatever the program does, with realloc in place the stacks' arrays     *)
(* hold the blocks of the suspended callers, in order and side by side.    *)
THEOREM StacksInvariant ==
  ASSUME ~ReallocMoves, ~ReallocFails
  PROVE  Spec => []StacksInv
<1>1. StacksInv /\ [Next]_vars => StacksInv'
  <2> SUFFICES ASSUME StacksInv, [Next]_vars PROVE StacksInv'
    OBVIOUS
  <2>1. ASSUME NEW t \in Block, NEW b \in Block, CALL([topblock |-> t, curblock |-> b])
        PROVE  StacksInv'
    <3>1. [topblock |-> t, curblock |-> b] \in Caller
      BY DEF Caller
    <3>2. QED
      BY <2>1, <3>1, CallStep
  <2>2. CASE UNCHANGED vars
    BY <2>2 DEF vars, StacksInv, Current, PopsWhatWasPushed
  <2>3. QED
    BY <2>1, <2>2, JumpStep, ErrorExitStep, ExitStep DEF Next
<1>2. QED
  BY InitStacks, <1>1, PTL DEF Spec

(* The coherence test of block_stack.h holds between any two signals.      *)
THEOREM CoherenceTheorem ==
  ASSUME ~ReallocMoves, ~ReallocFails
  PROVE  Spec => []StacksCoherent
<1>1. StacksInv => StacksCoherent
  <2> SUFFICES ASSUME Sound(Current), NEW k \in Stacks
               PROVE  /\ stk[k].top.base = stk[k].first.base
                      /\ stk[k].last.base = stk[k].first.base
                      /\ stk[k].top.off \in -1 .. stk[k].last.off
    BY DEF StacksInv, StacksCoherent
  <2>1. Current.stk = stk /\ Current.heap = heap
    BY DEF Current, Memory
  <2>2. QED
    BY <2>1, PtrFacts DEF Sound
<1>2. QED
  BY StacksInvariant, <1>1, PTL

(* No push, pop or trace touches memory outside the two arrays.            *)
THEOREM NoWildTheorem ==
  ASSUME ~ReallocMoves, ~ReallocFails
  PROVE  Spec => []NoWildAccess
<1>1. StacksInv => NoWildAccess
  BY DEF StacksInv, NoWildAccess
<1>2. QED
  BY StacksInvariant, <1>1, PTL

(* Every return pops what its call pushed: the stacks are the sequences    *)
(* MonitorRun takes them for.                                              *)
THEOREM PopTheorem ==
  ASSUME ~ReallocMoves, ~ReallocFails
  PROVE  Spec => []PopsWhatWasPushed
<1>1. StacksInv => PopsWhatWasPushed
  BY DEF StacksInv
<1>2. QED
  BY StacksInvariant, <1>1, PTL
=============================================================================
