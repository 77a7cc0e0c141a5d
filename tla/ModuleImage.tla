----------------------------- MODULE ModuleImage ------------------------------
(***************************************************************************)
(* The tables of one module (executable or shared library) as              *)
(* picon-prelink packs them and as monitor_load reads them.  A module is a *)
(* record with                                                             *)
(*   fcts            [f_id, f_name, f_flags] for every function            *)
(*   trans           [f_id, f_calls] for every function that calls         *)
(*   granularity_bb  whether block tables follow                           *)
(*   bbs             [f_id, num_block, trans] with the successors of the   *)
(*                   blocks, [b_id, b_succ]                                *)
(*   ipds            [f_id, b_id, b_ipd_id]                                *)
(***************************************************************************)
EXTENDS Naturals, Sequences

HasMain(im) == \E x \in 1 .. Len(im.fcts) : im.fcts[x].f_name = "main"

(* Reference: what makes the tables of a module usable, and a program      *)
(* complete.                                                               *)
WellFormed(im) ==
  LET ids_of == {im.fcts[x].f_id : x \in 1 .. Len(im.fcts)}
      callers == [x \in 1 .. Len(im.trans) |-> im.trans[x].f_id]
      owners == [x \in 1 .. Len(im.bbs) |-> im.bbs[x].f_id]
      Distinct(s) == \A x, y \in 1 .. Len(s) : s[x] = s[y] => x = y
      Elements(s) == {s[x] : x \in 1 .. Len(s)}
  IN /\ im.fcts # <<>> /\ ids_of = 0 .. Len(im.fcts) - 1
     /\ Distinct(callers) /\ Elements(callers) \subseteq ids_of
     /\ \A x \in 1 .. Len(im.trans) : Elements(im.trans[x].f_calls) \subseteq ids_of
     /\ im.granularity_bb =>
          /\ Distinct(owners) /\ Elements(owners) \subseteq ids_of
          /\ \A x \in 1 .. Len(im.bbs) :
               LET bl == 0 .. im.bbs[x].num_block - 1
               IN /\ bl # {}
                  /\ \A t \in Elements(im.bbs[x].trans) :
                       t.b_id \in bl /\ Elements(t.b_succ) \subseteq bl
          /\ \A e \in Elements(im.ipds) : \E x \in 1 .. Len(im.bbs) :
               e.f_id = im.bbs[x].f_id /\ e.b_id < im.bbs[x].num_block

Complete(p) ==
  \A k \in 1 .. Len(p) : \A x \in 1 .. Len(p[k].fcts) :
    p[k].fcts[x].f_flags = "FCT_EXTERNAL" =>
      \E n \in (1 .. Len(p)) \ {k} : \E y \in 1 .. Len(p[n].fcts) :
        /\ p[n].fcts[y].f_name = p[k].fcts[x].f_name
        /\ p[n].fcts[y].f_flags # "FCT_EXTERNAL"

Proper(p) == Complete(p) /\ \A k \in 1 .. Len(p) : WellFormed(p[k])
=============================================================================
