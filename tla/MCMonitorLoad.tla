---------------------------- MODULE MCMonitorLoad -----------------------------
(***************************************************************************)
(* Programs for MonitorLoad: a library and a program that call each other, *)
(* with initialisers; two libraries that define the same function; and     *)
(* programs that differ from the first one in one table that is broken, or *)
(* in one that is too long for a packet.                                   *)
(***************************************************************************)
EXTENDS MonitorLoad

Fct(id, name, flag) == [f_id |-> id, f_name |-> name, f_flags |-> flag]
Calls(id, list) == [f_id |-> id, f_calls |-> list]
Blocks(id, n, list) == [f_id |-> id, num_block |-> n, trans |-> list]
Succ(b, list) == [b_id |-> b, b_succ |-> list]
IpdOf(f, b, d) == [f_id |-> f, b_id |-> b, b_ipd_id |-> d]

Plain(fcts, trans) ==
  [fcts |-> fcts, trans |-> trans, granularity_bb |-> FALSE, bbs |-> <<>>,
   ipds |-> <<>>, large |-> {}]

Library ==
  [fcts |-> <<Fct(0, "foo", "FCT_INTERNAL"), Fct(1, "lib_init", "FCT_INIT"),
              Fct(2, "callback", "FCT_EXTERNAL")>>,
   trans |-> <<Calls(0, <<2>>), Calls(1, <<0, 1>>)>>,
   granularity_bb |-> TRUE,
   bbs |-> <<Blocks(0, 3, <<Succ(0, <<1, 2>>), Succ(1, <<2>>)>>), Blocks(1, 1, <<>>)>>,
   ipds |-> <<IpdOf(0, 0, 2), IpdOf(0, 1, 2)>>,
   large |-> {}]
MainProgram ==
  Plain(<<Fct(0, "main", "FCT_MAIN"), Fct(1, "foo", "FCT_EXTERNAL"),
          Fct(2, "callback", "FCT_INTERNAL"), Fct(3, "init_a", "FCT_INIT"),
          Fct(4, "init_b", "FCT_INIT"), Fct(5, "fini", "FCT_FINI")>>,
        <<Calls(0, <<1, 2>>), Calls(3, <<1>>)>>)

Alone == Plain(<<Fct(0, "main", "FCT_MAIN")>>, <<>>)
Logger(other) ==
  Plain(<<Fct(0, other, "FCT_INTERNAL"), Fct(1, "log", "FCT_INTERNAL")>>,
        <<Calls(0, <<1>>)>>)
LogUser ==
  Plain(<<Fct(0, "log", "FCT_EXTERNAL"), Fct(1, "main", "FCT_MAIN")>>,
        <<Calls(1, <<0>>)>>)

Good == {<<Library, MainProgram>>, <<Logger("first"), Logger("second"), LogUser>>, <<Alone>>}

BrokenLibraries ==
  {[Library EXCEPT !.fcts[3].f_id = 3],
   [Library EXCEPT !.trans[1] = Calls(0, <<3>>)],
   [Library EXCEPT !.trans[2] = Calls(0, <<1>>)],
   [Library EXCEPT !.trans[2] = Calls(3, <<1>>)],
   [Library EXCEPT !.bbs[2] = Blocks(0, 1, <<>>)],
   [Library EXCEPT !.bbs[2] = Blocks(1, 0, <<>>)],
   [Library EXCEPT !.bbs[2] = Blocks(3, 1, <<>>)],
   [Library EXCEPT !.bbs[2] = Blocks(1, 1, <<Succ(0, <<1>>)>>)],
   [Library EXCEPT !.bbs[2] = Blocks(1, 1, <<Succ(1, <<0>>)>>)],
   [Library EXCEPT !.ipds[2] = IpdOf(2, 0, 0)],
   [Library EXCEPT !.ipds[2] = IpdOf(3, 0, 0)],
   [Library EXCEPT !.ipds[2] = IpdOf(0, 3, 0)],
   [Library EXCEPT !.fcts = <<>>, !.trans = <<>>, !.bbs = <<>>, !.ipds = <<>>]}
Broken ==
  {<<l, MainProgram>> : l \in BrokenLibraries} \cup {<<MainProgram>>, <<LogUser>>}
    \cup {<<Library, Plain(<<Fct(0, "main", "FCT_MAIN")>>, <<>>)>>}
    \cup {<<Plain(<<Fct(0, "log", "FCT_EXTERNAL")>>, <<>>), LogUser>>}

TooLong == {<<[Library EXCEPT !.large = {"FUNCTION_ID"}], MainProgram>>}

AllPrograms == Good \cup Broken \cup TooLong
=============================================================================
