----------------------------- MODULE MCInstrument -----------------------------
(***************************************************************************)
(* Programs for Instrument.  The tables of the modules are those that the  *)
(* pass, picon-prelink and the loading make of them.                       *)
(***************************************************************************)
EXTENDS Instrument

Block(calls_, succ) == [calls |-> calls_, succ |-> succ]
Fct(name, blocks_) == [name |-> name, blocks |-> blocks_]
Decl(name) == Fct(name, <<>>)

(* main loops and calls into the library, which calls back; walk is        *)
(* recursive and has a switch; quiet has no block protection.              *)
MainFile ==
  <<Fct("main", <<Block(<<"puts">>, <<1>>), Block(<<"serve">>, <<2, 3>>),
                  Block(<<ASM>>, <<1>>), Block(<<"walk", "puts">>, <<>>)>>),
    Decl("serve"), Decl("puts"),
    Fct("walk", <<Block(<<>>, <<1, 2, 3, 3>>), Block(<<"walk">>, <<3>>),
                  Block(<<"quiet">>, <<1>>), Block(<<>>, <<>>)>>),
    Fct("quiet", <<Block(<<>>, <<1, 2>>), Block(<<"setup">>, <<2>>),
                   Block(<<>>, <<>>)>>),
    Fct("setup", <<Block(<<"puts">>, <<>>)>>)>>
Library ==
  <<Decl("quiet"),
    Fct("serve", <<Block(<<"quiet">>, <<1, 2>>), Block(<<>>, <<1, 2>>),
                   Block(<<"quiet">>, <<>>)>>)>>

TwoModules ==
  0 :> [level |-> FALSE, funs |-> Library, ignore |-> {}] @@
  1 :> [level |-> TRUE, funs |-> MainFile, ignore |-> {"quiet"}]

(* A function that never returns, and so has no block that does: void      *)
(* spin(void) { for (;;) work(); } called by main.                         *)
EndlessLoop ==
  0 :> [level |-> TRUE, ignore |-> {}, funs |->
    <<Fct("main", <<Block(<<"spin">>, <<>>)>>),
      Fct("spin", <<Block(<<>>, <<1>>), Block(<<"work">>, <<1>>)>>),
      Fct("work", <<Block(<<>>, <<>>)>>)>>]

FlagsOf(F) ==
  IF F.name = "main" THEN "FCT_MAIN"
  ELSE IF F.name = "setup" THEN "FCT_INIT"
  ELSE IF isDeclaration(F) THEN "FCT_EXTERNAL" ELSE "FCT_INTERNAL"

FunctionData(m, F) ==
  LET has == /\ Program[m].level /\ ~isDeclaration(F)
             /\ ~isIgnoredBlocksFunction(m, F.name)
  IN [flags |-> FlagsOf(F),
      nb_blocks |-> IF has THEN Len(F.blocks) ELSE 0,
      control_flow_graph |-> [b \in BlocksOf(F) |->
        IF b \in DOMAIN BlockLines(F) THEN BlockLines(F)[b] ELSE NULL],
      immediate_post_dominator |-> [b \in BlocksOf(F) |-> Ipdom(F, b)]]

ModuleData(m) ==
  LET funs == SelectSeq(Program[m].funs, LAMBDA F : Identified(F.name))
      ById(V(_)) == [f \in 0 .. Len(funs) - 1 |-> V(funs[f + 1])]
      CallsFrom(F) == IF Callees(F) = {} THEN NULL ELSE {id(m, g) : g \in Callees(F)}
      Relocation(F) ==
        LET homes == {h \in ModuleIds \ {m} : F.name \in DOMAIN Functions[h]}
        IN IF ~isDeclaration(F) \/ homes = {} THEN [module |-> 0, function |-> 0]
           ELSE LET h == CHOOSE h \in homes : TRUE
                IN [module |-> h, function |-> id(h, F.name)]
      Data(F) == FunctionData(m, F)
  IN [nb_functions |-> Len(funs), call_graph |-> ById(CallsFrom),
      relocations |-> ById(Relocation), functions |-> ById(Data)]

MCModules == [m \in ModuleIds |-> ModuleData(m)]
MCSignal ==
  [event : Events, module : ModuleIds, function : 0 .. 4, block : 0 .. 3]
=============================================================================
