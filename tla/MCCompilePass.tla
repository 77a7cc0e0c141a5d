---------------------------- MODULE MCCompilePass -----------------------------
(***************************************************************************)
(* Source files for CompilePass: three files that call each other, with    *)
(* ignored functions, an intrinsic, a constructor, a destructor, an        *)
(* annotated function and a function outside the module; the same with an  *)
(* indirect call; and two files with static functions of the same name.    *)
(***************************************************************************)
EXTENDS CompilePass

Block(calls, succ) == [calls |-> calls, succ |-> succ]
Fct(name, blocks) == [name |-> name, blocks |-> blocks]
Decl(name) == Fct(name, <<>>)
Leaf(name, calls) == Fct(name, <<Block(calls, <<>>)>>)
Unit(funs) == [funs |-> funs, annotations |-> <<>>, ctors |-> <<>>, dtors |-> <<>>]
Empty == Unit(<<>>)

(* A function of four blocks, some of which may loop or return early. *)
Shaped(name, call, s0, s1, s2) ==
  Fct(name, <<Block(<<>>, s0), Block(<<call>>, s1), Block(<<>>, s2), Block(<<>>, <<>>)>>)

Main ==
  [Unit(<<Leaf("setup", <<"foo">>), Decl("foo"), Decl("puts"),
          Fct("main", <<Block(<<"foo", "puts", ASM>>, <<1, 1>>), Block(<<"cb">>, <<>>)>>),
          Decl("cb")>>)
    EXCEPT !.ctors = <<"setup", NULL>>]
Foo ==
  [Unit(<<Decl("cb"), Shaped("foo", "cb", <<1, 2, 3>>, <<2>>, <<1, 3>>),
          Shaped("done", "log", <<1, 2>>, <<>>, <<3>>), Decl("log")>>)
    EXCEPT !.dtors = <<"done">>]
Cb ==
  [Unit(<<Decl("setup"), Decl("llvm.memcpy"), Decl("foo"),
          Fct("cb", <<Block(<<"llvm.memcpy", "foo">>, <<1>>), Block(<<"setup">>, <<>>)>>)>>)
    EXCEPT !.annotations = <<[fun |-> "cb", text |-> ANNOTATION_IGNORE_BLOCK],
                             [fun |-> "foo", text |-> "other"], NULL>>]
Bad(name, call) == Unit(<<Leaf(name, <<"log", call>>), Decl("log")>>)

Files(a, b, c) == ("main.c" :> a) @@ ("foo.c" :> b) @@ ("cb.c" :> c)
SeveralFiles ==
  {Files(Main, Foo, Cb), Files(Main, Bad("try", INVOKE), Bad("apply", INDIRECT))}

(* static void helper(void) in two files *)
StaticNames ==
  {Files(Unit(<<Leaf("main", <<"helper", "foo">>), Leaf("helper", <<"foo">>), Decl("foo")>>),
         Unit(<<Leaf("foo", <<"helper">>), Leaf("helper", <<"log">>), Decl("log")>>),
         Empty)}
-----------------------------------------------------------------------------
(* The theorems about the tables apply to these files. *)
ASSUME SeveralFilesAreProper ==
  Builds = SeveralFiles => OneDefinition /\ EntryPoints /\ SomeFunction /\ IpdomsRight
=============================================================================
