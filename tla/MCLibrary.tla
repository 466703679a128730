------------------------------ MODULE MCLibrary ------------------------------
(***************************************************************************)
(* The calls of the runs on the library: sources with tokens that the      *)
(* functions treat differently, with issues, with marks, and unsafe ones.  *)
(***************************************************************************)
EXTENDS Library, CurrentToken

OptionsOf(convention, firstLine) ==
  [srcConvention |-> convention, tabWidth |-> 4, encodingMode |-> "NORMAL",
   firstLineBehavior |-> firstLine]

LineColumn == OptionsOf("LINECOLUMN", "NOTSCRIPT")

Shebang == Codes("#!a") \o <<LF>> \o Codes("b")

TwoLines == Codes("\"a") \o <<LF>> \o Codes("b\"")

Incomplete == Codes("a") \o <<195>>

LibraryCalls ==
  {CallOf(fn, bytes, OptionsOf("LINECOLUMN", "NOTSCRIPT"), FALSE, "TOPLEVEL") :
     fn \in Functions, bytes \in {Incomplete, TwoLines, Codes("\\[Pj]"), Codes("\\[Pj] 1") \o <<195>>}}
    \union {CallOf(fn, Shebang, OptionsOf("SOURCECHARACTERINDEX", firstLine), TRUE, "TOPLEVEL") :
              fn \in {"ConcreteParse", "Tokenize"}, firstLine \in FirstLineBehaviors}
    \union {CallOf("Tokenize", bytes, OptionsOf("LINECOLUMN", firstLine), TRUE, "TOPLEVEL") :
              bytes \in {Codes("#!"), Codes("#a"), Codes("a")}, firstLine \in {"CHECK", "SCRIPT"}}
    \union {CallOf("ConcreteParseLeaf", Codes("a::b"), LineColumn, FALSE, reader) :
              reader \in {"TOPLEVEL", "TAG", "FILE"}}
    \union {CallOf("ConcreteParse", Codes("a::b"), OptionsOf("LINECOLUMN", "CHECK"), TRUE, "TOPLEVEL"),
            CallOf("ConcreteParse", Codes("1"), OptionsOf("BOGUS", "NOTSCRIPT"), FALSE, "TOPLEVEL"),
            CallOf("ConcreteParse", Codes("1"), OptionsOf("BOGUS", "NOTSCRIPT"), TRUE, "TOPLEVEL")}

\* A slot, which is not a shebang.
SlotCalls ==
  {CallOf("ConcreteParse", Codes("#a"), OptionsOf("LINECOLUMN", "CHECK"), TRUE, "TOPLEVEL")}

=============================================================================
