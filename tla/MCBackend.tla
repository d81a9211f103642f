----------------------------- MODULE MCBackend -----------------------------
(***************************************************************************)
(* Backend for TLC.  A module has two functions: main with every body of   *)
(* BodyLength nodes from a pool with at least one node of each class, and  *)
(* a callee that declares an array of its own.  The immediates are narrow, *)
(* so that frames of a few words already need the expansions.              *)
(***************************************************************************)
EXTENDS Backend

CONSTANT BodyLength

MCVReg == {"x", "y"}
MCLabels == {"main", "main.ret", "g", "g.ret", "label1", "a_in_0"}
MCImmMin == -8

Pool ==
  {[ir |-> "LoadImm", x |-> "x", k |-> 7],
   [ir |-> "Assign", x |-> "y", y |-> "x"],
   [ir |-> "Binary", x |-> "x", y |-> "x", z |-> "y", op |-> "Add", num |-> 0],
   [ir |-> "Binary", x |-> "y", y |-> "x", z |-> Literal, op |-> "Mul", num |-> 4],
   [ir |-> "Unary", x |-> "y", y |-> "y", op |-> "Sub"],
   [ir |-> "Unary", x |-> "y", y |-> "y", op |-> "Not"],
   [ir |-> "Label", label |-> "label1"],
   [ir |-> "Call", x |-> "", func |-> "g"],
   [ir |-> "Call", x |-> "y", func |-> "g"],
   [ir |-> "Arg", x |-> "x", k |-> 1],
   [ir |-> "Arg", x |-> "x", k |-> 8],
   [ir |-> "If", op |-> "Lt", t1 |-> "x", t2 |-> "y", label |-> "label1"],
   [ir |-> "Dec", x |-> "y", size |-> 8],
   [ir |-> "Dec", x |-> "x", size |-> 0],
   [ir |-> "LoadAddr", x |-> "x", label |-> "a_in_0"],
   [ir |-> "Store", addr |-> "x", value |-> "y", offset |-> 4],
   [ir |-> "Store", addr |-> "x", value |-> "y", offset |-> 16],
   [ir |-> "Load", x |-> "x", addr |-> "y", offset |-> 16]}

Enter(f) == << [ir |-> "Function", name |-> f] >>
Leave(f, x) ==
  << [ir |-> "Assign", x |-> "a0", y |-> x], [ir |-> "Goto", label |-> f] >>

Main(body) ==
  [entry |-> Enter("main") \o << [ir |-> "Param", x |-> "x", k |-> 0] >>
             \o body \o Leave("main.ret", "x"),
   exit |-> "main.ret", ret |-> "a0"]

Callee ==
  [entry |-> Enter("g") \o << [ir |-> "Param", x |-> "y", k |-> 8],
                              [ir |-> "Dec", x |-> "x", size |-> 4],
                              [ir |-> "Load", x |-> "y", addr |-> "x", offset |-> 0] >>,
   exit |-> "g.ret", ret |-> ""]

MCPrograms == {<< Main(body), Callee >> : body \in [1 .. BodyLength -> Pool]}

\* main calls g twice with nine arguments, of which the ninth is shown.
NinthArg(x, value) ==
  << [ir |-> "LoadImm", x |-> x, k |-> value], [ir |-> "Arg", x |-> x, k |-> 8],
     [ir |-> "Call", x |-> "", func |-> "g"] >>

MCStackArgPrograms ==
  {<< [entry |-> Enter("main") \o NinthArg("x", 1) \o NinthArg("y", 2),
       exit |-> "main.ret", ret |-> ""],
      Callee >>}
=============================================================================
