------------------------------ MODULE MCDriver ------------------------------
(***************************************************************************)
(* Driver for TLC: source programs.  `Conditions' has one program for      *)
(* every condition made of two disjuncts of two conjuncts, or less, and is *)
(* compiled to IR; `Examples' are compiled in every way.  The immediates   *)
(* are narrow, so that the frames and arrays of small programs already     *)
(* need the expansions.                                                    *)
(***************************************************************************)
EXTENDS Driver, Tree, TLC

CONSTANT InZero      \* the unique names of global variables

Translator == INSTANCE Translator
SourceMeaning == INSTANCE SourceMeaning

Num(n)               == IntConst(n)
Var(x)               == LVal(x, << >>, << >>)
Bin(left, op, right) == BinaryExp(op, left, right)
CallOf(f, args)      == FuncCall(f, args, [i \in DOMAIN args |-> FALSE])
Declare(x, dim, init) == VarDecl(<< VarDef(x, dim, init) >>)
Set(x, exp)          == AssignStmt(Var(x), exp)
Func(f, params, body) == FuncDef(f, params, Block(body))
Write(exp)           == CallOf("write", << exp >>)
Plus(l, r)           == Bin(l, "Add", r)
Less(l, r)           == Bin(l, "Lt", r)
Up(x)                == Set(x, Plus(Var(x), Num(1)))
A == Var("a")
B == Var("b")
N == Var("n")
I == Var("i")

-----------------------------------------------------------------------------
\* noisy writes what it is called with and returns it.
Noisy == Func("noisy", << "n" >>, << Write(Plus(N, Num(5))), ReturnStmt(N) >>)

\* A statement for a and b in 0 .. 1, one after the other.
ForAB(stmt) ==
  << Set("a", Num(0)),
     WhileStmt(Less(A, Num(2)), Block(
       << Set("b", Num(0)), WhileStmt(Less(B, Num(2)), Block(<< stmt, Up("b") >>)), Up("a") >>)) >>

Atoms == {A, UnaryExp("Not", B), Bin(A, "Le", B), CallOf("noisy", << B >>)}

Chains(op, S) == S \cup {Bin(l, op, r) : l, r \in S}

CondProgram(cond) ==
  CompUnit(<< Noisy,
             Func("main", << >>,
                  << Declare("a", << >>, Null), Declare("b", << >>, Null) >>
                  \o ForAB(IfStmt(cond, Write(Num(1)), Write(Num(2))))
                  \o << ReturnStmt(B) >>) >>)

Conditions == Chains("Or", Chains("And", Atoms))

-----------------------------------------------------------------------------
Fib ==
  CompUnit(<< Func("fib", << "n" >>,
               << IfStmt(Less(N, Num(2)), ReturnStmt(N), Null),
                  ReturnStmt(Plus(CallOf("fib", << Bin(N, "Sub", Num(1)) >>),
                              CallOf("fib", << Bin(N, "Sub", Num(2)) >>))) >>),
             Func("main", << >>, << Write(CallOf("fib", << Num(4) >>)),
                                    ReturnStmt(CallOf("fib", << Num(3) >>)) >>) >>)

\* Globals before and between functions, with values for some of their words; next
\* changes the global its result is assigned to.
G == Var("g_in_0")
M(i, j) == LVal("m_in_0", << 2, 3 >>, << i, j >>)
Table(i) == LVal("t_in_0", << 4 >>, << i >>)
GlobalNames == {"g_in_0", "z_in_0", "m_in_0", "t_in_0", "globalVar_in_0"}

Global ==
  CompUnit(<< Declare("g_in_0", << >>, Num(3)), Declare("z_in_0", << >>, Null),
             Declare("m_in_0", << 2, 3 >>, InitList(<< InitList(<< Num(1), Num(2) >>),
                                                    InitList(<< Num(4) >>) >>)),
             Func("add", << "n" >>,
                  << Set("g_in_0", Plus(G, N)), AssignStmt(M(Num(1), N), G) >>),
             Func("next", << >>, << Up("g_in_0"), ReturnStmt(Bin(G, "Mul", Num(2))) >>),
             Declare("t_in_0", << 4 >>, Null),
             Func("get", << "v", "i" >>, << ReturnStmt(LVal("v", << 0 >>, << I >>)) >>),
             Func("main", << >>,
                  << CallOf("add", << Num(1) >>), CallOf("add", << Num(2) >>),
                     AssignStmt(Table(Bin(G, "Div", Num(2))), M(Num(1), Num(1))),
                     Set("z_in_0", Plus(G, M(Num(0), Num(1)))),
                     Write(FuncCall("get", << LVal("t_in_0", << 4 >>, << >>), Num(3) >>,
                                  << TRUE, FALSE >>)),
                     Set("g_in_0", CallOf("next", << >>)), Write(G),
                     AssignStmt(M(Num(0), Num(2)), Plus(CallOf("next", << >>), Num(1))),
                     Write(M(Num(0), Num(2))),
                     Write(M(Num(1), Num(2))), Write(M(Num(1), Num(0))),
                     Write(Var("z_in_0")), ReturnStmt(Bin(G, "Mod", Num(4))) >>) >>)

\* A local array with an initialiser, its rows handed to a function that keeps
\* an array of its own and hands both on.
L(is) == LVal("l", << 2, 2 >>, is)
Own(is) == LVal("own", << 18 >>, is)

Local ==
  CompUnit(<< Func("sum", << "v", "n" >>,
                  << Declare("s", << >>, Num(0)),
                     WhileStmt(Bin(N, "Gt", Num(0)),
                       Block(<< Set("n", Bin(N, "Sub", Num(1))),
                                Set("s", Plus(Var("s"), LVal("v", << 0 >>, << N >>))) >>)),
                     ReturnStmt(Var("s")) >>),
             Func("twice", << "v" >>,
                  << Declare("own", << 18 >>, InitList(<< Num(6) >>)), Declare("i", << >>, Num(0)),
                     WhileStmt(Less(I, Num(2)), Block(
                       << AssignStmt(Own(<< Plus(I, Num(16)) >>), LVal("v", << 0 >>, << I >>)),
                          Up("i") >>)),
                     ReturnStmt(Plus(FuncCall("sum", << Var("v"), Num(2) >>, << TRUE, FALSE >>),
                                 Bin(Own(<< Num(17) >>), "Sub", Own(<< Num(0) >>)))) >>),
             Func("main", << >>,
                  << Declare("a", << >>, Num(7)),
                     Declare("l", << 2, 2 >>, InitList(<< A, Num(2), InitList(<< Num(5) >>) >>)),
                     Write(FuncCall("twice", << L(<< Num(0) >>) >>, << TRUE >>)),
                     AssignStmt(L(<< Num(1), Num(1) >>), UnaryExp("Sub", A)),
                     Write(FuncCall("twice", << L(<< Num(1) >>) >>, << TRUE >>)),
                     ReturnStmt(A) >>) >>)

\* Calls in arguments, operands and conditions, with input.
Nested ==
  CompUnit(<< Func("mix", << "a", "b", "n" >>,
                  << ReturnStmt(Plus(Bin(A, "Mul", N), Bin(B, "Sub", N))) >>),
             Func("main", << >>,
                  << Declare("n", << >>, CallOf("read", << >>)), Declare("a", << >>, Null),
                     Set("a", CallOf("mix", << N, CallOf("mix", << Num(1), CallOf("read", << >>), N >>),
                                               Plus(CallOf("read", << >>), N) >>)),
                     Write(A),
                     WhileStmt(Bin(Less(Num(0), A), "And",
                                   Bin(CallOf("read", << >>), "Ne", Num(27))),
                       Block(<< IfStmt(Bin(Bin(A, "Mod", Num(2)), "Eq", Num(0)),
                                  Set("a", Bin(A, "Div", Num(2))),
                                  IfStmt(Less(Num(10), A), Set("a", Bin(A, "Sub", Num(9))),
                                         ReturnStmt(A))),
                                Write(A) >>)),
                     ReturnStmt(Plus(A, N)) >>) >>)

\* appends/lab0/testfile2.sy and testfile5.sy.
Pair(i, j) == InitList(<< i, j >>)
Total == Var("total")
NamedArray(x, i) == LVal(x, << 4, 2 >>, << Num(i), Num(1) >>)
Rest == << Num(5), Num(6), Num(7), Num(8) >>

Testfile2 ==
  CompUnit(<< Declare("globalVar_in_0", << >>, Num(10)),
             Func("sum", << "arr", "size" >>,
                  << Declare("total", << >>, Num(0)), Declare("i", << >>, Num(0)),
                     WhileStmt(Less(I, Var("size")),
                       Block(<< Set("total", Plus(Total, LVal("arr", << 0 >>, << I >>))),
                                Up("i") >>)),
                     ReturnStmt(Total) >>),
             Func("sum2", << "arr", "size" >>, << ReturnStmt(Null) >>),
             Func("main", << >>,
                  << Declare("a", << 4, 2 >>, Null),
                     Declare("b", << 4, 2 >>, InitList(<< Num(1), Num(2), Num(3), Num(4) >> \o Rest)),
                     Declare("c", << 4, 2 >>,
                       InitList(<< Pair(Num(1), Num(2)), Pair(Num(3), Num(4)) >> \o Rest)),
                     Declare("d", << 4, 2 >>, InitList(<< Num(1), Num(2), InitList(<< Num(3) >>),
                                                     InitList(<< Num(5) >>), Num(7), Num(8) >>)),
                     Declare("e", << 4, 2 >>,
                       InitList(<< Pair(NamedArray("d", 2), NamedArray("c", 2)), Pair(Num(3), Num(4)),
                                   Pair(Num(5), Num(6)), Pair(Num(7), Num(8)) >>)),
                     Declare("b2", << >>, NamedArray("b", 2)),
                     Declare("numbers", << 3 >>, InitList(<< Num(1), Num(2), Num(3) >>)),
                     Declare("result", << >>,
                       FuncCall("sum", << LVal("numbers", << 3 >>, << >>), Num(3) >>, << TRUE, FALSE >>)),
                     Write(Num(9)), Write(NamedArray("e", 0)), Write(NamedArray("d", 1)),
                     ReturnStmt(Bin(Var("result"), "Sub", Var("result"))) >>) >>)

Testfile5 ==
  CompUnit(<< Func("my", << "x", "y" >>, << ReturnStmt(Plus(Var("x"), Var("y"))) >>),
             Func("my_uni", << "x" >>, << ReturnStmt(Var("x")) >>),
             Func("my_none", << >>, << ReturnStmt(Num(4)) >>),
             Func("main", << >>,
                  << Block(<< Declare("a", << >>, Null), Declare("b", << >>, Null),
                              Set("a", Num(5)), Set("b", CallOf("my_uni", << Num(4) >>)),
                              Set("b", CallOf("my_none", << >>)),
                              IfStmt(CallOf("my", << A, B >>), Block(<< Write(Num(9)) >>),
                                     Write(Num(9))),
                              ReturnStmt(Num(0)) >>) >>) >>)

\* appends/lab0/testfile4.sy.
D == Var("d")
E == Var("e")

Testfile4 ==
  CompUnit(<< Func("main", << >>,
    << Block(<<
         VarDecl([i \in 1 .. 3 |-> VarDef(<< "a", "b", "c" >>[i], << >>, Num(i))]),
         Declare("d", << >>, Null), Declare("e", << >>, Null),
         Set("d", Bin(A, "Mul", B)), Set("e", Plus(A, B)),
         IfStmt(Bin(D, "Ge", E), Set("e", Bin(D, "Div", E)), Null),
         IfStmt(Bin(D, "Eq", E), Set("e", Bin(D, "Mod", E)), Null),
         IfStmt(Bin(D, "Gt", E), EmptyStmt, Null), IfStmt(Less(D, E), EmptyStmt, Null),
         IfStmt(Bin(D, "Le", E), EmptyStmt, Null),
         IfStmt(Bin(D, "Ne", E), Set("e", Bin(D, "Sub", E)), Null),
         IfStmt(Bin(Bin(D, "And", E), "Or", E), EmptyStmt, Null),
         Set("e", UnaryExp("Sub", Num(1))), Set("d", UnaryExp("Add", Num(1))),
         Set("d", Bin(Plus(D, E), "Mul", Bin(D, "Sub", E))),
         Set("d", UnaryExp("Not", E)) >>),
       Write(Num(9)) >>) >>)

Refused == {[example |-> "testfile4"]}

Examples == {[example |-> e] : e \in {"fib", "global", "local", "nested", "testfile2", "testfile5"}}

\* A program is named by its condition, or by a name.
Tree(s) ==
  CASE s \notin Examples \cup Refused -> CondProgram(s)
    [] s = [example |-> "fib"]    -> Fib
    [] s = [example |-> "global"] -> Global
    [] s = [example |-> "local"]  -> Local
    [] s = [example |-> "nested"] -> Nested
    [] s = [example |-> "testfile2"] -> Testfile2
    [] s = [example |-> "testfile4"] -> Testfile4
    [] s = [example |-> "testfile5"] -> Testfile5

Supported == Conditions \cup Examples

MCTranslation(s) == Translator!Translate(Tree(s), Translator!NewTranslator)

MCMeaning(s) == SourceMeaning!Meaning(Tree(s))

MCRequests ==
  [s \in Sources |->
     CASE s \in Examples -> SUBSET {"--ir", "--venus"}
       [] s \in Chains("Or", Atoms) \cup Chains("And", Atoms) -> {{}, {"--ir"}}
       [] s \in Refused -> {{}}
       [] OTHER -> {{"--ir"}}]

MCImmMin == -64
=============================================================================
