---------------------------- MODULE InstSelector ----------------------------
(***************************************************************************)
(* Instruction selection, codegen/inst_selector.cpp: the code each IR node *)
(* becomes, over virtual registers, and what selecting it takes from the   *)
(* frame of the function.  An IR node is a record whose field ir is its    *)
(* class; in a Binary, z = Literal stands for an operand `#num'.           *)
(***************************************************************************)
EXTENDS Asm, Frame

Literal == "#"

\* static_cast<ASM::Arith::Op>(BinaryOp): the enumerations agree up to Or; from
\* there on an operator becomes whatever stands at its place, or no operator.
ArithOp(op) ==
  CASE op = "Eq" -> "Xor"
    [] op = "Ne" -> "Sll"
    [] op = "Lt" -> "Srl"
    [] op \in {"Gt", "Le", "Ge"} -> Unused
    [] OTHER -> op

\* What a handler returns, and the frame it leaves behind.
Selected(code, fr) == [code |-> code, frame |-> fr]

SelectLoadImm(node, fr) == Selected(<< Li(node.x, node.k) >>, fr)

SelectAssign(node, fr) == Selected(<< Mv(node.x, node.y) >>, fr)

\* Only a right operand can be a literal, and only in the product
\* index * #width: then the literal goes through t0.
SelectBinary(node, fr) ==
  Selected(IF node.z # Literal
             THEN << Arith(ArithOp(node.op), node.x, node.y, node.z) >>
             ELSE IF node.op \in {"Add", "Sub"}
               THEN << ArithImm(node.op, node.x, node.y, node.num) >>
               ELSE << Li("t0", node.num), Arith(ArithOp(node.op), node.x, node.y, "t0") >>, fr)

SelectUnary(node, fr) == Selected(<< Arith(ArithOp(node.op), node.x, "zero", node.y) >>, fr)

SelectLabel(node, fr) == Selected(<< Label(node.label) >>, fr)

SelectGoto(node, fr) == Selected(<< Jump(node.label) >>, fr)

SelectFunction(node, fr) ==
  Selected(<< GlobalLabel(node.name), Function(node.name) >>, fr)

\* t0, t1 and t2 are saved in slots of their own around the call.
SelectCall(node, fr) ==
  LET f0 == AllocTemp(fr, WordSize, "t0")
      f1 == AllocTemp(f0, WordSize, "t1")
      f2 == AllocTemp(f1, WordSize, "t2")
      off(r) == f2.temp_offset[r]
      result == IF node.x = "" THEN << >> ELSE << Mv(node.x, "a0") >>
  IN  Selected(<< Store("sp", "t0", off("t0")), Store("sp", "t1", off("t1")),
                  Store("sp", "t2", off("t2")), Call(node.func) >>
               \o result
               \o << Load("t0", "sp", off("t0")), Load("t1", "sp", off("t1")),
                     Load("t2", "sp", off("t2")) >>, f2)

\* From the ninth on, an argument is stored in the slot of its own register.
SelectArg(node, fr) ==
  LET f == AllocTemp(fr, WordSize, node.x)
  IN  IF node.k < 8
        THEN Selected(<< Mv(ArgReg[node.k + 1], node.x) >>, fr)
        ELSE Selected(<< Store("sp", node.x, f.temp_offset[node.x]) >>, f)

\* From the ninth on, a parameter is read upwards from fp.
SelectParam(node, fr) ==
  Selected(IF node.k < 8 THEN << Mv(node.x, ArgReg[node.k + 1]) >>
                         ELSE << Load(node.x, "fp", 4 * (node.k - 8)) >>, fr)

SelectIf(node, fr) == Selected(<< Branch(node.op, node.t1, node.t2, node.label) >>, fr)

\* Mutant of SelectDec: the address is read after the block was taken.
SelectDecAfter(node, fr) ==
  LET f == AllocDec(fr, node.size)
  IN  Selected(<< ArithImm("Add", node.x, "sp", f.temp_stack_size) >>, f)

SelectDec(node, fr) ==
  Selected(<< ArithImm("Add", node.x, "sp", fr.temp_stack_size) >>,
           AllocDec(fr, node.size))

SelectLoadAddr(node, fr) == Selected(<< La(node.x, node.label) >>, fr)

SelectStore(node, fr) ==
  Selected(IF Fits(node.offset)
             THEN << Store(node.addr, node.value, node.offset) >>
             ELSE << Li("t0", node.offset), Arith("Add", "t0", node.addr, "t0"),
                     Store("t0", node.value, 0) >>, fr)

SelectLoad(node, fr) ==
  Selected(IF Fits(node.offset)
             THEN << Load(node.x, node.addr, node.offset) >>
             ELSE << Li("t0", node.offset), Arith("Add", "t0", node.addr, "t0"),
                     Load(node.x, "t0", 0) >>, fr)
=============================================================================
