--------------------------------- MODULE IR ---------------------------------
(***************************************************************************)
(* The nodes of the intermediate representation, ir/ir.hpp, as records     *)
(* whose field ir is the class.  An empty name stands for no register.     *)
(***************************************************************************)
EXTENDS Integers, Sequences

Literal == "#"      \* the operand `#num' of a Binary

LoadImm(x, k)          == [ir |-> "LoadImm", x |-> x, k |-> k]
Assign(x, y)           == [ir |-> "Assign", x |-> x, y |-> y]
Binary(x, y, op, z)    == [ir |-> "Binary", x |-> x, y |-> y, z |-> z, op |-> op, num |-> 0]
BinaryNum(x, y, op, n) == [ir |-> "Binary", x |-> x, y |-> y, z |-> Literal, op |-> op, num |-> n]
Unary(x, op, y)        == [ir |-> "Unary", x |-> x, y |-> y, op |-> op]
Label(label)           == [ir |-> "Label", label |-> label]
Goto(label)            == [ir |-> "Goto", label |-> label]
Function(name)         == [ir |-> "Function", name |-> name]
Call(x, func)          == [ir |-> "Call", x |-> x, func |-> func]
Arg(x, k)              == [ir |-> "Arg", x |-> x, k |-> k]
Param(x, k)            == [ir |-> "Param", x |-> x, k |-> k]
Return(x)              == [ir |-> "Return", x |-> x]
If(op, t1, t2, label)  == [ir |-> "If", op |-> op, t1 |-> t1, t2 |-> t2, label |-> label]
Dec(x, size)           == [ir |-> "Dec", x |-> x, size |-> size]
LoadAddr(x, label)     == [ir |-> "LoadAddr", x |-> x, label |-> label]
Store(addr, value, offset) ==
  [ir |-> "Store", addr |-> addr, value |-> value, offset |-> offset]
Load(x, addr, offset)  == [ir |-> "Load", x |-> x, addr |-> addr, offset |-> offset]

\* Whatever values there are, the constructor resizes them to the array.
Global(name, size, values) ==
  [ir |-> "Global", name |-> name, size |-> size,
   values |-> [i \in 1 .. size \div 4 |-> IF i <= Len(values) THEN values[i] ELSE 0]]
=============================================================================
