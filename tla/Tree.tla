-------------------------------- MODULE Tree --------------------------------
(***************************************************************************)
(* The nodes of the tree, ast/tree.hpp, as records whose field node is the *)
(* class, as the type checker leaves them: instead of a symbol a node has  *)
(* the symbol's unique_name, instead of the type of a called function      *)
(* whether each parameter is an array, and instead of an InitVal the       *)
(* expression or list that is in it.                                       *)
(***************************************************************************)

Null == [node |-> "Null"]      \* an absent child

IntConst(value)        == [node |-> "IntConst", value |-> value]
LVal(symbol, dims, indexes) ==
  [node |-> "LVal", symbol |-> symbol, dims |-> dims, indexes |-> indexes]
UnaryExp(op, exp)          == [node |-> "UnaryExp", op |-> op, exp |-> exp]
BinaryExp(op, left, right) == [node |-> "BinaryExp", op |-> op, left |-> left, right |-> right]
FuncCall(name, args, array_params) ==
  [node |-> "FuncCall", name |-> name, args |-> args, array_params |-> array_params]

InitList(elements)         == [node |-> "InitList", elements |-> elements]
VarDef(symbol, dim, inits) ==
  [node |-> "VarDef", symbol |-> symbol, dim |-> dim, inits |-> inits]
VarDecl(defs)              == [node |-> "VarDecl", defs |-> defs]

AssignStmt(lval, exp)      == [node |-> "AssignStmt", lval |-> lval, exp |-> exp]
ReturnStmt(exp)            == [node |-> "ReturnStmt", exp |-> exp]
EmptyStmt                  == [node |-> "EmptyStmt"]
IfStmt(cond, true_stmt, false_stmt) ==
  [node |-> "IfStmt", cond |-> cond, true_stmt |-> true_stmt, false_stmt |-> false_stmt]
WhileStmt(cond, stmt)      == [node |-> "WhileStmt", cond |-> cond, stmt |-> stmt]
Block(stmts)               == [node |-> "Block", stmts |-> stmts]

FuncDef(name, params, block) ==
  [node |-> "FuncDef", name |-> name, params |-> params, block |-> block]
CompUnit(units)            == [node |-> "CompUnit", units |-> units]
=============================================================================
