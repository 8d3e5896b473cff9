----------------------------- MODULE MCBrilTools -----------------------------
(* Programs for BrilTools.                                                  *)
EXTENDS BrilTools

Variables == {"x", "y"}
Const(x, n) == Instruction("const", x, <<>>, n, <<>>)
Id(x, y) == Instruction("id", x, <<y>>, NONE, <<>>)
Operation(op, x, y, z) == Instruction(op, x, <<y, z>>, NONE, <<>>)
Prints(x) == Instruction("print", NONE, <<x>>, NONE, <<>>)
Br(x, l, k) == Instruction("br", NONE, <<x>>, NONE, <<l, k>>)
Jmp(l) == Instruction("jmp", NONE, <<>>, NONE, <<l>>)
Ret == Instruction("ret", NONE, <<>>, NONE, <<>>)

Computations ==
  {<<Const(x, 1)>> : x \in Variables}
  \cup {<<Id(x, y)>> : x, y \in Variables}
  \cup {<<Operation("add", x, y, z)>> : x, y, z \in Variables}
  \cup {<<Prints(x)>> : x \in Variables}

(* One block of any instructions.                                           *)
StraightLine ==
  [tools |-> {"lvn", "dce"}, places |-> [n \in 1..4 |-> Computations]]

(* Instructions before, in and after a loop.                                *)
Loop ==
  [tools |-> {"lvn", "dce"},
   places |-> <<Computations, {<<Label(1)>>}, Computations,
                {<<Jmp(1)>>} \cup {<<Br(x, 1, 2)>> : x \in Variables},
                {<<Label(2)>>}, Computations, {<<Prints("x"), Prints("y")>>}>>]

(* Any two or three blocks, which may be empty.                             *)
BlocksAt(b, bodies, ends) == {<<Label(b)>> \o body \o end : body \in bodies, end \in ends}

Ends(labels) ==
  {<<>>, <<Ret>>} \cup {<<Jmp(l)>> : l \in labels} \cup {<<Br("y", l, k)>> : l, k \in labels}

AnyBlocks(n) ==
  [tools |-> {"df", "ssa"},
   places |-> [b \in 1..n |-> BlocksAt(b, {<<>>, <<Const("x", 1)>>}, Ends(1..n))]]

(* Four blocks, of which the first is not jumped to.                        *)
FourBlocks ==
  [tools |-> {"df", "ssa"},
   places |-> [b \in 1..4 |->
     BlocksAt(b, {<<Prints("x")>>, <<Const("x", 1)>>},
              {<<>>} \cup UNION {{<<Br("y", l, k)>> : k \in l..4} : l \in 2..4})]]

SomeSources == {StraightLine, Loop, AnyBlocks(2), AnyBlocks(3), FourBlocks}
=============================================================================
