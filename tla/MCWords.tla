------------------------------- MODULE MCWords -------------------------------
(***************************************************************************)
(* Words of BITS bits as numbers, and the operations of the trait Word on  *)
(* them, worked out once.                                                  *)
(***************************************************************************)
EXTENDS Integers, FiniteSetsExt

CONSTANT BITS

LOCAL Size == 2 ^ BITS
MCWord == 0 .. Size - 1

\* Bit by bit: the word whose bit i is one where test says so.
LOCAL Bit(x, i) == (x \div 2 ^ i) % 2
LOCAL Bitwise(Test(_, _), x, y) ==
    MapThenSumSet(LAMBDA i : IF Test(Bit(x, i), Bit(y, i)) THEN 2 ^ i ELSE 0, 0 .. BITS - 1)

LOCAL XorTable == [x, y \in MCWord |-> Bitwise(LAMBDA p, q : p # q, x, y)]
LOCAL AndTable == [x, y \in MCWord |-> Bitwise(LAMBDA p, q : p = 1 /\ q = 1, x, y)]
LOCAL OrTable == [x, y \in MCWord |-> Bitwise(LAMBDA p, q : p = 1 \/ q = 1, x, y)]

MCXor(x, y) == XorTable[x, y]
MCAnd(x, y) == AndTable[x, y]
MCOr(x, y) == OrTable[x, y]
MCNot(x) == Size - 1 - x
MCAdd(x, y) == (x + y) % Size
MCSub(x, y) == (x - y) % Size
=============================================================================
