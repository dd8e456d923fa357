-------------------------------- MODULE Bits --------------------------------
(***************************************************************************)
(* The operators &, | and ^ of C, by tables of four bits: no recursion, so *)
(* that what is built from them can be proved about.                       *)
(***************************************************************************)
EXTENDS Integers

\* A table of two numbers below 16: an operator at work on each of their bits.
BitByBit(op(_, _)) ==
  [a \in 0 .. 15 |->
     [b \in 0 .. 15 |->
        op(a % 2, b % 2) + (2 * op((a \div 2) % 2, (b \div 2) % 2))
        + (4 * op((a \div 4) % 2, (b \div 4) % 2))
        + (8 * op(a \div 8, b \div 8))]]

And4 == BitByBit(LAMBDA x, y : x * y)
Or4 == BitByBit(LAMBDA x, y : (x + y) - (x * y))
Xor4 == BitByBit(LAMBDA x, y : (x + y) % 2)

\* A byte is two of them, half of a word four.
On8(table, a, b) ==
  (16 * table[a \div 16][b \div 16]) + table[a % 16][b % 16]

On16(table, a, b) ==
  (256 * On8(table, a \div 256, b \div 256)) + On8(table, a % 256, b % 256)

And16(a, b) == On16(And4, a, b)
Or16(a, b) == On16(Or4, a, b)
Xor16(a, b) == On16(Xor4, a, b)
Xor8(a, b) == On8(Xor4, a, b)
=============================================================================
