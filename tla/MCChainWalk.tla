---------------------------- MODULE MCChainWalk ----------------------------
(***************************************************************************)
(* The chain walker on bytes of two bits: 256 addresses, MEM1 in 0..99,    *)
(* a hole, the game's MEM2 in 160..200, IOS above.                         *)
(***************************************************************************)
EXTENDS ChainWalk

N(parent, dp, psize, op, w, operand, shipped) ==
    [parent |-> parent, dp |-> dp, psize |-> psize, op |-> op, w |-> w,
     operand |-> operand, ship |-> shipped]

(* A pointer stored big-endian at 4, the object it points to, and the same *)
(* field read through the pointer of the walk before.                      *)
PointerTable ==
    <<N(NoParent, "cur", "32", "deref", 4, 4, TRUE),
      N(1, "cur", "32BE", "deref", 1, 2, TRUE),
      N(1, "delta", "32BE", "deref", 2, 2, TRUE)>>

(* A masked index into an array, its last different value, a constant, and *)
(* a second level of pointers below a history edge.                        *)
IndexTable ==
    <<N(NoParent, "cur", "8", "deref", 1, 9, FALSE),
      N(1, "cur", "8", "and", 1, 2, FALSE),
      N(2, "prior", "8", "deref", 2, 4, TRUE),
      N(2, "delta", "8", "mult", 1, 3, TRUE)>>

(* A pointer below a pointer, with a field below the address it points to. *)
DeepTable ==
    <<N(NoParent, "cur", "32", "deref", 4, 4, TRUE),
      N(1, "cur", "32BE", "deref", 3, 1, TRUE),
      N(2, "delta", "24BE", "deref", 1, Word - 3, TRUE),
      N(NoParent, "cur", "32", "none", 1, 7, FALSE)>>

MCTables == {PointerTable, IndexTable, DeepTable}

Image(f) == [a \in 0..(Word - 1) |-> IF a \in DOMAIN f THEN f[a] ELSE a % Byte]

(* A pointer to 40, a pointer to IOS's memory and a pointer to 164; the     *)
(* index byte at 9 differs too.                                             *)
MCImages ==
    <<Image([a \in 4..9 |-> <<0, 2, 2, 0, 1, 0>>[a - 3]]),
     Image([a \in 4..9 |-> <<3, 3, 0, 1, 0, 2>>[a - 3]]),
     Image([a \in 4..9 |-> <<2, 2, 1, 0, 3, 3>>[a - 3]])>>
=============================================================================
