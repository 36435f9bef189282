------------------------------ MODULE ChainOps ------------------------------
(***************************************************************************)
(* The arithmetic of the chain walker (source/ra-module/main.c): how raw   *)
(* bytes are packed, how an edge transforms its parent's value, how a node *)
(* combines it with its operand, and which addresses may be read at all.   *)
(* A word is four bytes and wraps.                                         *)
(***************************************************************************)
EXTENDS Naturals, Functions

CONSTANTS
    Bits,      \* bits of a byte (8)
    Mem1End,   \* first address after MEM1 (0x01800000)
    Mem2,      \* first address of MEM2 (0x10000000)
    Mem2End    \* RA_MEM2_SAFE_HI (0x13400000): first address the game cannot own

Byte == 2^Bits

Word == 2^(4 * Bits)

ASSUME OpsAssumption ==
    /\ Bits \in Nat \ {0}
    /\ Mem1End \in Nat /\ Mem2 \in Nat /\ Mem2End \in Nat
    /\ 0 < Mem1End /\ Mem1End < Mem2 /\ Mem2 < Mem2End /\ Mem2End < Word

(* What the provers do not know of exponentiation. *)
ASSUME PowerAssumption ==
    /\ \A k \in 0..(4 * Bits) : 2^k \in Nat \ {0}
    /\ 2^0 = 1 /\ \A k \in 0..(4 * Bits - 1) : 2^(k + 1) = 2 * 2^k
    /\ \A k \in 0..3 : Byte^k \in Nat \ {0}

(* The k-th byte of a value, byte 0 the lowest. *)
ByteOf(v, k) == (v \div Byte^k) % Byte

(* The value whose k-th byte is b[k]. *)
Pack(b) == SumFunction([k \in DOMAIN b |-> b[k] * Byte^k])

(* The first n bytes in reverse order. *)
Swap(v, n) == Pack([k \in 0..(n - 1) |-> ByteOf(v, n - 1 - k)])

ra_chain_xform(v, size) ==
    CASE size = "32" -> v
      [] size = "32BE" -> Swap(v, 4)
      [] size = "8" -> v % Byte
      [] size = "16" -> v % Byte^2
      [] size = "24" -> v % Byte^3
      [] size = "16BE" -> Swap(v, 2)
      [] size = "24BE" -> Swap(v, 3)

Bit(v, k) == (v \div 2^k) % 2

BitByBit(a, b, f(_, _)) ==
    SumFunction([k \in 0..(4 * Bits - 1) |-> f(Bit(a, k), Bit(b, k)) * 2^k])

ra_chain_combine(pv, o, op) ==
    CASE op = "and" -> BitByBit(pv, o, LAMBDA x, y : x * y)
      [] op = "xor" -> BitByBit(pv, o, LAMBDA x, y : (x + y) % 2)
      [] op \in {"add", "addAcc"} -> (pv + o) % Word
      [] op \in {"sub", "subAcc"} -> (Word + pv - o) % Word
      [] op = "subParent" -> (Word + o - pv) % Word
      [] op = "mult" -> (pv * o) % Word
      [] op = "div" -> IF o = 0 THEN 0 ELSE pv \div o
      [] op = "mod" -> IF o = 0 THEN 0 ELSE pv % o

(* mutant: an address near the top of the address space wraps into MEM1 *)
ra_chain_addr_ok_wraps(addr, w) ==
    LET end == (addr + w - 1) % Word
    IN  end < Mem1End \/ (addr >= Mem2 /\ end < Mem2End)

ra_chain_addr_ok(addr, w) ==
    LET end == (addr + w - 1) % Word
    IN  /\ end >= addr
        /\ end < Mem1End \/ (addr >= Mem2 /\ end < Mem2End)

(* The addresses the game can own (the guard of ra_read_ppc_byte). *)
GameMemory == 0..(Mem1End - 1) \cup Mem2..(Mem2End - 1)
=============================================================================
