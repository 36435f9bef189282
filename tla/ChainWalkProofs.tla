--------------------------- MODULE ChainWalkProofs ---------------------------
(***************************************************************************)
(* Proofs about ChainWalk, for every set of chain tables, every content of *)
(* the game's memory, every width of a byte and every size of the buffer   *)
(* that leaves room for a slot.                                            *)
(***************************************************************************)
EXTENDS ChainWalk, InductionLemmas

-----------------------------------------------------------------------------
(* The lists made from a table. *)

Shipped(t) == {i \in DOMAIN t : t[i].ship}
DpPairs(t) == [parent : DOMAIN t, kind : {"delta", "prior"}]

LEMMA TableFacts ==
    ASSUME NEW t \in Tables
    PROVE  /\ t \in Seq(ChainNode) /\ Len(t) \in Nat /\ DOMAIN t = 1 .. Len(t)
           /\ \A i \in DOMAIN t : t[i] \in ChainNode /\ t[i].parent < i /\ t[i].parent \in Nat
<1>1. t \in Seq(ChainNode) /\ \A i \in DOMAIN t : t[i].parent < i
  BY ChainAssumption
<1>2. Len(t) \in Nat /\ DOMAIN t = 1 .. Len(t)
  BY <1>1
<1>3. \A i \in DOMAIN t : t[i] \in ChainNode
  BY <1>1
<1>4. QED
  BY <1>1, <1>2, <1>3 DEF ChainNode

LEMMA ShipType ==
    ASSUME NEW t \in Tables
    PROVE  ShipNode(t) \in Seq(Shipped(t))
<1> DEFINE part(i) == IF t[i].ship THEN <<i>> ELSE <<>>
           parts == [i \in DOMAIN t |-> part(i)]
<1>1. ASSUME NEW i \in DOMAIN t PROVE part(i) \in Seq(Shipped(t))
  <2>1. CASE t[i].ship
    BY <2>1 DEF Shipped
  <2>2. CASE ~t[i].ship
    BY <2>2
  <2>3. QED
    BY <2>1, <2>2
<1> HIDE DEF part
<1>2. parts \in Seq(Seq(Shipped(t)))
  BY <1>1, TableFacts
<1>3. FlattenSeq(parts) \in Seq(Shipped(t))
  BY <1>2, FlattenType
<1>4. QED
  BY <1>3 DEF ShipNode, part

LEMMA DpType ==
    ASSUME NEW t \in Tables
    PROVE  DpList(t) \in Seq(DpPairs(t))
<1> DEFINE pair(i) == [parent |-> t[i].parent, kind |-> t[i].dp]
           first(i) == DpEdge(t[i]) /\ \A j \in 1..(i - 1) : DpEdge(t[j]) => pair(j) # pair(i)
           part(i) == IF first(i) THEN <<pair(i)>> ELSE <<>>
           parts == [i \in DOMAIN t |-> part(i)]
<1>1. ASSUME NEW i \in DOMAIN t PROVE part(i) \in Seq(DpPairs(t))
  <2>1. CASE first(i)
    <3>1. t[i].parent \in DOMAIN t
      BY <2>1, TableFacts DEF DpEdge, NoParent
    <3>2. t[i].dp \in {"delta", "prior"}
      BY <2>1, TableFacts DEF DpEdge, ChainNode, Edge
    <3>3. pair(i) \in DpPairs(t)
      BY <3>1, <3>2 DEF DpPairs
    <3> HIDE DEF pair, first
    <3>4. QED
      BY <2>1, <3>3
  <2>2. CASE ~first(i)
    BY <2>2
  <2>3. QED
    BY <2>1, <2>2
<1> HIDE DEF part
<1>2. parts \in Seq(Seq(DpPairs(t)))
  BY <1>1, TableFacts
<1>3. FlattenSeq(parts) \in Seq(DpPairs(t))
  BY <1>2, FlattenType
<1>4. QED
  BY <1>3 DEF DpList, part

-----------------------------------------------------------------------------
(* A bounded set of numbers has a greatest one. *)
LEMMA GreatestExists ==
    ASSUME NEW n \in Nat, NEW S \in SUBSET (0 .. n), S # {}
    PROVE  \E x \in S : \A y \in S : x >= y
<1> DEFINE T == {m \in Nat : \A R \in SUBSET (0 .. m) :
                                R # {} => \E x \in R : \A y \in R : x >= y}
<1>1. 0 \in T
  <2>1. SUFFICES ASSUME NEW R \in SUBSET (0 .. 0), R # {}
                 PROVE  \E x \in R : \A y \in R : x >= y
    OBVIOUS
  <2>2. PICK x \in R : TRUE
    BY <2>1
  <2>3. \A y \in R : y = 0
    OBVIOUS
  <2>4. QED
    BY <2>2, <2>3
<1>2. ASSUME NEW m \in T PROVE m + 1 \in T
  <2>1. SUFFICES ASSUME NEW R \in SUBSET (0 .. m + 1), R # {}
                 PROVE  \E x \in R : \A y \in R : x >= y
    OBVIOUS
  <2>2. CASE m + 1 \in R
    BY <2>2
  <2>3. CASE m + 1 \notin R
    <3>1. R \in SUBSET (0 .. m)
      BY <2>3
    <3>2. QED
      BY <2>1, <3>1
  <2>4. QED
    BY <2>2, <2>3
<1> HIDE DEF T
<1>3. T = Nat
  <2>1. T \in SUBSET Nat
    BY DEF T
  <2>2. QED
    BY <1>1, <1>2, <2>1, SetInduction
<1>4. n \in T
  BY <1>3
<1>5. QED
  BY <1>4 DEF T

LEMMA MaxIs ==
    ASSUME NEW n \in Nat, NEW S \in SUBSET (0 .. n), S # {}
    PROVE  Max(S) \in S /\ \A y \in S : Max(S) >= y
BY GreatestExists DEF Max

-----------------------------------------------------------------------------
(* The types of the arithmetic. *)

LEMMA Units ==
    /\ Byte \in Nat \ {0} /\ Word \in Nat \ {0} /\ 4 * Bits \in Nat /\ 4 * Bits - 1 \in Nat
    /\ Word >= 4
<1>1. Bits \in 0 .. 4 * Bits /\ 4 * Bits \in 0 .. 4 * Bits /\ 4 * Bits \in Nat
  BY OpsAssumption
<1>2. 2^Bits \in Nat \ {0} /\ 2^(4 * Bits) \in Nat \ {0}
  BY <1>1, PowerAssumption
<1>3. Byte \in Nat \ {0} /\ Word \in Nat \ {0}
  BY <1>2 DEF Byte, Word
<1>4. QED
  BY <1>1, <1>3, OpsAssumption

LEMMA ByteOfType ==
    ASSUME NEW v \in Nat, NEW k \in 0 .. 3
    PROVE  ByteOf(v, k) \in Nat
<1>1. Byte^k \in Nat \ {0} /\ Byte \in Nat \ {0}
  BY PowerAssumption, Units
<1>2. PICK p \in Nat \ {0} : p = Byte^k
  BY <1>1
<1>3. v \div p \in Nat
  OBVIOUS
<1>4. (v \div p) % Byte \in Nat
  BY <1>1, <1>3
<1>5. QED
  BY <1>2, <1>4 DEF ByteOf

LEMMA PackType ==
    ASSUME NEW n \in 1 .. 4, NEW b \in [0 .. n - 1 -> Nat]
    PROVE  Pack(b) \in Nat
<1> DEFINE w == [k \in 0 .. n - 1 |-> b[k] * Byte^k]
<1>1. ASSUME NEW k \in 0 .. n - 1 PROVE b[k] * Byte^k \in Nat
  <2>1. k \in 0 .. 3 /\ Byte^k \in Nat
    BY k \in 0 .. 3, PowerAssumption
  <2>2. PICK p \in Nat : p = Byte^k
    BY <2>1
  <2>3. PICK c \in Nat : c = b[k]
    OBVIOUS
  <2>4. c * p \in Nat
    OBVIOUS
  <2>5. QED
    BY <2>2, <2>3, <2>4
<1>2. w \in [0 .. n - 1 -> Nat]
  BY <1>1
<1>3. IsFiniteSet(0 .. n - 1)
  BY FS_Interval
<1>4. SumFunction(w) \in Nat
  BY <1>2, <1>3, SumType
<1>5. DOMAIN b = 0 .. n - 1
  OBVIOUS
<1>6. QED
  BY <1>4, <1>5 DEF Pack

LEMMA SwapType ==
    ASSUME NEW v \in Nat, NEW n \in 1 .. 4
    PROVE  Swap(v, n) \in Nat
<1> DEFINE b == [k \in 0 .. n - 1 |-> ByteOf(v, n - 1 - k)]
<1>1. ASSUME NEW k \in 0 .. n - 1 PROVE ByteOf(v, n - 1 - k) \in Nat
  BY n - 1 - k \in 0 .. 3, ByteOfType
<1>2. b \in [0 .. n - 1 -> Nat]
  BY <1>1
<1> HIDE DEF b
<1>3. Pack(b) \in Nat
  BY <1>2, PackType
<1>4. QED
  BY <1>3 DEF Swap, b

LEMMA XformType ==
    ASSUME NEW v \in Nat, NEW size \in Size
    PROVE  ra_chain_xform(v, size) \in Nat
<1>1. v % Byte \in Nat /\ v % Byte^2 \in Nat /\ v % Byte^3 \in Nat
  <2>1. Byte^2 \in Nat \ {0} /\ Byte^3 \in Nat \ {0} /\ Byte \in Nat \ {0}
    BY PowerAssumption, Units
  <2>2. PICK p \in Nat \ {0}, q \in Nat \ {0} : p = Byte^2 /\ q = Byte^3
    BY <2>1
  <2>3. v % p \in Nat /\ v % q \in Nat /\ v % Byte \in Nat
    BY <2>1
  <2>4. QED
    BY <2>2, <2>3
<1>2. Swap(v, 2) \in Nat /\ Swap(v, 3) \in Nat /\ Swap(v, 4) \in Nat
  BY SwapType
<1>3. QED
  BY <1>1, <1>2 DEF ra_chain_xform, Size

LEMMA BitType ==
    ASSUME NEW v \in Nat, NEW k \in 0 .. 4 * Bits - 1
    PROVE  Bit(v, k) \in Nat
<1>1. 2^k \in Nat \ {0}
  BY PowerAssumption, Units
<1>2. PICK p \in Nat \ {0} : p = 2^k
  BY <1>1
<1>3. (v \div p) % 2 \in Nat
  OBVIOUS
<1>4. QED
  BY <1>2, <1>3 DEF Bit

LEMMA BitSumType ==
    ASSUME NEW c \in [0 .. 4 * Bits - 1 -> Nat]
    PROVE  SumFunction([k \in 0..(4 * Bits - 1) |-> c[k] * 2^k]) \in Nat
<1>1. ASSUME NEW k \in 0 .. 4 * Bits - 1 PROVE c[k] * 2^k \in Nat
  <2>1. 2^k \in Nat
    BY PowerAssumption, Units
  <2>2. PICK p \in Nat, d \in Nat : p = 2^k /\ d = c[k]
    BY <2>1
  <2>3. d * p \in Nat
    OBVIOUS
  <2>4. QED
    BY <2>2, <2>3
<1>2. [k \in 0..(4 * Bits - 1) |-> c[k] * 2^k] \in [0 .. 4 * Bits - 1 -> Nat]
  BY <1>1
<1>3. IsFiniteSet(0 .. 4 * Bits - 1)
  BY Units, FS_Interval
<1>4. QED
  BY <1>2, <1>3, SumType

LEMMA CombineType ==
    ASSUME NEW pv \in Nat, NEW o \in 0 .. Word - 1, NEW op \in Combine
    PROVE  ra_chain_combine(pv, o, op) \in Nat
<1> DEFINE both == [k \in 0 .. 4 * Bits - 1 |-> Bit(pv, k) * Bit(o, k)]
           one == [k \in 0 .. 4 * Bits - 1 |-> (Bit(pv, k) + Bit(o, k)) % 2]
<1>1. ASSUME NEW k \in 0 .. 4 * Bits - 1
      PROVE  Bit(pv, k) * Bit(o, k) \in Nat /\ (Bit(pv, k) + Bit(o, k)) % 2 \in Nat
  <2>1. PICK x \in Nat, y \in Nat : x = Bit(pv, k) /\ y = Bit(o, k)
    BY BitType
  <2>2. x * y \in Nat /\ (x + y) % 2 \in Nat
    OBVIOUS
  <2>3. QED
    BY <2>1, <2>2
<1>2. both \in [0 .. 4 * Bits - 1 -> Nat] /\ one \in [0 .. 4 * Bits - 1 -> Nat]
  BY <1>1
<1>3. CASE op = "and"
  <2>1. SumFunction([k \in 0..(4 * Bits - 1) |-> both[k] * 2^k]) \in Nat
    BY <1>2, BitSumType
  <2>2. [k \in 0..(4 * Bits - 1) |-> both[k] * 2^k]
        = [k \in 0..(4 * Bits - 1) |-> (Bit(pv, k) * Bit(o, k)) * 2^k]
    OBVIOUS
  <2>3. ra_chain_combine(pv, o, op) = BitByBit(pv, o, LAMBDA x, y : x * y)
    BY <1>3 DEF ra_chain_combine
  <2>4. QED
    BY <2>1, <2>2, <2>3 DEF BitByBit
<1>4. CASE op = "xor"
  <2>1. SumFunction([k \in 0..(4 * Bits - 1) |-> one[k] * 2^k]) \in Nat
    BY <1>2, BitSumType
  <2>2. [k \in 0..(4 * Bits - 1) |-> one[k] * 2^k]
        = [k \in 0..(4 * Bits - 1) |-> ((Bit(pv, k) + Bit(o, k)) % 2) * 2^k]
    OBVIOUS
  <2>3. ra_chain_combine(pv, o, op) = BitByBit(pv, o, LAMBDA x, y : (x + y) % 2)
    BY <1>4 DEF ra_chain_combine
  <2>4. QED
    BY <2>1, <2>2, <2>3 DEF BitByBit
<1>5. ASSUME op \notin {"and", "xor"}
      PROVE  ra_chain_combine(pv, o, op) \in Nat
  <2>1. Word \in Nat \ {0} /\ o \in Nat
    BY Units
  <2>2. /\ (pv + o) % Word \in Nat /\ (Word + pv - o) % Word \in Nat
        /\ (Word + o - pv) % Word \in Nat
    BY <2>1
  <2>3. PICK c \in Nat : c = pv * o
    BY <2>1
  <2>4. c % Word \in Nat
    BY <2>1
  <2>5. o # 0 => pv \div o \in Nat /\ pv % o \in Nat
    BY <2>1
  <2>6. QED
    BY <1>5, <2>2, <2>3, <2>4, <2>5 DEF ra_chain_combine, Combine
<1>6. QED
  BY <1>3, <1>4, <1>5

-----------------------------------------------------------------------------
(* The walk, node by node. *)

NodeStates ==
    [value : [Nodes -> Nat], prev : [Nodes -> Nat], prior : [Nodes -> Nat],
     valid : [Nodes -> BOOLEAN]]

IsImage(image) == \A a \in GameMemory : image[a] \in Nat

SameAt(p, q, j) ==
    p.value[j] = q.value[j] /\ p.prev[j] = q.prev[j] /\ p.prior[j] = q.prior[j]
    /\ p.valid[j] = q.valid[j]

LEMMA ImageFacts ==
    ASSUME NEW m \in DOMAIN Images
    PROVE  IsImage(Images[m])
BY ChainAssumption, Units DEF IsImage

LEMMA ParentValueType ==
    ASSUME table \in Tables, NEW st \in NodeStates, NEW i \in Nodes
    PROVE  ParentValue(st, table[i]) \in Nat
<1> DEFINE n == table[i]
<1>1. n \in ChainNode /\ n.parent \in Nat /\ n.parent < i /\ i \in Nodes /\ Nodes = 1 .. Len(table)
      /\ Len(table) \in Nat
  BY TableFacts DEF Nodes
<1> HIDE DEF n
<1>2. CASE n.parent # NoParent /\ EdgeResolves(st, n)
  <2>1. n.parent \in Nodes
    BY <1>1, <1>2 DEF NoParent
  <2>2. n.dp \in Edge /\ n.psize \in Size
    BY <1>1 DEF ChainNode
  <2>3. ParentRaw(st, n) \in Nat
    BY <2>1, <2>2 DEF ParentRaw, Edge, NodeStates
  <2>4. ra_chain_xform(ParentRaw(st, n), n.psize) \in Nat
    BY <2>2, <2>3, XformType
  <2>5. QED
    BY <1>2, <2>4 DEF ParentValue, n
<1>3. CASE ~(n.parent # NoParent /\ EdgeResolves(st, n))
  BY <1>3 DEF ParentValue, n
<1>4. QED
  BY <1>2, <1>3

LEMMA ReadType ==
    ASSUME NEW image, IsImage(image), NEW a
    PROVE  ra_read_ppc_byte(image, a) \in Nat
BY DEF ra_read_ppc_byte, IsImage

LEMMA FoundType ==
    ASSUME NEW n \in ChainNode, NEW pv \in Nat, NEW ok \in BOOLEAN, NEW image, IsImage(image)
    PROVE  Found(n, ok, pv, image) \in Nat
<1> DEFINE addr == Address(n, pv)
           b == [k \in 0 .. n.w - 1 |-> ra_read_ppc_byte(image, addr + k)]
<1>1. n.w \in 1 .. 4 /\ n.op \in {"none", "deref"} \cup Combine /\ n.operand \in 0 .. Word - 1
      /\ n.operand \in Nat
  BY Units DEF ChainNode
<1> HIDE DEF addr
<1>2. b \in [0 .. n.w - 1 -> Nat]
  BY ReadType
<1>3. Pack(b) \in Nat
  BY <1>1, <1>2, PackType
<1>4. n.op \in Combine => ra_chain_combine(pv, n.operand, n.op) \in Nat
  BY <1>1, CombineType
<1>5. Found(n, ok, pv, image) = IF n.op = "none" THEN n.operand
                                ELSE IF ~ok THEN 0
                                ELSE IF n.op = "deref" THEN Pack(b)
                                ELSE ra_chain_combine(pv, n.operand, n.op)
  BY DEF Found, addr
<1> HIDE DEF b
<1>6. QED
  BY <1>1, <1>3, <1>4, <1>5

LEMMA RecordIs ==
    ASSUME NEW st \in NodeStates, NEW i \in Nodes, NEW v \in Nat, NEW ok \in BOOLEAN
    PROVE  \E r \in NodeStates :
              /\ Record(st, i, v, ok) = r
              /\ r.value[i] = v /\ r.prev[i] = st.value[i] /\ r.valid[i] = ok
              /\ r.prior[i] = IF v # st.value[i] THEN st.value[i] ELSE st.prior[i]
              /\ \A j \in Nodes \ {i} : SameAt(r, st, j)
<1> DEFINE value == [st.value EXCEPT ![i] = v]
           prev == [st.prev EXCEPT ![i] = st.value[i]]
           prior == [st.prior EXCEPT ![i] = IF v # st.value[i] THEN st.value[i] ELSE st.prior[i]]
           valid == [st.valid EXCEPT ![i] = ok]
           r == [value |-> value, prev |-> prev, prior |-> prior, valid |-> valid]
<1>1. /\ st.value \in [Nodes -> Nat] /\ st.prev \in [Nodes -> Nat]
      /\ st.prior \in [Nodes -> Nat] /\ st.valid \in [Nodes -> BOOLEAN]
  BY DEF NodeStates
<1>2. /\ value \in [Nodes -> Nat] /\ value[i] = v
      /\ \A j \in Nodes \ {i} : value[j] = st.value[j]
  BY <1>1
<1>3. /\ prev \in [Nodes -> Nat] /\ prev[i] = st.value[i]
      /\ \A j \in Nodes \ {i} : prev[j] = st.prev[j]
  BY <1>1
<1>4. /\ prior \in [Nodes -> Nat]
      /\ prior[i] = IF v # st.value[i] THEN st.value[i] ELSE st.prior[i]
      /\ \A j \in Nodes \ {i} : prior[j] = st.prior[j]
  BY <1>1
<1>5. /\ valid \in [Nodes -> BOOLEAN] /\ valid[i] = ok
      /\ \A j \in Nodes \ {i} : valid[j] = st.valid[j]
  BY <1>1
<1>6. Record(st, i, v, ok) = r
  BY DEF Record
<1> HIDE DEF value, prev, prior, valid
<1>7. r \in NodeStates
  BY <1>2, <1>3, <1>4, <1>5 DEF NodeStates
<1>8. /\ r.value = value /\ r.prev = prev /\ r.prior = prior /\ r.valid = valid
  OBVIOUS
<1> HIDE DEF r
<1>9. \A j \in Nodes \ {i} : SameAt(r, st, j)
  BY <1>2, <1>3, <1>4, <1>5, <1>8 DEF SameAt
<1>10. QED
  BY <1>2, <1>3, <1>4, <1>5, <1>6, <1>7, <1>8, <1>9

(* What a visit makes of node i; the other nodes stay as they are. *)
Visited(st, r, i, image) ==
    LET n == table[i]
        pv == ParentValue(st, n)
        ok == Resolves(st, n, pv)
        v == Found(n, ok, pv, image)
    IN  /\ r.value[i] = v /\ r.prev[i] = st.value[i] /\ r.valid[i] = ok
        /\ r.prior[i] = IF v # st.value[i] THEN st.value[i] ELSE st.prior[i]
        /\ \A j \in Nodes \ {i} : SameAt(r, st, j)

LEMMA VisitIs ==
    ASSUME table \in Tables, NEW st \in NodeStates, NEW i \in Nodes, NEW image, IsImage(image)
    PROVE  \E r \in NodeStates : Visit(st, i, image) = r /\ Visited(st, r, i, image)
<1>1. PICK n \in ChainNode : n = table[i]
  BY TableFacts DEF Nodes
<1>2. PICK pv \in Nat : pv = ParentValue(st, n)
  BY <1>1, ParentValueType
<1>3. Resolves(st, n, pv) \in BOOLEAN
  BY DEF Resolves
<1>4. PICK ok \in BOOLEAN : ok = Resolves(st, n, pv)
  BY <1>3
<1>5. PICK v \in Nat : v = Found(n, ok, pv, image)
  BY FoundType
<1>6. PICK r \in NodeStates :
              /\ Record(st, i, v, ok) = r
              /\ r.value[i] = v /\ r.prev[i] = st.value[i] /\ r.valid[i] = ok
              /\ r.prior[i] = IF v # st.value[i] THEN st.value[i] ELSE st.prior[i]
              /\ \A j \in Nodes \ {i} : SameAt(r, st, j)
  BY RecordIs
<1>7. Visit(st, i, image) = r
  BY <1>1, <1>2, <1>4, <1>5, <1>6, Zenon DEF Visit
<1>8. Visited(st, r, i, image)
  BY <1>1, <1>2, <1>4, <1>5, <1>6, Zenon DEF Visited
<1>9. QED
  BY <1>7, <1>8

Sights == [Nodes -> DOMAIN Images]

IsWalk(sees, f) ==
    f = [i \in 0..Len(table) |-> IF i = 0 THEN node ELSE Visit(f[i - 1], i, Images[sees[i]])]

LEMMA WalkExists ==
    ASSUME table \in Tables, NEW sees
    PROVE  \E f : IsWalk(sees, f)
<1> DEFINE Step(f, n) ==
               \A i \in 0 .. n : f[i] = IF i = 0 THEN node ELSE Visit(f[i - 1], i, Images[sees[i]])
           S == {n \in Nat : \E f : f = [i \in 0 .. n |-> f[i]] /\ Step(f, n)}
<1>1. 0 \in S
  <2> DEFINE f == [i \in 0 .. 0 |-> node]
  <2>1. f = [i \in 0 .. 0 |-> f[i]] /\ Step(f, 0)
    OBVIOUS
  <2>2. QED
    BY <2>1
<1>2. ASSUME NEW n \in S PROVE n + 1 \in S
  <2>1. PICK f : f = [i \in 0 .. n |-> f[i]] /\ Step(f, n)
    OBVIOUS
  <2> DEFINE last == Visit(f[n], n + 1, Images[sees[n + 1]])
             h == [i \in 0 .. n + 1 |-> IF i = n + 1 THEN last ELSE f[i]]
  <2>2. h[n + 1] = last /\ \A i \in 0 .. n : h[i] = f[i]
    OBVIOUS
  <2>3. h = [i \in 0 .. n + 1 |-> h[i]]
    OBVIOUS
  <2> HIDE DEF h
  <2>4. ASSUME NEW i \in 0 .. n + 1
        PROVE  h[i] = IF i = 0 THEN node ELSE Visit(h[i - 1], i, Images[sees[i]])
    <3>1. CASE i = n + 1
      <4>1. i # 0 /\ i - 1 = n /\ n \in 0 .. n
        BY <3>1
      <4>2. QED
        BY <3>1, <4>1, <2>2
    <3>2. CASE i \in 0 .. n
      <4>1. i # 0 => i - 1 \in 0 .. n
        BY <3>2
      <4>2. QED
        BY <3>2, <4>1, <2>1, <2>2
    <3>3. QED
      BY <3>1, <3>2
  <2>5. Step(h, n + 1)
    BY <2>4
  <2> HIDE DEF Step
  <2>6. n + 1 \in Nat /\ \E g : g = [i \in 0 .. n + 1 |-> g[i]] /\ Step(g, n + 1)
    BY <2>3, <2>5
  <2>7. QED
    BY <2>6
<1> HIDE DEF S
<1>3. Len(table) \in S
  <2>1. S \in SUBSET Nat
    BY DEF S
  <2>2. S = Nat
    BY <1>1, <1>2, <2>1, SetInduction
  <2>3. QED
    BY <2>2, TableFacts
<1>4. PICK f : f = [i \in 0 .. Len(table) |-> f[i]] /\ Step(f, Len(table))
  BY <1>3 DEF S
<1> HIDE DEF Step
<1>5. f = [i \in 0..Len(table) |-> IF i = 0 THEN node ELSE Visit(f[i - 1], i, Images[sees[i]])]
  BY <1>4 DEF Step
<1>6. QED
  BY <1>5 DEF IsWalk

(* The states between the visits of a walk. *)
Pass(sees, g) ==
    /\ g[0] = node
    /\ \A i \in Nodes : Visited(g[i - 1], g[i], i, Images[sees[i]])

LEMMA WalkIs ==
    ASSUME table \in Tables, node \in NodeStates, NEW sees \in Sights
    PROVE  \E g : /\ \A i \in 0 .. Len(table) : g[i] \in NodeStates
                  /\ Pass(sees, g)
                  /\ ra_chain_walk(sees) = g[Len(table)]
<1> DEFINE g == CHOOSE f : IsWalk(sees, f)
<1>1. IsWalk(sees, g)
  BY WalkExists
<1>2. ra_chain_walk(sees) = g[Len(table)]
  BY DEF ra_chain_walk, IsWalk
<1> HIDE DEF g
<1>3. Len(table) \in Nat /\ Nodes = 1 .. Len(table)
  BY TableFacts DEF Nodes
<1>4. \A i \in 0 .. Len(table) :
         g[i] = IF i = 0 THEN node ELSE Visit(g[i - 1], i, Images[sees[i]])
  BY <1>1 DEF IsWalk
<1>5. g[0] = node
  BY <1>3, <1>4
<1>6. \A i \in Nodes : IsImage(Images[sees[i]])
  BY ImageFacts DEF Sights
<1>7. ASSUME NEW i \in Nodes, g[i - 1] \in NodeStates
      PROVE  g[i] \in NodeStates /\ Visited(g[i - 1], g[i], i, Images[sees[i]])
  <2>1. PICK r \in NodeStates : /\ Visit(g[i - 1], i, Images[sees[i]]) = r
                                /\ Visited(g[i - 1], r, i, Images[sees[i]])
    BY <1>6, <1>7, VisitIs
  <2>2. g[i] = Visit(g[i - 1], i, Images[sees[i]])
    BY <1>3, <1>4
  <2>3. QED
    BY <2>1, <2>2
<1> DEFINE S == {j \in Nat : j <= Len(table) => g[j] \in NodeStates}
<1>8. 0 \in S
  BY <1>5
<1>9. ASSUME NEW j \in S PROVE j + 1 \in S
  <2>1. SUFFICES ASSUME j + 1 <= Len(table) PROVE g[j + 1] \in NodeStates
    OBVIOUS
  <2>2. j + 1 \in Nodes /\ (j + 1) - 1 = j /\ g[j] \in NodeStates
    BY <1>3, <2>1
  <2>3. QED
    BY <1>7, <2>2
<1> HIDE DEF S
<1>10. \A i \in 0 .. Len(table) : g[i] \in NodeStates
  <2>1. S \in SUBSET Nat
    BY DEF S
  <2>2. S = Nat
    BY <1>8, <1>9, <2>1, SetInduction
  <2>3. QED
    BY <1>3, <2>2 DEF S
<1>11. Pass(sees, g)
  <2>1. \A i \in Nodes : g[i - 1] \in NodeStates
    BY <1>3, <1>10
  <2>2. QED
    BY <1>5, <1>7, <2>1 DEF Pass
<1>12. QED
  BY <1>2, <1>10, <1>11

(* A node keeps its old state until it is visited, and its new one from then on. *)
LEMMA WalkStable ==
    ASSUME table \in Tables, NEW sees, NEW g, Pass(sees, g)
    PROVE  \A j \in 0 .. Len(table), i \in Nodes :
              /\ j < i => SameAt(g[j], node, i)
              /\ i <= j => SameAt(g[j], g[i], i)
<1> DEFINE Stable(j) == \A i \in Nodes : /\ j < i => SameAt(g[j], node, i)
                                         /\ i <= j => SameAt(g[j], g[i], i)
           S == {j \in Nat : j <= Len(table) => Stable(j)}
<1>1. Len(table) \in Nat /\ Nodes = 1 .. Len(table)
  BY TableFacts DEF Nodes
<1>2. 0 \in S
  BY <1>1 DEF Pass, SameAt
<1>3. ASSUME NEW j \in S PROVE j + 1 \in S
  <2>1. SUFFICES ASSUME j + 1 <= Len(table), NEW i \in Nodes
                 PROVE  /\ j + 1 < i => SameAt(g[j + 1], node, i)
                        /\ i <= j + 1 => SameAt(g[j + 1], g[i], i)
    OBVIOUS
  <2>2. Stable(j) /\ j + 1 \in Nodes /\ (j + 1) - 1 = j
    BY <1>1, <2>1
  <2>3. \A k \in Nodes \ {j + 1} : SameAt(g[j + 1], g[j], k)
    BY <2>2 DEF Pass, Visited
  <2>4. CASE i = j + 1
    BY <2>4 DEF SameAt
  <2>5. CASE i # j + 1
    <3>1. SameAt(g[j + 1], g[j], i)
      BY <2>3, <2>5
    <3>2. j + 1 < i => j < i
      BY <1>1
    <3>3. i <= j + 1 => i <= j
      BY <1>1, <2>5
    <3>4. QED
      BY <2>2, <3>1, <3>2, <3>3 DEF SameAt
  <2>6. QED
    BY <2>4, <2>5
<1> HIDE DEF S
<1>4. S = Nat
  <2>1. S \in SUBSET Nat
    BY DEF S
  <2>2. QED
    BY <1>2, <1>3, <2>1, SetInduction
<1>5. QED
  BY <1>1, <1>4 DEF S

(* A visit looks at the parent only. *)
LEMMA SameParent ==
    ASSUME NEW p, NEW q, NEW n, n.dp \in Edge, n.parent # NoParent => SameAt(p, q, n.parent)
    PROVE  /\ ParentValue(p, n) = ParentValue(q, n)
           /\ EdgeResolves(p, n) = EdgeResolves(q, n)
<1>1. n.parent # NoParent => ParentRaw(p, n) = ParentRaw(q, n)
  BY DEF ParentRaw, SameAt, Edge
<1>2. EdgeResolves(p, n) = EdgeResolves(q, n)
  BY DEF EdgeResolves, SameAt
<1>3. QED
  BY <1>1, <1>2 DEF ParentValue

(* What a walk leaves, said of the walk's result alone. *)
Walked(sees, w) ==
    \A i \in Nodes :
        LET n == table[i]
            pv == ParentValue(w, n)
            ok == Resolves(w, n, pv)
        IN  /\ w.value[i] = Found(n, ok, pv, Images[sees[i]])
            /\ w.valid[i] = ok
            /\ w.prev[i] = node.value[i]
            /\ w.prior[i] = IF w.value[i] # node.value[i] THEN node.value[i] ELSE node.prior[i]

LEMMA WalkMeans ==
    ASSUME table \in Tables, node \in NodeStates, NEW sees \in Sights
    PROVE  \E w \in NodeStates : ra_chain_walk(sees) = w /\ Walked(sees, w)
<1>1. PICK g : /\ \A i \in 0 .. Len(table) : g[i] \in NodeStates
               /\ Pass(sees, g)
               /\ ra_chain_walk(sees) = g[Len(table)]
  BY WalkIs
<1>2. Len(table) \in Nat /\ Nodes = 1 .. Len(table)
  BY TableFacts DEF Nodes
<1>3. PICK w \in NodeStates : w = g[Len(table)]
  BY <1>1, <1>2
<1>4. ASSUME NEW i \in Nodes
      PROVE  /\ SameAt(g[i - 1], node, i) /\ SameAt(w, g[i], i)
             /\ table[i].parent # NoParent => SameAt(g[i - 1], w, table[i].parent)
             /\ Visited(g[i - 1], g[i], i, Images[sees[i]]) /\ table[i].dp \in Edge
  <2>1. i - 1 \in 0 .. Len(table) /\ i - 1 < i /\ Len(table) \in 0 .. Len(table) /\ i <= Len(table)
    BY <1>2
  <2>2. SameAt(g[i - 1], node, i) /\ SameAt(w, g[i], i)
    BY <1>1, <1>3, <2>1, WalkStable
  <2>3. ASSUME table[i].parent # NoParent PROVE SameAt(g[i - 1], w, table[i].parent)
    <3>1. PICK p \in Nodes : p = table[i].parent /\ p <= i - 1 /\ p <= Len(table)
      BY <1>2, <2>3, TableFacts DEF NoParent
    <3>2. SameAt(g[i - 1], g[p], p) /\ SameAt(w, g[p], p)
      BY <1>1, <1>3, <2>1, <3>1, WalkStable
    <3>3. QED
      BY <3>1, <3>2 DEF SameAt
  <2>4. table[i].dp \in Edge
    BY TableFacts DEF Nodes, ChainNode
  <2>5. QED
    BY <1>1, <2>2, <2>3, <2>4 DEF Pass
<1>5. ASSUME NEW i \in Nodes
      PROVE  LET n == table[i]
                 pv == ParentValue(w, n)
                 ok == Resolves(w, n, pv)
             IN  /\ w.value[i] = Found(n, ok, pv, Images[sees[i]])
                 /\ w.valid[i] = ok
                 /\ w.prev[i] = node.value[i]
                 /\ w.prior[i] = IF w.value[i] # node.value[i] THEN node.value[i]
                                 ELSE node.prior[i]
  <2>1. PICK n, u : n = table[i] /\ u = g[i - 1]
    OBVIOUS
  <2>2. PICK pv : pv = ParentValue(u, n)
    OBVIOUS
  <2>3. pv = ParentValue(w, n) /\ EdgeResolves(u, n) = EdgeResolves(w, n)
    BY <1>4, <2>1, <2>2, SameParent
  <2>4. Resolves(u, n, pv) = Resolves(w, n, pv)
    BY <2>3 DEF Resolves
  <2>5. /\ g[i].value[i] = Found(n, Resolves(u, n, pv), pv, Images[sees[i]])
        /\ g[i].valid[i] = Resolves(u, n, pv)
        /\ g[i].prev[i] = u.value[i]
        /\ g[i].prior[i] = IF g[i].value[i] # u.value[i] THEN u.value[i] ELSE u.prior[i]
    BY <1>4, <2>1, <2>2 DEF Visited
  <2>6. /\ w.value[i] = g[i].value[i] /\ w.valid[i] = g[i].valid[i] /\ w.prev[i] = g[i].prev[i]
        /\ w.prior[i] = g[i].prior[i] /\ u.value[i] = node.value[i] /\ u.prior[i] = node.prior[i]
    BY <1>4, <2>1 DEF SameAt
  <2>7. /\ w.value[i] = Found(n, Resolves(w, n, pv), pv, Images[sees[i]])
        /\ w.valid[i] = Resolves(w, n, pv)
    BY <2>4, <2>5, <2>6, Zenon
  <2>8. /\ w.prev[i] = node.value[i]
        /\ w.prior[i] = IF w.value[i] # node.value[i] THEN node.value[i] ELSE node.prior[i]
    BY <2>5, <2>6
  <2>9. QED
    BY <2>1, <2>3, <2>7, <2>8, Zenon
<1>6. Walked(sees, w)
  BY <1>5 DEF Walked
<1>7. QED
  BY <1>1, <1>3, <1>6

-----------------------------------------------------------------------------
(* The window and its bytes. *)

TableInv ==
    table \in Tables /\ ship = ShipNode(table) /\ dpList = DpList(table)

LEMMA BitmapFacts ==
    /\ \A n \in Nat : BitmapBytes(n) \in Nat
    /\ BitmapBytes(0) = 0
<1>1. Bits \in Nat \ {0}
  BY OpsAssumption
<1>2. ASSUME NEW n \in Nat PROVE BitmapBytes(n) \in Nat
  <2>1. PICK m \in Nat : m = n + Bits - 1
    BY <1>1
  <2>2. m \div Bits \in Nat
    BY <1>1
  <2>3. QED
    BY <2>1, <2>2 DEF BitmapBytes
<1>3. BitmapBytes(0) = 0
  <2>1. Bits - 1 \in Nat /\ Bits - 1 = 0 * Bits + (Bits - 1) /\ Bits - 1 < Bits
    BY <1>1
  <2>2. (Bits - 1) \div Bits = 0
    BY <1>1, <2>1, Division
  <2>3. 0 + Bits - 1 = Bits - 1
    BY <1>1
  <2>4. QED
    BY <2>2, <2>3 DEF BitmapBytes
<1>4. QED
  BY <1>2, <1>3

LEMMA ListFacts ==
    ASSUME TableInv
    PROVE  /\ Len(ship) \in Nat /\ DOMAIN ship = 1 .. Len(ship)
           /\ \A s \in 1 .. Len(ship) : ship[s] \in Nodes /\ table[ship[s]].ship
           /\ Len(dpList) \in Nat /\ DOMAIN dpList = 1 .. Len(dpList)
           /\ \A k \in DOMAIN dpList : dpList[k].parent \in Nodes
           /\ DpBytes(dpList) \in Nat
<1>1. ship \in Seq(Shipped(table)) /\ dpList \in Seq(DpPairs(table))
  BY ShipType, DpType DEF TableInv
<1>2. Len(ship) \in Nat /\ DOMAIN ship = 1 .. Len(ship) /\ \A s \in 1 .. Len(ship) : ship[s] \in Shipped(table)
  BY <1>1
<1>3. Len(dpList) \in Nat /\ DOMAIN dpList = 1 .. Len(dpList)
      /\ \A k \in DOMAIN dpList : dpList[k] \in DpPairs(table)
  BY <1>1
<1>4. BitmapBytes(Len(dpList)) \in Nat
  BY <1>3, BitmapFacts
<1>5. DpBytes(dpList) \in Nat
  BY <1>3, <1>4 DEF DpBytes
<1>6. QED
  BY <1>2, <1>3, <1>5 DEF Shipped, DpPairs, Nodes

LEMMA BlobFacts ==
    ASSUME TableInv, NEW first \in 1 .. Len(ship), NEW count \in 0 .. Len(ship) - first + 1
    PROVE  /\ Blob(first, count) \in Nat
           /\ count = 0 => Blob(first, count) = 0
           /\ count = 1 => Blob(first, count) = table[ship[first]].w
<1> DEFINE D == first .. (first + count - 1)
           w == [s \in D |-> table[ship[s]].w]
<1>1. Len(ship) \in Nat /\ first \in Nat /\ count \in Nat
  BY ListFacts
<1>2. ASSUME NEW s \in 1 .. Len(ship) PROVE table[ship[s]].w \in Nat
  <2>1. table \in Tables /\ ship[s] \in DOMAIN table
    BY ListFacts DEF TableInv, Nodes
  <2>2. table[ship[s]] \in ChainNode
    BY <2>1, TableFacts
  <2>3. QED
    BY <2>2 DEF ChainNode
<1>3. D \subseteq 1 .. Len(ship)
  BY <1>1
<1>4. w \in [D -> Nat]
  BY <1>2, <1>3
<1>5. IsFiniteSet(D)
  BY <1>1, FS_Interval
<1>6. Blob(first, count) = SumFunction(w)
  BY DEF Blob
<1>7. SumFunction(w) \in Nat
  BY <1>4, <1>5, SumType
<1>8. ASSUME count = 0 PROVE SumFunction(w) = 0
  <2>1. D = {}
    BY <1>1, <1>8
  <2> HIDE DEF D, w
  <2>2. w \in [{} -> Nat]
    BY <1>4, <2>1
  <2>3. QED
    BY <2>2, SumNone
<1>9. ASSUME count = 1 PROVE SumFunction(w) = table[ship[first]].w
  <2>1. D = {first}
    BY <1>1, <1>9
  <2>2. w[first] = table[ship[first]].w
    BY <2>1
  <2> HIDE DEF D, w
  <2>3. w \in [{first} -> Nat]
    BY <1>4, <2>1
  <2>4. QED
    BY <2>2, <2>3, SumOne
<1>10. QED
  BY <1>6, <1>7, <1>8, <1>9

(* At least one slot fits, and what is taken fits. *)
LEMMA WindowFits ==
    ASSUME TableInv, NEW first \in 1 .. Len(ship), NEW avail \in Int,
           BitmapBytes(1) + table[ship[first]].w <= avail
    PROVE  /\ WindowSize(first, avail) \in 1 .. Len(ship) - first + 1
           /\ BitmapBytes(WindowSize(first, avail)) + Blob(first, WindowSize(first, avail)) <= avail
<1> DEFINE room == Len(ship) - first + 1
           S == {c \in 0..room : BitmapBytes(c) + Blob(first, c) <= avail}
<1>1. room \in Nat /\ 1 \in 0 .. room
  BY ListFacts
<1>2. Blob(first, 1) = table[ship[first]].w
  BY <1>1, BlobFacts
<1>3. S \in SUBSET (0 .. room) /\ 1 \in S
  BY <1>1, <1>2
<1>4. WindowSize(first, avail) = Max(S)
  BY DEF WindowSize
<1>5. PICK n \in Nat : n = room
  BY <1>1
<1> HIDE DEF S, room
<1>6. S # {}
  BY <1>3
<1>7. Max(S) \in S /\ \A y \in S : Max(S) >= y
  BY <1>3, <1>5, <1>6, MaxIs
<1>8. Max(S) \in 0 .. room /\ Max(S) >= 1
  BY <1>3, <1>7
<1>9. QED
  BY <1>1, <1>4, <1>7, <1>8 DEF S, room

(* The cursor is on a slot, and each slot is built within Len(ship)        *)
(* snapshots: its age and its way from the cursor are less together.       *)
Ahead(s) == IF s >= winNext THEN s - winNext ELSE s + Len(ship) - winNext

WindowInv ==
    /\ winNext \in Nat /\ 1 <= winNext /\ (ship # <<>> => winNext <= Len(ship))
    /\ age \in [1 .. Len(ship) -> Nat]
    /\ \A s \in 1 .. Len(ship) : age[s] + Ahead(s) < Len(ship)
    /\ snap.length <= Budget

LEMMA SnapshotIs ==
    ASSUME TableInv, WindowInv, NEW walked, NEW count \in FlatCounts, NEW made,
           made = Snapshot(walked, count)
    PROVE  /\ made.length <= Budget /\ made.dp = DpSection(walked)
           /\ ship # <<>> => made.first = winNext /\ made.count \in 1 .. Len(ship) - winNext + 1
<1>1. /\ Budget \in Nat /\ Headers \in Nat /\ count \in Nat
      /\ Headers + count + DpBytes(dpList) <= Budget
      /\ \A i \in DOMAIN table :
             table[i].ship => Headers + count + DpBytes(dpList) + BitmapBytes(1) + table[i].w <= Budget
  BY ChainAssumption DEF TableInv
<1>2. PICK d \in Nat : d = DpBytes(dpList)
  BY ListFacts
<1>3. Len(ship) \in Nat /\ (ship = <<>> <=> Len(ship) = 0) /\ winNext \in Nat
  <2>1. ship \in Seq(Shipped(table))
    BY ShipType DEF TableInv
  <2>2. QED
    BY <2>1, EmptySeq, ListFacts DEF WindowInv
<1> DEFINE avail == Budget - Headers - count - DpBytes(dpList)
           first == IF winNext <= Len(ship) THEN winNext ELSE 1
           size == IF ship = <<>> THEN 0 ELSE WindowSize(first, avail)
<1>4. /\ made.first = first /\ made.count = size /\ made.dp = DpSection(walked)
      /\ made.length = Headers + count + BitmapBytes(size) + Blob(first, size) + DpBytes(dpList)
  BY DEF Snapshot
<1>5. avail \in Int
  BY <1>1, <1>2
<1>6. CASE ship = <<>>
  <2>1. size = 0 /\ first = 1
    BY <1>3, <1>6 DEF WindowInv
  <2>2. Blob(1, 0) = 0
    <3> DEFINE w == [s \in 1 .. (1 + 0 - 1) |-> table[ship[s]].w]
    <3>1. 1 .. (1 + 0 - 1) = {}
      OBVIOUS
    <3>2. w \in [{} -> Nat]
      BY <3>1
    <3>3. Blob(1, 0) = SumFunction(w)
      BY DEF Blob
    <3> HIDE DEF w
    <3>4. QED
      BY <3>2, <3>3, SumNone
  <2>3. BitmapBytes(0) = 0
    BY BitmapFacts
  <2> HIDE DEF first, size
  <2>4. made.length = Headers + count + 0 + 0 + d
    BY <1>2, <1>4, <2>1, <2>2, <2>3
  <2>5. QED
    BY <1>1, <1>2, <1>4, <1>6, <2>4
<1>7. CASE ship # <<>>
  <2>1. first = winNext /\ winNext \in 1 .. Len(ship) /\ size = WindowSize(first, avail)
    BY <1>3, <1>7 DEF WindowInv
  <2>2. PICK f \in 1 .. Len(ship) : f = first
    BY <2>1
  <2>3. PICK b \in Nat, v \in Nat : b = BitmapBytes(1) /\ v = table[ship[f]].w
    <3>1. table \in Tables /\ ship[f] \in DOMAIN table
      BY ListFacts DEF TableInv, Nodes
    <3>2. table[ship[f]] \in ChainNode
      BY <3>1, TableFacts
    <3>3. table[ship[f]].w \in Nat
      BY <3>2 DEF ChainNode
    <3>4. BitmapBytes(1) \in Nat
      BY BitmapFacts
    <3>5. QED
      BY <3>3, <3>4
  <2>4. Headers + count + d + b + v <= Budget
    <3>1. ship[f] \in DOMAIN table /\ table[ship[f]].ship
      BY ListFacts DEF Nodes
    <3>2. QED
      BY <1>1, <1>2, <2>3, <3>1
  <2>5. BitmapBytes(1) + table[ship[f]].w <= avail
    <3>0. Budget \in Nat /\ Headers \in Nat /\ count \in Nat
      BY <1>1
    <3>1. b + v <= Budget - Headers - count - d
      BY <2>4, <3>0
    <3>2. avail = Budget - Headers - count - d
      BY <1>2
    <3> HIDE DEF avail
    <3>3. QED
      BY <2>3, <3>1, <3>2
  <2>6. PICK a \in Int : a = avail
    BY <1>5
  <2>7. PICK z : z = WindowSize(f, a)
    OBVIOUS
  <2>8. z \in 1 .. Len(ship) - f + 1 /\ BitmapBytes(z) + Blob(f, z) <= a
    BY <2>5, <2>6, <2>7, WindowFits
  <2>9. BitmapBytes(z) \in Nat /\ Blob(f, z) \in Nat
    BY <1>3, <2>8, BitmapFacts, BlobFacts
  <2>10. made.length = Headers + count + BitmapBytes(z) + Blob(f, z) + d
    BY <1>2, <1>4, <2>1, <2>2, <2>6, <2>7, Zenon
  <2>11. a = Budget - Headers - count - d
    BY <1>2, <2>6
  <2>12. made.length <= Budget
    BY <1>1, <2>8, <2>9, <2>10, <2>11
  <2>13. made.count = z /\ made.first = winNext /\ f = winNext
    BY <1>4, <2>1, <2>2, <2>6, <2>7, Zenon
  <2>14. QED
    BY <1>4, <2>8, <2>12, <2>13
<1>8. QED
  BY <1>6, <1>7

-----------------------------------------------------------------------------
(* The guard lets through exactly what lies in the game's memory. *)

Reach(addr, w) == {addr + k : k \in 0..(w - 1)}

LEMMA GuardMeans ==
    ASSUME NEW addr \in 0 .. Word - 1, NEW w \in 1 .. 4
    PROVE  ra_chain_addr_ok(addr, w) <=> Reach(addr, w) \subseteq GameMemory
<1>1. /\ Word \in Nat \ {0} /\ Word >= 4 /\ addr \in Nat /\ addr < Word /\ w \in Nat
      /\ Mem1End \in Nat /\ Mem2 \in Nat /\ Mem2End \in Nat
      /\ 0 < Mem1End /\ Mem1End < Mem2 /\ Mem2 < Mem2End /\ Mem2End < Word
  BY Units, OpsAssumption
<1>2. PICK e \in Nat : e = addr + w - 1
  BY <1>1
<1>3. e \in Reach(addr, w) /\ addr \in Reach(addr, w)
  <2>1. e = addr + (w - 1) /\ w - 1 \in 0 .. w - 1 /\ addr = addr + 0 /\ 0 \in 0 .. w - 1
    BY <1>1, <1>2
  <2>2. QED
    BY <2>1 DEF Reach
<1>4. CASE e < Word
  <2>1. e % Word = e
    <3>1. e = 0 * Word + e
      BY <1>1
    <3>2. QED
      BY <1>1, <1>4, <3>1, Division
  <2>2. ra_chain_addr_ok(addr, w) <=> e < Mem1End \/ (addr >= Mem2 /\ e < Mem2End)
    <3>1. e >= addr
      BY <1>1, <1>2
    <3>2. QED
      BY <1>2, <2>1, <3>1 DEF ra_chain_addr_ok
  <2>3. \A x \in Reach(addr, w) : x \in Nat /\ addr <= x /\ x <= e
    BY <1>1, <1>2 DEF Reach
  <2>4. ASSUME e < Mem1End \/ (addr >= Mem2 /\ e < Mem2End)
        PROVE  Reach(addr, w) \subseteq GameMemory
    BY <1>1, <2>3, <2>4 DEF GameMemory
  <2>5. ASSUME Reach(addr, w) \subseteq GameMemory, ~(e < Mem1End), addr < Mem2
        PROVE  FALSE
    <3>1. addr < Mem1End
      BY <1>1, <1>3, <2>5 DEF GameMemory
    <3>2. Mem1End - addr \in 0 .. w - 1 /\ Mem1End = addr + (Mem1End - addr)
      BY <1>1, <1>2, <2>5, <3>1
    <3>3. Mem1End \in Reach(addr, w)
      BY <3>2 DEF Reach
    <3>4. QED
      BY <1>1, <2>5, <3>3 DEF GameMemory
  <2>6. ASSUME Reach(addr, w) \subseteq GameMemory
        PROVE  e < Mem1End \/ e < Mem2End
    BY <1>1, <1>3, <2>6 DEF GameMemory
  <2>7. QED
    BY <1>1, <2>2, <2>4, <2>5, <2>6
<1>5. CASE ~(e < Word)
  <2>1. PICK r \in Nat : r = e - Word /\ r < Word /\ r < addr
    BY <1>1, <1>2, <1>5
  <2>2. e % Word = r
    <3>1. e = 1 * Word + r
      BY <1>1, <2>1
    <3>2. QED
      BY <1>1, <2>1, <3>1, Division
  <2>3. ~ra_chain_addr_ok(addr, w)
    BY <1>1, <1>2, <2>1, <2>2 DEF ra_chain_addr_ok
  <2>4. e \notin GameMemory
    BY <1>1, <1>5 DEF GameMemory
  <2>5. QED
    BY <1>3, <2>3, <2>4
<1>6. QED
  BY <1>4, <1>5

(* For every word and every width: an access the guard lets through        *)
(* touches the game's memory only, and one within the game's memory is let *)
(* through (ra_chain_addr_ok).                                             *)
THEOREM GuardExact == GuardIsExact
<1>1. SUFFICES ASSUME NEW a \in Words, NEW w \in 1 .. 4
               PROVE  ra_chain_addr_ok(a, w) <=>
                          /\ {(a + k) % Word : k \in 0..(w - 1)} \subseteq GameMemory
                          /\ a + w <= Word
  BY DEF GuardIsExact
<1>2. Word \in Nat \ {0} /\ a \in 0 .. Word - 1 /\ Mem2End \in Nat /\ Mem1End < Word /\ Mem2End < Word
      /\ Mem1End \in Nat
  BY Units, OpsAssumption DEF Words
<1>3. ra_chain_addr_ok(a, w) <=> Reach(a, w) \subseteq GameMemory
  BY <1>2, GuardMeans
<1>4. Reach(a, w) \subseteq GameMemory => a + w <= Word
  <2>1. a + (w - 1) \in Reach(a, w)
    BY w - 1 \in 0 .. w - 1 DEF Reach
  <2>2. \A x \in GameMemory : x < Word
    BY <1>2, OpsAssumption DEF GameMemory
  <2>3. ASSUME a + (w - 1) < Word PROVE a + w <= Word
    BY <1>2, <2>3
  <2>4. QED
    BY <2>1, <2>2, <2>3
<1>5. ASSUME a + w <= Word
      PROVE  {(a + k) % Word : k \in 0..(w - 1)} = Reach(a, w)
  <2>1. ASSUME NEW k \in 0 .. w - 1 PROVE (a + k) % Word = a + k
    <3>1. PICK x \in Nat : x = a + k /\ x < Word
      BY <1>2, <1>5
    <3>2. x = 0 * Word + x
      BY <1>2
    <3>3. x % Word = x
      BY <1>2, <3>1, <3>2, Division
    <3>4. QED
      BY <3>1, <3>3
  <2>2. QED
    BY <2>1 DEF Reach
<1>6. QED
  BY <1>3, <1>4, <1>5

-----------------------------------------------------------------------------
(* The evaluator's rules. *)

(* m and q give node i the same meaning up to walk t. *)
SamePast(m, q, t, i) == \A s \in 0 .. t : m[<<s, i>>] = q[<<s, i>>]

LEMMA SameLast ==
    ASSUME NEW t \in Nat, NEW m, NEW q, NEW i, SamePast(m, q, t, i)
    PROVE  LastDifferent(m, t, i) = LastDifferent(q, t, i)
<1>1. Different(m, t, i) = Different(q, t, i)
  <2>1. t \in 0 .. t /\ \A s \in 0 .. t - 1 : s \in 0 .. t
    OBVIOUS
  <2>2. m[<<t, i>>] = q[<<t, i>>] /\ \A s \in 0 .. t - 1 : m[<<s, i>>] = q[<<s, i>>]
    BY <2>1 DEF SamePast
  <2>3. QED
    BY <2>2 DEF Different
<1> DEFINE D == Different(m, t, i)
<1>2. CASE D = {}
  BY <1>1, <1>2 DEF LastDifferent
<1>3. CASE D # {}
  <2>1. D \in SUBSET (0 .. t)
    BY DEF Different
  <2>2. PICK x : x = Max(D) /\ x \in D
    BY <1>3, <2>1, MaxIs
  <2>3. m[<<x, i>>] = q[<<x, i>>]
    BY <2>1, <2>2 DEF SamePast
  <2> HIDE DEF D
  <2>4. LastDifferent(m, t, i) = m[<<x, i>>].value
    BY <1>3, <2>2 DEF LastDifferent, D
  <2>5. LastDifferent(q, t, i) = q[<<x, i>>].value
    BY <1>1, <1>3, <2>2 DEF LastDifferent, D
  <2>6. QED
    BY <2>3, <2>4, <2>5
<1>4. QED
  BY <1>2, <1>3

LEMMA SameRule ==
    ASSUME NEW t \in Nat \ {0}, NEW m, NEW q, NEW n \in ChainNode, NEW image,
           n.parent # NoParent => SamePast(m, q, t, n.parent)
    PROVE  Evaluate(m, t, n, image) = Evaluate(q, t, n, image)
<1>1. n.dp \in Edge
  BY DEF ChainNode
<1>2. n.parent # NoParent => /\ m[<<t, n.parent>>] = q[<<t, n.parent>>]
                             /\ m[<<t - 1, n.parent>>] = q[<<t - 1, n.parent>>]
                             /\ LastDifferent(m, t, n.parent) = LastDifferent(q, t, n.parent)
  <2>1. t \in 0 .. t /\ t - 1 \in 0 .. t
    OBVIOUS
  <2>2. QED
    BY <2>1, SameLast DEF SamePast
<1>3. n.parent # NoParent => Source(m, t, n) = Source(q, t, n)
  BY <1>1, <1>2 DEF Source, Edge
<1>4. Linked(m, t, n) = Linked(q, t, n)
  BY <1>2 DEF Linked
<1>5. (IF n.parent = NoParent THEN 0 ELSE ra_chain_xform(Source(m, t, n), n.psize))
      = (IF n.parent = NoParent THEN 0 ELSE ra_chain_xform(Source(q, t, n), n.psize))
  BY <1>3
<1>6. QED
  BY <1>4, <1>5, Zenon DEF Evaluate

(* m obeys the rules over the walks h saw. *)
Rule(m, h, t, i) ==
    IF t = 0 THEN Unwalked ELSE Evaluate(m, t, table[i], Images[h[t][i]])

Obeys(m, h) == \A t \in 0 .. Len(h), i \in Nodes : m[<<t, i>>] = Rule(m, h, t, i)

LEMMA RulesAgree ==
    ASSUME table \in Tables, NEW h, Len(h) \in Nat, NEW m, NEW q, Obeys(m, h), Obeys(q, h)
    PROVE  \A t \in 0 .. Len(h), i \in Nodes : m[<<t, i>>] = q[<<t, i>>]
<1> DEFINE Row(t) == \A s \in 0 .. t, i \in Nodes : m[<<s, i>>] = q[<<s, i>>]
           S == {t \in Nat : t <= Len(h) => Row(t)}
<1>1. Len(table) \in Nat /\ Nodes = 1 .. Len(table)
  BY TableFacts DEF Nodes
<1>2. 0 \in S
  <2>1. \A s \in 0 .. 0 : s = 0
    OBVIOUS
  <2>2. 0 \in 0 .. Len(h)
    OBVIOUS
  <2>3. \A i \in Nodes : m[<<0, i>>] = Unwalked /\ q[<<0, i>>] = Unwalked
    BY <2>2 DEF Obeys, Rule
  <2>4. QED
    BY <2>1, <2>3
<1>3. ASSUME NEW t \in S PROVE t + 1 \in S
  <2>1. SUFFICES ASSUME t + 1 <= Len(h) PROVE Row(t + 1)
    OBVIOUS
  <2>2. Row(t) /\ t + 1 \in 0 .. Len(h) /\ t + 1 # 0
    BY <2>1
  <2> DEFINE Upto(j) == \A i \in Nodes : i <= j => m[<<t + 1, i>>] = q[<<t + 1, i>>]
             U == {j \in Nat : Upto(j)}
  <2>3. 0 \in U
    BY <1>1
  <2>4. ASSUME NEW j \in U PROVE j + 1 \in U
    <3>1. SUFFICES ASSUME NEW i \in Nodes, i <= j + 1
                   PROVE  m[<<t + 1, i>>] = q[<<t + 1, i>>]
      OBVIOUS
    <3>2. CASE i <= j
      BY <3>2
    <3>3. CASE i = j + 1
      <4>1. PICK n \in ChainNode : n = table[i] /\ n.parent \in Nat /\ n.parent < i
        BY TableFacts DEF Nodes
      <4>2. ASSUME n.parent # NoParent PROVE SamePast(m, q, t + 1, n.parent)
        <5>1. n.parent \in Nodes /\ n.parent <= j
          BY <1>1, <3>3, <4>1, <4>2 DEF NoParent
        <5>2. \A s \in 0 .. t + 1 : s \in 0 .. t \/ s = t + 1
          OBVIOUS
        <5>3. QED
          BY <2>2, <5>1, <5>2 DEF SamePast
      <4>3. Evaluate(m, t + 1, n, Images[h[t + 1][i]]) = Evaluate(q, t + 1, n, Images[h[t + 1][i]])
        BY <4>2, SameRule, t + 1 \in Nat \ {0}
      <4>4. /\ m[<<t + 1, i>>] = Evaluate(m, t + 1, n, Images[h[t + 1][i]])
            /\ q[<<t + 1, i>>] = Evaluate(q, t + 1, n, Images[h[t + 1][i]])
        BY <2>2, <4>1 DEF Obeys, Rule
      <4>5. QED
        BY <4>3, <4>4
    <3>4. QED
      BY <1>1, <3>1, <3>2, <3>3
  <2> HIDE DEF U
  <2>5. U = Nat
    <3>1. U \in SUBSET Nat
      BY DEF U
    <3>2. QED
      BY <2>3, <2>4, <3>1, SetInduction
  <2>6. \A i \in Nodes : m[<<t + 1, i>>] = q[<<t + 1, i>>]
    BY <1>1, <2>5 DEF U
  <2>7. \A s \in 0 .. t + 1 : s \in 0 .. t \/ s = t + 1
    OBVIOUS
  <2>8. QED
    BY <2>2, <2>6, <2>7
<1> HIDE DEF S
<1>4. S = Nat
  <2>1. S \in SUBSET Nat
    BY DEF S
  <2>2. QED
    BY <1>2, <1>3, <2>1, SetInduction
<1>5. Len(h) \in S /\ Len(h) <= Len(h)
  BY <1>4
<1>6. QED
  BY <1>5 DEF S

(* Whatever obeys the rules is the meaning. *)
LEMMA MeaningIs ==
    ASSUME table \in Tables, Len(history) \in Nat, NEW m, Obeys(m, history)
    PROVE  \A i \in Nodes : Meaning[<<Len(history), i>>] = m[<<Len(history), i>>]
<1> DEFINE D == (0..Len(history)) \X Nodes
           IsMeaning(f) == f = [p \in D |-> IF p[1] = 0 THEN Unwalked
                                ELSE Evaluate(f, p[1], table[p[2]], Images[history[p[1]][p[2]]])]
           g == [p \in D |-> m[p]]
           c == CHOOSE f : IsMeaning(f)
<1>1. Len(table) \in Nat /\ Nodes = 1 .. Len(table)
  BY TableFacts DEF Nodes
<1>2. \A t \in 0 .. Len(history), i \in Nodes : g[<<t, i>>] = m[<<t, i>>]
  OBVIOUS
<1>3. g = [p \in D |-> g[p]]
  OBVIOUS
<1> HIDE DEF g
<1>4. ASSUME NEW t \in 0 .. Len(history), NEW i \in Nodes
      PROVE  g[<<t, i>>] = IF t = 0 THEN Unwalked
                           ELSE Evaluate(g, t, table[i], Images[history[t][i]])
  <2>1. m[<<t, i>>] = IF t = 0 THEN Unwalked
                      ELSE Evaluate(m, t, table[i], Images[history[t][i]])
    BY DEF Obeys, Rule
  <2>2. CASE t = 0
    BY <1>2, <2>1, <2>2
  <2>3. CASE t # 0
    <3>1. PICK n \in ChainNode : n = table[i] /\ n.parent \in Nat /\ n.parent < i
      BY TableFacts DEF Nodes
    <3>2. ASSUME n.parent # NoParent PROVE SamePast(m, g, t, n.parent)
      <4>1. n.parent \in Nodes
        BY <1>1, <3>1, <3>2 DEF NoParent
      <4>2. \A s \in 0 .. t : s \in 0 .. Len(history)
        OBVIOUS
      <4>3. QED
        BY <1>2, <4>1, <4>2 DEF SamePast
    <3>3. Evaluate(m, t, n, Images[history[t][i]]) = Evaluate(g, t, n, Images[history[t][i]])
      BY <2>3, <3>2, SameRule
    <3>4. QED
      BY <1>2, <2>1, <2>3, <3>1, <3>3
  <2>4. QED
    BY <2>2, <2>3
<1>5. ASSUME NEW p \in D
      PROVE  g[p] = IF p[1] = 0 THEN Unwalked
                    ELSE Evaluate(g, p[1], table[p[2]], Images[history[p[1]][p[2]]])
  <2>1. PICK t \in 0 .. Len(history), i \in Nodes : p = <<t, i>>
    OBVIOUS
  <2>2. p[1] = t /\ p[2] = i
    BY <2>1
  <2>3. QED
    BY <1>4, <2>1, <2>2
<1>6. IsMeaning(g)
  BY <1>3, <1>5
<1>7. IsMeaning(c)
  BY <1>6
<1>8. Meaning = c
  BY DEF Meaning
<1> HIDE DEF c
<1>9. Obeys(c, history)
  <2>1. SUFFICES ASSUME NEW t \in 0 .. Len(history), NEW i \in Nodes
                 PROVE  c[<<t, i>>] = Rule(c, history, t, i)
    BY DEF Obeys
  <2>2. <<t, i>> \in D /\ <<t, i>>[1] = t /\ <<t, i>>[2] = i
    OBVIOUS
  <2>3. QED
    BY <1>7, <2>2 DEF Rule
<1>10. Len(history) \in 0 .. Len(history)
  OBVIOUS
<1>11. QED
  BY <1>8, <1>9, <1>10, RulesAgree

-----------------------------------------------------------------------------
(* The inductive invariant. *)

TypeInv ==
    /\ node \in NodeStates /\ havePrev \in BOOLEAN /\ keep \in BOOLEAN
    /\ mem \in DOMAIN Images /\ history \in Seq(Sights)

(* The values of the last two walks are still in the nodes. *)
DeltaInv ==
    /\ evaluated = <<>> \/ \E now : evaluated = <<now>> \/ \E before : evaluated = <<now, before>>
    /\ evaluated # <<>> => evaluated[1] = node.value
    /\ Len(evaluated) = 2 =>
          /\ \A i \in Nodes : evaluated[2][i] = node.prev[i]
          /\ snap.dp = DpSection(node)

(* What the arrays hold after walk t, m being the meaning of the nodes. *)
Holds(m, t) ==
    /\ havePrev <=> t > 0
    /\ \A i \in Nodes :
        /\ m[<<t, i>>] = [valid |-> node.valid[i], value |-> node.value[i]]
        /\ node.prev[i] = IF t = 0 THEN 0 ELSE m[<<t - 1, i>>].value
        /\ node.prior[i] = LastDifferent(m, t, i)

HistoryInv == keep => \E m : Obeys(m, history) /\ Holds(m, Len(history))

IInv == TableInv /\ TypeInv /\ WindowInv /\ DeltaInv /\ HistoryInv

LEMMA InitIInv ==
    ASSUME Init
    PROVE  IInv
<1>1. TableInv
  BY DEF Init, TableInv
<1>2. TypeInv
  <2>1. node \in NodeStates
    BY DEF Init, NodeStates
  <2>2. history \in Seq(Sights)
    BY EmptySeq DEF Init
  <2>3. QED
    BY <2>1, <2>2 DEF Init, TypeInv
<1>3. WindowInv
  <2>1. winNext = 1 /\ snap.length = 0 /\ age = [s \in DOMAIN ship |-> 0]
    BY DEF Init, Nothing
  <2>2. Len(ship) \in Nat /\ DOMAIN ship = 1 .. Len(ship) /\ (ship # <<>> => 1 <= Len(ship))
    <3>1. ship \in Seq(Shipped(table))
      BY <1>1, ShipType DEF TableInv
    <3>2. QED
      BY <1>1, <3>1, ListFacts, EmptySeq
  <2>3. age \in [1 .. Len(ship) -> Nat] /\ \A s \in 1 .. Len(ship) : age[s] = 0
    BY <2>1, <2>2
  <2>4. \A s \in 1 .. Len(ship) : Ahead(s) = s - 1
    BY <2>1, <2>2 DEF Ahead
  <2>5. Budget \in Nat
    BY ChainAssumption
  <2>6. QED
    BY <2>1, <2>2, <2>3, <2>4, <2>5 DEF WindowInv
<1>4. DeltaInv
  <2>1. evaluated = <<>>
    BY DEF Init
  <2>2. Len(<<>>) # 2
    OBVIOUS
  <2>3. QED
    BY <2>1, <2>2 DEF DeltaInv
<1>5. HistoryInv
  <2> DEFINE m == [p \in {0} \X Nodes |-> Unwalked]
  <2>1. Len(history) = 0 /\ havePrev = FALSE
    BY DEF Init
  <2>2. \A i \in Nodes : m[<<0, i>>] = Unwalked
    OBVIOUS
  <2>3. \A i \in Nodes : LastDifferent(m, 0, i) = 0
    <3>1. 0 .. (0 - 1) = {}
      OBVIOUS
    <3> HIDE DEF m
    <3>2. \A i : Different(m, 0, i) = {}
      BY <3>1 DEF Different
    <3>3. QED
      BY <3>2 DEF LastDifferent
  <2> HIDE DEF m
  <2>4. Obeys(m, history)
    <3>1. \A t \in 0 .. 0 : t = 0
      OBVIOUS
    <3>2. QED
      BY <2>1, <2>2, <3>1 DEF Obeys, Rule
  <2>5. \A i \in Nodes : node.valid[i] = FALSE /\ node.value[i] = 0 /\ node.prev[i] = 0 /\ node.prior[i] = 0
    BY DEF Init
  <2>6. Holds(m, 0)
    <3>1. havePrev <=> 0 > 0
      BY <2>1
    <3>2. ASSUME NEW i \in Nodes
          PROVE  /\ m[<<0, i>>] = [valid |-> node.valid[i], value |-> node.value[i]]
                 /\ node.prev[i] = 0 /\ node.prior[i] = LastDifferent(m, 0, i)
      BY <2>2, <2>3, <2>5 DEF Unwalked
    <3>3. QED
      BY <3>1, <3>2 DEF Holds
  <2>7. QED
    BY <2>1, <2>4, <2>6 DEF HistoryInv
<1>6. QED
  BY <1>1, <1>2, <1>3, <1>4, <1>5 DEF IInv

-----------------------------------------------------------------------------
(* One fire. *)

Fired(sees, w, made, taken) ==
    /\ node' = w /\ havePrev' = TRUE /\ snap' = made /\ posted' = taken
    /\ winNext' = IF ship = <<>> THEN winNext ELSE Advance(made.first + made.count)
    /\ age' = [s \in DOMAIN age |->
                 IF s \in made.first..(made.first + made.count - 1) THEN 0 ELSE age[s] + 1]
    /\ evaluated' = IF ~taken THEN <<>>
                    ELSE IF evaluated = <<>> THEN <<w.value>>
                    ELSE <<w.value, evaluated[1]>>
    /\ history' = IF keep THEN Append(history, sees) ELSE history
    /\ UNCHANGED <<table, ship, dpList, keep>>

LEMMA FireIs ==
    ASSUME IInv, ra_send_snapshot
    PROVE  /\ mem' \in DOMAIN Images
           /\ \E sees \in Sights, w \in NodeStates, taken \in BOOLEAN, count \in FlatCounts :
                 Walked(sees, w) /\ Fired(sees, w, Snapshot(w, count), taken)
<1>1. PICK image \in DOMAIN Images, k \in 0..(Len(table) - 1),
           taken \in IF keep THEN {TRUE} ELSE BOOLEAN,
           count \in IF keep THEN {0} ELSE FlatCounts :
              LET sees == [i \in Nodes |-> IF i <= k THEN mem ELSE image]
                  walked == ra_chain_walk(sees)
                  made == Snapshot(walked, count)
              IN  /\ image = mem => k = 0
                  /\ keep => Len(history) < MaxWalks
                  /\ mem' = image
                  /\ node' = walked
                  /\ validPrev' = node.valid
                  /\ havePrev' = TRUE
                  /\ snap' = made
                  /\ winNext' = IF ship = <<>> THEN winNext ELSE Advance(made.first + made.count)
                  /\ posted' = taken
                  /\ age' = [s \in DOMAIN age |->
                               IF s \in made.first..(made.first + made.count - 1) THEN 0
                               ELSE age[s] + 1]
                  /\ evaluated' = IF ~taken THEN <<>>
                                  ELSE IF evaluated = <<>> THEN <<walked.value>>
                                  ELSE <<walked.value, evaluated[1]>>
                  /\ history' = IF keep THEN Append(history, sees) ELSE history
                  /\ UNCHANGED <<table, ship, dpList, keep>>
  BY Zenon DEF ra_send_snapshot
<1> DEFINE sees == [i \in Nodes |-> IF i <= k THEN mem ELSE image]
<1>2. sees \in Sights
  BY DEF IInv, TypeInv, Sights
<1>3. PICK w \in NodeStates : ra_chain_walk(sees) = w /\ Walked(sees, w)
  BY <1>2, WalkMeans DEF IInv, TableInv, TypeInv
<1>4. taken \in BOOLEAN /\ count \in FlatCounts
  BY ChainAssumption
<1>5. mem' = image /\ Fired(sees, w, Snapshot(w, count), taken)
  BY <1>1, <1>3, Zenon DEF Fired
<1> HIDE DEF sees
<1>6. QED
  BY <1>2, <1>3, <1>4, <1>5

LEMMA WindowStep ==
    ASSUME IInv, NEW sees, NEW w, NEW taken, NEW count \in FlatCounts, NEW made,
           made = Snapshot(w, count), Fired(sees, w, made, taken)
    PROVE  WindowInv'
<1>1. TableInv /\ WindowInv
  BY DEF IInv
<1>2. made.length <= Budget
      /\ (ship # <<>> => made.first = winNext /\ made.count \in 1 .. Len(ship) - winNext + 1)
  BY <1>1, SnapshotIs
<1>3. Len(ship) \in Nat /\ (ship = <<>> <=> Len(ship) = 0)
  <2>1. ship \in Seq(Shipped(table))
    BY <1>1, ShipType DEF TableInv
  <2>2. QED
    BY <1>1, <2>1, ListFacts, EmptySeq
<1>4. ship' = ship /\ snap' = made /\ DOMAIN age = 1 .. Len(ship)
  BY <1>1 DEF Fired, WindowInv
<1>5. CASE ship = <<>>
  <2>1. winNext' = winNext /\ Len(ship) = 0
    BY <1>3, <1>5 DEF Fired
  <2>2. 1 .. Len(ship) = {}
    BY <2>1
  <2>3. age' \in [1 .. Len(ship) -> Nat]
    BY <1>4, <2>2 DEF Fired
  <2>4. QED
    BY <1>1, <1>2, <1>4, <1>5, <2>1, <2>2, <2>3 DEF WindowInv
<1>6. CASE ship # <<>>
  <2>1. PICK c \in Nat : c = made.count /\ c >= 1 /\ c <= Len(ship) - winNext + 1
    BY <1>2, <1>3, <1>6 DEF WindowInv
  <2>2. winNext \in Nat /\ 1 <= winNext /\ winNext <= Len(ship) /\ made.first = winNext
    BY <1>1, <1>2, <1>6 DEF WindowInv
  <2>3. winNext' = IF winNext + c > Len(ship) THEN 1 ELSE winNext + c
    BY <1>6, <2>1, <2>2 DEF Fired, Advance
  <2>4. age' = [s \in 1 .. Len(ship) |->
                   IF s \in winNext..(winNext + c - 1) THEN 0 ELSE age[s] + 1]
    BY <1>4, <2>1, <2>2 DEF Fired
  <2>5. age' \in [1 .. Len(ship) -> Nat]
    BY <1>1, <2>4 DEF WindowInv
  <2>6. ASSUME NEW s \in 1 .. Len(ship)
        PROVE  age'[s] + Ahead(s)' < Len(ship)
    <3>1. PICK a \in Nat : a = age[s]
      BY <1>1 DEF WindowInv
    <3>2. a + Ahead(s) < Len(ship)
      BY <1>1, <3>1 DEF WindowInv
    <3>3. Ahead(s) = IF s >= winNext THEN s - winNext ELSE s + Len(ship) - winNext
      BY DEF Ahead
    <3>4. Ahead(s)' = IF s >= winNext' THEN s - winNext' ELSE s + Len(ship) - winNext'
      BY <1>4 DEF Ahead
    <3>5. age'[s] = IF s \in winNext..(winNext + c - 1) THEN 0 ELSE a + 1
      BY <2>4, <3>1
    <3>6. winNext' \in Nat /\ 1 <= winNext' /\ winNext' <= Len(ship)
      BY <1>3, <2>1, <2>2, <2>3
    <3>7. CASE s \in winNext..(winNext + c - 1)
      <4>1. age'[s] = 0
        BY <3>5, <3>7
      <4>2. Ahead(s)' < Len(ship) /\ Ahead(s)' \in Int
        BY <1>3, <3>4, <3>6
      <4>3. QED
        BY <4>1, <4>2
    <3>8. CASE s \notin winNext..(winNext + c - 1)
      <4>1. age'[s] = a + 1
        BY <3>5, <3>8
      <4>2. Ahead(s)' <= Ahead(s) - 1 /\ Ahead(s)' \in Int /\ Ahead(s) \in Int
        <5>1. s \in Nat /\ s <= Len(ship) /\ (s < winNext \/ s >= winNext + c)
          BY <1>3, <2>1, <2>2, <3>8
        <5>2. CASE winNext + c > Len(ship)
          <6>1. winNext' = 1 /\ s < winNext
            BY <1>3, <2>1, <2>2, <2>3, <5>1, <5>2
          <6>2. Ahead(s) = s + Len(ship) - winNext /\ Ahead(s)' = s - 1
            BY <2>2, <3>3, <3>4, <5>1, <6>1
          <6>3. QED
            BY <1>3, <2>2, <5>1, <6>2
        <5>3. CASE ~(winNext + c > Len(ship))
          <6>1. winNext' = winNext + c
            BY <2>3, <5>3
          <6>2. CASE s < winNext
            <7>1. Ahead(s) = s + Len(ship) - winNext /\ Ahead(s)' = s + Len(ship) - (winNext + c)
              BY <2>1, <2>2, <3>3, <3>4, <5>1, <6>1, <6>2
            <7>2. QED
              BY <1>3, <2>1, <2>2, <5>1, <7>1
          <6>3. CASE s >= winNext + c
            <7>1. Ahead(s) = s - winNext /\ Ahead(s)' = s - (winNext + c)
              BY <2>1, <2>2, <3>3, <3>4, <5>1, <6>1, <6>3
            <7>2. QED
              BY <1>3, <2>1, <2>2, <5>1, <7>1
          <6>4. QED
            BY <5>1, <6>2, <6>3
        <5>4. QED
          BY <5>2, <5>3
      <4>3. QED
        BY <1>3, <3>2, <4>1, <4>2
    <3>9. QED
      BY <3>7, <3>8
  <2>7. winNext' \in Nat /\ 1 <= winNext' /\ winNext' <= Len(ship)
    BY <1>3, <2>1, <2>2, <2>3
  <2>8. QED
    BY <1>2, <1>4, <2>5, <2>6, <2>7 DEF WindowInv
<1>7. QED
  BY <1>5, <1>6

LEMMA DeltaStep ==
    ASSUME IInv, NEW sees, NEW w, NEW taken \in BOOLEAN, NEW count, NEW made,
           made = Snapshot(w, count), Walked(sees, w), Fired(sees, w, made, taken)
    PROVE  DeltaInv'
<1>1. node' = w /\ snap' = made /\ Nodes' = Nodes /\ dpList' = dpList
  BY DEF Fired, Nodes
<1>2. \A i \in Nodes : w.prev[i] = node.value[i]
  BY DEF Walked
<1>3. made.dp = DpSection(w)
  BY DEF Snapshot
<1>4. DpSection(node)' = DpSection(w)
  BY <1>1 DEF DpSection
<1>5. CASE ~taken
  <2>1. evaluated' = <<>> /\ Len(<<>>) # 2
    BY <1>5 DEF Fired
  <2>2. QED
    BY <2>1 DEF DeltaInv
<1>6. CASE taken /\ evaluated = <<>>
  <2>1. evaluated' = <<w.value>> /\ Len(<<w.value>>) # 2 /\ <<w.value>>[1] = w.value
    BY <1>6 DEF Fired
  <2>2. QED
    BY <1>1, <2>1 DEF DeltaInv
<1>7. CASE taken /\ evaluated # <<>>
  <2>1. evaluated[1] = node.value
    BY <1>7 DEF IInv, DeltaInv
  <2>2. evaluated' = <<w.value, node.value>>
    BY <1>7, <2>1 DEF Fired
  <2>3. evaluated'[1] = w.value /\ evaluated'[2] = node.value
    BY <2>2
  <2>4. QED
    BY <1>1, <1>2, <1>3, <1>4, <2>2, <2>3 DEF DeltaInv
<1>8. QED
  BY <1>5, <1>6, <1>7

(* One walk more: q is m with the walk's result as its last row. *)
Extends(q, m, t, w) ==
    /\ \A s \in 0 .. t, i \in Nodes : q[<<s, i>>] = m[<<s, i>>]
    /\ \A i \in Nodes : q[<<t + 1, i>>] = [valid |-> w.valid[i], value |-> w.value[i]]

LEMMA PriorStep ==
    ASSUME NEW t \in Nat, NEW m, Holds(m, t), NEW q, NEW w, Extends(q, m, t, w), NEW i \in Nodes
    PROVE  LastDifferent(q, t + 1, i)
           = IF w.value[i] # node.value[i] THEN node.value[i] ELSE node.prior[i]
<1> DEFINE D == Different(q, t + 1, i)
<1>1. /\ q[<<t + 1, i>>].value = w.value[i]
      /\ \A s \in 0 .. t : q[<<s, i>>] = m[<<s, i>>]
      /\ m[<<t, i>>].value = node.value[i]
      /\ node.prior[i] = LastDifferent(m, t, i)
  <2>1. q[<<t + 1, i>>] = [valid |-> w.valid[i], value |-> w.value[i]]
    BY DEF Extends
  <2>2. m[<<t, i>>] = [valid |-> node.valid[i], value |-> node.value[i]]
    BY DEF Holds
  <2>3. q[<<t + 1, i>>].value = w.value[i]
    BY <2>1
  <2>4. m[<<t, i>>].value = node.value[i]
    BY <2>2
  <2>5. \A s \in 0 .. t : q[<<s, i>>] = m[<<s, i>>]
    BY DEF Extends
  <2>6. node.prior[i] = LastDifferent(m, t, i)
    BY DEF Holds
  <2>7. QED
    BY <2>3, <2>4, <2>5, <2>6
<1>2. D = {s \in 0 .. t : q[<<s, i>>].value # w.value[i]}
  <2>1. (t + 1) - 1 = t
    OBVIOUS
  <2>2. QED
    BY <1>1, <2>1 DEF Different
<1>3. D \in SUBSET (0 .. t)
  BY <1>2
<1>4. LastDifferent(q, t + 1, i) = IF D = {} THEN 0 ELSE q[<<Max(D), i>>].value
  BY DEF LastDifferent
<1>5. CASE w.value[i] # node.value[i]
  <2>1. t \in D
    BY <1>1, <1>2, <1>5
  <2> HIDE DEF D
  <2>2. PICK x \in 0 .. t : x = Max(D) /\ x >= t
    <3>1. Max(D) \in D /\ Max(D) >= t
      BY <1>3, <2>1, MaxIs
    <3>2. QED
      BY <1>3, <3>1
  <2>3. Max(D) = t
    BY <2>2
  <2>4. q[<<t, i>>].value = node.value[i]
    BY <1>1
  <2>5. QED
    BY <1>4, <1>5, <2>1, <2>3, <2>4
<1>6. CASE w.value[i] = node.value[i]
  <2>1. D = Different(m, t, i)
    <3>1. \A s \in 0 .. t : s \in 0 .. (t - 1) \/ s = t
      OBVIOUS
    <3>2. \A s \in 0 .. (t - 1) : s \in 0 .. t
      OBVIOUS
    <3>3. t \notin D
      BY <1>1, <1>2, <1>6
    <3>4. Different(m, t, i) = {s \in 0 .. (t - 1) : m[<<s, i>>].value # node.value[i]}
      BY <1>1 DEF Different
    <3> HIDE DEF D
    <3>5. ASSUME NEW s \in D PROVE s \in Different(m, t, i)
      BY <1>1, <1>2, <1>6, <3>1, <3>3, <3>4
    <3>6. ASSUME NEW s \in Different(m, t, i) PROVE s \in D
      BY <1>1, <1>2, <1>6, <3>2, <3>4
    <3>7. QED
      BY <3>5, <3>6
  <2> HIDE DEF D
  <2>2. CASE D = {}
    <3>1. LastDifferent(m, t, i) = 0
      BY <2>1, <2>2 DEF LastDifferent
    <3>2. QED
      BY <1>1, <1>4, <1>6, <2>2, <3>1
  <2>3. CASE D # {}
    <3>1. PICK x \in 0 .. t : x = Max(D)
      BY <1>3, <2>3, MaxIs
    <3>2. LastDifferent(m, t, i) = m[<<x, i>>].value
      BY <2>1, <2>3, <3>1 DEF LastDifferent
    <3>3. LastDifferent(q, t + 1, i) = q[<<x, i>>].value
      BY <1>4, <2>3, <3>1
    <3>4. QED
      BY <1>1, <1>6, <3>2, <3>3
  <2>4. QED
    BY <2>2, <2>3
<1>7. QED
  BY <1>5, <1>6

(* What the walk finds is what the rules say. *)
LEMMA FoundIsRule ==
    ASSUME table \in Tables, havePrev \in BOOLEAN, NEW t \in Nat, NEW m, Holds(m, t),
           NEW sees \in Sights, NEW w \in NodeStates, Walked(sees, w), NEW q, Extends(q, m, t, w),
           NEW i \in Nodes
    PROVE  q[<<t + 1, i>>] = Evaluate(q, t + 1, table[i], Images[sees[i]])
<1>1. PICK n \in ChainNode : n = table[i] /\ n.parent \in Nat /\ n.parent < i
  BY TableFacts DEF Nodes
<1>2. /\ n.dp \in Edge /\ n.psize \in Size /\ n.w \in 1 .. 4 /\ n.operand \in 0 .. Word - 1
      /\ n.op \in {"none", "deref"} \cup Combine
  BY DEF ChainNode
<1>3. PICK image : image = Images[sees[i]]
  OBVIOUS
<1>4. PICK pv \in Nat : pv = ParentValue(w, n)
  BY <1>1, ParentValueType
<1>5. Nodes = 1 .. Len(table) /\ Len(table) \in Nat
  BY TableFacts DEF Nodes
<1>6. ASSUME n.parent # NoParent
      PROVE  /\ Linked(q, t + 1, n) = EdgeResolves(w, n)
             /\ Source(q, t + 1, n) = ParentRaw(w, n)
  <2>1. PICK p \in Nodes : p = n.parent
    BY <1>1, <1>5, <1>6 DEF NoParent
  <2>2. q[<<t + 1, p>>].valid = w.valid[p] /\ q[<<t + 1, p>>].value = w.value[p]
    <3>1. q[<<t + 1, p>>] = [valid |-> w.valid[p], value |-> w.value[p]]
      BY DEF Extends
    <3>2. QED
      BY <3>1
  <2>3. havePrev <=> t + 1 > 1
    <3>1. havePrev <=> t > 0
      BY DEF Holds
    <3>2. t > 0 <=> t + 1 > 1
      OBVIOUS
    <3>3. QED
      BY <3>1, <3>2
  <2>4. w.valid[p] \in BOOLEAN
    BY DEF NodeStates
  <2>5. Linked(q, t + 1, n) = EdgeResolves(w, n)
    BY <1>6, <2>1, <2>2, <2>3, <2>4 DEF Linked, EdgeResolves
  <2>6. LastDifferent(q, t + 1, p) = w.prior[p]
    <3>1. w.prior[p] = IF w.value[p] # node.value[p] THEN node.value[p] ELSE node.prior[p]
      BY DEF Walked
    <3>2. QED
      BY <3>1, PriorStep
  <2>7. q[<<t, p>>].value = w.prev[p]
    <3>1. w.prev[p] = node.value[p]
      BY DEF Walked
    <3>2. t \in 0 .. t
      OBVIOUS
    <3>3. q[<<t, p>>] = m[<<t, p>>]
      BY <3>2 DEF Extends
    <3>4. m[<<t, p>>] = [valid |-> node.valid[p], value |-> node.value[p]]
      BY DEF Holds
    <3>5. m[<<t, p>>].value = node.value[p]
      BY <3>4
    <3>6. QED
      BY <3>1, <3>3, <3>5
  <2>8. (t + 1) - 1 = t
    OBVIOUS
  <2>9. Source(q, t + 1, n) = ParentRaw(w, n)
    BY <1>2, <2>1, <2>2, <2>6, <2>7, <2>8 DEF Source, ParentRaw, Edge
  <2>10. QED
    BY <2>5, <2>9
<1>7. ASSUME n.parent = NoParent
      PROVE  Linked(q, t + 1, n) /\ EdgeResolves(w, n) /\ pv = 0
  BY <1>4, <1>7 DEF Linked, EdgeResolves, ParentValue
<1>8. Linked(q, t + 1, n) <=> EdgeResolves(w, n)
  BY <1>6, <1>7
<1>9. ASSUME EdgeResolves(w, n)
      PROVE  pv = IF n.parent = NoParent THEN 0 ELSE ra_chain_xform(Source(q, t + 1, n), n.psize)
  <2>1. CASE n.parent = NoParent
    BY <1>7, <2>1
  <2>2. CASE n.parent # NoParent
    <3>1. pv = ra_chain_xform(ParentRaw(w, n), n.psize)
      BY <1>4, <1>9, <2>2 DEF ParentValue
    <3>2. QED
      BY <1>6, <2>2, <3>1
  <2>3. QED
    BY <2>1, <2>2
<1>10. PICK a \in 0 .. Word - 1 : a = (pv + n.operand) % Word
  <2>1. pv + n.operand \in Nat /\ Word \in Nat \ {0}
    BY <1>2, Units
  <2>2. PICK x \in Nat : x = pv + n.operand
    BY <2>1
  <2>3. x % Word \in 0 .. Word - 1
    BY <2>1
  <2>4. QED
    BY <2>2, <2>3
<1> DEFINE ok == Resolves(w, n, pv)
<1>11. /\ w.value[i] = Found(n, ok, pv, image)
       /\ w.valid[i] = ok
  BY <1>1, <1>3, <1>4, Zenon DEF Walked
<1>12. q[<<t + 1, i>>] = [valid |-> ok, value |-> Found(n, ok, pv, image)]
  BY <1>11, Zenon DEF Extends
<1>13. ok <=> EdgeResolves(w, n) /\ (n.op = "deref" => ra_chain_addr_ok(a, n.w))
  BY <1>10 DEF Resolves, Address
<1>14. ra_chain_addr_ok(a, n.w) <=> Reach(a, n.w) \subseteq GameMemory
  BY <1>2, GuardMeans
<1> DEFINE read == Pack([k \in 0..(n.w - 1) |-> image[a + k]])
<1>15. ASSUME ra_chain_addr_ok(a, n.w)
       PROVE  Pack([k \in 0..(n.w - 1) |-> ra_read_ppc_byte(image, a + k)]) = read
  <2>1. ASSUME NEW k \in 0 .. n.w - 1 PROVE ra_read_ppc_byte(image, a + k) = image[a + k]
    <3>1. a + k \in GameMemory
      BY <1>14, <1>15 DEF Reach
    <3>2. QED
      BY <3>1 DEF ra_read_ppc_byte
  <2>2. [k \in 0..(n.w - 1) |-> ra_read_ppc_byte(image, a + k)]
        = [k \in 0..(n.w - 1) |-> image[a + k]]
    BY <2>1
  <2>3. QED
    BY <2>2, Zenon
<1>16. Found(n, ok, pv, image)
       = IF n.op = "none" THEN n.operand ELSE IF ~ok THEN 0
         ELSE IF n.op = "deref"
              THEN Pack([k \in 0..(n.w - 1) |-> ra_read_ppc_byte(image, a + k)])
         ELSE ra_chain_combine(pv, n.operand, n.op)
  BY <1>10, Zenon DEF Found, Address
<1> DEFINE rule == Evaluate(q, t + 1, n, image)
<1>17. /\ n.op = "none" => rule = [valid |-> Linked(q, t + 1, n), value |-> n.operand]
       /\ n.op # "none" /\ ~Linked(q, t + 1, n) => rule = Unwalked
  BY Zenon DEF Evaluate
<1>18. ASSUME EdgeResolves(w, n), n.op # "none"
       PROVE  /\ n.op # "deref"
                    => rule = [valid |-> TRUE, value |-> ra_chain_combine(pv, n.operand, n.op)]
              /\ n.op = "deref" /\ Reach(a, n.w) \subseteq GameMemory
                    => rule = [valid |-> TRUE, value |-> read]
              /\ n.op = "deref" /\ ~(Reach(a, n.w) \subseteq GameMemory) => rule = Unwalked
  <2>1. pv = IF n.parent = NoParent THEN 0 ELSE ra_chain_xform(Source(q, t + 1, n), n.psize)
    BY <1>9, <1>18
  <2>2. Linked(q, t + 1, n)
    BY <1>8, <1>18
  <2>3. rule = IF n.op # "deref"
               THEN [valid |-> TRUE, value |-> ra_chain_combine(pv, n.operand, n.op)]
               ELSE IF Reach(a, n.w) \subseteq GameMemory
               THEN [valid |-> TRUE, value |-> read]
               ELSE Unwalked
    BY <1>10, <1>18, <2>1, <2>2, Zenon DEF Evaluate, Reach
  <2>4. QED
    BY <2>3, Zenon
<1> HIDE DEF ok, read, rule
<1>19. ok \in BOOLEAN
  BY DEF ok, Resolves
<1>20. CASE n.op = "none"
  <2>1. ok <=> Linked(q, t + 1, n)
    BY <1>8, <1>13, <1>20
  <2>2. ok = Linked(q, t + 1, n)
    <3>1. Linked(q, t + 1, n) \in BOOLEAN
      BY DEF Linked
    <3>2. QED
      BY <1>19, <2>1, <3>1
  <2>3. Found(n, ok, pv, image) = n.operand
    BY <1>16, <1>20
  <2>4. QED
    BY <1>1, <1>3, <1>12, <1>17, <1>20, <2>2, <2>3, Zenon DEF rule
<1>21. CASE n.op # "none" /\ ~ok
  <2>1. Found(n, ok, pv, image) = 0 /\ ok = FALSE
    BY <1>16, <1>19, <1>21
  <2>2. q[<<t + 1, i>>] = Unwalked
    BY <1>12, <2>1, Zenon DEF Unwalked
  <2>3. rule = Unwalked
    <3>1. CASE ~EdgeResolves(w, n)
      BY <1>8, <1>17, <1>21, <3>1
    <3>2. CASE EdgeResolves(w, n)
      <4>1. n.op = "deref" /\ ~ra_chain_addr_ok(a, n.w)
        BY <1>13, <1>21, <3>2
      <4>2. QED
        BY <1>14, <1>18, <3>2, <4>1
    <3>3. QED
      BY <3>1, <3>2
  <2>4. QED
    BY <1>1, <1>3, <2>2, <2>3, Zenon DEF rule
<1>22. CASE n.op = "deref" /\ ok
  <2>1. EdgeResolves(w, n) /\ ra_chain_addr_ok(a, n.w)
    BY <1>13, <1>22
  <2>2. Found(n, ok, pv, image) = read
    BY <1>15, <1>16, <1>22, <2>1
  <2>3. rule = [valid |-> TRUE, value |-> read]
    BY <1>14, <1>18, <1>22, <2>1
  <2>4. ok = TRUE
    BY <1>19, <1>22
  <2>5. QED
    BY <1>1, <1>3, <1>12, <2>2, <2>3, <2>4, Zenon DEF rule
<1>23. CASE n.op \notin {"none", "deref"} /\ ok
  <2>1. EdgeResolves(w, n)
    BY <1>13, <1>23
  <2>2. Found(n, ok, pv, image) = ra_chain_combine(pv, n.operand, n.op)
    BY <1>16, <1>23
  <2>3. rule = [valid |-> TRUE, value |-> ra_chain_combine(pv, n.operand, n.op)]
    BY <1>18, <1>23, <2>1
  <2>4. ok = TRUE
    BY <1>19, <1>23
  <2>5. QED
    BY <1>1, <1>3, <1>12, <2>2, <2>3, <2>4, Zenon DEF rule
<1>24. QED
  BY <1>20, <1>21, <1>22, <1>23

LEMMA HistoryStep ==
    ASSUME IInv, NEW sees \in Sights, NEW w \in NodeStates, NEW taken \in BOOLEAN, NEW made,
           Walked(sees, w), Fired(sees, w, made, taken)
    PROVE  HistoryInv'
<1>1. SUFFICES ASSUME keep'
               PROVE  \E q : Obeys(q, history)' /\ Holds(q, Len(history))'
  BY DEF HistoryInv
<1>2. /\ node' = w /\ havePrev' = TRUE /\ table' = table /\ Nodes' = Nodes
      /\ keep /\ history' = Append(history, sees)
  BY <1>1 DEF Fired, Nodes
<1>3. table \in Tables /\ havePrev \in BOOLEAN /\ history \in Seq(Sights)
  BY DEF IInv, TableInv, TypeInv
<1>4. PICK m : Obeys(m, history) /\ Holds(m, Len(history))
  BY <1>2 DEF IInv, HistoryInv
<1>5. PICK t \in Nat : t = Len(history)
  BY <1>3
<1>6. /\ Len(history') = t + 1 /\ history'[t + 1] = sees
      /\ \A s \in 1 .. t : history'[s] = history[s]
  BY <1>2, <1>3, <1>5
<1>7. Holds(m, t)
  BY <1>4, <1>5
<1>8. PICK q : q = [p \in (0 .. t + 1) \X Nodes |->
                      IF p[1] <= t THEN m[p]
                      ELSE [valid |-> w.valid[p[2]], value |-> w.value[p[2]]]]
  OBVIOUS
<1>9. Extends(q, m, t, w)
  <2>1. ASSUME NEW s \in 0 .. t, NEW i \in Nodes PROVE q[<<s, i>>] = m[<<s, i>>]
    <3>1. <<s, i>> \in (0 .. t + 1) \X Nodes /\ <<s, i>>[1] <= t
      OBVIOUS
    <3>2. QED
      BY <1>8, <3>1
  <2>2. ASSUME NEW i \in Nodes
        PROVE  q[<<t + 1, i>>] = [valid |-> w.valid[i], value |-> w.value[i]]
    <3>1. <<t + 1, i>> \in (0 .. t + 1) \X Nodes /\ ~(<<t + 1, i>>[1] <= t)
      OBVIOUS
    <3>2. QED
      BY <1>8, <3>1
  <2>3. QED
    BY <2>1, <2>2 DEF Extends
<1>10. ASSUME NEW s \in 0 .. t + 1, NEW i \in Nodes, s # 0
       PROVE  q[<<s, i>>] = Evaluate(q, s, table[i], Images[history'[s][i]])
  <2>1. PICK n \in ChainNode : n = table[i] /\ n.parent \in Nat /\ n.parent < i
    BY <1>3, TableFacts DEF Nodes
  <2>2. CASE s = t + 1
    <3>1. q[<<t + 1, i>>] = Evaluate(q, t + 1, table[i], Images[sees[i]])
      BY <1>3, <1>7, <1>9, FoundIsRule
    <3>2. QED
      BY <1>6, <2>2, <3>1
  <2>3. CASE s # t + 1
    <3>1. s \in 1 .. t /\ s \in 0 .. t /\ s \in Nat \ {0}
      BY <1>10, <2>3
    <3>2. m[<<s, i>>] = Evaluate(m, s, n, Images[history[s][i]])
      <4>1. m[<<s, i>>] = Rule(m, history, s, i)
        BY <1>4, <1>5, <3>1 DEF Obeys
      <4>2. QED
        BY <2>1, <3>1, <4>1, Zenon DEF Rule
    <3>3. q[<<s, i>>] = m[<<s, i>>]
      BY <1>9, <3>1 DEF Extends
    <3>4. n.parent # NoParent => SamePast(m, q, s, n.parent)
      <4>1. SUFFICES ASSUME n.parent # NoParent PROVE SamePast(m, q, s, n.parent)
        OBVIOUS
      <4>2. n.parent \in Nodes
        <5>1. Nodes = 1 .. Len(table) /\ Len(table) \in Nat
          BY <1>3, TableFacts DEF Nodes
        <5>2. QED
          BY <2>1, <4>1, <5>1 DEF NoParent
      <4>3. \A r \in 0 .. s : r \in 0 .. t
        BY <3>1
      <4>4. QED
        BY <1>9, <4>2, <4>3 DEF Extends, SamePast
    <3>5. Evaluate(m, s, n, Images[history[s][i]]) = Evaluate(q, s, n, Images[history[s][i]])
      BY <3>1, <3>4, SameRule
    <3>6. history'[s] = history[s]
      BY <1>6, <3>1
    <3>7. QED
      BY <2>1, <3>2, <3>3, <3>5, <3>6
  <2>4. QED
    BY <2>2, <2>3
<1>11. \A i \in Nodes : q[<<0, i>>] = Unwalked
  <2>1. 0 \in 0 .. t
    OBVIOUS
  <2>2. \A i \in Nodes : m[<<0, i>>] = Unwalked
    BY <1>4, <1>5, <2>1 DEF Obeys, Rule
  <2>3. QED
    BY <1>9, <2>1, <2>2 DEF Extends
<1>12. Obeys(q, history)'
  <2>1. ASSUME NEW s \in 0 .. t + 1, NEW i \in Nodes
        PROVE  q[<<s, i>>] = IF s = 0 THEN Unwalked
                             ELSE Evaluate(q, s, table[i], Images[history'[s][i]])
    BY <1>10, <1>11
  <2>2. QED
    BY <1>2, <1>6, <2>1, Zenon DEF Obeys, Rule
<1>13. Holds(q, Len(history))'
  <2>1. havePrev' <=> Len(history') > 0
    BY <1>2, <1>6
  <2>2. ASSUME NEW i \in Nodes
        PROVE  /\ q[<<t + 1, i>>] = [valid |-> node'.valid[i], value |-> node'.value[i]]
               /\ node'.prev[i] = IF t + 1 = 0 THEN 0 ELSE q[<<(t + 1) - 1, i>>].value
               /\ node'.prior[i] = LastDifferent(q, t + 1, i)
    <3>1. q[<<t + 1, i>>] = [valid |-> node'.valid[i], value |-> node'.value[i]]
      BY <1>2, <1>9 DEF Extends
    <3>2. q[<<(t + 1) - 1, i>>].value = w.prev[i]
      <4>1. (t + 1) - 1 = t /\ t \in 0 .. t
        OBVIOUS
      <4>2. q[<<t, i>>] = m[<<t, i>>]
        BY <1>9, <4>1 DEF Extends
      <4>3. m[<<t, i>>] = [valid |-> node.valid[i], value |-> node.value[i]]
        BY <1>7 DEF Holds
      <4>4. m[<<t, i>>].value = node.value[i]
        BY <4>3
      <4>5. w.prev[i] = node.value[i]
        BY DEF Walked
      <4>6. QED
        BY <4>1, <4>2, <4>4, <4>5
    <3>3. w.prior[i] = LastDifferent(q, t + 1, i)
      <4>1. w.prior[i] = IF w.value[i] # node.value[i] THEN node.value[i] ELSE node.prior[i]
        BY DEF Walked
      <4>2. QED
        BY <1>7, <1>9, <4>1, PriorStep
    <3>4. t + 1 # 0
      OBVIOUS
    <3>5. QED
      BY <1>2, <3>1, <3>2, <3>3, <3>4
  <2>3. QED
    BY <1>2, <1>6, <2>1, <2>2, Zenon DEF Holds
<1>14. QED
  BY <1>12, <1>13

LEMMA TypeStep ==
    ASSUME IInv, mem' \in DOMAIN Images,
           NEW sees \in Sights, NEW w \in NodeStates, NEW taken \in BOOLEAN, NEW made,
           Fired(sees, w, made, taken)
    PROVE  TableInv' /\ TypeInv'
<1>1. /\ table' = table /\ ship' = ship /\ dpList' = dpList /\ keep' = keep
      /\ node' = w /\ havePrev' = TRUE /\ Nodes' = Nodes
      /\ history' = IF keep THEN Append(history, sees) ELSE history
  BY DEF Fired, Nodes
<1>2. TableInv'
  BY <1>1 DEF IInv, TableInv
<1>3. NodeStates' = NodeStates /\ Sights' = Sights
  BY <1>1 DEF NodeStates, Sights
<1>4. history \in Seq(Sights) /\ keep \in BOOLEAN
  BY DEF IInv, TypeInv
<1>5. history' \in Seq(Sights)
  <2>1. CASE keep
    BY <1>1, <1>4, <2>1
  <2>2. CASE ~keep
    BY <1>1, <1>4, <2>2
  <2>3. QED
    BY <2>1, <2>2
<1>6. TypeInv'
  BY <1>1, <1>3, <1>4, <1>5 DEF TypeInv
<1>7. QED
  BY <1>2, <1>6

(* The table and its lists stand, the state of the walk is well typed, the *)
(* cursor reaches every slot before its age does, the evaluator's last two *)
(* value arrays are those of the walk, and what the nodes hold are the     *)
(* last rows of a history that obeys the evaluator's rules                 *)
(* (ra_chain_walk and ra_send_snapshot, whatever the game writes while     *)
(* they run).                                                              *)
THEOREM WalkInvariant == Spec => []IInv
<1>1. Init => IInv
  BY InitIInv
<1>2. IInv /\ [Next]_vars => IInv'
  <2>1. SUFFICES ASSUME IInv, [Next]_vars PROVE IInv'
    OBVIOUS
  <2>2. CASE ra_send_snapshot
    <3>1. mem' \in DOMAIN Images
      BY <2>1, <2>2, FireIs
    <3>2. PICK sees \in Sights, w \in NodeStates, taken \in BOOLEAN, count \in FlatCounts :
             Walked(sees, w) /\ Fired(sees, w, Snapshot(w, count), taken)
      BY <2>1, <2>2, FireIs
    <3>3. TableInv' /\ TypeInv'
      BY <2>1, <3>1, <3>2, TypeStep
    <3>4. WindowInv'
      BY <2>1, <3>2, WindowStep
    <3>5. DeltaInv'
      BY <2>1, <3>2, DeltaStep
    <3>6. HistoryInv'
      BY <2>1, <3>2, HistoryStep
    <3>7. QED
      BY <3>3, <3>4, <3>5, <3>6 DEF IInv
  <2>3. CASE UNCHANGED vars
    <3>1. /\ table' = table /\ ship' = ship /\ dpList' = dpList /\ mem' = mem /\ node' = node
          /\ havePrev' = havePrev /\ winNext' = winNext /\ snap' = snap /\ age' = age
          /\ evaluated' = evaluated /\ keep' = keep /\ history' = history
      BY <2>3 DEF vars
    <3>2. TableInv' /\ TypeInv'
      BY <2>1, <3>1 DEF IInv, TableInv, TypeInv, NodeStates, Sights, Nodes
    <3>3. WindowInv'
      BY <2>1, <3>1 DEF IInv, WindowInv, Ahead
    <3>4. DeltaInv'
      BY <2>1, <3>1 DEF IInv, DeltaInv, DpSection, Nodes
    <3>5. HistoryInv'
      BY <2>1, <3>1 DEF IInv, HistoryInv, Obeys, Rule, Holds, Nodes
    <3>6. QED
      BY <3>2, <3>3, <3>4, <3>5 DEF IInv
  <2>4. QED
    BY <2>1, <2>2, <2>3 DEF Next
<1>3. QED
  BY <1>1, <1>2, PTL DEF Spec

(* Every snapshot fits the buffer and the rotating window comes back to    *)
(* every shipped node before as many snapshots as there are slots have     *)
(* been built, for every table the adapter may serve and whatever the flat *)
(* watchlist leaves (ra_send_snapshot, ra_chain_win_next).                 *)
THEOREM WindowComesRound == Spec => []WindowRotates
<1>1. IInv => WindowRotates
  <2>1. SUFFICES ASSUME IInv PROVE WindowRotates
    OBVIOUS
  <2>2. /\ snap.length <= Budget /\ winNext \in Nat /\ 1 <= winNext
        /\ (ship # <<>> => winNext <= Len(ship)) /\ age \in [1 .. Len(ship) -> Nat]
        /\ \A s \in 1 .. Len(ship) : age[s] + Ahead(s) < Len(ship)
    BY <2>1 DEF IInv, WindowInv
  <2>3. Len(ship) \in Nat
    BY <2>1, ListFacts DEF IInv
  <2>4. ASSUME NEW s \in 1 .. Len(ship) PROVE age[s] < Len(ship)
    <3>1. ship # <<>>
      <4>1. Len(<<>>) = 0
        OBVIOUS
      <4>2. QED
        BY <2>3, <4>1
    <3>2. Ahead(s) \in Nat
      BY <2>2, <2>3, <3>1 DEF Ahead
    <3>3. age[s] \in Nat /\ age[s] + Ahead(s) < Len(ship)
      BY <2>2
    <3>4. PICK a \in Nat, b \in Nat : a = age[s] /\ b = Ahead(s)
      BY <3>2, <3>3
    <3>5. QED
      BY <2>3, <3>3, <3>4
  <2>5. QED
    BY <2>2, <2>4 DEF WindowRotates
<1>2. QED
  BY <1>1, WalkInvariant, PTL

(* The history values a snapshot carries are those of the walk the         *)
(* evaluator saw last, whenever the link took that walk's snapshot too     *)
(* (ra_send_snapshot; main.c: "so previous walk IS the evaluator's         *)
(* delta").                                                                *)
THEOREM DeltasAreEvaluators == Spec => []DeltaIsEvaluators
<1>1. IInv => DeltaIsEvaluators
  <2>1. SUFFICES ASSUME IInv, Len(evaluated) = 2,
                        NEW k \in DOMAIN snap.dp, dpList[k].kind = "delta"
                 PROVE  snap.dp[k] = evaluated[2][dpList[k].parent]
    BY DEF DeltaIsEvaluators
  <2>2. (\A i \in Nodes : evaluated[2][i] = node.prev[i]) /\ snap.dp = DpSection(node)
    BY <2>1 DEF IInv, DeltaInv
  <2>3. k \in DOMAIN dpList /\ snap.dp[k] = node.prev[dpList[k].parent]
    BY <2>1, <2>2 DEF DpSection
  <2>4. dpList[k].parent \in Nodes
    BY <2>1, <2>3, ListFacts DEF IInv
  <2>5. QED
    BY <2>2, <2>3, <2>4
<1>2. QED
  BY <1>1, WalkInvariant, PTL

(* After any number of walks over a memory that changes under the walker,  *)
(* every node holds the value and the validity the evaluator's rules give  *)
(* it, for every table whose parents come first (ra_chain_walk, one        *)
(* forward pass over arrays updated in place).                             *)
THEOREM WalksAreMeant == Spec => []WalkIsMeant
<1>1. IInv => WalkIsMeant
  <2>1. SUFFICES ASSUME IInv, keep, NEW i \in Nodes
                 PROVE  LET meant == Meaning[<<Len(history), i>>]
                        IN  node.value[i] = meant.value /\ node.valid[i] = meant.valid
    BY DEF WalkIsMeant
  <2>2. PICK m : Obeys(m, history) /\ Holds(m, Len(history))
    BY <2>1 DEF IInv, HistoryInv
  <2>3. table \in Tables /\ Len(history) \in Nat
    BY <2>1 DEF IInv, TableInv, TypeInv
  <2>4. Meaning[<<Len(history), i>>] = m[<<Len(history), i>>]
    BY <2>2, <2>3, MeaningIs
  <2>5. m[<<Len(history), i>>] = [valid |-> node.valid[i], value |-> node.value[i]]
    BY <2>2 DEF Holds
  <2>6. QED
    BY <2>4, <2>5
<1>2. QED
  BY <1>1, WalkInvariant, PTL

-----------------------------------------------------------------------------
(* Sums over the first numbers. *)

LEMMA SumLast ==
    ASSUME NEW n \in Nat, NEW w \in [0 .. n -> Nat], NEW u \in [0 .. n - 1 -> Nat],
           \A k \in 0 .. n - 1 : u[k] = w[k]
    PROVE  SumFunction(w) = w[n] + SumFunction(u)
<1>1. IsFiniteSet(0 .. n) /\ n \in 0 .. n
  BY FS_Interval
<1>2. SumFunction(w) = w[n] + SumFunction([d \in (0 .. n) \ {n} |-> w[d]])
  BY <1>1, SumSplit
<1>3. (0 .. n) \ {n} = 0 .. n - 1
  OBVIOUS
<1>4. [d \in (0 .. n) \ {n} |-> w[d]] = u
  BY <1>3
<1>5. QED
  BY <1>2, <1>4

(* The last term is added to the sum of the others. *)
LastAdded(n, w) ==
    \E u \in [0 .. n - 1 -> Nat] : /\ \A k \in 0 .. n - 1 : u[k] = w[k]
                                   /\ SumFunction(w) = w[n] + SumFunction(u)

LEMMA SumLess ==
    ASSUME NEW n \in Nat \ {0}, NEW w \in [0 .. n -> Nat]
    PROVE  LastAdded(n, w)
<1> DEFINE f == [k \in 0 .. n - 1 |-> w[k]]
<1>1. f \in [0 .. n - 1 -> Nat] /\ \A k \in 0 .. n - 1 : f[k] = w[k]
  OBVIOUS
<1> HIDE DEF f
<1>2. SumFunction(w) = w[n] + SumFunction(f)
  BY <1>1, SumLast
<1>3. QED
  BY <1>1, <1>2 DEF LastAdded

LEMMA SumTwo ==
    ASSUME NEW w \in [0 .. 1 -> Nat]
    PROVE  SumFunction(w) = w[0] + w[1]
<1>1. PICK u \in [0 .. 0 -> Nat] : u[0] = w[0] /\ SumFunction(w) = w[1] + SumFunction(u)
  <2>1. PICK n \in Nat \ {0} : n = 1 /\ w \in [0 .. n -> Nat]
    OBVIOUS
  <2>2. LastAdded(n, w)
    BY <2>1, SumLess
  <2>3. QED
    BY <2>1, <2>2, n - 1 = 0 DEF LastAdded
<1>2. u \in [{0} -> Nat]
  <2>1. 0 .. 0 = {0}
    OBVIOUS
  <2>2. QED
    BY <2>1
<1>3. SumFunction(u) = u[0]
  BY <1>2, SumOne
<1>4. w[0] \in Nat /\ w[1] \in Nat
  OBVIOUS
<1>5. QED
  BY <1>1, <1>3, <1>4

LEMMA SumThree ==
    ASSUME NEW w \in [0 .. 2 -> Nat]
    PROVE  SumFunction(w) = w[0] + w[1] + w[2]
<1>1. PICK u \in [0 .. 1 -> Nat] : /\ \A k \in 0 .. 1 : u[k] = w[k]
                                   /\ SumFunction(w) = w[2] + SumFunction(u)
  <2>1. PICK n \in Nat \ {0} : n = 2 /\ w \in [0 .. n -> Nat]
    OBVIOUS
  <2>2. LastAdded(n, w)
    BY <2>1, SumLess
  <2>3. QED
    BY <2>1, <2>2, n - 1 = 1 DEF LastAdded
<1>2. SumFunction(u) = u[0] + u[1]
  BY SumTwo
<1>3. w[0] \in Nat /\ w[1] \in Nat /\ w[2] \in Nat
  OBVIOUS
<1>4. u[0] = w[0] /\ u[1] = w[1]
  BY <1>1
<1>5. QED
  BY <1>1, <1>2, <1>3, <1>4

LEMMA SumFour ==
    ASSUME NEW w \in [0 .. 3 -> Nat]
    PROVE  SumFunction(w) = w[0] + w[1] + w[2] + w[3]
<1>1. PICK u \in [0 .. 2 -> Nat] : /\ \A k \in 0 .. 2 : u[k] = w[k]
                                   /\ SumFunction(w) = w[3] + SumFunction(u)
  <2>1. PICK n \in Nat \ {0} : n = 3 /\ w \in [0 .. n -> Nat]
    OBVIOUS
  <2>2. LastAdded(n, w)
    BY <2>1, SumLess
  <2>3. QED
    BY <2>1, <2>2, n - 1 = 2 DEF LastAdded
<1>2. SumFunction(u) = u[0] + u[1] + u[2]
  BY SumThree
<1>3. w[0] \in Nat /\ w[1] \in Nat /\ w[2] \in Nat /\ w[3] \in Nat
  OBVIOUS
<1>4. u[0] = w[0] /\ u[1] = w[1] /\ u[2] = w[2]
  BY <1>1
<1>5. QED
  BY <1>1, <1>2, <1>3, <1>4

(* The sum of n terms does not depend on their order. *)
LEMMA SumMirrored ==
    ASSUME NEW n \in 2 .. 4, NEW w \in [0 .. n - 1 -> Nat], NEW u \in [0 .. n - 1 -> Nat],
           \A k \in 0 .. n - 1 : u[k] = w[n - 1 - k]
    PROVE  SumFunction(u) = SumFunction(w)
<1>1. CASE n = 2
  <2>1. w \in [0 .. 1 -> Nat] /\ u \in [0 .. 1 -> Nat] /\ u[0] = w[1] /\ u[1] = w[0]
    BY <1>1
  <2>2. SumFunction(u) = u[0] + u[1] /\ SumFunction(w) = w[0] + w[1]
    BY <2>1, SumTwo
  <2>3. w[0] \in Nat /\ w[1] \in Nat
    BY <2>1
  <2>4. QED
    BY <2>1, <2>2, <2>3
<1>2. CASE n = 3
  <2>1. /\ w \in [0 .. 2 -> Nat] /\ u \in [0 .. 2 -> Nat]
        /\ u[0] = w[2] /\ u[1] = w[1] /\ u[2] = w[0]
    BY <1>2
  <2>2. SumFunction(u) = u[0] + u[1] + u[2] /\ SumFunction(w) = w[0] + w[1] + w[2]
    BY <2>1, SumThree
  <2>3. w[0] \in Nat /\ w[1] \in Nat /\ w[2] \in Nat
    BY <2>1
  <2>4. QED
    BY <2>1, <2>2, <2>3
<1>3. CASE n = 4
  <2>1. /\ w \in [0 .. 3 -> Nat] /\ u \in [0 .. 3 -> Nat]
        /\ u[0] = w[3] /\ u[1] = w[2] /\ u[2] = w[1] /\ u[3] = w[0]
    BY <1>3
  <2>2. SumFunction(u) = u[0] + u[1] + u[2] + u[3] /\ SumFunction(w) = w[0] + w[1] + w[2] + w[3]
    BY <2>1, SumFour
  <2>3. PICK a, b, c, d \in Nat : a = w[0] /\ b = w[1] /\ c = w[2] /\ d = w[3]
    BY <2>1
  <2>4. SumFunction(u) = d + c + b + a /\ SumFunction(w) = a + b + c + d
    BY <2>1, <2>2, <2>3
  <2>5. QED
    BY <2>4
<1>4. QED
  BY <1>1, <1>2, <1>3

(* Packed lowest byte first, swapped: read highest byte first. *)
LEMMA SwapReads ==
    ASSUME NEW v \in Nat, NEW n \in 2 .. 4
    PROVE  Swap(v, n) = BigEndian(v, n)
<1> DEFINE b == [k \in 0 .. n - 1 |-> ByteOf(v, n - 1 - k)]
           u == [k \in 0 .. n - 1 |-> b[k] * Byte^k]
           w == [k \in 0 .. n - 1 |-> ByteOf(v, k) * Byte^(n - 1 - k)]
<1>1. ASSUME NEW i \in 0 .. n - 1, NEW j \in 0 .. n - 1 PROVE ByteOf(v, i) * Byte^j \in Nat
  <2>1. PICK x \in Nat, y \in Nat : x = ByteOf(v, i) /\ y = Byte^j
    <3>1. i \in 0 .. 3 /\ j \in 0 .. 3
      OBVIOUS
    <3>2. QED
      BY <3>1, ByteOfType, PowerAssumption
  <2>2. x * y \in Nat
    OBVIOUS
  <2>3. QED
    BY <2>1, <2>2
<1>2. ASSUME NEW k \in 0 .. n - 1 PROVE n - 1 - k \in 0 .. n - 1 /\ n - 1 - (n - 1 - k) = k
  OBVIOUS
<1>3. ASSUME NEW k \in 0 .. n - 1
      PROVE  u[k] = ByteOf(v, n - 1 - k) * Byte^k /\ w[k] = ByteOf(v, k) * Byte^(n - 1 - k)
  OBVIOUS
<1>4. u \in [0 .. n - 1 -> Nat] /\ w \in [0 .. n - 1 -> Nat]
  BY <1>1, <1>2
<1>5. ASSUME NEW k \in 0 .. n - 1 PROVE u[k] = w[n - 1 - k]
  <2>1. PICK m \in 0 .. n - 1 : m = n - 1 - k /\ n - 1 - m = k
    BY <1>2
  <2>2. w[m] = ByteOf(v, m) * Byte^k
    BY <2>1, <1>3
  <2>3. QED
    BY <2>1, <2>2, <1>3
<1>6. Swap(v, n) = SumFunction(u)
  BY DEF Swap, Pack
<1>7. BigEndian(v, n) = SumFunction(w)
  BY DEF BigEndian
<1> HIDE DEF u, w
<1>8. QED
  BY <1>4, <1>5, <1>6, <1>7, SumMirrored

(* Words bit by bit: f[k] is bit k, BitSum(f, n) the value of the first n. *)

Flags == [0 .. 4 * Bits - 1 -> {0, 1}]
BitSum(f, n) == SumFunction([k \in 0 .. n - 1 |-> f[k] * 2^k])

(* One more bit. *)
BitStep(f, n) ==
    \E p \in Nat \ {0}, s \in Nat :
        /\ p = 2^n /\ 2^(n + 1) = 2 * p
        /\ s = BitSum(f, n) /\ BitSum(f, n + 1) = (IF f[n] = 1 THEN p ELSE 0) + s

LEMMA Powers ==
    ASSUME NEW k \in 0 .. 4 * Bits
    PROVE  2^k \in Nat \ {0} /\ (k < 4 * Bits => 2^(k + 1) = 2 * 2^k)
BY PowerAssumption, OpsAssumption

LEMMA BitTerms ==
    ASSUME NEW f \in Flags, NEW n \in 0 .. 4 * Bits
    PROVE  [k \in 0 .. n - 1 |-> f[k] * 2^k] \in [0 .. n - 1 -> Nat]
<1>1. ASSUME NEW k \in 0 .. n - 1 PROVE f[k] * 2^k \in Nat
  <2>1. PICK p \in Nat, b \in {0, 1} : p = 2^k /\ b = f[k]
    <3>1. k \in 0 .. 4 * Bits - 1 /\ k \in 0 .. 4 * Bits
      BY OpsAssumption
    <3>2. QED
      BY <3>1, Powers DEF Flags
  <2>2. QED
    BY <2>1
<1>2. QED
  BY <1>1

LEMMA BitSumNext ==
    ASSUME NEW f \in Flags, NEW n \in 0 .. 4 * Bits - 1
    PROVE  BitStep(f, n)
<1>1. n \in 0 .. 4 * Bits /\ n + 1 \in 0 .. 4 * Bits /\ n < 4 * Bits /\ n \in Nat
  BY OpsAssumption
<1>2. PICK p \in Nat \ {0} : p = 2^n /\ 2^(n + 1) = 2 * p
  BY <1>1, Powers
<1>3. PICK m \in 0 .. 4 * Bits : m = n + 1 /\ 0 .. m - 1 = 0 .. n
  BY <1>1
<1>4. PICK w : w = [k \in 0 .. n |-> f[k] * 2^k]
  OBVIOUS
<1>5. PICK u : u = [k \in 0 .. n - 1 |-> f[k] * 2^k]
  OBVIOUS
<1>6. u \in [0 .. n - 1 -> Nat]
  BY <1>1, <1>5, BitTerms
<1>7. w \in [0 .. n -> Nat]
  <2>1. [k \in 0 .. m - 1 |-> f[k] * 2^k] \in [0 .. m - 1 -> Nat]
    BY BitTerms
  <2>2. QED
    BY <1>3, <1>4, <2>1
<1>8. \A k \in 0 .. n - 1 : u[k] = w[k]
  BY <1>1, <1>4, <1>5
<1>9. SumFunction(w) = w[n] + SumFunction(u)
  BY <1>1, <1>6, <1>7, <1>8, SumLast
<1>10. w[n] = IF f[n] = 1 THEN p ELSE 0
  <2>1. PICK b \in {0, 1} : b = f[n] /\ w[n] = b * p
    BY <1>1, <1>2, <1>4 DEF Flags
  <2>2. QED
    BY <2>1
<1>11. SumFunction(u) = BitSum(f, n)
  BY <1>5 DEF BitSum
<1>12. SumFunction(w) = BitSum(f, n + 1)
  <2>1. BitSum(f, m) = SumFunction([k \in 0 .. m - 1 |-> f[k] * 2^k])
    BY DEF BitSum
  <2>2. QED
    BY <1>3, <1>4, <2>1
<1>13. SumFunction(u) \in Nat
  <2>1. IsFiniteSet(0 .. n - 1)
    BY <1>1, FS_Interval
  <2>2. QED
    BY <1>6, <2>1, SumType
<1>14. QED
  BY <1>2, <1>9, <1>10, <1>11, <1>12, <1>13 DEF BitStep

LEMMA BitSumNone ==
    ASSUME NEW f \in Flags
    PROVE  BitSum(f, 0) = 0
<1>1. PICK w : w = [k \in 0 .. 0 - 1 |-> f[k] * 2^k]
  OBVIOUS
<1>2. 0 .. 0 - 1 = {}
  OBVIOUS
<1>3. w \in [{} -> Nat]
  BY <1>1, <1>2
<1>4. SumFunction(w) = 0
  BY <1>3, SumNone
<1>5. QED
  BY <1>1, <1>4 DEF BitSum

LEMMA BitSumBound ==
    ASSUME NEW f \in Flags, NEW n \in 0 .. 4 * Bits
    PROVE  BitSum(f, n) \in Nat /\ BitSum(f, n) < 2^n
<1> DEFINE S == {i \in Nat : i <= 4 * Bits => BitSum(f, i) \in Nat /\ BitSum(f, i) < 2^i}
<1>1. 0 \in S
  BY BitSumNone, PowerAssumption
<1>2. ASSUME NEW i \in S PROVE i + 1 \in S
  <2>1. SUFFICES ASSUME i + 1 <= 4 * Bits
                 PROVE  BitSum(f, i + 1) \in Nat /\ BitSum(f, i + 1) < 2^(i + 1)
    OBVIOUS
  <2>2. i \in 0 .. 4 * Bits - 1
    BY <2>1, OpsAssumption
  <2>3. BitStep(f, i)
    BY <2>2, BitSumNext
  <2>4. BitSum(f, i) \in Nat /\ BitSum(f, i) < 2^i
    BY <2>2, OpsAssumption
  <2> HIDE DEF S
  <2>5. PICK p \in Nat \ {0}, s \in Nat :
            /\ p = 2^i /\ 2^(i + 1) = 2 * p
            /\ s = BitSum(f, i) /\ BitSum(f, i + 1) = (IF f[i] = 1 THEN p ELSE 0) + s
    BY <2>3 DEF BitStep
  <2>6. PICK x \in {0, p} : x = IF f[i] = 1 THEN p ELSE 0
    OBVIOUS
  <2>7. s < p /\ BitSum(f, i + 1) = x + s
    BY <2>4, <2>5, <2>6
  <2>8. x + s \in Nat /\ x + s < 2 * p
    BY <2>5, <2>6, <2>7
  <2>9. QED
    BY <2>5, <2>7, <2>8
<1> HIDE DEF S
<1>3. n \in S
  <2>1. S \in SUBSET Nat
    BY DEF S
  <2>2. S = Nat
    BY <1>1, <1>2, <2>1, SetInduction
  <2>3. QED
    BY <2>2
<1>4. QED
  BY <1>3, OpsAssumption DEF S

(* From bit j on everything is a multiple of 2^j. *)
Above(f, j, n) ==
    \E t \in Nat, m \in Nat : BitSum(f, n) = BitSum(f, j) + 2^j * t /\ 2^n = 2^j * m

LEMMA AboveIs ==
    ASSUME NEW f \in Flags, NEW j \in 0 .. 4 * Bits, NEW n \in j .. 4 * Bits
    PROVE  Above(f, j, n)
<1> DEFINE S == {i \in Nat : j + i <= 4 * Bits => Above(f, j, j + i)}
<1>1. PICK q \in Nat \ {0}, b \in Nat : q = 2^j /\ b = BitSum(f, j)
  BY Powers, BitSumBound
<1>2. 0 \in S
  <2>1. b = b + q * 0 /\ q = q * 1
    OBVIOUS
  <2>2. j + 0 = j
    OBVIOUS
  <2>3. QED
    BY <1>1, <2>1, <2>2 DEF Above
<1>3. ASSUME NEW i \in S PROVE i + 1 \in S
  <2>1. SUFFICES ASSUME j + (i + 1) <= 4 * Bits PROVE Above(f, j, j + (i + 1))
    OBVIOUS
  <2>2. PICK c \in 0 .. 4 * Bits - 1 : c = j + i /\ c + 1 = j + (i + 1)
    BY <2>1, OpsAssumption
  <2>3. Above(f, j, c)
    BY <2>1, <2>2, OpsAssumption
  <2> HIDE DEF S
  <2>4. BitStep(f, c)
    BY BitSumNext
  <2>5. PICK p \in Nat \ {0}, s \in Nat :
            /\ p = 2^c /\ 2^(c + 1) = 2 * p
            /\ s = BitSum(f, c) /\ BitSum(f, c + 1) = (IF f[c] = 1 THEN p ELSE 0) + s
    BY <2>4 DEF BitStep
  <2>6. PICK t \in Nat, m \in Nat : s = b + q * t /\ p = q * m
    BY <1>1, <2>3, <2>5 DEF Above
  <2>7. PICK x \in Nat : BitSum(f, c + 1) = b + q * x
    <3>1. CASE f[c] = 1
      <4>1. q * (t + m) = q * t + q * m /\ q * t \in Nat /\ q * m \in Nat /\ t + m \in Nat
        OBVIOUS
      <4>2. BitSum(f, c + 1) = b + q * (t + m)
        BY <2>5, <2>6, <3>1, <4>1
      <4>3. QED
        BY <4>1, <4>2
    <3>2. CASE f[c] # 1
      BY <2>5, <2>6, <3>2
    <3>3. QED
      BY <3>1, <3>2
  <2>8. 2^(c + 1) = q * (2 * m) /\ 2 * m \in Nat
    <3>1. q * (2 * m) = 2 * (q * m)
      OBVIOUS
    <3>2. QED
      BY <2>5, <2>6, <3>1
  <2>9. Above(f, j, c + 1)
    BY <1>1, <2>7, <2>8 DEF Above
  <2>10. QED
    BY <2>2, <2>9
<1> HIDE DEF S
<1>4. S = Nat
  <2>1. S \in SUBSET Nat
    BY DEF S
  <2>2. QED
    BY <1>2, <1>3, <2>1, SetInduction
<1>5. PICK i \in Nat : n = j + i
  <2>1. n - j \in Nat /\ n = j + (n - j)
    OBVIOUS
  <2>2. QED
    BY <2>1
<1>6. i \in S /\ j + i <= 4 * Bits
  BY <1>4, <1>5, OpsAssumption
<1>7. QED
  BY <1>5, <1>6 DEF S

LEMMA BitOfSum ==
    ASSUME NEW f \in Flags, NEW j \in 0 .. 4 * Bits - 1
    PROVE  Bit(BitSum(f, 4 * Bits), j) = f[j]
<1>1. PICK c \in 0 .. 4 * Bits : c = j + 1
  BY OpsAssumption
<1>2. PICK last \in c .. 4 * Bits : last = 4 * Bits
  BY <1>1, OpsAssumption
<1>3. Above(f, c, last)
  BY AboveIs
<1>4. BitStep(f, j)
  BY BitSumNext
<1>5. PICK p \in Nat \ {0}, s \in Nat :
          /\ p = 2^j /\ 2^c = 2 * p
          /\ s = BitSum(f, j) /\ BitSum(f, c) = (IF f[j] = 1 THEN p ELSE 0) + s
  BY <1>1, <1>4 DEF BitStep
<1>6. s < p
  <2>1. j \in 0 .. 4 * Bits
    BY OpsAssumption
  <2>2. QED
    BY <1>5, <2>1, BitSumBound
<1>7. PICK b \in {0, 1} : b = f[j]
  BY DEF Flags
<1>8. PICK t \in Nat : BitSum(f, last) = (IF b = 1 THEN p ELSE 0) + s + (2 * p) * t
  <2>1. PICK t \in Nat : BitSum(f, last) = BitSum(f, c) + 2^c * t
    BY <1>3 DEF Above
  <2>2. QED
    BY <1>5, <1>7, <2>1
<1>9. PICK v \in Nat : v = BitSum(f, last) /\ v = (2 * t + b) * p + s
  <2>1. PICK y \in Nat : y = t * p
    OBVIOUS
  <2>2. (2 * p) * t = 2 * y
    BY <2>1
  <2>3. (2 * t + b) * p = 2 * y + (IF b = 1 THEN p ELSE 0)
    <3>1. CASE b = 0
      BY <2>1, <3>1
    <3>2. CASE b = 1
      BY <2>1, <3>2
    <3>3. QED
      BY <3>1, <3>2
  <2>4. QED
    BY <1>8, <2>2, <2>3
<1>10. v \div p = 2 * t + b
  <2>1. PICK q \in Nat : q = 2 * t + b
    OBVIOUS
  <2>2. v = q * p + s
    BY <1>9, <2>1
  <2>3. v \div p = q /\ v % p = s
    BY <1>6, <2>2, Division
  <2>4. QED
    BY <2>1, <2>3
<1>11. (2 * t + b) % 2 = b
  OBVIOUS
<1>12. QED
  BY <1>2, <1>5, <1>7, <1>9, <1>10, <1>11 DEF Bit

(* The bits of a number. *)
BitsOf(a) == [k \in 0 .. 4 * Bits - 1 |-> Bit(a, k)]

LEMMA BitsType ==
    ASSUME NEW a \in Nat
    PROVE  BitsOf(a) \in Flags
<1>1. ASSUME NEW k \in 0 .. 4 * Bits - 1 PROVE Bit(a, k) \in {0, 1}
  <2>1. k \in 0 .. 4 * Bits
    BY OpsAssumption
  <2>2. PICK p \in Nat \ {0} : p = 2^k
    BY <2>1, Powers
  <2>3. PICK q, r \in Nat : q = a \div p /\ r = a % p
    BY Remainder
  <2>4. q % 2 \in {0, 1}
    OBVIOUS
  <2>5. QED
    BY <2>2, <2>3, <2>4 DEF Bit
<1>2. QED
  BY <1>1 DEF Flags, BitsOf

LEMMA SumOfBits ==
    ASSUME NEW a \in Words
    PROVE  BitSum(BitsOf(a), 4 * Bits) = a
<1> DEFINE S == {i \in Nat : i <= 4 * Bits => BitSum(BitsOf(a), i) = a % 2^i}
<1>0. a \in Nat /\ a < Word /\ Word \in Nat
  BY Units DEF Words
<1>1. PICK f \in Flags : f = BitsOf(a)
  BY <1>0, BitsType
<1>2. 0 \in S
  <2>1. BitSum(BitsOf(a), 0) = 0
    BY <1>1, BitSumNone
  <2>2. a % 1 = 0
    BY <1>0
  <2>3. QED
    BY <2>1, <2>2, PowerAssumption
<1>3. ASSUME NEW i \in S PROVE i + 1 \in S
  <2>1. SUFFICES ASSUME i + 1 <= 4 * Bits PROVE BitSum(f, i + 1) = a % 2^(i + 1)
    BY <1>1
  <2>2. i \in 0 .. 4 * Bits - 1 /\ i <= 4 * Bits /\ i \in Nat
    BY <2>1, OpsAssumption
  <2>3. BitStep(f, i)
    BY <2>2, BitSumNext
  <2>4. BitSum(f, i) = a % 2^i
    BY <1>1, <2>2
  <2> HIDE DEF S
  <2>5. PICK p \in Nat \ {0}, s \in Nat :
            /\ p = 2^i /\ 2^(i + 1) = 2 * p
            /\ s = BitSum(f, i) /\ BitSum(f, i + 1) = (IF f[i] = 1 THEN p ELSE 0) + s
    BY <2>3 DEF BitStep
  <2>6. PICK q \in Nat, r \in Nat : q = a \div p /\ r = a % p /\ a = q * p + r /\ r < p
    BY <1>0, Remainder
  <2>7. PICK b \in {0, 1} : b = f[i] /\ b = q % 2
    <3>1. f[i] = Bit(a, i)
      BY <1>1, <2>2 DEF BitsOf
    <3>2. f[i] = q % 2
      BY <3>1, <2>5, <2>6 DEF Bit
    <3>3. q % 2 \in {0, 1}
      OBVIOUS
    <3>4. QED
      BY <3>2, <3>3
  <2>8. PICK h \in Nat : q = 2 * h + b
    <3>1. q = 2 * (q \div 2) + (q % 2) /\ q \div 2 \in Nat
      OBVIOUS
    <3>2. QED
      BY <2>7, <3>1
  <2>9. PICK x \in Nat : x = (IF b = 1 THEN p ELSE 0) + r
    OBVIOUS
  <2>10. a = h * (2 * p) + x /\ x < 2 * p
    <3>1. PICK y \in Nat : y = h * p
      OBVIOUS
    <3>2. h * (2 * p) = 2 * y
      BY <3>1
    <3>3. (2 * h + b) * p = 2 * y + (IF b = 1 THEN p ELSE 0)
      <4>1. CASE b = 0
        BY <3>1, <4>1
      <4>2. CASE b = 1
        BY <3>1, <4>2
      <4>3. QED
        BY <4>1, <4>2
    <3>4. a = (2 * h + b) * p + r
      BY <2>6, <2>8
    <3>5. QED
      BY <2>6, <2>9, <3>2, <3>3, <3>4
  <2>11. a % (2 * p) = x
    <3>1. PICK d \in Nat \ {0} : d = 2 * p
      OBVIOUS
    <3>2. QED
      BY <1>0, <2>10, <3>1, Division
  <2>12. s = r
    BY <2>4, <2>5, <2>6
  <2>13. QED
    BY <2>5, <2>7, <2>9, <2>11, <2>12
<1> HIDE DEF S
<1>4. 4 * Bits \in S
  <2>1. S \in SUBSET Nat
    BY DEF S
  <2>2. S = Nat
    BY <1>2, <1>3, <2>1, SetInduction
  <2>3. QED
    BY <2>2, OpsAssumption
<1>5. BitSum(BitsOf(a), 4 * Bits) = a % Word
  BY <1>4, OpsAssumption DEF S, Word
<1>6. a % Word = a
  BY <1>0
<1>7. QED
  BY <1>5, <1>6

(* The operands the reference definitions are evaluated at are words. *)
LEMMA OperandsAreWords ==
    ASSUME NEW b \in {0, 1, Byte, Word - 1}
    PROVE  b \in Nat /\ b < Word
<1>1. Word \in Nat /\ Word >= 4 /\ Byte \in Nat
  BY Units
<1>2. Byte < Word
  <2> DEFINE S == {i \in Nat : Bits + i < 4 * Bits => 2^Bits < 2^(Bits + i + 1)}
  <2>1. PICK u \in Nat \ {0} : u = 2^Bits
    BY Powers, OpsAssumption
  <2>2. ASSUME NEW c \in 0 .. 4 * Bits - 1
        PROVE  \E p \in Nat \ {0} : p = 2^c /\ 2^(c + 1) = 2 * p
    <3>1. c \in 0 .. 4 * Bits /\ c < 4 * Bits
      BY OpsAssumption
    <3>2. QED
      BY <3>1, Powers
  <2>3. 0 \in S
    <3>1. PICK c \in 0 .. 4 * Bits - 1 : c = Bits
      BY OpsAssumption
    <3>2. 2^(c + 1) = 2 * u
      BY <2>1, <2>2, <3>1
    <3>3. Bits + 0 + 1 = c + 1
      BY <3>1
    <3>4. QED
      BY <2>1, <3>2, <3>3
  <2>4. ASSUME NEW i \in S PROVE i + 1 \in S
    <3>1. SUFFICES ASSUME Bits + (i + 1) < 4 * Bits PROVE 2^Bits < 2^(Bits + (i + 1) + 1)
      OBVIOUS
    <3>2. PICK c \in 0 .. 4 * Bits - 1 : c = Bits + i + 1 /\ c = Bits + (i + 1)
      BY <3>1, OpsAssumption
    <3>3. u < 2^c
      BY <2>1, <3>1, <3>2, OpsAssumption
    <3>4. PICK p \in Nat \ {0} : p = 2^c /\ 2^(c + 1) = 2 * p
      BY <2>2
    <3>5. u < 2 * p
      BY <2>1, <3>3, <3>4
    <3>6. QED
      BY <2>1, <3>2, <3>4, <3>5
  <2> HIDE DEF S
  <2>5. S = Nat
    <3>1. S \in SUBSET Nat
      BY DEF S
    <3>2. QED
      BY <2>3, <2>4, <3>1, SetInduction
  <2>6. PICK i \in Nat : Bits + i < 4 * Bits /\ Bits + i + 1 = 4 * Bits
    <3>1. 3 * Bits - 1 \in Nat /\ Bits + (3 * Bits - 1) < 4 * Bits
          /\ Bits + (3 * Bits - 1) + 1 = 4 * Bits
      BY OpsAssumption
    <3>2. QED
      BY <3>1
  <2>7. 2^Bits < 2^(4 * Bits)
    BY <2>5, <2>6 DEF S
  <2>8. QED
    BY <2>7 DEF Byte, Word
<1>3. QED
  BY <1>1, <1>2

(* Adding and taking away the same word, in both orders. *)
LEMMA SumsUndo ==
    ASSUME NEW a \in Nat, NEW b \in Nat, NEW w \in Nat \ {0}, a < w, b < w
    PROVE  /\ (w + ((a + b) % w) - b) % w = a
           /\ (((w + a - b) % w) + b) % w = a
           /\ (w + b - ((w + b - a) % w)) % w = a
<1>1. ASSUME NEW x \in Nat, x < 2 * w PROVE x % w = IF x < w THEN x ELSE x - w
  <2>1. CASE x < w
    <3>1. x = 0 * w + x
      OBVIOUS
    <3>2. QED
      BY <2>1, <3>1, Division
  <2>2. CASE x >= w
    <3>1. PICK r \in Nat : r = x - w
      BY <2>2
    <3>2. x = 1 * w + r /\ r < w
      BY <1>1, <3>1
    <3>3. QED
      BY <2>2, <3>1, <3>2, Division
  <2>3. QED
    BY <2>1, <2>2
<1>2. (w + ((a + b) % w) - b) % w = a
  <2>1. PICK s \in Nat : s = a + b /\ s < 2 * w
    OBVIOUS
  <2>2. PICK r \in Nat : r = s % w /\ \/ s < w /\ r = s
                                      \/ s >= w /\ r = s - w
    <3>1. s % w = IF s < w THEN s ELSE s - w
      BY <1>1, <2>1
    <3>2. s < w \/ (s >= w /\ s - w \in Nat)
      BY <2>1
    <3>3. QED
      BY <2>1, <3>1, <3>2
  <2>3. PICK y \in {a, w + a} : y = w + r - b
    <3>1. CASE r = s
      BY <2>1, <2>2, <3>1
    <3>2. CASE r = s - w
      BY <2>1, <2>2, <3>2
    <3>3. QED
      BY <2>2, <3>1, <3>2
  <2>4. y % w = a
    <3>1. y \in Nat /\ y < 2 * w
      OBVIOUS
    <3>2. y % w = IF y < w THEN y ELSE y - w
      BY <1>1, <3>1
    <3>3. QED
      BY <3>1, <3>2
  <2>5. QED
    BY <2>1, <2>2, <2>3, <2>4
<1>3. (((w + a - b) % w) + b) % w = a
  <2>1. PICK s \in Nat : s = w + a - b /\ s < 2 * w
    OBVIOUS
  <2>2. PICK r \in Nat : r = s % w /\ \/ s < w /\ r = s
                                      \/ s >= w /\ r = s - w
    <3>1. s % w = IF s < w THEN s ELSE s - w
      BY <1>1, <2>1
    <3>2. s < w \/ (s >= w /\ s - w \in Nat)
      BY <2>1
    <3>3. QED
      BY <2>1, <3>1, <3>2
  <2>3. PICK y \in {a, w + a} : y = r + b
    <3>1. CASE r = s
      BY <2>1, <2>2, <3>1
    <3>2. CASE r = s - w
      BY <2>1, <2>2, <3>2
    <3>3. QED
      BY <2>2, <3>1, <3>2
  <2>4. y % w = a
    <3>1. y \in Nat /\ y < 2 * w
      OBVIOUS
    <3>2. y % w = IF y < w THEN y ELSE y - w
      BY <1>1, <3>1
    <3>3. QED
      BY <3>1, <3>2
  <2>5. QED
    BY <2>1, <2>2, <2>3, <2>4
<1>4. (w + b - ((w + b - a) % w)) % w = a
  <2>1. PICK s \in Nat : s = w + b - a /\ s < 2 * w
    OBVIOUS
  <2>2. PICK r \in Nat : r = s % w /\ \/ s < w /\ r = s
                                      \/ s >= w /\ r = s - w
    <3>1. s % w = IF s < w THEN s ELSE s - w
      BY <1>1, <2>1
    <3>2. s < w \/ (s >= w /\ s - w \in Nat)
      BY <2>1
    <3>3. QED
      BY <2>1, <3>1, <3>2
  <2>3. PICK y \in {a, w + a} : y = w + b - r
    <3>1. CASE r = s
      BY <2>1, <2>2, <3>1
    <3>2. CASE r = s - w
      BY <2>1, <2>2, <3>2
    <3>3. QED
      BY <2>2, <3>1, <3>2
  <2>4. y % w = a
    <3>1. y \in Nat /\ y < 2 * w
      OBVIOUS
    <3>2. y % w = IF y < w THEN y ELSE y - w
      BY <1>1, <3>1
    <3>3. QED
      BY <3>1, <3>2
  <2>5. QED
    BY <2>1, <2>2, <2>3, <2>4
<1>5. QED
  BY <1>2, <1>3, <1>4

(* Exclusive or with the same word twice gives the first word back. *)
LEMMA XorUndoes ==
    ASSUME NEW a \in Words, NEW b \in Words
    PROVE  ra_chain_combine(ra_chain_combine(a, b, "xor"), b, "xor") = a
<1> DEFINE g == [k \in 0 .. 4 * Bits - 1 |-> (Bit(a, k) + Bit(b, k)) % 2]
<1>0. a \in Nat /\ b \in Nat
  BY Units DEF Words
<1>1. PICK fa \in Flags, fb \in Flags : fa = BitsOf(a) /\ fb = BitsOf(b)
  BY <1>0, BitsType
<1>2. ASSUME NEW k \in 0 .. 4 * Bits - 1
      PROVE  fa[k] = Bit(a, k) /\ fb[k] = Bit(b, k) /\ fa[k] \in {0, 1} /\ fb[k] \in {0, 1}
  BY <1>1 DEF BitsOf, Flags
<1>3. g \in Flags
  <2>1. ASSUME NEW k \in 0 .. 4 * Bits - 1 PROVE (Bit(a, k) + Bit(b, k)) % 2 \in {0, 1}
    <3>1. PICK x \in {0, 1}, y \in {0, 1} : x = Bit(a, k) /\ y = Bit(b, k)
      BY <1>2
    <3>2. (x + y) % 2 \in {0, 1}
      OBVIOUS
    <3>3. QED
      BY <3>1, <3>2
  <2>2. QED
    BY <2>1 DEF Flags
<1>4. ASSUME NEW k \in 0 .. 4 * Bits - 1 PROVE g[k] = (Bit(a, k) + Bit(b, k)) % 2
  OBVIOUS
<1> HIDE DEF g
<1>5. ra_chain_combine(a, b, "xor") = BitSum(g, 4 * Bits)
  <2>1. ra_chain_combine(a, b, "xor") =
        SumFunction([k \in 0 .. 4 * Bits - 1 |-> ((Bit(a, k) + Bit(b, k)) % 2) * 2^k])
    BY DEF ra_chain_combine, BitByBit
  <2>2. [k \in 0 .. 4 * Bits - 1 |-> ((Bit(a, k) + Bit(b, k)) % 2) * 2^k] =
        [k \in 0 .. 4 * Bits - 1 |-> g[k] * 2^k]
    BY <1>4
  <2>3. QED
    BY <2>1, <2>2 DEF BitSum
<1>6. PICK c : c = BitSum(g, 4 * Bits)
  OBVIOUS
<1>7. ASSUME NEW k \in 0 .. 4 * Bits - 1 PROVE (Bit(c, k) + Bit(b, k)) % 2 = fa[k]
  <2>1. Bit(c, k) = g[k]
    BY <1>3, <1>6, BitOfSum
  <2>2. PICK x \in {0, 1}, y \in {0, 1} : x = Bit(a, k) /\ y = Bit(b, k)
    BY <1>2
  <2>3. (((x + y) % 2) + y) % 2 = x
    OBVIOUS
  <2>4. QED
    BY <1>2, <1>4, <2>1, <2>2, <2>3
<1>8. ra_chain_combine(c, b, "xor") = BitSum(fa, 4 * Bits)
  <2>1. ra_chain_combine(c, b, "xor") =
        SumFunction([k \in 0 .. 4 * Bits - 1 |-> ((Bit(c, k) + Bit(b, k)) % 2) * 2^k])
    BY DEF ra_chain_combine, BitByBit
  <2>2. [k \in 0 .. 4 * Bits - 1 |-> ((Bit(c, k) + Bit(b, k)) % 2) * 2^k] =
        [k \in 0 .. 4 * Bits - 1 |-> fa[k] * 2^k]
    BY <1>7
  <2>3. QED
    BY <2>1, <2>2 DEF BitSum
<1>9. BitSum(fa, 4 * Bits) = a
  BY <1>1, SumOfBits
<1>10. QED
  BY <1>5, <1>6, <1>8, <1>9

(* What the operators of the walk must give, for every word: big-endian    *)
(* edges read pointers, and combining loses nothing (ra_chain_xform,       *)
(* ra_chain_combine).                                                      *)
THEOREM ArithmeticExact == ArithmeticIsExact
<1>1. SUFFICES ASSUME NEW a \in Words, NEW b \in {0, 1, Byte, Word - 1}
      PROVE /\ ra_chain_xform(a, "16BE") = BigEndian(a, 2)
            /\ ra_chain_xform(a, "24BE") = BigEndian(a, 3)
            /\ ra_chain_xform(a, "32BE") = BigEndian(a, 4)
            /\ ra_chain_combine(ra_chain_combine(a, b, "add"), b, "sub") = a
            /\ ra_chain_combine(ra_chain_combine(a, b, "sub"), b, "add") = a
            /\ ra_chain_combine(ra_chain_combine(a, b, "subParent"), b, "subParent") = a
            /\ ra_chain_combine(ra_chain_combine(a, b, "xor"), b, "xor") = a
            /\ b > 0 => ra_chain_combine(a, b, "div") * b + ra_chain_combine(a, b, "mod") = a
  BY DEF ArithmeticIsExact
<1>2. a \in Nat /\ a < Word /\ b \in Nat /\ b < Word /\ Word \in Nat \ {0} /\ b \in Words
  BY Units, OperandsAreWords DEF Words
<1>3. \A n \in 2 .. 4 : Swap(a, n) = BigEndian(a, n)
  BY <1>2, SwapReads
<1>4. /\ ra_chain_xform(a, "16BE") = Swap(a, 2)
      /\ ra_chain_xform(a, "24BE") = Swap(a, 3)
      /\ ra_chain_xform(a, "32BE") = Swap(a, 4)
  BY DEF ra_chain_xform
<1>5. /\ ra_chain_xform(a, "16BE") = BigEndian(a, 2)
      /\ ra_chain_xform(a, "24BE") = BigEndian(a, 3)
      /\ ra_chain_xform(a, "32BE") = BigEndian(a, 4)
  <2>1. 2 \in 2 .. 4 /\ 3 \in 2 .. 4 /\ 4 \in 2 .. 4
    OBVIOUS
  <2>2. QED
    BY <1>3, <1>4, <2>1
<1>6. PICK w \in Nat \ {0} : w = Word /\ a < w /\ b < w
  BY <1>2
<1>7. /\ (w + ((a + b) % w) - b) % w = a
      /\ (((w + a - b) % w) + b) % w = a
      /\ (w + b - ((w + b - a) % w)) % w = a
  BY <1>2, <1>6, SumsUndo
<1>8. ASSUME NEW x, NEW y
      PROVE  /\ ra_chain_combine(x, y, "add") = (x + y) % Word
             /\ ra_chain_combine(x, y, "sub") = (Word + x - y) % Word
             /\ ra_chain_combine(x, y, "subParent") = (Word + y - x) % Word
             /\ ra_chain_combine(x, y, "div") = IF y = 0 THEN 0 ELSE x \div y
             /\ ra_chain_combine(x, y, "mod") = IF y = 0 THEN 0 ELSE x % y
  BY DEF ra_chain_combine
<1>9. /\ ra_chain_combine(ra_chain_combine(a, b, "add"), b, "sub") = a
      /\ ra_chain_combine(ra_chain_combine(a, b, "sub"), b, "add") = a
      /\ ra_chain_combine(ra_chain_combine(a, b, "subParent"), b, "subParent") = a
  BY <1>6, <1>7, <1>8
<1>10. ASSUME b > 0
       PROVE  ra_chain_combine(a, b, "div") * b + ra_chain_combine(a, b, "mod") = a
  <2>1. PICK d \in Nat \ {0} : d = b
    BY <1>2, <1>10
  <2>2. PICK q \in Nat, r \in Nat : q = a \div d /\ r = a % d /\ a = q * d + r
    BY <1>2, Remainder
  <2>3. ra_chain_combine(a, b, "div") = q /\ ra_chain_combine(a, b, "mod") = r
    <3>1. /\ ra_chain_combine(a, d, "div") = IF d = 0 THEN 0 ELSE a \div d
          /\ ra_chain_combine(a, d, "mod") = IF d = 0 THEN 0 ELSE a % d
      BY <1>8
    <3>2. d # 0
      OBVIOUS
    <3>3. QED
      BY <2>1, <2>2, <3>1, <3>2
  <2>4. QED
    BY <2>1, <2>2, <2>3
<1>11. ra_chain_combine(ra_chain_combine(a, b, "xor"), b, "xor") = a
  BY <1>2, XorUndoes
<1>12. QED
  BY <1>5, <1>9, <1>10, <1>11

(* The operators of the walk are exact before the first walk and at any    *)
(* other time: they are the constants the walk is built from               *)
(* (ra_chain_xform, ra_chain_combine, ra_chain_addr_ok).                   *)
THEOREM OperatorsExact == Spec => []OperatorsAreExact
<1>1. ArithmeticIsExact /\ GuardIsExact
  BY ArithmeticExact, GuardExact
<1>2. OperatorsAreExact
  BY <1>1 DEF OperatorsAreExact
<1>3. QED
  BY <1>2, PTL
=============================================================================
