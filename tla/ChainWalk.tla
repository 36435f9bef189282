----------------------------- MODULE ChainWalk -----------------------------
(***************************************************************************)
(* The chain walker and the snapshot it ships (ra_chain_walk and           *)
(* ra_send_snapshot of source/ra-module/main.c).  A table of nodes         *)
(* describes pointer chains; on every fire the walker reads the game's     *)
(* memory along them in one forward pass, keeps the previous and the last  *)
(* different value of each node for the edges that ask for them, and       *)
(* ships a window of the values that rotates over the shipped nodes, and   *)
(* the history values it used, so that the adapter can check them against  *)
(* its own.                                                                *)
(*                                                                         *)
(* The game runs while the walker reads: the memory may change between two *)
(* nodes.  The bytes of one node are read at once.                         *)
(***************************************************************************)
EXTENDS ChainOps, Sequences, SequencesExt

CONSTANTS
    Tables,       \* chain tables (sequences of nodes) the adapter may serve
    Images,       \* contents of the game's memory (addresses to bytes), numbered
    FlatCounts,   \* lengths the flat watchlist may have at a fire
    Budget,       \* RA_SNAP_TX_BUDGET (8191)
    Headers,      \* bytes of the two headers (20)
    MaxWalks      \* bound: walks of a kept history

NoParent == 0

Edge == {"cur", "delta", "prior"}
Size == {"32", "32BE", "8", "16", "24", "16BE", "24BE"}
Combine == {"and", "xor", "add", "addAcc", "sub", "subAcc", "subParent", "mult", "div", "mod"}

ChainNode ==
    [parent : Nat, dp : Edge, psize : Size, op : {"none", "deref"} \cup Combine, w : 1..4,
     operand : 0..(Word - 1), ship : BOOLEAN]

VARIABLES
    table,      \* ra_chain_nodes[0 .. ra_chain_node_count - 1]
    ship,       \* ra_chain_ship_node
    dpList,     \* ra_chain_dp_node, ra_chain_dp_kind
    mem,        \* the game's memory, as a number of Images
    node,       \* ra_chain_values, _values_prev, _prior, _node_valid
    validPrev,  \* ra_chain_valid_prev
    havePrev,   \* ra_chain_have_prev
    winNext,    \* ra_chain_win_next, from 1
    snap,       \* the snapshot built last: its window, length and dp section
    posted,     \* did the link take it?
    age,        \* snapshots built since a slot was last in the window
    evaluated,  \* values of the last two walks, since the link refused one
    keep,       \* is the history below kept in this behaviour?
    history     \* what each node saw of the memory, walk by walk

vars == <<table, ship, dpList, mem, node, validPrev, havePrev, winNext, snap, posted, age,
          evaluated, keep, history>>

Nodes == DOMAIN table

(* The shipped nodes in table order. *)
ShipNode(t) == FlattenSeq([i \in DOMAIN t |-> IF t[i].ship THEN <<i>> ELSE <<>>])

(* The distinct (parent, kind) pairs of the history edges, in the order of *)
(* the table.                                                              *)
DpEdge(n) == n.dp # "cur" /\ n.parent # NoParent

DpList(t) ==
    LET pair(i) == [parent |-> t[i].parent, kind |-> t[i].dp]
        first(i) == DpEdge(t[i]) /\ \A j \in 1..(i - 1) : DpEdge(t[j]) => pair(j) # pair(i)
    IN  FlattenSeq([i \in DOMAIN t |-> IF first(i) THEN <<pair(i)>> ELSE <<>>])

BitmapBytes(n) == (n + Bits - 1) \div Bits

DpBytes(list) == 4 * Len(list) + BitmapBytes(Len(list))

(* A table is taken only when parents come first and its operators are     *)
(* known (ra_fetch_chain_chunk); the largest flat watchlist and the        *)
(* largest history section leave room for a slot (8191 - 20 - 6144 - 528), *)
(* whose value and bit are at most five bytes.                             *)
ASSUME ChainAssumption ==
    /\ Budget \in Nat /\ Headers \in Nat /\ FlatCounts \subseteq Nat /\ 0 \in FlatCounts
    /\ \A t \in Tables :
        /\ t \in Seq(ChainNode)
        /\ \A i \in DOMAIN t : t[i].parent < i
        /\ \A count \in FlatCounts :
            /\ Headers + count + DpBytes(DpList(t)) <= Budget
            /\ \A i \in DOMAIN t :
                t[i].ship => Headers + count + DpBytes(DpList(t)) + BitmapBytes(1) + t[i].w <= Budget
    /\ \A m \in DOMAIN Images : \A a \in GameMemory : Images[m][a] \in 0..(Byte - 1)

Nothing == [first |-> 1, count |-> 0, length |-> 0, values |-> <<>>, dp |-> <<>>, dpValid |-> <<>>]

Init ==
    /\ table \in Tables
    /\ ship = ShipNode(table)
    /\ dpList = DpList(table)
    /\ mem \in DOMAIN Images
    /\ node = [value |-> [i \in Nodes |-> 0], prev |-> [i \in Nodes |-> 0],
               prior |-> [i \in Nodes |-> 0], valid |-> [i \in Nodes |-> FALSE]]
    /\ validPrev = [i \in Nodes |-> FALSE]
    /\ havePrev = FALSE
    /\ winNext = 1
    /\ snap = Nothing
    /\ posted = TRUE
    /\ age = [s \in DOMAIN ship |-> 0]
    /\ evaluated = <<>>
    /\ keep \in BOOLEAN
    /\ history = <<>>

-----------------------------------------------------------------------------
ra_read_ppc_byte(image, addr) == IF addr \in GameMemory THEN image[addr] ELSE 0

(* The value an edge reads from its parent. *)
ParentRaw(st, n) ==
    CASE n.dp = "delta" -> st.prev[n.parent]
      [] n.dp = "prior" -> st.prior[n.parent]
      [] n.dp = "cur" -> st.value[n.parent]

EdgeResolves(st, n) ==
    n.parent # NoParent => st.valid[n.parent] /\ (n.dp = "cur" \/ havePrev)

(* mutant: the last different value follows every walk *)
RecordAlways(st, i, v, ok) ==
    [value |-> [st.value EXCEPT ![i] = v],
     prev |-> [st.prev EXCEPT ![i] = st.value[i]],
     prior |-> [st.prior EXCEPT ![i] = st.value[i]],
     valid |-> [st.valid EXCEPT ![i] = ok]]

Record(st, i, v, ok) ==
    [value |-> [st.value EXCEPT ![i] = v],
     prev |-> [st.prev EXCEPT ![i] = st.value[i]],
     prior |-> [st.prior EXCEPT ![i] = IF v # st.value[i] THEN st.value[i] ELSE @],
     valid |-> [st.valid EXCEPT ![i] = ok]]

ParentValue(st, n) ==
    IF n.parent # NoParent /\ EdgeResolves(st, n)
    THEN ra_chain_xform(ParentRaw(st, n), n.psize) ELSE 0

Address(n, pv) == (pv + n.operand) % Word

(* Node n below a parent whose edge gives pv. *)
Resolves(st, n, pv) ==
    EdgeResolves(st, n) /\ (n.op = "deref" => ra_chain_addr_ok(Address(n, pv), n.w))

Found(n, ok, pv, image) ==
    LET addr == Address(n, pv)
    IN  IF n.op = "none" THEN n.operand
        ELSE IF ~ok THEN 0
        ELSE IF n.op = "deref" THEN Pack([k \in 0..(n.w - 1) |-> ra_read_ppc_byte(image, addr + k)])
        ELSE ra_chain_combine(pv, n.operand, n.op)

Visit(st, i, image) ==
    LET n == table[i]
        pv == ParentValue(st, n)
        ok == Resolves(st, n, pv)
    IN  Record(st, i, Found(n, ok, pv, image), ok)

(* The whole pass; sees[i] is the memory as node i finds it. *)
ra_chain_walk(sees) ==
    LET upTo[i \in 0..Len(table)] == IF i = 0 THEN node ELSE Visit(upTo[i - 1], i, Images[sees[i]])
    IN  upTo[Len(table)]

-----------------------------------------------------------------------------
(* Bytes of the values of the slots first .. first + count - 1. *)
Blob(first, count) ==
    SumFunction([s \in first..(first + count - 1) |-> table[ship[s]].w])

(* The greedy fill: slots are added while the next one fits. *)
WindowSize(first, avail) ==
    Max({c \in 0..(Len(ship) - first + 1) : BitmapBytes(c) + Blob(first, c) <= avail})

(* mutant: the cursor skips the slot that did not fit *)
AdvanceSkips(s) == IF s >= Len(ship) THEN 1 ELSE s + 1

Advance(s) == IF s > Len(ship) THEN 1 ELSE s

(* mutant: the history section ships this walk's values *)
DpSectionCurrent(walked) == [k \in DOMAIN dpList |-> walked.value[dpList[k].parent]]

DpSection(walked) ==
    [k \in DOMAIN dpList |->
        IF dpList[k].kind = "prior" THEN walked.prior[dpList[k].parent]
                                    ELSE walked.prev[dpList[k].parent]]

(* The part of ra_send_snapshot between the walk and the post. *)
Snapshot(walked, count) ==
    LET avail == Budget - Headers - count - DpBytes(dpList)
        first == IF winNext <= Len(ship) THEN winNext ELSE 1
        size == IF ship = <<>> THEN 0 ELSE WindowSize(first, avail)
    IN  [first |-> first,
         count |-> size,
         length |-> Headers + count + BitmapBytes(size) + Blob(first, size) + DpBytes(dpList),
         values |-> [w \in 1..size |->
                        [valid |-> walked.valid[ship[first + w - 1]],
                         value |-> walked.value[ship[first + w - 1]]]],
         dp |-> DpSection(walked),
         dpValid |-> [k \in DOMAIN dpList |-> node.valid[dpList[k].parent]]]

(* A fire: the walk while the game goes from mem to another image before   *)
(* or between two nodes, the snapshot, and the post, which the link may    *)
(* refuse.  The flat watchlist and the post leave the walk alone: a kept   *)
(* history does without their choices.                                     *)
ra_send_snapshot ==
    \E image \in DOMAIN Images, k \in 0..(Len(table) - 1),
       taken \in IF keep THEN {TRUE} ELSE BOOLEAN,
       count \in IF keep THEN {0} ELSE FlatCounts :
        LET sees == [i \in Nodes |-> IF i <= k THEN mem ELSE image]
            walked == ra_chain_walk(sees)
            made == Snapshot(walked, count)
        IN  /\ image = mem => k = 0
            /\ keep => Len(history) < MaxWalks
            /\ mem' = image
            /\ node' = walked
            /\ validPrev' = node.valid
            /\ havePrev' = TRUE
            /\ snap' = made
            /\ winNext' = IF ship = <<>> THEN winNext ELSE Advance(made.first + made.count)
            /\ posted' = taken
            /\ age' = [s \in DOMAIN age |->
                         IF s \in made.first..(made.first + made.count - 1) THEN 0 ELSE age[s] + 1]
            /\ evaluated' = IF ~taken THEN <<>>
                            ELSE IF evaluated = <<>> THEN <<walked.value>>
                            ELSE <<walked.value, evaluated[1]>>
            /\ history' = IF keep THEN Append(history, sees) ELSE history
            /\ UNCHANGED <<table, ship, dpList, keep>>

Next == ra_send_snapshot

Spec == Init /\ [][Next]_vars

-----------------------------------------------------------------------------
(***************************************************************************)
(* What the values mean: the value of a node at walk t as the adapter's    *)
(* evaluator defines it, from the memory each walk saw.  m[<<t, i>>] is    *)
(* the meaning of node i at walk t.                                        *)
(***************************************************************************)
Unwalked == [valid |-> FALSE, value |-> 0]

(* The earlier walks that found another value than walk t. *)
Different(m, t, i) ==
    LET now == m[<<t, i>>].value
    IN  {s \in 0..(t - 1) : m[<<s, i>>].value # now}

LastDifferent(m, t, i) ==
    LET different == Different(m, t, i)
    IN  IF different = {} THEN 0 ELSE m[<<Max(different), i>>].value

Source(m, t, n) ==
    CASE n.dp = "cur" -> m[<<t, n.parent>>].value
      [] n.dp = "delta" -> m[<<t - 1, n.parent>>].value
      [] n.dp = "prior" -> LastDifferent(m, t, n.parent)

Linked(m, t, n) ==
    n.parent = NoParent \/ (m[<<t, n.parent>>].valid /\ (n.dp # "cur" => t > 1))

Evaluate(m, t, n, image) ==
    LET linked == Linked(m, t, n)
        pv == IF n.parent = NoParent THEN 0 ELSE ra_chain_xform(Source(m, t, n), n.psize)
        addr == (pv + n.operand) % Word
        reach == {addr + k : k \in 0..(n.w - 1)}
    IN  IF n.op = "none" THEN [valid |-> linked, value |-> n.operand]
        ELSE IF ~linked THEN Unwalked
        ELSE IF n.op # "deref"
             THEN [valid |-> TRUE, value |-> ra_chain_combine(pv, n.operand, n.op)]
        ELSE IF reach \subseteq GameMemory
             THEN [valid |-> TRUE, value |-> Pack([k \in 0..(n.w - 1) |-> image[addr + k]])]
        ELSE Unwalked

Meaning[p \in (0..Len(history)) \X Nodes] ==
    IF p[1] = 0 THEN Unwalked
    ELSE Evaluate(Meaning, p[1], table[p[2]], Images[history[p[1]][p[2]]])

(* After any number of walks over a memory that changes under the walker,  *)
(* every node holds the value and the validity the evaluator's rules give  *)
(* it: history edges read the walk before and the last different value,    *)
(* nothing below an unresolved pointer is valid, and nothing is read       *)
(* outside the game's memory (ra_chain_walk, one forward pass over state   *)
(* updated in place).                                                      *)
WalkIsMeant ==
    keep => \A i \in Nodes :
        LET meant == Meaning[<<Len(history), i>>]
        IN  node.value[i] = meant.value /\ node.valid[i] = meant.valid

(* The history values a snapshot carries are those of the evaluator, the   *)
(* values of the walk before, when the link took the snapshot of that walk *)
(* too (main.c: "the ESP's snapshot queue guarantees every walked frame is *)
(* evaluated (walks == do_frames), so previous walk IS the evaluator's     *)
(* delta").                                                                *)
DeltaIsEvaluators ==
    posted /\ Len(evaluated) = 2 =>
        \A k \in DOMAIN snap.dp :
            dpList[k].kind = "delta" => snap.dp[k] = evaluated[2][dpList[k].parent]

(* The snapshot never exceeds the transaction budget, whatever the flat    *)
(* watchlist, the history section and the window come to                   *)
(* (ra_send_snapshot: the buffer has no room beyond it), and the rotating  *)
(* window still comes back to every shipped node before as many snapshots  *)
(* as there are slots have been built, however the flat watchlist changes  *)
(* the room it has from one to the next (ra_chain_win_next).               *)
WindowRotates ==
    /\ snap.length <= Budget
    /\ \A s \in DOMAIN age : age[s] < Len(ship)

-----------------------------------------------------------------------------
(***************************************************************************)
(* The arithmetic against reference definitions, for every word; evaluated *)
(* before the first walk.                                                  *)
(***************************************************************************)
Words == 0..(Word - 1)

(* The n bytes at the lowest addresses, read as the console's big-endian *)
(* processor reads them.                                                 *)
BigEndian(v, n) == SumFunction([k \in 0..(n - 1) |-> ByteOf(v, k) * Byte^(n - 1 - k)])

(* A pointer the game stored big-endian, packed lowest byte first by the   *)
(* walker, comes out of a big-endian edge as the pointer, at each width;   *)
(* subtraction undoes addition at the ends of the range, as 32-bit         *)
(* arithmetic does, and division and remainder recompose their operand     *)
(* (ra_chain_xform, ra_chain_combine).                                     *)
ArithmeticIsExact ==
    \A a \in Words, b \in {0, 1, Byte, Word - 1} :
        /\ ra_chain_xform(a, "16BE") = BigEndian(a, 2)
        /\ ra_chain_xform(a, "24BE") = BigEndian(a, 3)
        /\ ra_chain_xform(a, "32BE") = BigEndian(a, 4)
        /\ ra_chain_combine(ra_chain_combine(a, b, "add"), b, "sub") = a
        /\ ra_chain_combine(ra_chain_combine(a, b, "sub"), b, "add") = a
        /\ ra_chain_combine(ra_chain_combine(a, b, "subParent"), b, "subParent") = a
        /\ ra_chain_combine(ra_chain_combine(a, b, "xor"), b, "xor") = a
        /\ b > 0 => ra_chain_combine(a, b, "div") * b + ra_chain_combine(a, b, "mod") = a

(* An access the guard lets through touches the game's memory only, byte   *)
(* by byte: not the hole between the banks, not IOS's part of MEM2, and    *)
(* not low memory through a wrapped address (ra_chain_addr_ok).            *)
GuardIsExact ==
    \A a \in Words, w \in 1..4 :
        ra_chain_addr_ok(a, w) <=>
            /\ {(a + k) % Word : k \in 0..(w - 1)} \subseteq GameMemory
            /\ a + w <= Word

(* Before the first walk, the operators of the walk agree with their       *)
(* reference definitions (ra_chain_xform, ra_chain_combine,                *)
(* ra_chain_addr_ok).                                                      *)
OperatorsAreExact == snap = Nothing => ArithmeticIsExact /\ GuardIsExact
=============================================================================
