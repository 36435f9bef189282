--------------------------- MODULE WatchSyncProofs ---------------------------
(***************************************************************************)
(* Proofs about WatchSync, for every set of addresses, every capacity of   *)
(* the list, every modulus of the sequence number from 3 on and every set  *)
(* of scenarios.                                                           *)
(***************************************************************************)
EXTENDS WatchSync, InductionLemmas

Events == {"none", "query", "append", "remove", "update"}
Mutations == {"append", "remove", "update"}
SeqNums == 0 .. SeqModulus - 1
Indices == Seq(Nat)
Replies == [evt : Events, seq : SeqNums, data : Seq(Addrs) \cup Indices]
ResyncStates == [pending : BOOLEAN, seq : SeqNums]

(* What is compared and counted; the console's own list needs no type. *)
TypeOK ==
    /\ wlSeq \in SeqNums /\ eSeq \in SeqNums
    /\ resync \in ResyncStates
    /\ pc \in {"sleep", "collect", "addr", "addrWait", "resync", "snap"}
    /\ posted \in BOOLEAN /\ arrived \in BOOLEAN
    /\ replies \in Seq(Replies) /\ errors \in Nat
    /\ eList \in Seq(Addrs) /\ eMut \in Replies /\ eQuery \in Seq(Addrs)
    /\ verdict \in BOOLEAN /\ answered \in BOOLEAN
    /\ scenario \in Scenarios

Synced == wlSeq = eSeq
Behind == NextSeq(wlSeq) = eSeq

(* What is on the wire, and where the poll thread is then. *)
WireInv ==
    /\ flight = NoFlight \/ flight.kind \in {"addr", "snap", "debug"}
    /\ arrived => flight # NoFlight
    /\ posted <=> flight.kind = "snap"
    /\ posted => pc \in {"sleep", "collect"}
    /\ flight.kind = "snap" => flight.seq = wlSeq /\ flight.data = wl
    /\ pc = "addrWait" => flight.kind = "addr"

(* The console has taken every mutation, or all but the last. *)
SeqInv ==
    /\ Synced \/ Behind
    /\ Behind => eMut.evt \in Mutations /\ eMut.seq = eSeq
    /\ eQuery # <<>> => Synced
    /\ resync.pending => Behind /\ eMut.evt = "update" /\ resync.seq = eSeq

(* A mutation among the replies was taken already or is the last one; no   *)
(* earlier one is behind the last one.                                     *)
QueueOK(rs, seq, last, mut) ==
    \A i \in 1 .. Len(rs) :
        /\ rs[i].evt \in {"append", "remove"} =>
             rs[i].seq = seq \/ (NextSeq(seq) = last /\ rs[i] = mut)
        /\ rs[i].evt = "update" => NextSeq(seq) = last /\ rs[i] = mut
        /\ NextSeq(seq) = last /\ rs[i] = mut =>
             \A j \in i .. Len(rs) : rs[j].evt \in Mutations => rs[j] = mut

QueueInv == QueueOK(replies, wlSeq, eSeq, eMut)

(* The list once the queried addresses have joined it. *)
Joined(list, q) == IF Fits(list, q) THEN list \o q ELSE list

Careful == Lossless \/ ~scenario.ask

(* Lists that are taken for equal are. *)
ListInv ==
    Careful =>
        /\ verdict
        /\ Synced => wl = IF eQuery = <<>> \/ arrived THEN eList ELSE Joined(eList, eQuery)
        /\ Behind /\ eMut.evt = "append" => eList = wl \o eMut.data
        /\ Behind /\ eMut.evt = "remove" => eList = RemoveIdx(wl, eMut.data)

SilentInv ==
    ~scenario.ask =>
        /\ eQuery = <<>> /\ pend = <<>> /\ flight.kind # "addr"
        /\ \A i \in 1 .. Len(replies) : replies[i].evt # "query"

LosslessInv ==
    Lossless =>
        /\ answered
        /\ flight.kind # "debug"
        /\ flight.kind = "addr" => pc = "addrWait"
        /\ ~arrived => replies = <<>>
        /\ arrived => /\ Len(replies) = 1
                      /\ eQuery # <<>> => replies[1].evt = "query" /\ replies[1].data = eQuery
                      /\ eQuery = <<>> => replies[1].evt # "query"
        /\ eQuery # <<>> /\ ~arrived => pend = eQuery
        /\ flight.kind = "addr" /\ ~arrived => flight.data = pend

IInv ==
    /\ TypeOK /\ WireInv /\ SeqInv /\ QueueInv
    /\ ListInv /\ SilentInv /\ LosslessInv

-----------------------------------------------------------------------------
(* Numbers, lists and the queue of replies. *)

LEMMA NextIs ==
    ASSUME NEW s \in SeqNums
    PROVE  NextSeq(s) = IF s + 1 < SeqModulus THEN s + 1 ELSE 0
<1>0. SeqModulus \in Nat \ {0} /\ s \in Nat /\ s < SeqModulus
  BY SessionAssumption DEF SeqNums
<1>1. CASE s + 1 < SeqModulus
  <2>1. s + 1 \in Nat /\ s + 1 = 0 * SeqModulus + (s + 1)
    BY <1>0
  <2>2. (s + 1) % SeqModulus = s + 1
    BY <1>0, <1>1, <2>1, Division
  <2>3. QED
    BY <1>1, <2>2 DEF NextSeq
<1>2. CASE s + 1 = SeqModulus
  <2>1. s + 1 \in Nat /\ s + 1 = 1 * SeqModulus + 0 /\ 0 < SeqModulus
    BY <1>0, <1>2
  <2>2. (s + 1) % SeqModulus = 0
    BY <1>0, <2>1, Division
  <2>3. QED
    BY <1>0, <1>2, <2>2 DEF NextSeq
<1>3. QED
  BY <1>0, <1>1, <1>2

LEMMA Numbers ==
    ASSUME NEW s \in SeqNums
    PROVE  NextSeq(s) \in SeqNums /\ NextSeq(s) # s
BY NextIs, SessionAssumption DEF SeqNums

LEMMA RemoveType ==
    ASSUME NEW list \in Seq(Addrs), NEW idx
    PROVE  RemoveIdx(list, idx) \in Seq(Addrs)
<1> DEFINE parts == [i \in DOMAIN list |->
                       IF \E j \in DOMAIN idx : idx[j] = i THEN <<>> ELSE <<list[i]>>]
<1>1. \A i \in 1 .. Len(list) : list[i] \in Addrs
  BY ElementOfSeq
<1>2. \A i \in 1 .. Len(list) : parts[i] \in Seq(Addrs)
  BY <1>1
<1>3. parts \in Seq(Seq(Addrs))
  <2>1. DOMAIN list = 1 .. Len(list) /\ Len(list) \in Nat
    BY LenProperties
  <2>2. QED
    BY <1>2, <2>1
<1> HIDE DEF parts
<1>4. FlattenSeq(parts) \in Seq(Addrs)
  BY <1>3, FlattenType
<1>5. QED
  BY <1>4 DEF RemoveIdx, parts

LEMMA JoinType ==
    ASSUME NEW list \in Seq(Addrs), NEW q \in Seq(Addrs)
    PROVE  /\ Joined(list, q) \in Seq(Addrs)
           /\ q # <<>> /\ Len(Joined(list, q)) = Len(list) => Joined(list, q) = list
<1>1. list \o q \in Seq(Addrs) /\ Len(list \o q) = Len(list) + Len(q)
  BY ConcatProperties
<1>2. Len(list) \in Nat /\ Len(q) \in Nat /\ (q # <<>> => Len(q) # 0)
  BY EmptySeq, LenProperties
<1>3. QED
  BY <1>1, <1>2 DEF Joined

LEMMA ReplyType ==
    ASSUME NEW e \in Events, NEW s \in SeqNums, NEW p \in Seq(Addrs) \cup Indices
    PROVE  /\ Reply(e, s, p) \in Replies
           /\ Reply(e, s, p).evt = e /\ Reply(e, s, p).seq = s /\ Reply(e, s, p).data = p
BY DEF Reply, Replies

LEMMA NoReplyType == NoReply \in Replies /\ NoReply.evt = "none"
<1>1. 0 \in SeqNums /\ <<>> \in Seq(Addrs) /\ "none" \in Events
  BY SessionAssumption, EmptySeq DEF SeqNums, Events
<1>2. PICK none : none = NoReply
  OBVIOUS
<1>3. none = [evt |-> "none", seq |-> 0, data |-> <<>>]
  BY <1>2 DEF NoReply, Reply
<1>4. none \in Replies /\ none.evt = "none"
  BY <1>1, <1>3 DEF Replies
<1>5. QED
  BY <1>2, <1>4

(* What is left of the queue, with replies that are no mutations. *)
LEMMA QueueRest ==
    ASSUME NEW rs \in Seq(Replies), NEW t \in Seq(Replies), NEW k \in Nat,
           NEW seq, NEW last, NEW mut, QueueOK(rs, seq, last, mut),
           NextSeq(seq) = last => mut.evt \in Mutations,
           \A i \in 1 .. Len(t) :
               \/ i + k \in 1 .. Len(rs) /\ t[i] = rs[i + k]
               \/ t[i].evt \notin Mutations
    PROVE  QueueOK(t, seq, last, mut)
<1>1. ASSUME NEW i \in 1 .. Len(t)
      PROVE  /\ t[i].evt \in {"append", "remove"} =>
                   t[i].seq = seq \/ (NextSeq(seq) = last /\ t[i] = mut)
             /\ t[i].evt = "update" => NextSeq(seq) = last /\ t[i] = mut
  BY DEF QueueOK, Mutations
<1>2. ASSUME NEW i \in 1 .. Len(t), NextSeq(seq) = last, t[i] = mut,
             NEW j \in i .. Len(t), t[j].evt \in Mutations
      PROVE  t[j] = mut
  <2>1. j \in 1 .. Len(t) /\ Len(t) \in Nat /\ Len(rs) \in Nat
    BY LenProperties
  <2>2. i + k \in 1 .. Len(rs) /\ rs[i + k] = mut
    BY <1>2
  <2>3. j + k \in 1 .. Len(rs) /\ t[j] = rs[j + k]
    BY <1>2, <2>1
  <2>4. j + k \in (i + k) .. Len(rs)
    BY <2>1, <2>3
  <2>5. QED
    BY <1>2, <2>2, <2>3, <2>4 DEF QueueOK
<1>3. QED
  BY <1>1, <1>2 DEF QueueOK

(* The last mutation is delivered again. *)
LEMMA QueueAgain ==
    ASSUME NEW rs \in Seq(Replies), NEW seq, NEW last, NEW mut \in Replies,
           QueueOK(rs, seq, last, mut), NextSeq(seq) = last, mut.evt \in Mutations
    PROVE  QueueOK(Append(rs, mut), seq, last, mut)
<1>1. PICK n \in Nat : n = Len(rs)
  BY LenProperties
<1>2. PICK t : t = Append(rs, mut)
  OBVIOUS
<1>3. Len(t) = n + 1 /\ t[n + 1] = mut /\ \A i \in 1 .. n : t[i] = rs[i]
  BY <1>1, <1>2, AppendProperties
<1>4. ASSUME NEW i \in 1 .. n + 1
      PROVE  /\ t[i].evt \in {"append", "remove"} => t[i].seq = seq \/ t[i] = mut
             /\ t[i].evt = "update" => t[i] = mut
  <2>1. CASE i = n + 1
    BY <1>3, <2>1
  <2>2. CASE i # n + 1
    <3>1. i \in 1 .. n
      BY <2>2
    <3>2. QED
      BY <1>1, <1>3, <3>1 DEF QueueOK
  <2>3. QED
    BY <2>1, <2>2
<1>5. ASSUME NEW i \in 1 .. n + 1, t[i] = mut,
             NEW j \in i .. n + 1, t[j].evt \in Mutations
      PROVE  t[j] = mut
  <2>1. CASE j = n + 1
    BY <1>3, <2>1
  <2>2. CASE j # n + 1
    <3>1. i \in 1 .. n /\ j \in i .. n /\ j \in 1 .. n
      BY <2>2
    <3>2. QED
      BY <1>1, <1>3, <1>5, <3>1 DEF QueueOK
  <2>3. QED
    BY <2>1, <2>2
<1>6. QED
  BY <1>2, <1>3, <1>4, <1>5 DEF QueueOK

(* A new mutation, after all others were taken. *)
LEMMA QueueEmits ==
    ASSUME NEW rs \in Seq(Replies), NEW seq \in SeqNums, NEW old, QueueOK(rs, seq, seq, old),
           NEW mut \in Replies, mut.evt \in Mutations, mut.seq = NextSeq(seq)
    PROVE  QueueOK(Append(rs, mut), seq, NextSeq(seq), mut)
<1>1. \A i \in 1 .. Len(rs) : rs[i].evt \in Mutations => rs[i].evt # "update" /\ rs[i].seq = seq
  BY Numbers DEF QueueOK, Mutations
<1>2. \A i \in 1 .. Len(rs) : rs[i] # mut
  BY <1>1, Numbers
<1>3. QueueOK(rs, seq, NextSeq(seq), mut)
  BY <1>1, <1>2 DEF QueueOK, Mutations
<1>4. QED
  BY <1>3, QueueAgain

(* The last mutation is taken. *)
LEMMA QueueTaken ==
    ASSUME NEW rs \in Seq(Replies), rs # <<>>, NEW seq, NEW last \in SeqNums, NEW mut,
           QueueOK(rs, seq, last, mut), NextSeq(seq) = last, rs[1] = mut,
           mut.evt \in {"append", "remove"}, mut.seq = last
    PROVE  QueueOK(rs, last, last, mut)
<1>1. \A j \in 1 .. Len(rs) : rs[j].evt \in Mutations => rs[j] = mut
  <2>1. 1 \in 1 .. Len(rs)
    BY EmptySeq, LenProperties
  <2>2. QED
    BY <2>1 DEF QueueOK
<1>2. QED
  BY <1>1, Numbers DEF QueueOK, Mutations

-----------------------------------------------------------------------------
(* A reply is read. *)

LEMMA NothingOnTheWire == NoFlight.kind = "free"
BY DEF NoFlight

LEMMA HeadOfQueue ==
    ASSUME IInv, ReadReply, NEW r, r = Head(replies)
    PROVE  /\ r \in Replies /\ r = replies[1] /\ 1 \in 1 .. Len(replies)
           /\ replies' \in Seq(Replies) /\ Len(replies') = Len(replies) - 1
           /\ \A i \in 1 .. Len(replies') : replies'[i] = replies[i + 1]
           /\ r.evt \in {"append", "remove"} => r.seq = wlSeq \/ (Behind /\ r = eMut)
           /\ r.evt = "update" => Behind /\ r = eMut
<1>1. replies \in Seq(Replies) /\ replies # <<>> /\ replies' = Tail(replies)
  BY DEF IInv, TypeOK, ReadReply
<1>2. Len(replies) \in Nat /\ Len(replies) # 0
  BY <1>1, EmptySeq, LenProperties
<1>3. 1 \in 1 .. Len(replies) /\ Head(replies) = replies[1] /\ replies[1] \in Replies
  BY <1>1, <1>2, ElementOfSeq, HeadTailProperties
<1>4. /\ replies' \in Seq(Replies) /\ Len(replies') = Len(replies) - 1
      /\ \A i \in 1 .. Len(replies') : replies'[i] = replies[i + 1]
  BY <1>1, HeadTailProperties
<1>5. QueueOK(replies, wlSeq, eSeq, eMut)
  BY DEF IInv, QueueInv
<1>6. QED
  BY <1>3, <1>4, <1>5 DEF QueueOK, Behind

(* The mutation at the head of the queue is taken. *)
LEMMA MutationTaken ==
    ASSUME IInv, ReadReply, NEW r, r = Head(replies), r.evt \in {"append", "remove"},
           r.seq = NextSeq(wlSeq), wlSeq' = r.seq, UNCHANGED <<esp, resync>>
    PROVE  /\ Behind /\ r = eMut /\ wlSeq' = eSeq /\ Synced' /\ ~Behind'
           /\ eQuery = <<>> /\ ~resync.pending
           /\ SeqInv' /\ QueueInv'
<1>1. wlSeq \in SeqNums /\ eSeq \in SeqNums
  BY DEF IInv, TypeOK
<1>2. Behind /\ r = eMut /\ wlSeq' = eSeq
  BY <1>1, HeadOfQueue, Numbers DEF Behind
<1>3. UNCHANGED <<eSeq, eMut, eQuery, resync>>
  BY DEF esp
<1>4. Synced' /\ ~Behind'
  BY <1>1, <1>2, <1>3, Numbers DEF Synced, Behind
<1>5. ~Synced
  BY <1>1, <1>2, Numbers DEF Synced, Behind
<1>6. eQuery = <<>> /\ ~resync.pending
  BY <1>2, <1>5 DEF IInv, SeqInv
<1>7. SeqInv'
  BY <1>3, <1>4, <1>6 DEF SeqInv
<1>8. replies \in Seq(Replies) /\ replies # <<>> /\ replies[1] = eMut
      /\ QueueOK(replies, wlSeq, eSeq, eMut) /\ eMut.seq = eSeq
  BY <1>2, HeadOfQueue DEF IInv, TypeOK, QueueInv, SeqInv, ReadReply
<1>9. QueueOK(replies, eSeq, eSeq, eMut)
  BY <1>1, <1>2, <1>8, QueueTaken DEF Behind
<1>10. QueueOK(replies', eSeq, eSeq, eMut)
  <2>1. \A i \in 1 .. Len(replies') :
           i + 1 \in 1 .. Len(replies) /\ replies'[i] = replies[i + 1]
    BY <1>8, HeadOfQueue, LenProperties
  <2>2. NextSeq(eSeq) # eSeq
    BY <1>1, Numbers
  <2>3. replies' \in Seq(Replies)
    BY HeadOfQueue
  <2>4. QED
    BY <1>8, <1>9, <2>1, <2>2, <2>3, QueueRest
<1>11. QED
  BY <1>2, <1>3, <1>4, <1>6, <1>7, <1>10 DEF QueueInv

(* What is left of the queue when nothing was taken. *)
LEMMA RestOfQueue ==
    ASSUME IInv, ReadReply, UNCHANGED <<wlSeq, eSeq, eMut>>
    PROVE  QueueInv'
<1>1. PICK r : r = Head(replies)
  OBVIOUS
<1>2. \A i \in 1 .. Len(replies') :
         i + 1 \in 1 .. Len(replies) /\ replies'[i] = replies[i + 1]
  BY <1>1, HeadOfQueue, LenProperties DEF IInv, TypeOK
<1>3. replies \in Seq(Replies) /\ replies' \in Seq(Replies)
  BY <1>1, HeadOfQueue DEF IInv, TypeOK
<1>4. QueueOK(replies, wlSeq, eSeq, eMut) /\ (NextSeq(wlSeq) = eSeq => eMut.evt \in Mutations)
  BY DEF IInv, QueueInv, SeqInv, Behind
<1>5. QueueOK(replies', wlSeq, eSeq, eMut)
  BY <1>2, <1>3, <1>4, QueueRest
<1>6. QED
  BY <1>5 DEF QueueInv

(* A reply is read and parsed, after a snapshot or after an answer. *)
Parses(q) ==
    /\ ReadReply /\ ra_parse_response(Head(replies), q)
    /\ (q = pend /\ pc = "collect" /\ posted) \/ (q = <<>> /\ pc = "addrWait")
    /\ posted' = FALSE /\ pc' = "addr"
    /\ UNCHANGED esp

(* What a reply may do to the console. *)
Taken(r) ==
    /\ wlSeq' = r.seq /\ r.seq = NextSeq(wlSeq) /\ UNCHANGED resync
    /\ \/ r.evt = "append" /\ wl' = wl \o r.data
       \/ r.evt = "remove" /\ wl' = RemoveIdx(wl, r.data)

LEMMA ParseCases ==
    ASSUME NEW q, Parses(q), NEW r, r = Head(replies)
    PROVE  \/ r.evt = "query" /\ wl' = Joined(wl, r.data) /\ pend' = r.data
              /\ UNCHANGED <<wlSeq, resync>>
           \/ r.evt # "query" /\ UNCHANGED <<wl, wlSeq, resync>> /\ pend' = q
           \/ Taken(r) /\ r.evt \in {"append", "remove"} /\ pend' = q
           \/ r.evt = "update" /\ UNCHANGED <<wl, wlSeq>> /\ pend' = q
              /\ resync' = [pending |-> TRUE, seq |-> r.seq]
<1>1. CASE ParseQuery(r)
  BY <1>1 DEF ParseQuery, Joined
<1>2. CASE ParseAppend(r, q)
  BY <1>2 DEF ParseAppend, Taken
<1>3. CASE ParseRemove(r, q)
  BY <1>3 DEF ParseRemove, Taken
<1>4. CASE ParseUpdate(r, q)
  BY <1>4 DEF ParseUpdate
<1>5. CASE ParseOther(r, q)
  BY <1>5 DEF ParseOther
<1>6. QED
  BY <1>1, <1>2, <1>3, <1>4, <1>5 DEF Parses, ra_parse_response

(* The wire is free, and the reply is gone. *)
LEMMA ParsesWire ==
    ASSUME IInv, NEW q, Parses(q)
    PROVE  /\ WireInv' /\ flight'.kind = "free" /\ ~arrived' /\ arrived
           /\ UNCHANGED <<errors, eList, eSeq, eMut, eQuery, verdict, answered, scenario>>
           /\ ~posted' /\ pc' = "addr"
<1>1. flight' = NoFlight /\ ~arrived' /\ arrived /\ UNCHANGED errors /\ ~posted' /\ pc' = "addr"
  BY DEF Parses, ReadReply
<1>2. UNCHANGED <<eList, eSeq, eMut, eQuery, verdict, answered, scenario>>
  BY DEF Parses, esp
<1>3. flight'.kind = "free"
  BY <1>1, NothingOnTheWire
<1>4. WireInv'
  BY <1>1, <1>3 DEF WireInv
<1>5. QED
  BY <1>1, <1>2, <1>3, <1>4

LEMMA ParsesSeq ==
    ASSUME IInv, NEW q, Parses(q)
    PROVE  TypeOK' /\ SeqInv' /\ QueueInv'
<1>1. PICK r : r = Head(replies)
  OBVIOUS
<1>2. /\ ReadReply /\ UNCHANGED <<errors, eList, eSeq, eMut, eQuery, verdict, answered, scenario>>
      /\ arrived' \in BOOLEAN /\ posted' \in BOOLEAN /\ pc' = "addr" /\ UNCHANGED esp
  BY ParsesWire DEF Parses, ReadReply
<1>3. /\ r \in Replies /\ replies' \in Seq(Replies)
      /\ r.evt = "update" => Behind /\ r = eMut
  BY <1>1, <1>2, HeadOfQueue
<1>4. r.seq \in SeqNums
  BY <1>3 DEF Replies
<1>5. CASE UNCHANGED <<wlSeq, resync>>
  <2>1. TypeOK'
    BY <1>2, <1>3, <1>5 DEF IInv, TypeOK
  <2>2. SeqInv'
    BY <1>2, <1>5 DEF IInv, SeqInv, Synced, Behind
  <2>3. QueueInv'
    BY <1>2, <1>5, RestOfQueue
  <2>4. QED
    BY <2>1, <2>2, <2>3
<1>6. CASE Taken(r) /\ r.evt \in {"append", "remove"}
  <2>1. wlSeq' = r.seq /\ r.seq = NextSeq(wlSeq) /\ UNCHANGED resync
    BY <1>6 DEF Taken
  <2>2. TypeOK'
    BY <1>2, <1>3, <1>4, <2>1 DEF IInv, TypeOK
  <2>3. SeqInv' /\ QueueInv'
    BY <1>1, <1>2, <1>6, <2>1, MutationTaken
  <2>4. QED
    BY <2>2, <2>3
<1>7. CASE r.evt = "update" /\ UNCHANGED wlSeq /\ resync' = [pending |-> TRUE, seq |-> r.seq]
  <2>1. resync' \in ResyncStates /\ resync'.seq = r.seq
    BY <1>4, <1>7 DEF ResyncStates
  <2>2. TypeOK'
    BY <1>2, <1>3, <1>7, <2>1 DEF IInv, TypeOK
  <2>3. Behind /\ eMut.evt = "update" /\ resync'.seq = eSeq
    BY <1>3, <1>7, <2>1 DEF IInv, SeqInv
  <2>4. SeqInv'
    BY <1>2, <1>7, <2>3 DEF IInv, SeqInv, Synced, Behind
  <2>5. QueueInv'
    BY <1>2, <1>7, RestOfQueue
  <2>6. QED
    BY <2>2, <2>4, <2>5
<1>8. QED
  BY <1>1, <1>5, <1>6, <1>7, ParseCases

LEMMA ParsesSilent ==
    ASSUME IInv, NEW q, Parses(q)
    PROVE  SilentInv'
<1>1. PICK r : r = Head(replies)
  OBVIOUS
<1>2. SUFFICES ASSUME ~scenario'.ask
               PROVE  /\ eQuery' = <<>> /\ pend' = <<>> /\ flight'.kind # "addr"
                      /\ \A i \in 1 .. Len(replies') : replies'[i].evt # "query"
  BY DEF SilentInv
<1>3. ~scenario.ask /\ UNCHANGED eQuery /\ flight'.kind = "free" /\ ReadReply
  BY <1>2, ParsesWire DEF Parses
<1>4. /\ eQuery = <<>> /\ pend = <<>>
      /\ \A i \in 1 .. Len(replies) : replies[i].evt # "query"
  BY <1>3 DEF IInv, SilentInv
<1>5. /\ r = replies[1] /\ 1 \in 1 .. Len(replies) /\ Len(replies') = Len(replies) - 1
      /\ \A i \in 1 .. Len(replies') : replies'[i] = replies[i + 1]
  BY <1>1, <1>3, HeadOfQueue
<1>6. r.evt # "query"
  BY <1>4, <1>5
<1>7. q = <<>>
  BY <1>4 DEF Parses
<1>8. pend' = <<>>
  BY <1>1, <1>6, <1>7, ParseCases
<1>9. Len(replies) \in Nat
  BY LenProperties DEF IInv, TypeOK
<1>10. \A i \in 1 .. Len(replies') : i + 1 \in 1 .. Len(replies)
  BY <1>5, <1>9
<1>11. QED
  BY <1>3, <1>4, <1>5, <1>8, <1>10

LEMMA ParsesLossless ==
    ASSUME IInv, NEW q, Parses(q)
    PROVE  LosslessInv'
<1>1. PICK r : r = Head(replies)
  OBVIOUS
<1>2. SUFFICES ASSUME Lossless'
               PROVE  LosslessInv'
  BY DEF LosslessInv
<1>3. Lossless /\ UNCHANGED <<answered, eQuery>> /\ flight'.kind = "free" /\ arrived /\ ~arrived' /\ ReadReply
  BY <1>2, ParsesWire DEF Parses, Lossless
<1>4. /\ answered /\ Len(replies) = 1
      /\ eQuery # <<>> => replies[1].evt = "query" /\ replies[1].data = eQuery
  BY <1>3 DEF IInv, LosslessInv
<1>5. r = replies[1] /\ replies' \in Seq(Replies) /\ Len(replies') = 0
  BY <1>1, <1>3, <1>4, HeadOfQueue
<1>6. replies' = <<>>
  BY <1>5, EmptySeq
<1>7. eQuery # <<>> => pend' = eQuery
  BY <1>1, <1>4, <1>5, ParseCases
<1>8. QED
  BY <1>3, <1>4, <1>6, <1>7 DEF LosslessInv

LEMMA ParsesList ==
    ASSUME IInv, NEW q, Parses(q)
    PROVE  ListInv'
<1>1. PICK r : r = Head(replies)
  OBVIOUS
<1>2. SUFFICES ASSUME Careful'
               PROVE  ListInv'
  BY DEF ListInv
<1>3. /\ Careful /\ UNCHANGED <<eList, eSeq, eMut, eQuery, verdict>>
      /\ arrived /\ ~arrived' /\ ReadReply /\ UNCHANGED esp
  BY <1>2, ParsesWire DEF Parses, Careful, Lossless
<1>4. /\ verdict
      /\ Synced => wl = eList
      /\ Behind /\ eMut.evt = "append" => eList = wl \o eMut.data
      /\ Behind /\ eMut.evt = "remove" => eList = RemoveIdx(wl, eMut.data)
  BY <1>3 DEF IInv, ListInv
<1>5. r = replies[1] /\ 1 \in 1 .. Len(replies)
  BY <1>1, <1>3, HeadOfQueue
<1>6. /\ r.evt = "query" => eQuery # <<>> /\ r.data = eQuery
      /\ r.evt # "query" => eQuery = <<>>
  BY <1>3, <1>5 DEF IInv, Careful, LosslessInv, SilentInv
<1>7. CASE r.evt = "query" /\ wl' = Joined(wl, r.data) /\ UNCHANGED wlSeq
  <2>1. Synced /\ ~Behind
    <3>1. Synced
      BY <1>6, <1>7 DEF IInv, SeqInv
    <3>2. QED
      BY <3>1, Numbers DEF Synced, Behind, IInv, TypeOK
  <2>2. wl' = Joined(eList, eQuery)
    BY <1>4, <1>6, <1>7, <2>1
  <2>3. ~Behind'
    BY <1>3, <1>7, <2>1 DEF Behind
  <2>4. QED
    BY <1>3, <1>4, <1>6, <1>7, <2>2, <2>3 DEF ListInv
<1>8. CASE r.evt # "query" /\ UNCHANGED <<wl, wlSeq>>
  <2>1. Synced' = Synced /\ Behind' = Behind
    BY <1>3, <1>8 DEF Synced, Behind
  <2>2. QED
    BY <1>3, <1>4, <1>6, <1>8, <2>1 DEF ListInv
<1>9. CASE Taken(r) /\ r.evt \in {"append", "remove"}
  <2>1. wlSeq' = r.seq /\ r.seq = NextSeq(wlSeq) /\ UNCHANGED resync
    BY <1>9 DEF Taken
  <2>2. Behind /\ r = eMut /\ ~Behind' /\ eQuery = <<>>
    BY <1>1, <1>3, <1>9, <2>1, MutationTaken
  <2>3. wl' = eList
    BY <1>4, <1>9, <2>2 DEF Taken
  <2>4. QED
    BY <1>3, <1>4, <2>2, <2>3 DEF ListInv
<1>10. QED
  BY <1>1, <1>7, <1>8, <1>9, ParseCases

LEMMA ParsesInv ==
    ASSUME IInv, NEW q, Parses(q)
    PROVE  IInv'
BY ParsesWire, ParsesSeq, ParsesSilent, ParsesLossless, ParsesList DEF IInv

-----------------------------------------------------------------------------
(* The rest of a fire. *)

(* Nothing changes but the place in the fire. *)
LEMMA OnlyTheThread ==
    ASSUME IInv, UNCHANGED <<wl, wlSeq, pend, resync, posted, wire, esp>>,
           pc' \in {"sleep", "collect", "addr", "resync", "snap"},
           posted => pc' \in {"sleep", "collect"},
           Lossless => flight.kind # "addr"
    PROVE  IInv'
<1>1. UNCHANGED <<flight, arrived, replies, errors>>
  BY DEF wire
<1>2. UNCHANGED <<eList, eSeq, eMut, eQuery, verdict, answered, scenario>>
  BY DEF esp
<1>3. TypeOK'
  BY <1>1, <1>2 DEF IInv, TypeOK
<1>4. WireInv'
  BY <1>1 DEF IInv, WireInv
<1>5. SeqInv' /\ QueueInv' /\ ListInv' /\ SilentInv'
  <2>1. Synced' = Synced /\ Behind' = Behind /\ Careful' = Careful
    BY <1>2 DEF Synced, Behind, Careful, Lossless
  <2>2. SeqInv'
    BY <1>2, <2>1 DEF IInv, SeqInv
  <2>3. QueueInv'
    BY <1>1, <1>2 DEF IInv, QueueInv
  <2>4. ListInv'
    BY <1>1, <1>2, <2>1 DEF IInv, ListInv
  <2>5. SilentInv'
    BY <1>1, <1>2 DEF IInv, SilentInv
  <2>6. QED
    BY <2>2, <2>3, <2>4, <2>5
<1>6. LosslessInv'
  <2>1. Lossless' = Lossless
    BY <1>2 DEF Lossless
  <2>2. QED
    BY <1>1, <1>2, <2>1 DEF IInv, LosslessInv
<1>7. QED
  BY <1>3, <1>4, <1>5, <1>6 DEF IInv

(* The request leaves the wire, and its reply is not parsed: that loses    *)
(* something.                                                              *)
LEMMA RequestLost ==
    ASSUME IInv, ~Lossless, UNCHANGED <<wl, wlSeq, pend, resync, esp>>,
           flight' = NoFlight, arrived' = FALSE, posted' = FALSE, pc' \in {"addr", "resync"},
           errors' \in Nat, replies' \in Seq(Replies), QueueInv',
           \A i \in 1 .. Len(replies') : \E j \in 1 .. Len(replies) : replies'[i] = replies[j]
    PROVE  IInv'
<1>1. UNCHANGED <<eList, eSeq, eMut, eQuery, verdict, answered, scenario>>
  BY DEF esp
<1>2. TypeOK'
  BY <1>1 DEF IInv, TypeOK
<1>3. WireInv'
  BY NothingOnTheWire DEF WireInv
<1>4. Synced' = Synced /\ Behind' = Behind /\ Careful' = Careful /\ ~Lossless'
  BY <1>1 DEF Synced, Behind, Careful, Lossless
<1>5. SeqInv'
  BY <1>1, <1>4 DEF IInv, SeqInv
<1>6. SilentInv'
  BY <1>1, NothingOnTheWire DEF IInv, SilentInv
<1>7. Careful' => eQuery = <<>> /\ Careful
  BY <1>4 DEF IInv, SilentInv, Careful
<1>8. ListInv'
  BY <1>1, <1>4, <1>7 DEF IInv, ListInv
<1>9. LosslessInv'
  BY <1>4 DEF LosslessInv
<1>10. QED
  BY <1>2, <1>3, <1>5, <1>6, <1>8, <1>9 DEF IInv

LEMMA LateReplyDropped ==
    ASSUME IInv, ReadReply, UNCHANGED <<console, esp>>, pc \in {"addr", "resync"}
    PROVE  IInv'
<1>1. UNCHANGED <<wl, wlSeq, pend, resync, pc, round, posted>>
  BY DEF console
<1>2. UNCHANGED <<eSeq, eMut>>
  BY DEF esp
<1>3. flight # NoFlight /\ flight' = NoFlight /\ arrived' = FALSE /\ UNCHANGED errors
  BY DEF IInv, WireInv, ReadReply
<1>4. posted = FALSE /\ flight.kind # "snap"
  BY DEF IInv, WireInv, TypeOK
<1>5. ~Lossless
  BY <1>3, <1>4 DEF IInv, WireInv, LosslessInv
<1>6. PICK r : r = Head(replies)
  OBVIOUS
<1>7. /\ replies' \in Seq(Replies)
      /\ \A i \in 1 .. Len(replies') : i + 1 \in 1 .. Len(replies) /\ replies'[i] = replies[i + 1]
  BY <1>6, HeadOfQueue, LenProperties DEF IInv, TypeOK
<1>8. QueueInv'
  BY <1>1, <1>2, RestOfQueue
<1>9. errors' \in Nat
  BY <1>3 DEF IInv, TypeOK
<1>10. \A i \in 1 .. Len(replies') : \E j \in 1 .. Len(replies) : replies'[i] = replies[j]
  BY <1>7
<1>11. posted' = FALSE /\ pc' \in {"addr", "resync"} /\ UNCHANGED <<wl, wlSeq, pend, resync>>
  BY <1>1, <1>4
<1>12. QED
  BY <1>3, <1>5, <1>7, <1>8, <1>9, <1>10, <1>11, RequestLost

LEMMA ReadFailed ==
    ASSUME IInv, ReadFails, UNCHANGED <<wl, wlSeq, pend, resync, esp>>,
           posted' = FALSE, pc' = "addr"
    PROVE  IInv'
<1>1. UNCHANGED <<eSeq, eMut>>
  BY DEF esp
<1>2. flight' = NoFlight /\ arrived' = FALSE /\ UNCHANGED replies
      /\ errors < scenario.errors /\ errors' = errors + 1
  BY DEF ReadFails
<1>3. errors \in Nat /\ replies \in Seq(Replies)
  BY DEF IInv, TypeOK
<1>4. ~Lossless
  BY <1>2, <1>3 DEF Lossless
<1>5. QueueInv'
  BY <1>1, <1>2 DEF IInv, QueueInv
<1>6. errors' \in Nat
  BY <1>2, <1>3
<1>7. QED
  BY <1>2, <1>3, <1>4, <1>5, <1>6, RequestLost

(* A request goes on the wire, for the first time. *)
LEMMA RequestSent ==
    ASSUME IInv, flight = NoFlight, arrived' = FALSE,
           UNCHANGED <<wl, wlSeq, pend, resync, replies, errors, esp>>,
           \/ /\ flight'.kind = "addr" /\ flight'.data = pend /\ pend # <<>>
              /\ pc' = "addrWait" /\ posted' = FALSE
           \/ /\ flight'.kind = "snap" /\ flight'.seq = wlSeq /\ flight'.data = wl
              /\ pc' = "sleep" /\ posted' = TRUE
    PROVE  IInv'
<1>1. UNCHANGED <<eList, eSeq, eMut, eQuery, verdict, answered, scenario>>
  BY DEF esp
<1>2. arrived = FALSE
  BY DEF IInv, WireInv, TypeOK
<1>3. TypeOK'
  BY <1>1 DEF IInv, TypeOK
<1>4. WireInv'
  BY DEF WireInv
<1>5. Synced' = Synced /\ Behind' = Behind /\ Careful' = Careful /\ Lossless' = Lossless
  BY <1>1 DEF Synced, Behind, Careful, Lossless
<1>6. SeqInv'
  BY <1>1, <1>5 DEF IInv, SeqInv
<1>7. QueueInv'
  BY <1>1 DEF IInv, QueueInv
<1>8. ListInv'
  BY <1>1, <1>2, <1>5 DEF IInv, ListInv
<1>9. SilentInv'
  BY <1>1 DEF IInv, SilentInv
<1>10. LosslessInv'
  BY <1>1, <1>2, <1>5 DEF IInv, LosslessInv
<1>11. QED
  BY <1>3, <1>4, <1>6, <1>7, <1>8, <1>9, <1>10 DEF IInv

(* Nothing but an answer is under way outside of a snapshot's wait. *)
LEMMA WireIsFree ==
    ASSUME IInv, flight = NoFlight
    PROVE  posted = FALSE /\ arrived = FALSE
BY NothingOnTheWire DEF IInv, WireInv, TypeOK

LEMMA SendStep ==
    ASSUME IInv, AddrSend \/ SnapPosted
    PROVE  IInv'
<1>1. CASE AddrSend
  <2>1. PICK f : f = [kind |-> "addr", seq |-> 0, data |-> pend]
    OBVIOUS
  <2>2. f.kind = "addr" /\ f.data = pend /\ f = flight'
    BY <1>1, <2>1 DEF AddrSend
  <2>3. flight = NoFlight /\ posted' = posted /\ pend # <<>> /\ pc' = "addrWait"
        /\ arrived' = FALSE /\ UNCHANGED <<wl, wlSeq, pend, resync, replies, errors, esp>>
    BY <1>1 DEF AddrSend, AddrTurn
  <2>4. posted' = FALSE
    BY <2>3, WireIsFree
  <2>5. QED
    BY <2>2, <2>3, <2>4, RequestSent
<1>2. CASE SnapPosted
  <2>1. PICK f : f = [kind |-> "snap", seq |-> wlSeq, data |-> wl]
    OBVIOUS
  <2>2. f.kind = "snap" /\ f.data = wl /\ f.seq = wlSeq /\ f = flight'
    BY <1>2, <2>1 DEF SnapPosted
  <2>3. flight = NoFlight /\ posted' = TRUE /\ pc' = "sleep"
        /\ arrived' = FALSE /\ UNCHANGED <<wl, wlSeq, pend, resync, replies, errors, esp>>
    BY <1>2 DEF SnapPosted
  <2>4. QED
    BY <2>2, <2>3, RequestSent
<1>3. QED
  BY <1>1, <1>2

-----------------------------------------------------------------------------
(* The resync. *)

LEMMA ChurnedIs ==
    ASSUME replies \in Seq(Replies), NEW n \in 0 .. Len(replies)
    PROVE  /\ Churned(n) \in Seq(Replies) /\ Len(Churned(n)) = Len(replies)
           /\ \A i \in 1 .. Len(replies) :
                 \/ i + n \in 1 .. Len(replies) /\ Churned(n)[i] = replies[i + n]
                 \/ Churned(n)[i] = NoReply
           /\ n = Len(replies) => \A i \in 1 .. Len(replies) : Churned(n)[i] = NoReply
<1> DEFINE left == SubSeq(replies, n + 1, Len(replies))
           refused == [i \in 1 .. n |-> NoReply]
<1>1. Len(replies) \in Nat /\ \A i \in 1 .. Len(replies) : replies[i] \in Replies
  BY ElementOfSeq, LenProperties
<1>2. /\ left \in Seq(Replies) /\ Len(left) = Len(replies) - n
      /\ \A i \in 1 .. Len(replies) - n : left[i] = replies[i + n]
  <2>1. PICK m \in 1 .. Len(replies) + 1 : m = n + 1
    BY <1>1
  <2>2. \A i \in m .. Len(replies) : replies[i] \in Replies
    BY <1>1
  <2>3. /\ SubSeq(replies, m, Len(replies)) \in Seq(Replies)
        /\ Len(SubSeq(replies, m, Len(replies))) = IF m <= Len(replies) THEN Len(replies) - m + 1 ELSE 0
        /\ \A i \in 1 .. Len(replies) - m + 1 : SubSeq(replies, m, Len(replies))[i] = replies[m + i - 1]
    BY <1>1, <2>1, <2>2, SubSeqProperties
  <2>4. QED
    BY <1>1, <2>1, <2>3
<1>3. refused \in Seq(Replies) /\ Len(refused) = n /\ \A i \in 1 .. n : refused[i] = NoReply
  BY NoReplyType
<1> HIDE DEF left, refused
<1>4. /\ left \o refused \in Seq(Replies)
      /\ Len(left \o refused) = Len(left) + Len(refused)
      /\ \A i \in 1 .. Len(left) + Len(refused) :
            (left \o refused)[i] = IF i <= Len(left) THEN left[i] ELSE refused[i - Len(left)]
  BY <1>2, <1>3, ConcatProperties
<1>5. Churned(n) = left \o refused
  BY DEF Churned, left, refused
<1>6. PICK c : c = Churned(n)
  OBVIOUS
<1>7. /\ c \in Seq(Replies) /\ Len(c) = Len(replies)
      /\ \A i \in 1 .. Len(replies) :
            c[i] = IF i <= Len(replies) - n THEN left[i] ELSE refused[i - (Len(replies) - n)]
  BY <1>1, <1>2, <1>3, <1>4, <1>5, <1>6
<1>8. ASSUME NEW i \in 1 .. Len(replies)
      PROVE  /\ \/ i + n \in 1 .. Len(replies) /\ c[i] = replies[i + n]
                \/ c[i] = NoReply
             /\ n = Len(replies) => c[i] = NoReply
  <2>1. CASE i <= Len(replies) - n
    BY <1>1, <1>2, <1>7, <2>1
  <2>2. CASE ~(i <= Len(replies) - n)
    <3>1. i - (Len(replies) - n) \in 1 .. n
      BY <1>1, <2>2
    <3>2. QED
      BY <1>3, <1>7, <2>2, <3>1
  <2>3. QED
    BY <2>1, <2>2
<1>9. QED
  BY <1>6, <1>7, <1>8

(* The diagnostic message may stay on the wire. *)
LEMMA LastMessage ==
    ASSUME LastMessageTimesOut
    PROVE  \/ UNCHANGED <<flight, arrived>>
           \/ /\ scenario.fail /\ flight = NoFlight /\ arrived' = FALSE
              /\ flight'.kind = "debug" /\ flight' # NoFlight
<1>1. PICK free : free = NoFlight
  OBVIOUS
<1>2. free = [kind |-> "free", seq |-> 0, data |-> <<>>]
  BY <1>1 DEF NoFlight
<1>3. PICK debug : debug = [free EXCEPT !.kind = "debug"]
  OBVIOUS
<1>4. debug.kind = "debug" /\ debug # free
  BY <1>2, <1>3
<1>5. CASE UNCHANGED <<flight, arrived>>
  BY <1>5
<1>6. CASE scenario.fail /\ flight = NoFlight /\ flight' = [NoFlight EXCEPT !.kind = "debug"]
           /\ arrived' = FALSE
  <2>1. flight' = debug
    BY <1>1, <1>3, <1>6, Zenon
  <2>2. QED
    BY <1>1, <1>4, <1>6, <2>1
<1>7. QED
  BY <1>5, <1>6 DEF LastMessageTimesOut

(* A resync is only asked for by the last mutation, and ends in one of two *)
(* ways: nothing is missing any more, or it will be asked for again.       *)
LEMMA Resynced ==
    ASSUME IInv, pc = "resync", resync.pending, LastMessageTimesOut,
           UNCHANGED <<pend, posted, errors, esp>>, pc' = "snap",
           resync' = [resync EXCEPT !.pending = FALSE],
           replies' \in Seq(Replies), Len(replies') = Len(replies),
           \A i \in 1 .. Len(replies') :
              (\E j \in 1 .. Len(replies) : replies'[i] = replies[j]) \/ replies'[i] = NoReply,
           QueueInv',
           \/ wlSeq' = eSeq /\ wl' = eList
           \/ UNCHANGED wlSeq
    PROVE  IInv'
<1>1. UNCHANGED <<eList, eSeq, eMut, eQuery, verdict, answered, scenario>>
  BY DEF esp
<1>2. wlSeq \in SeqNums /\ eSeq \in SeqNums /\ resync \in ResyncStates /\ replies \in Seq(Replies)
  BY DEF IInv, TypeOK
<1>3. Behind /\ eMut.evt = "update" /\ ~Synced /\ eQuery = <<>>
  <2>1. Behind /\ eMut.evt = "update"
    BY DEF IInv, SeqInv
  <2>2. ~Synced
    BY <1>2, <2>1, Numbers DEF Behind, Synced
  <2>3. QED
    BY <2>1, <2>2 DEF IInv, SeqInv
<1>4. resync' \in ResyncStates /\ ~resync'.pending
  BY <1>2 DEF ResyncStates
<1>5. posted = FALSE /\ flight.kind # "snap" /\ (Lossless => flight.kind # "addr")
  BY DEF IInv, WireInv, TypeOK, LosslessInv
<1>6. (flight' = flight /\ arrived' = arrived)
      \/ (scenario.fail /\ arrived' = FALSE /\ flight'.kind = "debug" /\ flight' # NoFlight)
  BY LastMessage
<1>7. arrived' \in BOOLEAN
  BY <1>6 DEF IInv, TypeOK
<1>8. TypeOK'
  BY <1>1, <1>2, <1>4, <1>5, <1>7 DEF IInv, TypeOK
<1>9. WireInv'
  BY <1>5, <1>6 DEF IInv, WireInv
<1>10. (Synced' /\ ~Behind' /\ wl' = eList) \/ (~Synced' /\ Behind')
  BY <1>1, <1>2, <1>3, Numbers DEF Synced, Behind
<1>11. SeqInv'
  BY <1>1, <1>3, <1>4, <1>10 DEF IInv, SeqInv
<1>12. Lossless' = Lossless /\ Careful' = Careful
  BY <1>1 DEF Lossless, Careful
<1>13. ListInv'
  BY <1>1, <1>3, <1>10, <1>12 DEF IInv, ListInv
<1>14. SilentInv'
  BY <1>1, <1>3, <1>6, NoReplyType DEF IInv, SilentInv
<1>15. LosslessInv'
  <2>1. SUFFICES ASSUME Lossless
                 PROVE  LosslessInv'
    BY <1>12 DEF LosslessInv
  <2>2. flight' = flight /\ arrived' = arrived /\ flight = NoFlight
    BY <1>5, <1>6, <2>1 DEF IInv, WireInv, LosslessInv, Lossless
  <2>3. ~arrived /\ replies = <<>>
    BY <2>1, <2>2 DEF IInv, WireInv, LosslessInv
  <2>4. replies' = <<>>
    BY <1>2, <2>3, EmptySeq
  <2>5. QED
    BY <1>1, <1>3, <1>5, <2>1, <2>2, <2>3, <2>4 DEF IInv, LosslessInv
<1>16. QED
  BY <1>8, <1>9, <1>11, <1>13, <1>14, <1>15 DEF IInv

LEMMA ResyncStep ==
    ASSUME IInv, ResyncFetched \/ ResyncFails
    PROVE  IInv'
<1>1. /\ replies \in Seq(Replies) /\ Len(replies) \in Nat /\ eSeq \in SeqNums
      /\ resync.pending => resync.seq = eSeq
  BY LenProperties DEF IInv, TypeOK, SeqInv
<1>2. CASE ResyncFetched
  <2>1. /\ pc = "resync" /\ resync.pending /\ LastMessageTimesOut
        /\ UNCHANGED <<pend, posted, errors, esp>> /\ pc' = "snap"
        /\ resync' = [resync EXCEPT !.pending = FALSE]
        /\ replies' = Churned(Len(replies)) /\ wlSeq' = eSeq /\ wl' = eList
    BY <1>1, <1>2 DEF ResyncFetched
  <2>2. /\ replies' \in Seq(Replies) /\ Len(replies') = Len(replies)
        /\ \A i \in 1 .. Len(replies') : replies'[i] = NoReply
    BY <1>1, <2>1, ChurnedIs
  <2>3. UNCHANGED <<eSeq, eMut>>
    BY <2>1 DEF esp
  <2>4. QueueInv'
    BY <1>1, <2>1, <2>2, <2>3, NoReplyType, Numbers DEF QueueInv, QueueOK
  <2>5. QED
    BY <2>1, <2>2, <2>4, Resynced
<1>3. CASE ResyncFails
  <2>1. /\ pc = "resync" /\ resync.pending /\ LastMessageTimesOut
        /\ UNCHANGED <<pend, posted, errors, wlSeq, esp>> /\ pc' = "snap"
        /\ resync' = [resync EXCEPT !.pending = FALSE]
        /\ (\E n \in 0 .. Len(replies) : replies' = Churned(n)) \/ UNCHANGED replies
    BY <1>3 DEF ResyncFails
  <2>2. PICK k \in 0 .. Len(replies) :
           /\ replies' \in Seq(Replies) /\ Len(replies') = Len(replies)
           /\ \A i \in 1 .. Len(replies') :
                 \/ i + k \in 1 .. Len(replies) /\ replies'[i] = replies[i + k]
                 \/ replies'[i] = NoReply
    <3>1. CASE UNCHANGED replies
      <4>1. 0 \in 0 .. Len(replies) /\ \A i \in 1 .. Len(replies') :
               i + 0 \in 1 .. Len(replies) /\ replies'[i] = replies[i + 0]
        BY <1>1, <3>1
      <4>2. replies' \in Seq(Replies) /\ Len(replies') = Len(replies)
        BY <1>1, <3>1
      <4>3. QED
        BY <4>1, <4>2
    <3>2. ASSUME NEW n \in 0 .. Len(replies), replies' = Churned(n)
          PROVE  /\ replies' \in Seq(Replies) /\ Len(replies') = Len(replies)
                 /\ \A i \in 1 .. Len(replies') :
                       \/ i + n \in 1 .. Len(replies) /\ replies'[i] = replies[i + n]
                       \/ replies'[i] = NoReply
      BY <1>1, <3>2, ChurnedIs
    <3>3. QED
      BY <2>1, <3>1, <3>2
  <2>3. \A i \in 1 .. Len(replies') :
           \/ i + k \in 1 .. Len(replies) /\ replies'[i] = replies[i + k]
           \/ replies'[i].evt \notin Mutations
    BY <2>2, NoReplyType DEF Mutations
  <2>4. QueueOK(replies, wlSeq, eSeq, eMut) /\ (NextSeq(wlSeq) = eSeq => eMut.evt \in Mutations)
    BY DEF IInv, QueueInv, SeqInv, Behind
  <2>5. k \in Nat
    BY <1>1
  <2>6. QueueOK(replies', wlSeq, eSeq, eMut)
    BY <1>1, <2>2, <2>3, <2>4, <2>5, QueueRest
  <2>7. QueueInv'
    BY <2>1, <2>6 DEF QueueInv, esp
  <2>8. \A i \in 1 .. Len(replies') :
           (\E j \in 1 .. Len(replies) : replies'[i] = replies[j]) \/ replies'[i] = NoReply
    BY <2>2
  <2>9. QED
    BY <2>1, <2>2, <2>7, <2>8, Resynced
<1>4. QED
  BY <1>2, <1>3

-----------------------------------------------------------------------------
(* Every step of the console. *)

LEMMA ConsoleStep ==
    ASSUME IInv, Fire \/ Collect \/ Answer \/ Resync \/ Snap
    PROVE  IInv'
<1>1. /\ posted \in BOOLEAN /\ (posted => pc \in {"sleep", "collect"})
      /\ Lossless /\ flight.kind = "addr" => pc = "addrWait"
      /\ posted /\ Lossless => flight.kind # "addr"
  BY DEF IInv, TypeOK, WireInv, LosslessInv
<1>2. CASE Fire
  BY <1>1, <1>2, OnlyTheThread DEF Fire
<1>3. CASE Collect
  <2>1. CASE CollectNothing
    BY <1>1, <2>1, OnlyTheThread DEF CollectNothing
  <2>2. CASE CollectReply
    <3>1. Parses(pend)
      BY <2>2 DEF CollectReply, Parses
    <3>2. QED
      BY <3>1, ParsesInv
  <2>3. CASE CollectFails
    BY <2>3, ReadFailed DEF CollectFails
  <2>4. CASE CollectTimesOut
    BY <1>1, <2>4, OnlyTheThread DEF CollectTimesOut
  <2>5. QED
    BY <1>3, <2>1, <2>2, <2>3, <2>4 DEF Collect
<1>4. CASE Answer
  <2>1. CASE AddrSend
    BY <2>1, SendStep
  <2>2. CASE AddrDropsLateReply
    BY <2>2, LateReplyDropped DEF AddrDropsLateReply, AddrTurn
  <2>3. CASE AddrNotSent
    BY <1>1, <2>3, OnlyTheThread DEF AddrNotSent, AddrTurn
  <2>4. CASE AddrReply
    <3>1. Parses(<<>>)
      <4>1. posted = FALSE
        BY <1>1, <2>4 DEF AddrReply
      <4>2. QED
        BY <2>4, <4>1 DEF AddrReply, Parses
    <3>2. QED
      BY <3>1, ParsesInv
  <2>5. CASE AddrFails
    <3>1. posted' = FALSE
      BY <1>1, <2>5 DEF AddrFails
    <3>2. QED
      BY <2>5, <3>1, ReadFailed DEF AddrFails
  <2>6. CASE AddrTimesOut
    <3>1. ~Lossless
      BY <2>6 DEF AddrTimesOut, Lossless
    <3>2. QED
      BY <1>1, <2>6, <3>1, OnlyTheThread DEF AddrTimesOut
  <2>7. CASE AddrDone
    BY <1>1, <2>7, OnlyTheThread DEF AddrDone
  <2>8. QED
    BY <1>4, <2>1, <2>2, <2>3, <2>4, <2>5, <2>6, <2>7 DEF Answer
<1>5. CASE Resync
  <2>1. CASE ResyncNotAsked
    BY <1>1, <2>1, OnlyTheThread DEF ResyncNotAsked
  <2>2. CASE ResyncDropsLateReply
    BY <2>2, LateReplyDropped DEF ResyncDropsLateReply
  <2>3. CASE ResyncFetched \/ ResyncFails
    BY <2>3, ResyncStep
  <2>4. QED
    BY <1>5, <2>1, <2>2, <2>3 DEF Resync
<1>6. CASE Snap
  <2>1. CASE SnapPosted
    BY <2>1, SendStep
  <2>2. CASE SnapRefused
    BY <1>1, <2>2, OnlyTheThread DEF SnapRefused
  <2>3. QED
    BY <1>6, <2>1, <2>2 DEF Snap
<1>7. QED
  BY <1>2, <1>3, <1>4, <1>5, <1>6

-----------------------------------------------------------------------------
(* The adapter serves a request. *)

LEMMA Served ==
    ASSUME IInv, flight # NoFlight, ~arrived, NEW r \in Replies, Serve(r),
           UNCHANGED <<console, flight, errors, scenario>>
    PROVE  /\ UNCHANGED <<wl, wlSeq, pend, resync, pc, posted>> /\ WireInv'
           /\ replies \in Seq(Replies) /\ replies' = Append(replies, r)
           /\ replies' \in Seq(Replies) /\ Len(replies) \in Nat /\ Len(replies') = Len(replies) + 1
           /\ \A i \in 1 .. Len(replies) : replies'[i] = replies[i]
           /\ replies'[Len(replies) + 1] = r
           /\ Lossless => Len(replies') = 1 /\ replies'[1] = r
<1>1. UNCHANGED <<wl, wlSeq, pend, resync, pc, posted>>
  BY DEF console
<1>2. arrived' = TRUE /\ replies' = Append(replies, r) /\ replies \in Seq(Replies)
  BY DEF Serve, IInv, TypeOK
<1>3. WireInv'
  BY <1>1, <1>2 DEF IInv, WireInv
<1>4. /\ replies' \in Seq(Replies) /\ Len(replies) \in Nat /\ Len(replies') = Len(replies) + 1
      /\ \A i \in 1 .. Len(replies) : replies'[i] = replies[i]
      /\ replies'[Len(replies) + 1] = r
  BY <1>2, AppendProperties, LenProperties
<1>5. Lossless => Len(replies) = 0
  BY EmptySeq DEF IInv, LosslessInv
<1>6. QED
  BY <1>1, <1>2, <1>3, <1>4, <1>5

(* What is left to show of a reply. *)
LEMMA ServedInv ==
    ASSUME IInv, flight # NoFlight, ~arrived, NEW r \in Replies, Serve(r),
           UNCHANGED <<console, flight, errors, scenario>>,
           eSeq' \in SeqNums, eMut' \in Replies, eList' \in Seq(Addrs), eQuery' \in Seq(Addrs),
           verdict' \in BOOLEAN, answered' \in BOOLEAN,
           SeqInv', QueueInv', ListInv',
           ~scenario.ask => eQuery' = <<>> /\ r.evt # "query",
           Lossless => /\ answered'
                       /\ eQuery' # <<>> => r.evt = "query" /\ r.data = eQuery'
                       /\ eQuery' = <<>> => r.evt # "query"
    PROVE  IInv'
<1>1. /\ UNCHANGED <<wl, wlSeq, pend, resync, pc, posted>> /\ WireInv'
      /\ replies' \in Seq(Replies) /\ Len(replies) \in Nat /\ Len(replies') = Len(replies) + 1
      /\ \A i \in 1 .. Len(replies) : replies'[i] = replies[i]
      /\ replies'[Len(replies) + 1] = r
      /\ Lossless => Len(replies') = 1 /\ replies'[1] = r
  BY Served
<1>2. arrived' = TRUE
  BY DEF Serve
<1>3. TypeOK'
  BY <1>1, <1>2 DEF IInv, TypeOK
<1>4. \A i \in 1 .. Len(replies') : replies'[i] = r \/ i \in 1 .. Len(replies)
  BY <1>1
<1>5. SilentInv'
  BY <1>1, <1>4 DEF IInv, SilentInv
<1>6. Lossless' = Lossless
  BY DEF Lossless
<1>7. LosslessInv'
  BY <1>1, <1>2, <1>6 DEF IInv, LosslessInv
<1>8. QED
  BY <1>1, <1>3, <1>5, <1>7 DEF IInv

(* A reply that is no mutation. *)
LEMMA QuietQueue ==
    ASSUME IInv, flight # NoFlight, ~arrived, NEW r \in Replies, Serve(r), r.evt \notin Mutations,
           UNCHANGED <<console, flight, errors, scenario, eSeq, eMut>>
    PROVE  QueueInv' /\ (Synced' = Synced) /\ (Behind' = Behind)
<1>1. /\ UNCHANGED wlSeq /\ replies \in Seq(Replies) /\ replies' \in Seq(Replies)
      /\ Len(replies) \in Nat /\ Len(replies') = Len(replies) + 1
      /\ \A i \in 1 .. Len(replies) : replies'[i] = replies[i]
      /\ replies'[Len(replies) + 1] = r
  BY Served
<1>2. QueueOK(replies, wlSeq, eSeq, eMut) /\ (NextSeq(wlSeq) = eSeq => eMut.evt \in Mutations)
  BY DEF IInv, QueueInv, SeqInv, Behind
<1>3. \A i \in 1 .. Len(replies') :
         \/ i + 0 \in 1 .. Len(replies) /\ replies'[i] = replies[i + 0]
         \/ replies'[i].evt \notin Mutations
  <2>1. ASSUME NEW i \in 1 .. Len(replies')
        PROVE  \/ i + 0 \in 1 .. Len(replies) /\ replies'[i] = replies[i + 0]
               \/ replies'[i].evt \notin Mutations
    <3>1. CASE i = Len(replies) + 1
      BY <1>1, <3>1
    <3>2. CASE i # Len(replies) + 1
      <4>1. i \in 1 .. Len(replies) /\ i + 0 = i
        BY <1>1, <3>2
      <4>2. QED
        BY <1>1, <4>1
    <3>3. QED
      BY <3>1, <3>2
  <2>2. QED
    BY <2>1
<1>4. QueueOK(replies', wlSeq, eSeq, eMut)
  BY <1>1, <1>2, <1>3, QueueRest
<1>5. QED
  BY <1>1, <1>4 DEF QueueInv, Synced, Behind

(* A new mutation. *)
LEMMA Emitted ==
    ASSUME IInv, flight # NoFlight, ~arrived, Synced, NEW r \in Replies, Emits(r),
           r.evt \in Mutations, r.seq = NextSeq(eSeq),
           UNCHANGED <<console, flight, errors, scenario>>
    PROVE  /\ eSeq' \in SeqNums /\ eMut' = r /\ eQuery' = <<>>
           /\ Behind' /\ ~Synced' /\ SeqInv' /\ QueueInv'
<1>1. Serve(r) /\ eMut' = r /\ eSeq' = NextSeq(eSeq) /\ eQuery' = <<>>
  BY DEF Emits
<1>2. /\ UNCHANGED <<wlSeq, resync>> /\ replies' = Append(replies, r)
      /\ replies \in Seq(Replies)
  BY <1>1, Served
<1>3. wlSeq \in SeqNums /\ wlSeq = eSeq
  BY DEF IInv, TypeOK, Synced
<1>4. eSeq' \in SeqNums /\ Behind' /\ ~Synced' /\ ~Behind
  BY <1>1, <1>2, <1>3, Numbers DEF Behind, Synced
<1>5. ~resync.pending
  BY <1>4 DEF IInv, SeqInv
<1>6. SeqInv'
  BY <1>1, <1>2, <1>4, <1>5 DEF SeqInv
<1>7. QueueOK(replies, wlSeq, wlSeq, eMut)
  BY <1>3 DEF IInv, QueueInv
<1>8. QueueOK(Append(replies, r), wlSeq, NextSeq(wlSeq), r)
  BY <1>2, <1>3, <1>7, QueueEmits
<1>9. QueueInv'
  BY <1>1, <1>2, <1>3, <1>8 DEF QueueInv
<1>10. QED
  BY <1>1, <1>4, <1>6, <1>9

(* After a request that both sides understand alike. *)
LEMMA Continued ==
    ASSUME IInv, flight # NoFlight, ~arrived, Synced, NEW list \in Seq(Addrs), Continues(list),
           UNCHANGED <<console, flight, errors, scenario>>,
           Careful => wl = list /\ verdict',
           Lossless => answered',
           verdict' \in BOOLEAN, answered' \in BOOLEAN
    PROVE  IInv'
<1>1. /\ eSeq \in SeqNums /\ eMut \in Replies /\ UNCHANGED wl
      /\ Careful' = Careful
  BY DEF IInv, TypeOK, console, Careful, Lossless
<1>2. NextSeq(eSeq) \in SeqNums
  BY <1>1, Numbers
<1>3. ~resync.pending /\ UNCHANGED resync
  <2>1. ~Behind
    BY Numbers DEF IInv, TypeOK, Synced, Behind
  <2>2. QED
    BY <2>1 DEF IInv, SeqInv, console
<1>4. <<>> \in Seq(Addrs)
  BY EmptySeq
<1>5. CASE Serve(NoReply) /\ eList' = list /\ eQuery' = <<>> /\ UNCHANGED <<eSeq, eMut>>
  <2>1. PICK r \in Replies : r = NoReply /\ r.evt = "none"
    BY NoReplyType
  <2>2. r.evt \notin Mutations /\ Serve(r) /\ r.evt # "query"
    BY <1>5, <2>1 DEF Mutations
  <2>3. QueueInv' /\ Synced' /\ ~Behind'
    <3>1. QueueInv' /\ Synced' = Synced /\ Behind' = Behind
      BY <1>5, <2>2, QuietQueue
    <3>2. QED
      BY <1>1, <3>1, Numbers DEF Synced, Behind
  <2>4. SeqInv' /\ ListInv'
    BY <1>1, <1>3, <1>5, <2>3 DEF SeqInv, ListInv
  <2>5. QED
    BY <1>1, <1>4, <1>5, <2>2, <2>3, <2>4, ServedInv
<1>6. ASSUME NEW a \in Missing(list), scenario.ask, Serve(Reply("query", 0, <<a>>)),
             eQuery' = <<a>>, eList' = list, UNCHANGED <<eSeq, eMut>>
      PROVE  IInv'
  <2>1. a \in Addrs /\ <<a>> \in Seq(Addrs) /\ "query" \in Events /\ 0 \in SeqNums /\ <<a>> # <<>>
    BY SessionAssumption DEF Missing, Events, SeqNums
  <2>2. PICK e \in Events, s \in SeqNums, p \in Seq(Addrs) \cup Indices : e = "query" /\ s = 0 /\ p = <<a>>
    BY <2>1
  <2>3. PICK r : /\ r = Reply(e, s, p) /\ r \in Replies
                  /\ r.evt = e /\ r.seq = s /\ r.data = p
    BY ReplyType
  <2>4. r \in Replies /\ r.evt = "query" /\ r.data = <<a>>
    BY <2>2, <2>3
  <2>5. Serve(r)
    BY <1>6, <2>2, <2>3, Zenon
  <2>6. r.evt \notin Mutations
    BY <2>4 DEF Mutations
  <2>7. QueueInv' /\ Synced' /\ ~Behind'
    <3>1. QueueInv' /\ Synced' = Synced /\ Behind' = Behind
      BY <1>6, <2>4, <2>5, <2>6, QuietQueue
    <3>2. QED
      BY <1>1, <3>1, Numbers DEF Synced, Behind
  <2>8. arrived' = TRUE
    BY <2>5 DEF Serve
  <2>9. SeqInv' /\ ListInv'
    BY <1>1, <1>3, <1>6, <2>7, <2>8 DEF SeqInv, ListInv
  <2>10. QED
    BY <1>1, <1>6, <2>1, <2>4, <2>5, <2>7, <2>9, ServedInv
<1>7. ASSUME NEW i \in DOMAIN list, Emits(Reply("remove", NextSeq(eSeq), <<i>>)),
             eList' = RemoveIdx(list, <<i>>)
      PROVE  IInv'
  <2>1. i \in Nat /\ <<i>> \in Indices /\ "remove" \in Events
    BY DEF Indices, Events
  <2>2. PICK e \in Events, s \in SeqNums, p \in Seq(Addrs) \cup Indices :
           e = "remove" /\ s = NextSeq(eSeq) /\ p = <<i>>
    BY <1>2, <2>1
  <2>3. PICK r : /\ r = Reply(e, s, p) /\ r \in Replies
                  /\ r.evt = e /\ r.seq = s /\ r.data = p
    BY ReplyType
  <2>4. r \in Replies /\ r.evt = "remove" /\ r.seq = NextSeq(eSeq) /\ r.data = <<i>>
    BY <2>2, <2>3
  <2>5. Emits(r)
    BY <1>7, <2>2, <2>3, Zenon
  <2>6. Serve(r) /\ r.evt \in Mutations
    BY <2>4, <2>5 DEF Emits, Mutations
  <2>7. /\ eSeq' \in SeqNums /\ eMut' = r /\ eQuery' = <<>>
        /\ Behind' /\ ~Synced' /\ SeqInv' /\ QueueInv'
    BY <2>4, <2>5, <2>6, Emitted
  <2>8. ListInv'
    BY <1>1, <1>7, <2>4, <2>7 DEF ListInv
  <2>9. eList' \in Seq(Addrs)
    BY <1>7, RemoveType
  <2>10. QED
    BY <1>4, <2>4, <2>6, <2>7, <2>8, <2>9, ServedInv
<1>8. ASSUME NEW a \in Missing(list), Emits(Reply("append", NextSeq(eSeq), <<a>>)),
             eList' = list \o <<a>>
      PROVE  IInv'
  <2>1. a \in Addrs /\ <<a>> \in Seq(Addrs) /\ "append" \in Events
    BY DEF Missing, Events
  <2>2. PICK e \in Events, s \in SeqNums, p \in Seq(Addrs) \cup Indices :
           e = "append" /\ s = NextSeq(eSeq) /\ p = <<a>>
    BY <1>2, <2>1
  <2>3. PICK r : /\ r = Reply(e, s, p) /\ r \in Replies
                  /\ r.evt = e /\ r.seq = s /\ r.data = p
    BY ReplyType
  <2>4. r \in Replies /\ r.evt = "append" /\ r.seq = NextSeq(eSeq) /\ r.data = <<a>>
    BY <2>2, <2>3
  <2>5. Emits(r)
    BY <1>8, <2>2, <2>3, Zenon
  <2>6. Serve(r) /\ r.evt \in Mutations
    BY <2>4, <2>5 DEF Emits, Mutations
  <2>7. /\ eSeq' \in SeqNums /\ eMut' = r /\ eQuery' = <<>>
        /\ Behind' /\ ~Synced' /\ SeqInv' /\ QueueInv'
    BY <2>4, <2>5, <2>6, Emitted
  <2>8. ListInv'
    BY <1>1, <1>8, <2>4, <2>7 DEF ListInv
  <2>9. eList' \in Seq(Addrs)
    BY <1>8, <2>1, ConcatProperties
  <2>10. QED
    BY <1>4, <2>4, <2>6, <2>7, <2>8, <2>9, ServedInv
<1>9. QED
  BY <1>5, <1>6, <1>7, <1>8 DEF Continues

LEMMA SnapshotStep ==
    ASSUME IInv, SnapshotVerified \/ SnapshotBehind \/ SnapshotDesynced
    PROVE  IInv'
<1>1. /\ flight.kind = "snap" /\ ~arrived /\ flight # NoFlight
      /\ flight.seq = wlSeq /\ flight.data = wl
      /\ UNCHANGED <<console, flight, errors, scenario>> /\ answered' = answered
  BY NothingOnTheWire DEF IInv, WireInv, SnapshotVerified, SnapshotBehind, SnapshotDesynced
<1>2. /\ wlSeq \in SeqNums /\ eSeq \in SeqNums /\ eMut \in Replies /\ eList \in Seq(Addrs)
      /\ eQuery \in Seq(Addrs) /\ verdict \in BOOLEAN /\ answered \in BOOLEAN
      /\ Synced \/ Behind
      /\ Behind => eMut.evt \in Mutations /\ eMut.seq = eSeq
      /\ Lossless => answered /\ Careful
      /\ Careful => verdict
  BY DEF IInv, TypeOK, SeqInv, LosslessInv, ListInv, Careful
<1>3. UNCHANGED wl /\ Careful' = Careful /\ UNCHANGED <<wlSeq, resync>>
  BY <1>1 DEF console, Careful, Lossless
<1>4. <<>> \in Seq(Addrs)
  BY EmptySeq
<1>5. CASE SnapshotVerified
  <2>1. /\ Synced /\ Len(wl) = Len(eList) /\ Continues(eList)
        /\ verdict' = (wl = eList)
    BY <1>1, <1>5 DEF SnapshotVerified, Synced
  <2>2. Careful => wl = eList
    BY <1>1, <1>2, <2>1, JoinType DEF IInv, ListInv
  <2>3. Careful => wl = eList /\ verdict'
    BY <2>1, <2>2
  <2>4. verdict' \in BOOLEAN
    BY <2>1
  <2>5. QED
    BY <1>1, <1>2, <2>1, <2>3, <2>4, Continued
<1>6. CASE SnapshotBehind
  <2>1. /\ Behind /\ Serve(eMut) /\ eQuery' = <<>>
        /\ UNCHANGED <<eList, eSeq, eMut, verdict>>
    BY <1>1, <1>6 DEF SnapshotBehind, Behind
  <2>2. replies' = Append(replies, eMut) /\ replies \in Seq(Replies)
    BY <1>1, <1>2, <2>1, Served
  <2>3. eMut.evt \in Mutations /\ eMut.evt # "query"
    BY <1>2, <2>1 DEF Mutations
  <2>4. QueueOK(replies, wlSeq, eSeq, eMut)
    BY DEF IInv, QueueInv
  <2>5. QueueOK(Append(replies, eMut), wlSeq, eSeq, eMut)
    BY <1>2, <2>1, <2>2, <2>3, <2>4, QueueAgain DEF Behind
  <2>6. QueueInv'
    BY <1>3, <2>1, <2>2, <2>5 DEF QueueInv
  <2>7. Synced' = Synced /\ Behind' = Behind /\ ~Synced
    BY <1>2, <1>3, <2>1, Numbers DEF Synced, Behind
  <2>8. SeqInv'
    BY <1>3, <2>1, <2>7 DEF IInv, SeqInv
  <2>9. ListInv'
    BY <1>3, <2>1, <2>7 DEF IInv, ListInv
  <2>10. QED
    BY <1>1, <1>2, <1>4, <2>1, <2>3, <2>6, <2>8, <2>9, ServedInv
<1>7. CASE SnapshotDesynced
  <2>1. /\ ~(Behind /\ eMut # NoReply) /\ Emits(Reply("update", NextSeq(eSeq), <<>>))
        /\ UNCHANGED <<eList, verdict>>
    BY <1>1, <1>7 DEF SnapshotDesynced, Behind
  <2>2. Synced
    BY <1>2, <2>1, NoReplyType DEF Mutations
  <2>3. "update" \in Events /\ NextSeq(eSeq) \in SeqNums
    BY <1>2, Numbers DEF Events
  <2>4. PICK e \in Events, s \in SeqNums, p \in Seq(Addrs) \cup Indices :
           e = "update" /\ s = NextSeq(eSeq) /\ p = <<>>
    BY <1>4, <2>3
  <2>5. PICK r : /\ r = Reply(e, s, p) /\ r \in Replies
                  /\ r.evt = e /\ r.seq = s /\ r.data = p
    BY ReplyType
  <2>6. r \in Replies /\ r.evt = "update" /\ r.seq = NextSeq(eSeq)
    BY <2>4, <2>5
  <2>7. Emits(r)
    BY <2>1, <2>4, <2>5, Zenon
  <2>8. Serve(r) /\ r.evt \in Mutations
    BY <2>6, <2>7 DEF Emits, Mutations
  <2>9. /\ eSeq' \in SeqNums /\ eMut' = r /\ eQuery' = <<>>
        /\ Behind' /\ ~Synced' /\ SeqInv' /\ QueueInv'
    BY <1>1, <2>2, <2>6, <2>7, <2>8, Emitted
  <2>10. ListInv'
    BY <1>2, <1>3, <2>1, <2>6, <2>9 DEF ListInv
  <2>11. QED
    BY <1>1, <1>2, <1>4, <2>1, <2>6, <2>8, <2>9, <2>10, ServedInv
<1>8. QED
  BY <1>5, <1>6, <1>7

LEMMA AnswerStep ==
    ASSUME IInv, AnswerAccepted \/ AnswerIgnored \/ DebugServed
    PROVE  IInv'
<1>1. /\ flight.kind \in {"addr", "debug"} /\ ~arrived /\ flight # NoFlight
      /\ UNCHANGED <<console, flight, errors, scenario>> /\ verdict' = verdict
  BY NothingOnTheWire DEF AnswerAccepted, AnswerIgnored, DebugServed, esp
<1>2. /\ wlSeq \in SeqNums /\ eSeq \in SeqNums /\ eMut \in Replies /\ eList \in Seq(Addrs)
      /\ eQuery \in Seq(Addrs) /\ verdict \in BOOLEAN /\ answered \in BOOLEAN
      /\ eQuery # <<>> => Synced
      /\ ~scenario.ask => eQuery = <<>>
      /\ Lossless => answered /\ flight.kind = "addr" /\ Careful
      /\ Careful => verdict
  BY <1>1 DEF IInv, TypeOK, SeqInv, LosslessInv, ListInv, SilentInv, Careful
<1>3. Lossless => /\ eQuery # <<>> => flight.data = eQuery
  BY <1>1, <1>2 DEF IInv, LosslessInv
<1>4. CASE AnswerAccepted
  <2>1. PICK list : list = Joined(eList, eQuery)
    OBVIOUS
  <2>2. /\ eQuery # <<>> /\ answered' = (flight.data = eQuery) /\ Continues(list)
    BY <1>4, <2>1 DEF AnswerAccepted, Joined
  <2>3. list \in Seq(Addrs) /\ Synced
    BY <1>2, <2>1, <2>2, JoinType
  <2>4. Careful => wl = list /\ verdict'
    BY <1>1, <1>2, <2>1, <2>2, <2>3 DEF IInv, ListInv
  <2>5. (Lossless => answered') /\ answered' \in BOOLEAN /\ verdict' \in BOOLEAN
    BY <1>1, <1>2, <1>3, <2>2
  <2>6. QED
    BY <1>1, <2>2, <2>3, <2>4, <2>5, Continued
<1>5. CASE AnswerIgnored \/ DebugServed
  <2>1. PICK r \in Replies : r = NoReply /\ r.evt = "none"
    BY NoReplyType
  <2>2. r.evt \notin Mutations /\ Serve(r) /\ r.evt # "query"
    BY <1>5, <2>1 DEF Mutations, AnswerIgnored, DebugServed
  <2>3. UNCHANGED <<eList, eSeq, eMut, eQuery, verdict, answered>> /\ UNCHANGED wl
    BY <1>1, <1>5 DEF AnswerIgnored, DebugServed, esp, console
  <2>4. Lossless => eQuery = <<>>
    BY <1>2, <1>3, <1>5 DEF AnswerIgnored, DebugServed
  <2>5. Careful => eQuery = <<>>
    BY <1>2, <2>4 DEF Careful
  <2>6. QueueInv' /\ Synced' = Synced /\ Behind' = Behind
    BY <1>1, <2>2, <2>3, QuietQueue
  <2>7. SeqInv'
    BY <1>1, <2>3, <2>6 DEF IInv, SeqInv, console
  <2>8. Careful' = Careful
    BY <1>1 DEF Careful, Lossless
  <2>9. ListInv'
    BY <2>3, <2>5, <2>6, <2>8 DEF IInv, ListInv
  <2>10. QED
    BY <1>1, <1>2, <2>2, <2>3, <2>4, <2>6, <2>7, <2>9, ServedInv
<1>6. QED
  BY <1>4, <1>5

-----------------------------------------------------------------------------
LEMMA InitInv == Init => IInv
<1> SUFFICES ASSUME Init
             PROVE  IInv
  OBVIOUS
<1>1. 0 \in SeqNums /\ <<>> \in Seq(Addrs) /\ <<>> \in Seq(Replies)
  BY SessionAssumption, EmptySeq DEF SeqNums
<1>2. Synced /\ ~Behind
  BY <1>1, Numbers DEF Init, Synced, Behind
<1>3. resync \in ResyncStates /\ ~resync.pending
  BY <1>1 DEF Init, ResyncStates
<1>4. TypeOK
  <2>1. \A a \in Addrs : <<a>> \in Seq(Addrs)
    OBVIOUS
  <2>2. eList \in {<<>>} \cup {<<a>> : a \in Addrs}
    BY DEF Init
  <2>3. eList \in Seq(Addrs)
    BY <1>1, <2>1, <2>2
  <2>4. QED
    BY <1>1, <1>3, <2>3, NoReplyType DEF Init, TypeOK
<1>5. WireInv
  BY NothingOnTheWire DEF Init, WireInv
<1>6. SeqInv
  BY <1>2, <1>3 DEF Init, SeqInv
<1>7. Len(replies) = 0
  BY <1>1, EmptySeq DEF Init
<1>8. QueueInv
  BY <1>7 DEF QueueInv, QueueOK
<1>9. ListInv
  BY <1>2 DEF Init, ListInv
<1>10. SilentInv
  BY <1>7, NothingOnTheWire DEF Init, SilentInv
<1>11. LosslessInv
  BY NothingOnTheWire DEF Init, LosslessInv
<1>12. QED
  BY <1>4, <1>5, <1>6, <1>8, <1>9, <1>10, <1>11 DEF IInv

LEMMA NextInv == IInv /\ [Next]_vars => IInv'
<1> SUFFICES ASSUME IInv, [Next]_vars
             PROVE  IInv'
  OBVIOUS
<1>1. CASE Fire \/ Collect \/ Answer \/ Resync \/ Snap
  BY <1>1, ConsoleStep
<1>2. CASE Adapter
  <2>1. CASE SnapshotVerified \/ SnapshotBehind \/ SnapshotDesynced
    BY <2>1, SnapshotStep
  <2>2. CASE AnswerAccepted \/ AnswerIgnored \/ DebugServed
    BY <2>2, AnswerStep
  <2>3. QED
    BY <1>2, <2>1, <2>2 DEF Adapter
<1>3. CASE UNCHANGED vars
  <2>1. UNCHANGED <<wl, wlSeq, pend, resync, pc, posted, flight, arrived, replies, errors>>
        /\ UNCHANGED <<eList, eSeq, eMut, eQuery, verdict, answered, scenario>>
    BY <1>3 DEF vars
  <2>2. Synced' = Synced /\ Behind' = Behind /\ Careful' = Careful /\ Lossless' = Lossless
    BY <2>1 DEF Synced, Behind, Careful, Lossless
  <2>3. TypeOK' /\ WireInv'
    BY <2>1 DEF IInv, TypeOK, WireInv
  <2>4. SeqInv' /\ QueueInv'
    BY <2>1, <2>2 DEF IInv, SeqInv, QueueInv
  <2>5. ListInv' /\ SilentInv' /\ LosslessInv'
    BY <2>1, <2>2 DEF IInv, ListInv, SilentInv, LosslessInv
  <2>6. QED
    BY <2>3, <2>4, <2>5 DEF IInv
<1>4. QED
  BY <1>1, <1>2, <1>3 DEF Next

(* In every state the console has taken every mutation or all but the      *)
(* last, a mutation among the replies is that last one or was taken, and   *)
(* lists the two sides take for equal are: what ra_parse_response, the     *)
(* resync and the adapter's three answers to a snapshot keep between them. *)
THEOREM SessionInvariant == Spec => []IInv
<1>1. QED
  BY InitInv, NextInv, PTL DEF Spec

(* The console is at most one numbered mutation behind, however many       *)
(* replies were lost, late or read by another exchange, also across the    *)
(* wrap of the 16-bit number; and a snapshot accepted for its number and   *)
(* count (ra_send_snapshot) carries the adapter's own list, over any link  *)
(* without queries, over a lossless link with them.                        *)
THEOREM VerifiedSnapshotsAlign == Spec => []VerifiedMeansAligned
<1>1. ASSUME IInv
      PROVE  (eSeq + SeqModulus - wlSeq) % SeqModulus <= 1
  <2>1. /\ SeqModulus \in Nat \ {0} /\ SeqModulus >= 3
        /\ wlSeq \in 0 .. SeqModulus - 1 /\ eSeq \in 0 .. SeqModulus - 1
        /\ Synced \/ Behind
    BY <1>1, SessionAssumption DEF IInv, TypeOK, SeqInv, SeqNums
  <2>2. PICK n \in Nat : n = eSeq + SeqModulus - wlSeq
    BY <2>1
  <2>3. CASE eSeq = wlSeq
    <3>1. n = 1 * SeqModulus + 0 /\ 0 < SeqModulus
      BY <2>1, <2>2, <2>3
    <3>2. n % SeqModulus = 0
      BY <2>1, <3>1, Division
    <3>3. QED
      BY <2>2, <3>2
  <2>4. CASE eSeq = NextSeq(wlSeq)
    <3>1. eSeq = IF wlSeq + 1 < SeqModulus THEN wlSeq + 1 ELSE 0
      BY <2>1, <2>4, NextIs DEF SeqNums
    <3>2. n = 1 * SeqModulus + 1 \/ n = 0 * SeqModulus + 1
      BY <2>1, <2>2, <3>1
    <3>3. n % SeqModulus = 1
      BY <2>1, <3>2, Division
    <3>4. QED
      BY <2>2, <3>3
  <2>5. QED
    BY <2>1, <2>3, <2>4 DEF Synced, Behind
<1>2. IInv => VerifiedMeansAligned
  <2>1. ASSUME IInv
        PROVE  Lossless \/ ~scenario.ask => verdict
    BY <2>1 DEF IInv, ListInv, Careful
  <2>2. QED
    BY <1>1, <2>1 DEF VerifiedMeansAligned
<1>3. QED
  BY <1>2, SessionInvariant, PTL

(* Over a link that loses nothing, the values the adapter takes for the    *)
(* answer to its query were read at the addresses it asked for, although   *)
(* an answer (ra_send_addr_response) names no query.                       *)
THEOREM AnswersMatch == Spec => []AnswerMatchesQuery
<1>1. IInv => AnswerMatchesQuery
  BY DEF IInv, LosslessInv, AnswerMatchesQuery
<1>2. QED
  BY <1>1, SessionInvariant, PTL
=============================================================================
