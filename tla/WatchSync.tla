----------------------------- MODULE WatchSync -----------------------------
(***************************************************************************)
(* The session of the ra-module with the adapter (source/ra-module/main.c, *)
(* USB pipeline build): on every fire the poll thread collects the reply   *)
(* to the snapshot it posted at the last fire, answers the address queries *)
(* that came with it, repairs the watchlist if asked to, and posts the     *)
(* next snapshot.  Replies mutate the watchlist, and the adapter keeps its *)
(* own replica: a snapshot carries values by position, so the two lists    *)
(* must be equal whenever the adapter believes they are.                   *)
(*                                                                         *)
(* The wire is the link of UsbLink seen from its client: at most one       *)
(* exchange; a blocking exchange may time out, stays on the wire, and its  *)
(* late reply is dropped by the next blocking call; a read may fail, and   *)
(* the reply it missed is then read by the next exchange.                  *)
(*                                                                         *)
(* The adapter is external: its half is what gc_ra_protocol.h and the      *)
(* comments of ra_parse_response say the module relies on.                 *)
(***************************************************************************)
EXTENDS Naturals, Sequences, SequencesExt

CONSTANTS
    Addrs,         \* addresses
    MaxWatch,      \* RA_MAX_WATCH_ADDRS (6144)
    MaxRounds,     \* ADDR_RESPONSE rounds per fire (12)
    Attempts,      \* RA_CHUNK_FETCH_ATTEMPTS (3)
    SeqModulus,        \* mutation sequence numbers are modulo this (2^16)
    Scenarios      \* what the adapter and the link may do: ask - send address
                   \* queries; fail - let an exchange time out or refuse a
                   \* send; errors - that many exchanges end with a failed read

ASSUME SessionAssumption ==
    /\ MaxWatch \in Nat \ {0}
    /\ MaxRounds \in Nat \ {0}
    /\ Attempts \in Nat \ {0}
    /\ SeqModulus \in Nat /\ SeqModulus >= 3
    /\ Scenarios \subseteq [ask : BOOLEAN, fail : BOOLEAN, errors : Nat]

VARIABLES
    wl,        \* ra_watchlist[0 .. ra_watchlist_count - 1]
    wlSeq,     \* ra_wl_seq
    pend,      \* ra_pending_query_addrs[0 .. ra_pending_query_count - 1]
    resync,    \* ra_resync_pending, ra_resync_seq
    pc,        \* where the poll thread is in its fire
    round,     \* ADDR_RESPONSE rounds of this fire
    posted,    \* ra_usb_posted()
    flight,    \* the request on the wire
    arrived,   \* has the adapter taken the request on the wire?
    replies,   \* replies the adapter has ready, oldest first
    errors,    \* reads that failed so far
    eList,     \* the adapter's replica of the watchlist
    eSeq,      \* sequence number of the last mutation it emitted
    eMut,      \* that mutation, until a snapshot acknowledges it
    eQuery,    \* the address query it waits an answer for
    verdict,   \* did the last snapshot it accepted carry its own list?
    answered,  \* was the last answer it accepted an answer to its query?
    scenario   \* the member of Scenarios this behaviour lives in

console == <<wl, wlSeq, pend, resync, pc, round, posted>>
wire == <<flight, arrived, replies, errors>>
esp == <<eList, eSeq, eMut, eQuery, verdict, answered, scenario>>
vars == <<wl, wlSeq, pend, resync, pc, round, posted, flight, arrived, replies,
          errors, eList, eSeq, eMut, eQuery, verdict, answered, scenario>>

-----------------------------------------------------------------------------
NextSeq(s) == (s + 1) % SeqModulus

Lists == UNION {[1..n -> Addrs] : n \in 0..MaxWatch}

(* Replies: an event and its payload (addresses, or indices). *)
Reply(e, s, p) == [evt |-> e, seq |-> s, data |-> p]

NoReply == Reply("none", 0, <<>>)

NoFlight == [kind |-> "free", seq |-> 0, data |-> <<>>]

(* The survivors of an index removal, in order: the skip-cursor compaction *)
(* drops the positions of an ascending index list.                         *)
RemoveIdx(list, idx) ==
    FlattenSeq([i \in DOMAIN list |->
                   IF \E j \in DOMAIN idx : idx[j] = i THEN <<>> ELSE <<list[i]>>])

Init ==
    /\ eList \in {<<>>} \cup {<<a>> : a \in Addrs}
    /\ wl = eList
    /\ wlSeq = 0 /\ eSeq = 0
    /\ pend = <<>> /\ eQuery = <<>>
    /\ resync = [pending |-> FALSE, seq |-> 0]
    /\ pc = "sleep" /\ round = 0 /\ posted = FALSE
    /\ flight = NoFlight /\ arrived = FALSE /\ replies = <<>> /\ errors = 0
    /\ eMut = NoReply
    /\ verdict = TRUE /\ answered = TRUE
    /\ scenario \in Scenarios

-----------------------------------------------------------------------------
(***************************************************************************)
(* ra_parse_response: what a reply does to the watchlist, the pending      *)
(* query and the resync flag.  q is what is left of the pending query.     *)
(***************************************************************************)

Fits(list, more) == Len(list) + Len(more) <= MaxWatch

(* mutant: the pending query is taken from the tail of the list it joined *)
ParseQueryFromTail(r) ==
    /\ r.evt = "query"
    /\ wl' = IF Fits(wl, r.data) THEN wl \o r.data ELSE wl
    /\ pend' = IF wl' = <<>> THEN <<>> ELSE <<Last(wl')>>
    /\ UNCHANGED <<wlSeq, resync>>

ParseQuery(r) ==
    /\ r.evt = "query"
    /\ pend' = r.data
    /\ wl' = IF Fits(wl, r.data) THEN wl \o r.data ELSE wl
    /\ UNCHANGED <<wlSeq, resync>>

ParseAppend(r, q) ==
    /\ r.evt = "append"
    /\ IF r.seq = NextSeq(wlSeq) /\ Fits(wl, r.data)
       THEN wl' = wl \o r.data /\ wlSeq' = r.seq
       ELSE UNCHANGED <<wl, wlSeq>>
    /\ pend' = q
    /\ UNCHANGED resync

(* mutant: the index cursor is one position late *)
ParseRemoveLate(r, q) ==
    /\ r.evt = "remove"
    /\ IF r.seq = NextSeq(wlSeq) /\ Len(r.data) <= Len(wl)
       THEN /\ wl' = RemoveIdx(wl, [i \in DOMAIN r.data |-> 1 + (r.data[i] % Len(wl))])
            /\ wlSeq' = r.seq
       ELSE UNCHANGED <<wl, wlSeq>>
    /\ pend' = q
    /\ UNCHANGED resync

ParseRemove(r, q) ==
    /\ r.evt = "remove"
    /\ IF r.seq = NextSeq(wlSeq) /\ Len(r.data) <= Len(wl)
       THEN wl' = RemoveIdx(wl, r.data) /\ wlSeq' = r.seq
       ELSE UNCHANGED <<wl, wlSeq>>
    /\ pend' = q
    /\ UNCHANGED resync

ParseUpdate(r, q) ==
    /\ r.evt = "update"
    /\ resync' = [pending |-> TRUE, seq |-> r.seq]
    /\ pend' = q
    /\ UNCHANGED <<wl, wlSeq>>

ParseOther(r, q) ==
    /\ r.evt = "none"
    /\ pend' = q
    /\ UNCHANGED <<wl, wlSeq, resync>>

ra_parse_response(r, q) ==
    \/ ParseQuery(r)
    \/ ParseAppend(r, q)
    \/ ParseRemove(r, q)
    \/ ParseUpdate(r, q)
    \/ ParseOther(r, q)

-----------------------------------------------------------------------------
(***************************************************************************)
(* One fire.  A frame edge (or the fallback timer) starts it.              *)
(***************************************************************************)
Fire ==
    /\ pc = "sleep"
    /\ pc' = "collect"
    /\ round' = 0
    /\ UNCHANGED <<wl, wlSeq, pend, resync, posted, wire, esp>>

(* The exchange on the wire ends: its read takes the oldest reply. *)
ReadReply ==
    /\ arrived
    /\ replies # <<>>
    /\ replies' = Tail(replies)
    /\ flight' = NoFlight
    /\ arrived' = FALSE
    /\ UNCHANGED errors

(* The exchange on the wire ends with a failed read: nothing is taken. *)
ReadFails ==
    /\ flight # NoFlight
    /\ errors < scenario.errors
    /\ errors' = errors + 1
    /\ flight' = NoFlight
    /\ arrived' = FALSE
    /\ UNCHANGED replies

(***************************************************************************)
(* ra_snap_collect.  A snapshot still in flight after the wait skips the   *)
(* fire; a failed exchange loses its reply.                                *)
(***************************************************************************)
CollectNothing ==
    /\ pc = "collect"
    /\ ~posted
    /\ pc' = "addr"
    /\ UNCHANGED <<wl, wlSeq, pend, resync, round, posted, wire, esp>>

CollectReply ==
    /\ pc = "collect"
    /\ posted
    /\ ReadReply
    /\ ra_parse_response(Head(replies), pend)
    /\ posted' = FALSE
    /\ pc' = "addr"
    /\ UNCHANGED <<round, esp>>

CollectFails ==
    /\ pc = "collect"
    /\ posted
    /\ ReadFails
    /\ posted' = FALSE
    /\ pc' = "addr"
    /\ UNCHANGED <<wl, wlSeq, pend, resync, round, esp>>

CollectTimesOut ==
    /\ pc = "collect"
    /\ posted
    /\ pc' = "sleep"
    /\ UNCHANGED <<wl, wlSeq, pend, resync, round, posted, wire, esp>>

(***************************************************************************)
(* The ADDR_RESPONSE rounds.  The answer is sent when the wire is free; an *)
(* earlier answer that timed out is waited for first, and its late reply   *)
(* is dropped unparsed.                                                    *)
(***************************************************************************)
AddrTurn == pc = "addr" /\ pend # <<>> /\ round < MaxRounds

AddrSend ==
    /\ AddrTurn
    /\ flight = NoFlight
    /\ flight' = [kind |-> "addr", seq |-> 0, data |-> pend]
    /\ arrived' = FALSE
    /\ pc' = "addrWait"
    /\ UNCHANGED <<wl, wlSeq, pend, resync, round, posted, replies, errors, esp>>

AddrDropsLateReply ==
    /\ AddrTurn
    /\ flight # NoFlight
    /\ ReadReply
    /\ UNCHANGED <<console, esp>>

AddrNotSent ==
    /\ AddrTurn
    /\ scenario.fail
    /\ round' = round + 1
    /\ UNCHANGED <<wl, wlSeq, pend, resync, pc, posted, wire, esp>>

AddrReply ==
    /\ pc = "addrWait"
    /\ ReadReply
    /\ ra_parse_response(Head(replies), <<>>)
    /\ round' = round + 1
    /\ pc' = "addr"
    /\ UNCHANGED <<posted, esp>>

AddrFails ==
    /\ pc = "addrWait"
    /\ ReadFails
    /\ round' = round + 1
    /\ pc' = "addr"
    /\ UNCHANGED <<wl, wlSeq, pend, resync, posted, esp>>

AddrTimesOut ==
    /\ pc = "addrWait"
    /\ scenario.fail
    /\ round' = round + 1
    /\ pc' = "addr"
    /\ UNCHANGED <<wl, wlSeq, pend, resync, posted, wire, esp>>

AddrDone ==
    /\ pc = "addr"
    /\ pend = <<>> \/ round = MaxRounds
    /\ pc' = "resync"
    /\ UNCHANGED <<wl, wlSeq, pend, resync, round, posted, wire, esp>>

(***************************************************************************)
(* ra_do_resync: the flag is cleared first; a fetch that completes adopts  *)
(* the adapter's list and the sequence base, one that fails leaves the     *)
(* part of the list that was fetched and the old sequence number.  The     *)
(* last exchange of either is a diagnostic message when an attempt failed, *)
(* and that message may time out.                                          *)
(*                                                                         *)
(* A reply an earlier failed read left behind is read, and refused, by the *)
(* first exchanges of the fetch, whose own replies are then read late: n   *)
(* such replies cost every chunk n more attempts, and n chunk replies stay *)
(* behind, which ra_parse_response will not take for an event.             *)
(***************************************************************************)
Churned(n) == SubSeq(replies, n + 1, Len(replies)) \o [i \in 1..n |-> NoReply]

LastMessageTimesOut ==
    \/ UNCHANGED <<flight, arrived>>
    \/ /\ scenario.fail
       /\ flight = NoFlight
       /\ flight' = [NoFlight EXCEPT !.kind = "debug"]
       /\ arrived' = FALSE

ResyncNotAsked ==
    /\ pc = "resync"
    /\ ~resync.pending
    /\ pc' = "snap"
    /\ UNCHANGED <<wl, wlSeq, pend, resync, round, posted, wire, esp>>

ResyncDropsLateReply ==
    /\ pc = "resync"
    /\ resync.pending
    /\ flight # NoFlight
    /\ ReadReply
    /\ UNCHANGED <<console, esp>>

(* mutant: the sequence base of the fresh list is not adopted *)
ResyncFetchedKeepsSeq ==
    /\ pc = "resync"
    /\ resync.pending
    /\ flight = NoFlight
    /\ Len(replies) < Attempts
    /\ replies' = Churned(Len(replies))
    /\ wl' = eList
    /\ resync' = [resync EXCEPT !.pending = FALSE]
    /\ LastMessageTimesOut
    /\ pc' = "snap"
    /\ UNCHANGED <<wlSeq, pend, round, posted, errors, esp>>

ResyncFetched ==
    /\ pc = "resync"
    /\ resync.pending
    /\ flight = NoFlight
    /\ Len(replies) < Attempts
    /\ replies' = Churned(Len(replies))
    /\ wl' = eList
    /\ wlSeq' = resync.seq
    /\ resync' = [resync EXCEPT !.pending = FALSE]
    /\ LastMessageTimesOut
    /\ pc' = "snap"
    /\ UNCHANGED <<pend, round, posted, errors, esp>>

ResyncFails ==
    /\ pc = "resync"
    /\ resync.pending
    /\ \E n \in 0..Len(eList) :
          /\ n < Len(eList) \/ n = 0
          /\ flight # NoFlight => n = 0
          /\ wl' = SubSeq(eList, 1, n)
    /\ resync' = [resync EXCEPT !.pending = FALSE]
    /\ IF flight = NoFlight
       THEN \E n \in 0..Len(replies) : replies' = Churned(n)
       ELSE UNCHANGED replies
    /\ LastMessageTimesOut
    /\ pc' = "snap"
    /\ UNCHANGED <<wlSeq, pend, round, posted, errors, esp>>

(***************************************************************************)
(* ra_send_snapshot, as far as the watchlist goes: the list and its        *)
(* sequence number as they are when the snapshot is built.                 *)
(***************************************************************************)
SnapPosted ==
    /\ pc = "snap"
    /\ flight = NoFlight
    /\ flight' = [kind |-> "snap", seq |-> wlSeq, data |-> wl]
    /\ arrived' = FALSE
    /\ posted' = TRUE
    /\ pc' = "sleep"
    /\ UNCHANGED <<wl, wlSeq, pend, resync, round, replies, errors, esp>>

SnapRefused ==
    /\ pc = "snap"
    /\ flight # NoFlight \/ scenario.fail
    /\ pc' = "sleep"
    /\ UNCHANGED <<wl, wlSeq, pend, resync, round, posted, wire, esp>>

-----------------------------------------------------------------------------
(***************************************************************************)
(* The adapter.  It serves the request on the wire and leaves one reply.   *)
(***************************************************************************)
Serve(r) ==
    /\ arrived' = TRUE
    /\ replies' = Append(replies, r)

Emits(r) ==
    /\ Serve(r)
    /\ eMut' = r
    /\ eSeq' = NextSeq(eSeq)
    /\ eQuery' = <<>>

Missing(list) == Addrs \ {list[i] : i \in DOMAIN list}

(* What follows a request that found the adapter's list to be `list': *)
(* nothing, a query for a missing address, or a mutation.             *)
Continues(list) ==
    \/ /\ Serve(NoReply)
       /\ eList' = list
       /\ eQuery' = <<>>
       /\ UNCHANGED <<eSeq, eMut>>
    \/ \E a \in Missing(list) :
         /\ scenario.ask
         /\ Serve(Reply("query", 0, <<a>>))
         /\ eQuery' = <<a>>
         /\ eList' = list
         /\ UNCHANGED <<eSeq, eMut>>
    \/ \E i \in DOMAIN list :
         /\ Emits(Reply("remove", NextSeq(eSeq), <<i>>))
         /\ eList' = RemoveIdx(list, <<i>>)
    \/ \E a \in Missing(list) :
         /\ Fits(list, <<a>>)
         /\ Emits(Reply("append", NextSeq(eSeq), <<a>>))
         /\ eList' = list \o <<a>>

(* A snapshot with the adapter's own sequence number and count is accepted *)
(* as carrying its list; it may then ask, remove or append.                *)
SnapshotVerified ==
    /\ flight.kind = "snap" /\ ~arrived
    /\ flight.seq = eSeq /\ Len(flight.data) = Len(eList)
    /\ verdict' = (flight.data = eList)
    /\ Continues(eList)
    /\ UNCHANGED <<console, flight, errors, answered, scenario>>

(* Behind by one: the mutation is delivered again. *)
SnapshotBehind ==
    /\ flight.kind = "snap" /\ ~arrived
    /\ NextSeq(flight.seq) = eSeq /\ eMut # NoReply
    /\ Serve(eMut)
    /\ eQuery' = <<>>
    /\ UNCHANGED <<console, flight, errors, eList, eSeq, eMut, verdict, answered, scenario>>

(* Anything else cannot be repaired by a mutation: full resync. *)
SnapshotDesynced ==
    /\ flight.kind = "snap" /\ ~arrived
    /\ ~(flight.seq = eSeq /\ Len(flight.data) = Len(eList))
    /\ ~(NextSeq(flight.seq) = eSeq /\ eMut # NoReply)
    /\ Emits(Reply("update", NextSeq(eSeq), <<>>))
    /\ UNCHANGED <<console, flight, errors, eList, verdict, answered, scenario>>

(* An answer is accepted for the query asked last if it has its length:    *)
(* ADDR_RESPONSE carries a count and values, and nothing that names the    *)
(* query.  The queried addresses join the list.                            *)
AnswerAccepted ==
    /\ flight.kind = "addr" /\ ~arrived
    /\ eQuery # <<>> /\ Len(flight.data) = Len(eQuery)
    /\ answered' = (flight.data = eQuery)
    /\ Continues(IF Fits(eList, eQuery) THEN eList \o eQuery ELSE eList)
    /\ UNCHANGED <<console, flight, errors, verdict, scenario>>

AnswerIgnored ==
    /\ flight.kind = "addr" /\ ~arrived
    /\ eQuery = <<>> \/ Len(flight.data) # Len(eQuery)
    /\ Serve(NoReply)
    /\ UNCHANGED <<console, flight, errors, esp>>

DebugServed ==
    /\ flight.kind = "debug" /\ ~arrived
    /\ Serve(NoReply)
    /\ UNCHANGED <<console, flight, errors, esp>>

-----------------------------------------------------------------------------
Collect == CollectNothing \/ CollectReply \/ CollectFails \/ CollectTimesOut

Answer ==
    \/ AddrSend \/ AddrDropsLateReply \/ AddrNotSent
    \/ AddrReply \/ AddrFails \/ AddrTimesOut \/ AddrDone

Resync == ResyncNotAsked \/ ResyncDropsLateReply \/ ResyncFetched \/ ResyncFails

Snap == SnapPosted \/ SnapRefused

Adapter ==
    \/ SnapshotVerified \/ SnapshotBehind \/ SnapshotDesynced
    \/ AnswerAccepted \/ AnswerIgnored \/ DebugServed

Next == Fire \/ Collect \/ Answer \/ Resync \/ Snap \/ Adapter

Spec == Init /\ [][Next]_vars

(***************************************************************************)
(* The poll thread runs, the adapter serves every request, and what can    *)
(* succeed again and again does so sometimes: a reply that comes within    *)
(* the wait, a send the link takes, a fetch without a corrupted chunk.     *)
(***************************************************************************)
Progress ==
    /\ WF_vars(Fire)
    /\ WF_vars(Collect)
    /\ WF_vars(Answer)
    /\ WF_vars(Resync)
    /\ WF_vars(Snap)
    /\ WF_vars(Adapter)

Success ==
    /\ SF_vars(CollectReply)
    /\ SF_vars(AddrSend) /\ SF_vars(AddrDropsLateReply) /\ SF_vars(AddrReply)
    /\ SF_vars(ResyncDropsLateReply) /\ SF_vars(ResyncFetched)
    /\ SF_vars(SnapPosted)

FairSpec == Spec /\ Progress /\ Success

-----------------------------------------------------------------------------
Lossless == ~scenario.fail /\ scenario.errors = 0

(* A snapshot the adapter takes for synchronised, because it echoes the    *)
(* adapter's sequence number and has its count, carries the values of the  *)
(* adapter's own list, position by position (gc_ra_protocol.h: "sync is    *)
(* VERIFIED, not inferred from count equality"): over any link as long as  *)
(* the list only changes by numbered mutations, and with queries, which    *)
(* carry no number, over a link that loses nothing.  The console is never  *)
(* ahead of the adapter nor more than one mutation behind it, however many *)
(* replies were lost, late or read by the wrong exchange: resending one    *)
(* mutation is always the right repair, and the 16-bit number may wrap.    *)
VerifiedMeansAligned ==
    /\ Lossless \/ ~scenario.ask => verdict
    /\ (eSeq + SeqModulus - wlSeq) % SeqModulus <= 1

(* The values the adapter takes for the answer to its query were read at   *)
(* the addresses it asked for, as long as no exchange times out            *)
(* (ra_send_addr_response names no query).                                 *)
AnswerMatchesQuery == Lossless => answered

(* Over a link that loses nothing, whatever the adapter asks for, removes  *)
(* or appends, and however often a fetch fails or the rounds of a fire run *)
(* out, the session comes back to a verified snapshot again and again.     *)
SyncRecurs == Lossless => []<><<SnapshotVerified>>_vars

(* A resync whose fetch failed is asked for again (ra_do_resync: "the ESP  *)
(* sees the unchanged echo and re-triggers the resync").                   *)
FailedResyncRetriggers ==
    (pc = "snap" /\ ~resync.pending /\ wlSeq # eSeq) ~> (resync.pending \/ wlSeq = eSeq)
=============================================================================
