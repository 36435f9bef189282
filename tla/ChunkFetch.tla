----------------------------- MODULE ChunkFetch -----------------------------
(***************************************************************************)
(* How the module gets the watch list and the chain table from the adapter *)
(* when a game starts (source/ra-module/main.c): both come in numbered     *)
(* chunks, each requested by its number, checked (magic, number, size,     *)
(* CRC, and for chain nodes the order of parents) and requested again a    *)
(* few times when the check fails.  The chain table is fetched only after  *)
(* the watch list; a failure of either leaves the feature off.  An in-game *)
(* resync fetches the watch list again.                                    *)
(*                                                                         *)
(* The adapter is external: it keeps its two lists unchanged while they    *)
(* are fetched, in chunks of its choice.  A reply may be lost, garbled     *)
(* (the CRC is taken to find that) or belong to another request.           *)
(***************************************************************************)
EXTENDS Naturals, Sequences, SequencesExt

CONSTANTS
    WatchLists,     \* watch lists the adapter may have, cut into chunks
    ChainTables,    \* its chain tables: the nodes' parents, 0 for a root
    Attempts,       \* RA_CHUNK_FETCH_ATTEMPTS
    MaxAddrs,       \* RA_MAX_WATCH_ADDRS
    MaxNodes,       \* RA_MAX_CHAIN_NODES
    WatchCap,       \* the watch list's loop gives up at 32 chunks
    ChainCap        \* the chain table's loop ends after 7 chunks

ASSUME ChunkAssumption ==
    /\ WatchLists \cup ChainTables \subseteq Seq(Seq(Nat)) \ {<<>>}
    /\ \A chunks \in ChainTables : Len(chunks) <= ChainCap
    /\ {Attempts, WatchCap, ChainCap} \subseteq Nat \ {0}
    /\ {MaxAddrs, MaxNodes} \subseteq Nat

VARIABLES
    watchChunks,       \* what the adapter has
    chainChunks,
    step,              \* "watch", "chain" or "play"
    chunk_idx,
    att,               \* attempts at this chunk so far
    ra_watchlist,      \* up to ra_watchlist_count
    ra_chain_nodes,    \* up to base
    ra_chain_node_count,
    outcome            \* how the last watch-list fetch ended

chunkVars == <<watchChunks, chainChunks, step, chunk_idx, att, ra_watchlist, ra_chain_nodes, ra_chain_node_count, outcome>>

ChunkInit ==
    /\ watchChunks \in WatchLists
    /\ chainChunks \in ChainTables
    /\ step = "watch"
    /\ chunk_idx = 1
    /\ att = 0
    /\ ra_watchlist = <<>>
    /\ ra_chain_nodes = <<>>
    /\ ra_chain_node_count = 0
    /\ outcome = "none"

-----------------------------------------------------------------------------
(* The reply to a request for chunk n: the chunk, whether it is the last,  *)
(* and the number it carries; or nothing that passes the checks.           *)
Reply(chunks, n) ==
    [good : {TRUE}, index : 1 .. Len(chunks), garbled : BOOLEAN] \cup {[good |-> FALSE]}

(* Magic, size, number and CRC are right. *)
Accepts(reply, n) == reply.good /\ ~reply.garbled /\ reply.index = n

Entries(chunks) == FlattenSeq(chunks)

Fits(seq, max) == SubSeq(seq, 1, IF Len(seq) < max THEN Len(seq) ELSE max)

(* mutant: an attempt appends before the CRC is checked *)
AppendedEarly(reply) ==
    IF reply.good THEN Fits(ra_watchlist \o watchChunks[reply.index], MaxAddrs) ELSE ra_watchlist

(* What an attempt that is not accepted leaves in the list. *)
Untouched(reply) == ra_watchlist

IsLast(chunks, n) == n = Len(chunks)

(* The fetch is over; the chain table follows the first watch list. *)
WatchFetched ==
    /\ outcome' = "ok"
    /\ step' = IF outcome = "none" THEN "chain" ELSE "play"
    /\ chunk_idx' = 1

WatchFailed == outcome' = "failed" /\ step' = "play" /\ chunk_idx' = 1

(* One attempt at a chunk of the watch list. *)
ra_fetch_watchlist_chunk ==
    /\ step = "watch"
    /\ \E reply \in Reply(watchChunks, chunk_idx) :
         IF Accepts(reply, chunk_idx)
         THEN /\ ra_watchlist' = Fits(ra_watchlist \o watchChunks[reply.index], MaxAddrs)
              /\ att' = 0
              /\ IF IsLast(watchChunks, reply.index) THEN WatchFetched
                 ELSE IF chunk_idx = WatchCap THEN WatchFailed
                 ELSE chunk_idx' = chunk_idx + 1 /\ UNCHANGED <<step, outcome>>
         ELSE /\ ra_watchlist' = Untouched(reply)
              /\ att' = (att + 1) % Attempts
              /\ IF att + 1 < Attempts THEN UNCHANGED <<step, chunk_idx, outcome>> ELSE WatchFailed
    /\ UNCHANGED <<watchChunks, chainChunks, ra_chain_nodes, ra_chain_node_count>>

(* The nodes of a chunk may follow those that are there: parents come      *)
(* first, and the table is not too long.                                   *)
WellFormed(nodes) ==
    /\ Len(ra_chain_nodes) + Len(nodes) <= Len(Entries(chainChunks))
    /\ Len(Entries(chainChunks)) <= MaxNodes
    /\ \A i \in 1 .. Len(nodes) : nodes[i] < Len(ra_chain_nodes) + i

(* The table is off. *)
ChainGivenUp == UNCHANGED ra_chain_node_count

ra_fetch_chain_chunk ==
    /\ step = "chain"
    /\ \E reply \in Reply(chainChunks, chunk_idx) :
         IF Accepts(reply, chunk_idx) /\ WellFormed(chainChunks[reply.index])
         THEN /\ ra_chain_nodes' = ra_chain_nodes \o chainChunks[reply.index]
              /\ att' = 0
              /\ IF IsLast(chainChunks, reply.index) \/ chunk_idx = ChainCap
                 THEN /\ ra_chain_node_count' = Len(ra_chain_nodes')
                      /\ step' = "play"
                      /\ chunk_idx' = 1
                 ELSE chunk_idx' = chunk_idx + 1 /\ UNCHANGED <<step, ra_chain_node_count>>
         ELSE /\ att' = (att + 1) % Attempts
              /\ UNCHANGED ra_chain_nodes
              /\ IF att + 1 < Attempts THEN UNCHANGED <<step, chunk_idx, ra_chain_node_count>>
                 ELSE step' = "play" /\ chunk_idx' = 1 /\ ChainGivenUp
    /\ UNCHANGED <<watchChunks, chainChunks, ra_watchlist, outcome>>

(* The adapter asks for the watch list to be fetched anew. *)
ra_do_resync ==
    /\ step = "play"
    /\ step' = "watch"
    /\ chunk_idx' = 1 /\ att' = 0
    /\ ra_watchlist' = <<>>
    /\ UNCHANGED <<watchChunks, chainChunks, ra_chain_nodes, ra_chain_node_count, outcome>>

ChunkStep == ra_fetch_watchlist_chunk \/ ra_fetch_chain_chunk

-----------------------------------------------------------------------------
(* Whatever is lost, garbled, late or repeated, the list holds the entries *)
(* of the chunks fetched so far, each once and in order, and after a       *)
(* successful fetch all the adapter has ("A failed attempt mutates no      *)
(* state"); a chain table that is in use is the whole table of the         *)
(* adapter, with every parent before its node ("Any failure => Phase C     *)
(* off").                                                                  *)
ListsAreAdapters ==
    /\ step = "watch" =>
         ra_watchlist = Fits(Entries(SubSeq(watchChunks, 1, chunk_idx - 1)), MaxAddrs)
    /\ step # "watch" /\ outcome = "ok" => ra_watchlist = Fits(Entries(watchChunks), MaxAddrs)
    /\ ra_chain_node_count # 0 => /\ ra_chain_nodes = Entries(chainChunks)
                                  /\ ra_chain_node_count = Len(ra_chain_nodes)
                                  /\ \A i \in 1 .. ra_chain_node_count : ra_chain_nodes[i] < i
=============================================================================
