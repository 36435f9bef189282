------------------------------ MODULE RaThread ------------------------------
(***************************************************************************)
(* The poll thread with the fetches it makes (source/ra-module/main.c):    *)
(* PollThread's life of the thread, ChunkFetch's chunked fetches of the    *)
(* watch list and the chain table during the bring-up, and the in-game     *)
(* resync, which a fire does before it ends.                               *)
(***************************************************************************)
EXTENDS PollThread, ChunkFetch

vars == <<pollVars, chunkVars>>

Init == PollInit /\ ChunkInit

(* Without the adapter no chunk comes. *)
LinkIsDown ==
    ~up => /\ outcome' # "ok"
           /\ ra_watchlist' = ra_watchlist
           /\ ra_chain_nodes' = ra_chain_nodes

Chunk ==
    /\ pc \in {"fetch", "loop"}
    /\ ChunkStep
    /\ LinkIsDown
    /\ UNCHANGED pollVars

(* The bring-up's fetches are over. *)
FetchEnds ==
    /\ step = "play"
    /\ Fetched(outcome = "ok")
    /\ UNCHANGED chunkVars

(* A fire; a resync it is asked for runs before the next one. *)
FireAlone == step = "play" /\ Fire /\ UNCHANGED chunkVars

FireResyncs == up /\ Fire /\ ra_do_resync

Environment == (LoaderClears \/ GameFrame \/ TimePasses) /\ UNCHANGED chunkVars

Next ==
    \/ Environment
    \/ BringUp /\ UNCHANGED chunkVars
    \/ Chunk
    \/ FetchEnds
    \/ FireAlone
    \/ FireResyncs

(* The thread is scheduled and time passes; frames come only from a game. *)
FairSpec ==
    /\ Init /\ [][Next]_vars
    /\ WF_vars(TimePasses /\ UNCHANGED chunkVars)
    /\ WF_vars(BringUp /\ UNCHANGED chunkVars)
    /\ WF_vars(Chunk) /\ WF_vars(FetchEnds)
    /\ WF_vars(FireAlone \/ FireResyncs)
=============================================================================
