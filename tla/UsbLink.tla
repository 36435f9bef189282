------------------------------ MODULE UsbLink ------------------------------
(***************************************************************************)
(* The exchange engine of the RetroAchievements USB link                   *)
(* (source/ra-module/usb_link.c): one bulk OUT (the request) and one bulk  *)
(* IN (the reply) per exchange, completed asynchronously through the       *)
(* message queue g_q, with a timer per wait, and two client interfaces     *)
(* over the same wire: the blocking ra_usb_xfer and the pipelined          *)
(* ra_usb_post / ra_usb_reap.                                              *)
(*                                                                         *)
(* One client thread (the poll thread) calls the link.  It interleaves     *)
(* with three things the code does not control: the kernel completing the  *)
(* two transfers, the kernel's timer, and the adapter, which answers every *)
(* request it received once and in order, and which can be unplugged.      *)
(*                                                                         *)
(* The code gives a request and its reply no common identity: a reply is   *)
(* "the next IN".  The model keeps, for every reply, whether it answers    *)
(* the exchange that reads it ("own") or an earlier one ("old").           *)
(***************************************************************************)
EXTENDS Naturals, Sequences

CONSTANTS
    TokMod,        \* timer tokens are g_tok modulo this (2^16 in the code)
    MaxOwed,       \* bound: replies of failed exchanges the adapter still owes
    TimerMayFail,  \* may os_create_timer fail?
    OutMayFail,    \* may an OUT fail while the adapter is plugged in?
    InMayFail,     \* may an IN fail while the adapter is plugged in?
    MayUnplug      \* may the adapter go away (and come back)?

(***************************************************************************)
(* TokMod = 1 would give every wait the same token.                        *)
(***************************************************************************)
ASSUME TokAssumption == TokMod \in Nat /\ TokMod >= 2

ASSUME EnvAssumption ==
    /\ MaxOwed \in Nat
    /\ TimerMayFail \in BOOLEAN
    /\ OutMayFail \in BOOLEAN
    /\ InMayFail \in BOOLEAN
    /\ MayUnplug \in BOOLEAN

VARIABLES
    up,         \* g_up: the device is open
    dead,       \* g_dead: a post failed
    xs,         \* struct xs: the exchange on the wire
    post,       \* post_open, post_ready, post_res and whose reply the rx holds
    tok,        \* g_tok & 0xFFFF
    pc,         \* where the client thread is inside the link
    queue,      \* g_q, the kernel message queue
    timer,      \* the current wait's timer: "none", "armed" or "fired"
    inPend,     \* is the IN transfer with the kernel?
    outPend,    \* the OUT transfer: "none", "sent", "acked" by the adapter
    dev,        \* the adapter: "here", "gone" or "back"
    owedOwn,    \* does the adapter owe the reply to the exchange on the wire?
    owedOld,    \* how many replies to earlier exchanges does it still owe?
    missed,     \* has an IN failed, so that a reply may still be owed?
    ret         \* what the last link call returned

client == <<up, dead, xs, post, tok, pc>>
kernel == <<queue, timer, inPend, outPend>>
adapter == <<dev, owedOwn, owedOld, missed>>
vars == <<up, dead, xs, post, tok, pc, queue, timer, inPend, outPend,
          dev, owedOwn, owedOld, missed, ret>>

-----------------------------------------------------------------------------
(***************************************************************************)
(* Results, messages and records.                                          *)
(***************************************************************************)
Results == {"OK", "ETIMEOUT", "EBUSY", "EDEAD", "EIDLE", "EBUF", "EIO"}

Calls == {"none", "xfer", "post", "reap"}

Replies == {"none", "own", "old"}

Waiting == {"pre", "xfer", "reap"}

(* A completion record (ok, got) or a timer's token (tok).  fresh says that *)
(* the token is the current wait's; the code cannot see it.                 *)
Messages == [kind : {"out", "in", "tok"}, ok : BOOLEAN, got : Replies,
             tok : 0..(TokMod - 1), fresh : BOOLEAN]

Completion(k, ok, got) ==
    [kind |-> k, ok |-> ok, got |-> got, tok |-> 0, fresh |-> TRUE]

Token == [kind |-> "tok", ok |-> TRUE, got |-> "none", tok |-> tok, fresh |-> TRUE]

(* got is whose reply the IN transfer brought. *)
Exchange ==
    [busy : BOOLEAN, isPost : BOOLEAN, outDone : BOOLEAN, inDone : BOOLEAN,
     outOk : BOOLEAN, inOk : BOOLEAN, got : Replies]

(* The OUT moved every byte and the IN did not fail. *)
xs_result(x) == IF x.outOk /\ x.inOk THEN "OK" ELSE "EIO"

Return(call, res, got) ==
    /\ pc' = "idle"
    /\ ret' = [call |-> call, res |-> res, got |-> got]

NewExchange(isPost) ==
    [busy |-> TRUE, isPost |-> isPost, outDone |-> FALSE, inDone |-> FALSE,
     outOk |-> FALSE, inOk |-> FALSE, got |-> "none"]

(* The module's statics are zero, the adapter is plugged in. *)
Init ==
    /\ up = FALSE
    /\ dead = FALSE
    /\ xs = [NewExchange(FALSE) EXCEPT !.busy = FALSE]
    /\ post = [open |-> FALSE, ready |-> FALSE, res |-> "OK", got |-> "none"]
    /\ tok = 0
    /\ pc = "idle"
    /\ queue = <<>>
    /\ timer = "none"
    /\ inPend = FALSE
    /\ outPend = "none"
    /\ dev = "here"
    /\ owedOwn = FALSE
    /\ owedOld = 0
    /\ missed = FALSE
    /\ ret = [call |-> "none", res |-> "OK", got |-> "none"]

(***************************************************************************)
(* ra_usb_init, once discovery has found the adapter.  Afterwards it       *)
(* returns at once: g_up is never cleared, and neither is g_dead.          *)
(***************************************************************************)
ra_usb_init ==
    /\ pc = "idle"
    /\ ~up
    /\ dev = "here"
    /\ up' = TRUE
    /\ UNCHANGED <<dead, xs, post, tok, pc, kernel, adapter, ret>>

-----------------------------------------------------------------------------
(***************************************************************************)
(* xs_wait up to its receive loop: a timer with the next token, unless     *)
(* os_create_timer fails, in which case the wait has no limit.  A token    *)
(* still in the queue is now an earlier wait's.                            *)
(***************************************************************************)
NextTok == IF tok = TokMod - 1 THEN 0 ELSE tok + 1

Aged == [i \in DOMAIN queue |-> [queue[i] EXCEPT !.fresh = queue[i].kind # "tok"]]

StartWait(where) ==
    /\ pc' = where
    /\ tok' = NextTok
    /\ queue' = Aged
    /\ timer' \in IF TimerMayFail THEN {"none", "armed"} ELSE {"armed"}

(***************************************************************************)
(* xs_post, by outcome: the link is dead; the IN is not accepted; the OUT  *)
(* is not accepted, which leaves an IN posted with no request behind it    *)
(* and declares the link dead; both are on the wire.  bulk_async may fail  *)
(* once the adapter that was opened is gone.  Both callers come here with  *)
(* the wire free, so the busy check of xs_post itself never fires.         *)
(***************************************************************************)
PostRefused ==
    /\ dead
    /\ UNCHANGED <<dead, xs, inPend, outPend, owedOwn, owedOld>>

PostInFails(isPost) ==
    /\ ~dead
    /\ dev # "here"
    /\ xs' = [NewExchange(isPost) EXCEPT !.busy = FALSE]
    /\ UNCHANGED <<dead, inPend, outPend, owedOwn, owedOld>>

(* The reply to an exchange that failed is an old reply from here on. *)
AgeOwed ==
    /\ owedOwn' = FALSE
    /\ owedOld' = IF owedOwn THEN owedOld + 1 ELSE owedOld

PostOutFails(isPost) ==
    /\ ~dead
    /\ dev = "here" => OutMayFail
    /\ xs' = [NewExchange(isPost) EXCEPT !.outDone = TRUE]
    /\ dead' = TRUE
    /\ inPend' = TRUE
    /\ AgeOwed
    /\ UNCHANGED outPend

PostBoth(isPost) ==
    /\ ~dead
    /\ xs' = NewExchange(isPost)
    /\ inPend' = TRUE
    /\ outPend' = "sent"
    /\ AgeOwed
    /\ UNCHANGED dead

-----------------------------------------------------------------------------
(***************************************************************************)
(* ra_usb_xfer.  An exchange still on the wire is waited for first ("pre");*)
(* then the request is posted ("send") and waited for ("xfer").            *)
(***************************************************************************)
XferDown ==
    /\ pc = "idle"
    /\ ~up
    /\ Return("xfer", "EDEAD", "none")
    /\ UNCHANGED <<up, dead, xs, post, tok, kernel, adapter>>

XferWaitsFirst ==
    /\ pc = "idle"
    /\ up
    /\ xs.busy
    /\ StartWait("pre")
    /\ UNCHANGED <<up, dead, xs, post, inPend, outPend, adapter, ret>>

XferGoesOn ==
    /\ pc = "idle"
    /\ up
    /\ ~xs.busy
    /\ pc' = "send"
    /\ UNCHANGED <<up, dead, xs, post, tok, kernel, adapter, ret>>

XferRefused ==
    /\ pc = "send"
    /\ \/ /\ Return("xfer", "EBUF", "none")
          /\ UNCHANGED <<dead, xs, inPend, outPend, owedOwn, owedOld>>
       \/ Return("xfer", "EDEAD", "none") /\ PostRefused
       \/ Return("xfer", "EIO", "none") /\ PostInFails(FALSE)
       \/ Return("xfer", "EDEAD", "none") /\ PostOutFails(FALSE)
    /\ UNCHANGED <<up, post, tok, queue, timer, dev, missed>>

XferPosted ==
    /\ pc = "send"
    /\ PostBoth(FALSE)
    /\ StartWait("xfer")
    /\ UNCHANGED <<up, post, dev, missed, ret>>

(***************************************************************************)
(* ra_usb_post.                                                            *)
(***************************************************************************)
PostCallRefused ==
    /\ pc = "idle"
    /\ \/ ~up /\ Return("post", "EDEAD", "none")
       \/ up /\ (xs.busy \/ post.open) /\ Return("post", "EBUSY", "none")
       \/ up /\ ~xs.busy /\ ~post.open /\ Return("post", "EBUF", "none")
    /\ UNCHANGED <<up, dead, xs, post, tok, kernel, adapter>>

PostCallFails ==
    /\ pc = "idle"
    /\ up /\ ~xs.busy /\ ~post.open
    /\ \/ Return("post", "EDEAD", "none") /\ PostRefused
       \/ Return("post", "EIO", "none") /\ PostInFails(TRUE)
       \/ Return("post", "EDEAD", "none") /\ PostOutFails(TRUE)
    /\ UNCHANGED <<up, post, tok, queue, timer, dev, missed>>

ra_usb_post ==
    /\ pc = "idle"
    /\ up /\ ~xs.busy /\ ~post.open
    /\ PostBoth(TRUE)
    /\ post' = [post EXCEPT !.open = TRUE, !.ready = FALSE]
    /\ Return("post", "OK", "none")
    /\ UNCHANGED <<up, tok, queue, timer, dev, missed>>

(***************************************************************************)
(* ra_usb_reap: nothing posted; already finished by somebody else's wait;  *)
(* waits for it.                                                           *)
(***************************************************************************)
ReapIdle ==
    /\ pc = "idle"
    /\ ~post.open
    /\ Return("reap", "EIDLE", "none")
    /\ UNCHANGED <<up, dead, xs, post, tok, kernel, adapter>>

Closed == [post EXCEPT !.open = FALSE, !.ready = FALSE]

(* post_ready, or nothing on the wire: xs_wait returns 0 at once. *)
ReapReady ==
    /\ pc = "idle"
    /\ post.open
    /\ post.ready \/ ~xs.busy
    /\ post' = Closed
    /\ Return("reap", post.res, post.got)
    /\ UNCHANGED <<up, dead, xs, tok, kernel, adapter>>

(* mutant: a resumed wait forgets the completion it already has *)
ReapWaitsAfresh ==
    /\ pc = "idle"
    /\ post.open
    /\ ~post.ready
    /\ xs.busy
    /\ StartWait("reap")
    /\ xs' = [xs EXCEPT !.outDone = FALSE, !.inDone = FALSE]
    /\ UNCHANGED <<up, dead, post, inPend, outPend, adapter, ret>>

ReapWaits ==
    /\ pc = "idle"
    /\ post.open
    /\ ~post.ready
    /\ xs.busy
    /\ StartWait("reap")
    /\ UNCHANGED <<up, dead, xs, post, inPend, outPend, adapter, ret>>

-----------------------------------------------------------------------------
(***************************************************************************)
(* xs_wait's receive loop: one message per step.  x is the exchange with   *)
(* the completion recorded.                                                *)
(***************************************************************************)
WithOut(m) == [xs EXCEPT !.outDone = TRUE, !.outOk = m.ok]

WithIn(m) == [xs EXCEPT !.inDone = TRUE, !.inOk = m.ok, !.got = m.got]

(* mutant: the reply is taken as the end of the exchange *)
RecordedReplyEnds(m) ==
    IF m.kind = "out" THEN WithOut(m)
    ELSE [WithIn(m) EXCEPT !.outDone = TRUE, !.outOk = TRUE]

Recorded(m) == IF m.kind = "out" THEN WithOut(m) ELSE WithIn(m)

(* mutant: whatever is not a completion ends the wait *)
IsAnyToken(m) == m.kind = "tok" /\ timer # "none"

IsOwnToken(m) == m.kind = "tok" /\ timer # "none" /\ m.tok = tok

ReceiveCompletion ==
    /\ pc \in Waiting
    /\ queue # <<>>
    /\ Head(queue).kind # "tok"
    /\ LET x == Recorded(Head(queue))
       IN ~(x.outDone /\ x.inDone) /\ xs' = x
    /\ queue' = Tail(queue)
    /\ UNCHANGED <<up, dead, post, tok, pc, timer, inPend, outPend, adapter, ret>>

ReceiveStaleToken ==
    /\ pc \in Waiting
    /\ queue # <<>>
    /\ Head(queue).kind = "tok"
    /\ ~IsOwnToken(Head(queue))
    /\ queue' = Tail(queue)
    /\ UNCHANGED <<up, dead, xs, post, tok, pc, timer, inPend, outPend, adapter, ret>>

(***************************************************************************)
(* The wait's own token: the exchange stays on the wire.                   *)
(***************************************************************************)
(* mutant: an exchange that timed out is given up *)
TimesOutAbandons ==
    /\ pc \in Waiting
    /\ queue # <<>>
    /\ IsOwnToken(Head(queue))
    /\ queue' = Tail(queue)
    /\ timer' = "none"
    /\ xs' = [xs EXCEPT !.busy = FALSE]
    /\ \/ pc = "pre" /\ Return("xfer", "EBUSY", "none")
       \/ pc = "xfer" /\ Return("xfer", "ETIMEOUT", "none")
       \/ pc = "reap" /\ Return("reap", "ETIMEOUT", "none")
    /\ UNCHANGED <<up, dead, post, tok, inPend, outPend, adapter>>

TimesOut ==
    /\ pc \in Waiting
    /\ queue # <<>>
    /\ IsOwnToken(Head(queue))
    /\ queue' = Tail(queue)
    /\ timer' = "none"
    /\ \/ pc = "pre" /\ Return("xfer", "EBUSY", "none")
       \/ pc = "xfer" /\ Return("xfer", "ETIMEOUT", "none")
       \/ pc = "reap" /\ Return("reap", "ETIMEOUT", "none")
    /\ UNCHANGED <<up, dead, xs, post, tok, inPend, outPend, adapter>>

(***************************************************************************)
(* The second completion: the wire is free.  A posted exchange hands its   *)
(* result to ra_usb_reap whoever was waiting; then the caller goes on.     *)
(***************************************************************************)
PostSlotForgotten(x) == post  \* mutant: the wait does not set post_ready

PostSlot(x) ==
    IF x.isPost
    THEN [post EXCEPT !.ready = TRUE, !.res = xs_result(x), !.got = x.got]
    ELSE post

(* The end of a wait, the timer apart. *)
WaitEnds ==
    /\ pc \in Waiting
    /\ queue # <<>>
    /\ Head(queue).kind # "tok"
    /\ LET x == Recorded(Head(queue))
       IN /\ x.outDone /\ x.inDone
          /\ xs' = [x EXCEPT !.busy = FALSE, !.isPost = FALSE]
          /\ \/ /\ pc = "pre"
                /\ post' = PostSlot(x)
                /\ pc' = "send"
                /\ UNCHANGED ret
             \/ /\ pc = "xfer"
                /\ post' = PostSlot(x)
                /\ Return("xfer", xs_result(x), x.got)
             \/ /\ pc = "reap"
                /\ post' = [PostSlot(x) EXCEPT !.open = FALSE, !.ready = FALSE]
                /\ Return("reap", PostSlot(x).res, PostSlot(x).got)
    /\ queue' = Tail(queue)
    /\ UNCHANGED <<up, dead, tok, inPend, outPend, adapter>>

CompletesTimerRuns == WaitEnds /\ UNCHANGED timer  \* mutant: no os_destroy_timer

Completes == WaitEnds /\ timer' = "none"

-----------------------------------------------------------------------------
(***************************************************************************)
(* The environment: kernel timer, OUT and IN transfers, adapter.           *)
(***************************************************************************)
TimerFires ==
    /\ timer = "armed"
    /\ timer' = "fired"
    /\ queue' = Append(queue, Token)
    /\ UNCHANGED <<client, inPend, outPend, adapter, ret>>

(* The adapter has the whole request; the kernel has yet to say so. *)
AdapterReceives ==
    /\ outPend = "sent"
    /\ dev = "here"
    /\ outPend' = "acked"
    /\ owedOwn' = TRUE
    /\ UNCHANGED <<client, queue, timer, inPend, dev, owedOld, missed, ret>>

OutCompletes ==
    /\ outPend = "acked"
    /\ outPend' = "none"
    /\ queue' = Append(queue, Completion("out", TRUE, "none"))
    /\ UNCHANGED <<client, timer, inPend, adapter, ret>>

OutFails ==
    /\ outPend = "sent"
    /\ OutMayFail \/ dev # "here"
    /\ outPend' = "none"
    /\ queue' = Append(queue, Completion("out", FALSE, "none"))
    /\ UNCHANGED <<client, timer, inPend, adapter, ret>>

(* Replies leave the adapter in the order of their requests. *)
AdapterAnswers ==
    /\ inPend
    /\ dev = "here"
    /\ \/ /\ owedOld > 0
          /\ owedOld' = owedOld - 1
          /\ queue' = Append(queue, Completion("in", TRUE, "old"))
          /\ UNCHANGED owedOwn
       \/ /\ owedOld = 0
          /\ owedOwn
          /\ owedOwn' = FALSE
          /\ queue' = Append(queue, Completion("in", TRUE, "own"))
          /\ UNCHANGED owedOld
    /\ inPend' = FALSE
    /\ UNCHANGED <<client, timer, outPend, dev, missed, ret>>

InFails ==
    /\ inPend
    /\ \/ dev # "here"
       \/ InMayFail /\ owedOld < MaxOwed
    /\ inPend' = FALSE
    /\ missed' = TRUE
    /\ queue' = Append(queue, Completion("in", FALSE, "none"))
    /\ UNCHANGED <<client, timer, outPend, dev, owedOwn, owedOld, ret>>

Unplugged ==
    /\ MayUnplug
    /\ dev = "here"
    /\ dev' = "gone"
    /\ owedOwn' = FALSE
    /\ owedOld' = 0
    /\ UNCHANGED <<client, kernel, missed, ret>>

Replugged ==
    /\ dev = "gone"
    /\ dev' = "back"
    /\ UNCHANGED <<client, kernel, owedOwn, owedOld, missed, ret>>

-----------------------------------------------------------------------------
Calling ==
    \/ ra_usb_init
    \/ XferDown \/ XferWaitsFirst \/ XferGoesOn
    \/ PostCallRefused \/ PostCallFails \/ ra_usb_post
    \/ ReapIdle \/ ReapReady \/ ReapWaits

Running ==
    \/ XferRefused \/ XferPosted
    \/ ReceiveCompletion \/ ReceiveStaleToken \/ TimesOut \/ Completes

Transfers ==
    \/ AdapterReceives \/ OutCompletes \/ OutFails
    \/ AdapterAnswers \/ InFails

Plugging == Unplugged \/ Replugged

Next == Calling \/ Running \/ TimerFires \/ Transfers \/ Plugging

Spec == Init /\ [][Next]_vars

(***************************************************************************)
(* Fairness.  The client thread runs while it has something to do inside   *)
(* the link; the kernel fires an armed timer and completes an OUT; the     *)
(* adapter takes a request and answers it.  Nothing makes a transfer fail  *)
(* or a cable move.  The poll loop collects a posted snapshot on every     *)
(* frame (ra_snap_collect), whatever else it does between frames: strong   *)
(* fairness on the reap.                                                   *)
(***************************************************************************)
LinkFairness ==
    /\ WF_vars(Running)
    /\ WF_vars(TimerFires)

AdapterFairness ==
    /\ WF_vars(AdapterReceives)
    /\ WF_vars(OutCompletes)
    /\ WF_vars(AdapterAnswers)

ClientFairness ==
    /\ WF_vars(ra_usb_init)
    /\ SF_vars(ReapReady \/ ReapWaits)

FairSpec == Spec /\ LinkFairness /\ AdapterFairness /\ ClientFairness

-----------------------------------------------------------------------------
(***************************************************************************)
(* Properties.                                                             *)
(***************************************************************************)

(* Every variable has its type. *)
TypeOK ==
    /\ up \in BOOLEAN
    /\ dead \in BOOLEAN
    /\ xs \in Exchange
    /\ post \in [open : BOOLEAN, ready : BOOLEAN, res : Results, got : Replies]
    /\ tok \in 0..(TokMod - 1)
    /\ pc \in {"idle", "send"} \cup Waiting
    /\ queue \in Seq(Messages)
    /\ timer \in {"none", "armed", "fired"}
    /\ inPend \in BOOLEAN
    /\ outPend \in {"none", "sent", "acked"}
    /\ dev \in {"here", "gone", "back"}
    /\ owedOwn \in BOOLEAN
    /\ owedOld \in Nat
    /\ missed \in BOOLEAN
    /\ ret \in [call : Calls, res : Results, got : Replies]

(* A call that returns a reply returns the reply to its own request: as    *)
(* long as no IN transfer has failed, timeouts, late replies and posts     *)
(* finished by another call's wait never make a reply answer the wrong     *)
(* request ("request/reply alternation is never broken").                  *)
ReplyAnswersRequest ==
    ret.call \in {"xfer", "reap"} /\ ret.res = "OK" /\ ~missed => ret.got = "own"

(* The completion records of an exchange are in exactly one place while it *)
(* is on the wire (with the kernel, in g_q, or recorded in xs) and nowhere *)
(* when it is not: no completion of a finished exchange can be taken for   *)
(* one of the next, which would reuse req_out / req_in under the kernel.   *)
InQueue(k) == {i \in DOMAIN queue : queue[i].kind = k}

NoOrphanCompletion ==
    /\ xs.outDone \/ ~xs.busy => outPend = "none"
    /\ xs.inDone \/ ~xs.busy => ~inPend
    /\ xs.outDone \/ ~xs.busy \/ outPend # "none" => InQueue("out") = {}
    /\ xs.inDone \/ ~xs.busy \/ inPend => InQueue("in") = {}

(* A posted exchange is on the wire or finished and kept for the reap: the *)
(* reap never returns the result of an earlier post (usb_link.c: "its      *)
(* reply stays in its buffer for ra_usb_reap").                            *)
PostNotLost == post.open => post.ready \/ (xs.busy /\ xs.isPost)

(* The queue never holds more than half of its 8 entries: no kernel send   *)
(* of a completion can find it full, however many waits time out or end    *)
(* with their timer already fired.                                         *)
QueueNeverFull == Len(queue) <= 4

(* A wait gives up only on its own timer's token, never on one an earlier  *)
(* wait left in the queue, although tokens repeat modulo 2^16.             *)
TimesOutOnOwnTimer ==
    [][pc' = "idle" /\ pc \in Waiting /\ Head(queue).kind = "tok"
          => Head(queue).fresh]_vars

(* The link keeps the promise of RequestReply: the exchange on the wire is *)
(* xs.busy, and a free wire shows whose reply the last exchange ended with.*)
RR == INSTANCE RequestReply WITH
        phase <- IF xs.busy THEN "wire" ELSE "free",
        missed <- missed,
        last <- IF xs.busy THEN "none" ELSE xs.got

AlternatesRequestReply == RR!Spec

Healthy ==
    /\ dev = "here"
    /\ ~dead
    /\ \A i \in DOMAIN queue : queue[i].ok
    /\ (xs.outDone => xs.outOk) /\ (xs.inDone => xs.inOk)
    /\ pc \in Waiting => timer # "none"
    /\ ~missed

(* Every call returns, whatever fails, is unplugged or never answers; the  *)
(* one exception is a wait whose os_create_timer failed, which only a      *)
(* completion can end.  Once the adapter stays plugged in and transfers    *)
(* stop failing, every posted exchange is reaped: one left in flight by    *)
(* any number of timeouts still reaches its caller.                        *)
EveryCallReturns ==
    /\ []<>(pc = "idle") \/ <>[](pc \in Waiting /\ timer = "none")
    /\ <>[]Healthy => []<>(~post.open)

-----------------------------------------------------------------------------
(***************************************************************************)
(* The inductive invariant behind the safety properties.                   *)
(***************************************************************************)

(* Completions and transfers belong to the exchange on the wire. *)
WireInv ==
    /\ outPend # "none" => xs.busy /\ ~xs.outDone
    /\ inPend => xs.busy /\ ~xs.inDone
    /\ xs.busy => ~(xs.outDone /\ xs.inDone)
    /\ \A i \in DOMAIN queue :
          /\ queue[i].kind = "out" => xs.busy /\ ~xs.outDone /\ outPend = "none"
          /\ queue[i].kind = "in" => xs.busy /\ ~xs.inDone /\ ~inPend

(* No message is in the queue twice. *)
UniqueInv ==
    \A i, j \in DOMAIN queue :
      queue[i].kind = queue[j].kind /\ (queue[i].fresh <=> queue[j].fresh) => i = j

(* What the place of the client in the link says of the exchange. *)
ClientInv ==
    /\ pc \in Waiting => xs.busy
    /\ pc = "send" => ~xs.busy
    /\ pc = "xfer" => ~xs.isPost
    /\ pc = "reap" => post.open /\ ~post.ready /\ xs.isPost
    /\ PostNotLost

(* A token is the current wait's exactly when it has the current value; an *)
(* earlier wait's token can only be the next message.                      *)
TokenInv ==
    /\ pc \notin Waiting => timer = "none"
    /\ \A i \in DOMAIN queue :
          /\ queue[i].kind # "tok" => queue[i].fresh
          /\ queue[i].kind = "tok" /\ queue[i].fresh => queue[i].tok = tok
          /\ queue[i].kind = "tok" /\ ~queue[i].fresh => queue[i].tok # tok
          /\ queue[i].kind = "tok" /\ pc \notin Waiting => queue[i].fresh /\ i = 1
          /\ queue[i].kind = "tok" /\ pc \in Waiting =>
               IF queue[i].fresh THEN timer = "fired" ELSE i = 1

(* Until an IN fails, the adapter owes at most the reply to the exchange on *)
(* the wire, and its read is posted.                                        *)
OwedInv ==
    ~missed =>
      /\ owedOld = 0
      /\ owedOwn => inPend /\ outPend # "sent"
      /\ outPend = "sent" => inPend
      /\ \A i \in DOMAIN queue :
            queue[i].kind = "in" => queue[i].ok /\ queue[i].got = "own"
      /\ xs.inDone => xs.got = "own"
      /\ post.ready /\ post.res = "OK" => post.got = "own"

IInv ==
    /\ TypeOK
    /\ WireInv
    /\ UniqueInv
    /\ ClientInv
    /\ TokenInv
    /\ OwedInv
    /\ ReplyAnswersRequest
=============================================================================
