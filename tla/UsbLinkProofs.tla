--------------------------- MODULE UsbLinkProofs ---------------------------
(***************************************************************************)
(* Proofs about UsbLink, for every token modulus of at least 2 and every   *)
(* choice of what the environment may do.                                  *)
(***************************************************************************)
EXTENDS UsbLink, SequenceTheorems, TLAPS

(* Two consecutive waits have different tokens. *)
LEMMA NextTokDiffers ==
    ASSUME tok \in 0..(TokMod - 1)
    PROVE  NextTok \in 0..(TokMod - 1) /\ NextTok # tok
  BY TokAssumption DEF NextTok

(* What receiving a message leaves: the queue shifted by one. *)
LEMMA TailFacts ==
    ASSUME NEW q \in Seq(Messages), q # <<>>
    PROVE  /\ Tail(q) \in Seq(Messages)
           /\ Len(q) \in Nat /\ Len(q) >= 1
           /\ DOMAIN q = 1..Len(q)
           /\ DOMAIN Tail(q) = 1..(Len(q) - 1)
           /\ \A i \in 1..(Len(q) - 1) : i + 1 \in 1..Len(q) /\ Tail(q)[i] = q[i + 1]
           /\ Head(q) = q[1]
           /\ 1 \in DOMAIN q
           /\ q[1] \in Messages
  OBVIOUS

(* What a kernel send adds. *)
LEMMA AppendFacts ==
    ASSUME NEW q \in Seq(Messages), NEW m \in Messages
    PROVE  /\ Append(q, m) \in Seq(Messages)
           /\ Len(q) \in Nat
           /\ DOMAIN q = 1..Len(q)
           /\ DOMAIN Append(q, m) = 1..(Len(q) + 1)
           /\ \A i \in DOMAIN q : Append(q, m)[i] = q[i]
           /\ Append(q, m)[Len(q) + 1] = m
  OBVIOUS

(* StartWait changes nothing in the queue but whose the tokens are. *)
LEMMA AgedFacts ==
    ASSUME queue \in Seq(Messages)
    PROVE  /\ Aged \in Seq(Messages)
           /\ DOMAIN Aged = DOMAIN queue
           /\ \A i \in DOMAIN queue :
                /\ Aged[i].kind = queue[i].kind
                /\ Aged[i].ok = queue[i].ok
                /\ Aged[i].got = queue[i].got
                /\ Aged[i].tok = queue[i].tok
                /\ Aged[i].fresh <=> (queue[i].kind # "tok")
<1>1. /\ Len(queue) \in Nat
      /\ DOMAIN queue = 1..Len(queue)
      /\ \A i \in DOMAIN queue : queue[i] \in Messages
  OBVIOUS
<1>2. \A i \in DOMAIN queue :
        [queue[i] EXCEPT !.fresh = queue[i].kind # "tok"] \in Messages
  BY <1>1 DEF Messages
<1>3. Aged \in Seq(Messages)
  BY <1>1, <1>2 DEF Aged
<1>4. \A i \in DOMAIN queue :
        Aged[i] = [queue[i] EXCEPT !.fresh = queue[i].kind # "tok"]
  BY <1>1 DEF Aged
<1> QED BY <1>1, <1>3, <1>4 DEF Aged, Messages

(* The exchange records xs_post makes. *)
LEMMA NewExchangeFacts ==
    ASSUME NEW b \in BOOLEAN
    PROVE  /\ NewExchange(b) \in Exchange
           /\ [NewExchange(b) EXCEPT !.busy = FALSE] \in Exchange
           /\ [NewExchange(b) EXCEPT !.outDone = TRUE] \in Exchange
  BY DEF NewExchange, Exchange, Replies

(* What a completion changes in the exchange. *)
LEMMA RecordedFacts ==
    ASSUME xs \in Exchange, NEW m \in Messages, m.kind # "tok"
    PROVE  /\ Recorded(m) \in Exchange
           /\ Recorded(m).busy <=> xs.busy
           /\ Recorded(m).isPost <=> xs.isPost
           /\ m.kind = "out" => /\ Recorded(m).outDone
                                /\ (Recorded(m).inDone <=> xs.inDone)
                                /\ Recorded(m).got = xs.got
           /\ m.kind = "in" => /\ Recorded(m).inDone
                               /\ (Recorded(m).outDone <=> xs.outDone)
                               /\ Recorded(m).got = m.got
           /\ m.kind \in {"out", "in"}
<1>1. CASE m.kind = "out"
  BY <1>1 DEF Recorded, WithOut, Exchange, Messages
<1>2. CASE m.kind = "in"
  BY <1>2 DEF Recorded, WithIn, Exchange, Messages
<1> QED BY <1>1, <1>2 DEF Messages

-----------------------------------------------------------------------------
LEMMA InitInv == Init => IInv
<1> SUFFICES ASSUME Init PROVE IInv
  OBVIOUS
<1>1. TypeOK
  <2>1. xs \in Exchange
    BY DEF Init, NewExchange, Exchange, Replies
  <2>2. post \in [open : BOOLEAN, ready : BOOLEAN, res : Results, got : Replies]
    BY DEF Init, Results, Replies
  <2>3. ret \in [call : Calls, res : Results, got : Replies]
    BY DEF Init, Results, Replies, Calls
  <2>4. queue \in Seq(Messages)
    BY DEF Init
  <2>5. tok \in 0..(TokMod - 1) /\ owedOld \in Nat
    BY TokAssumption DEF Init
  <2> QED BY <2>1, <2>2, <2>3, <2>4, <2>5 DEF Init, TypeOK, Waiting
<1>2. WireInv /\ UniqueInv /\ TokenInv
  BY DEF Init, WireInv, UniqueInv, TokenInv, NewExchange, Waiting
<1>3. ClientInv /\ OwedInv /\ ReplyAnswersRequest
  BY DEF Init, ClientInv, OwedInv, ReplyAnswersRequest, PostNotLost, NewExchange, Waiting
<1> QED BY <1>1, <1>2, <1>3 DEF IInv

LEMMA Ra_usb_initInv == IInv /\ ra_usb_init => IInv'
<1> SUFFICES ASSUME IInv, ra_usb_init PROVE IInv'
  OBVIOUS
<1>1. TypeOK'
  BY DEF IInv, TypeOK, ra_usb_init, kernel, adapter, Exchange, Results, Replies, Calls, Waiting
<1>2. WireInv'
  BY DEF IInv, TypeOK, WireInv, UniqueInv, ClientInv, TokenInv, OwedInv, ReplyAnswersRequest, PostNotLost, ra_usb_init, kernel, adapter, Waiting
<1>3. UniqueInv'
  BY DEF IInv, TypeOK, WireInv, UniqueInv, ClientInv, TokenInv, OwedInv, ReplyAnswersRequest, PostNotLost, ra_usb_init, kernel, adapter, Waiting
<1>4. ClientInv'
  BY DEF IInv, TypeOK, WireInv, UniqueInv, ClientInv, TokenInv, OwedInv, ReplyAnswersRequest, PostNotLost, ra_usb_init, kernel, adapter, Waiting
<1>5. TokenInv'
  BY DEF IInv, TypeOK, WireInv, UniqueInv, ClientInv, TokenInv, OwedInv, ReplyAnswersRequest, PostNotLost, ra_usb_init, kernel, adapter, Waiting
<1>6. OwedInv'
  BY DEF IInv, TypeOK, WireInv, UniqueInv, ClientInv, TokenInv, OwedInv, ReplyAnswersRequest, PostNotLost, ra_usb_init, kernel, adapter, Waiting
<1>7. ReplyAnswersRequest'
  BY DEF IInv, TypeOK, WireInv, UniqueInv, ClientInv, TokenInv, OwedInv, ReplyAnswersRequest, PostNotLost, ra_usb_init, kernel, adapter, Waiting
<1> QED BY <1>1, <1>2, <1>3, <1>4, <1>5, <1>6, <1>7 DEF IInv

LEMMA XferDownInv == IInv /\ XferDown => IInv'
<1> SUFFICES ASSUME IInv, XferDown PROVE IInv'
  OBVIOUS
<1>1. TypeOK'
  BY DEF IInv, TypeOK, XferDown, Return, kernel, adapter, Exchange, Results, Replies, Calls, Waiting
<1>2. WireInv'
  BY DEF IInv, TypeOK, WireInv, UniqueInv, ClientInv, TokenInv, OwedInv, ReplyAnswersRequest, PostNotLost, XferDown, Return, kernel, adapter, Waiting
<1>3. UniqueInv'
  BY DEF IInv, TypeOK, WireInv, UniqueInv, ClientInv, TokenInv, OwedInv, ReplyAnswersRequest, PostNotLost, XferDown, Return, kernel, adapter, Waiting
<1>4. ClientInv'
  BY DEF IInv, TypeOK, WireInv, UniqueInv, ClientInv, TokenInv, OwedInv, ReplyAnswersRequest, PostNotLost, XferDown, Return, kernel, adapter, Waiting
<1>5. TokenInv'
  BY DEF IInv, TypeOK, WireInv, UniqueInv, ClientInv, TokenInv, OwedInv, ReplyAnswersRequest, PostNotLost, XferDown, Return, kernel, adapter, Waiting
<1>6. OwedInv'
  BY DEF IInv, TypeOK, WireInv, UniqueInv, ClientInv, TokenInv, OwedInv, ReplyAnswersRequest, PostNotLost, XferDown, Return, kernel, adapter, Waiting
<1>7. ReplyAnswersRequest'
  BY DEF IInv, TypeOK, WireInv, UniqueInv, ClientInv, TokenInv, OwedInv, ReplyAnswersRequest, PostNotLost, XferDown, Return, kernel, adapter, Waiting
<1> QED BY <1>1, <1>2, <1>3, <1>4, <1>5, <1>6, <1>7 DEF IInv

LEMMA XferGoesOnInv == IInv /\ XferGoesOn => IInv'
<1> SUFFICES ASSUME IInv, XferGoesOn PROVE IInv'
  OBVIOUS
<1>1. TypeOK'
  BY DEF IInv, TypeOK, XferGoesOn, kernel, adapter, Exchange, Results, Replies, Calls, Waiting
<1>2. WireInv'
  BY DEF IInv, TypeOK, WireInv, UniqueInv, ClientInv, TokenInv, OwedInv, ReplyAnswersRequest, PostNotLost, XferGoesOn, kernel, adapter, Waiting
<1>3. UniqueInv'
  BY DEF IInv, TypeOK, WireInv, UniqueInv, ClientInv, TokenInv, OwedInv, ReplyAnswersRequest, PostNotLost, XferGoesOn, kernel, adapter, Waiting
<1>4. ClientInv'
  BY DEF IInv, TypeOK, WireInv, UniqueInv, ClientInv, TokenInv, OwedInv, ReplyAnswersRequest, PostNotLost, XferGoesOn, kernel, adapter, Waiting
<1>5. TokenInv'
  BY DEF IInv, TypeOK, WireInv, UniqueInv, ClientInv, TokenInv, OwedInv, ReplyAnswersRequest, PostNotLost, XferGoesOn, kernel, adapter, Waiting
<1>6. OwedInv'
  BY DEF IInv, TypeOK, WireInv, UniqueInv, ClientInv, TokenInv, OwedInv, ReplyAnswersRequest, PostNotLost, XferGoesOn, kernel, adapter, Waiting
<1>7. ReplyAnswersRequest'
  BY DEF IInv, TypeOK, WireInv, UniqueInv, ClientInv, TokenInv, OwedInv, ReplyAnswersRequest, PostNotLost, XferGoesOn, kernel, adapter, Waiting
<1> QED BY <1>1, <1>2, <1>3, <1>4, <1>5, <1>6, <1>7 DEF IInv

LEMMA PostCallRefusedInv == IInv /\ PostCallRefused => IInv'
<1> SUFFICES ASSUME IInv, PostCallRefused PROVE IInv'
  OBVIOUS
<1>1. TypeOK'
  BY DEF IInv, TypeOK, PostCallRefused, Return, kernel, adapter, Exchange, Results, Replies, Calls, Waiting
<1>2. WireInv'
  BY DEF IInv, TypeOK, WireInv, UniqueInv, ClientInv, TokenInv, OwedInv, ReplyAnswersRequest, PostNotLost, PostCallRefused, Return, kernel, adapter, Waiting
<1>3. UniqueInv'
  BY DEF IInv, TypeOK, WireInv, UniqueInv, ClientInv, TokenInv, OwedInv, ReplyAnswersRequest, PostNotLost, PostCallRefused, Return, kernel, adapter, Waiting
<1>4. ClientInv'
  BY DEF IInv, TypeOK, WireInv, UniqueInv, ClientInv, TokenInv, OwedInv, ReplyAnswersRequest, PostNotLost, PostCallRefused, Return, kernel, adapter, Waiting
<1>5. TokenInv'
  BY DEF IInv, TypeOK, WireInv, UniqueInv, ClientInv, TokenInv, OwedInv, ReplyAnswersRequest, PostNotLost, PostCallRefused, Return, kernel, adapter, Waiting
<1>6. OwedInv'
  BY DEF IInv, TypeOK, WireInv, UniqueInv, ClientInv, TokenInv, OwedInv, ReplyAnswersRequest, PostNotLost, PostCallRefused, Return, kernel, adapter, Waiting
<1>7. ReplyAnswersRequest'
  BY DEF IInv, TypeOK, WireInv, UniqueInv, ClientInv, TokenInv, OwedInv, ReplyAnswersRequest, PostNotLost, PostCallRefused, Return, kernel, adapter, Waiting
<1> QED BY <1>1, <1>2, <1>3, <1>4, <1>5, <1>6, <1>7 DEF IInv

LEMMA ReapIdleInv == IInv /\ ReapIdle => IInv'
<1> SUFFICES ASSUME IInv, ReapIdle PROVE IInv'
  OBVIOUS
<1>1. TypeOK'
  BY DEF IInv, TypeOK, ReapIdle, Return, kernel, adapter, Exchange, Results, Replies, Calls, Waiting
<1>2. WireInv'
  BY DEF IInv, TypeOK, WireInv, UniqueInv, ClientInv, TokenInv, OwedInv, ReplyAnswersRequest, PostNotLost, ReapIdle, Return, kernel, adapter, Waiting
<1>3. UniqueInv'
  BY DEF IInv, TypeOK, WireInv, UniqueInv, ClientInv, TokenInv, OwedInv, ReplyAnswersRequest, PostNotLost, ReapIdle, Return, kernel, adapter, Waiting
<1>4. ClientInv'
  BY DEF IInv, TypeOK, WireInv, UniqueInv, ClientInv, TokenInv, OwedInv, ReplyAnswersRequest, PostNotLost, ReapIdle, Return, kernel, adapter, Waiting
<1>5. TokenInv'
  BY DEF IInv, TypeOK, WireInv, UniqueInv, ClientInv, TokenInv, OwedInv, ReplyAnswersRequest, PostNotLost, ReapIdle, Return, kernel, adapter, Waiting
<1>6. OwedInv'
  BY DEF IInv, TypeOK, WireInv, UniqueInv, ClientInv, TokenInv, OwedInv, ReplyAnswersRequest, PostNotLost, ReapIdle, Return, kernel, adapter, Waiting
<1>7. ReplyAnswersRequest'
  BY DEF IInv, TypeOK, WireInv, UniqueInv, ClientInv, TokenInv, OwedInv, ReplyAnswersRequest, PostNotLost, ReapIdle, Return, kernel, adapter, Waiting
<1> QED BY <1>1, <1>2, <1>3, <1>4, <1>5, <1>6, <1>7 DEF IInv

LEMMA AdapterReceivesInv == IInv /\ AdapterReceives => IInv'
<1> SUFFICES ASSUME IInv, AdapterReceives PROVE IInv'
  OBVIOUS
<1>1. TypeOK'
  BY DEF IInv, TypeOK, AdapterReceives, client, Exchange, Results, Replies, Calls, Waiting
<1>2. WireInv'
  BY DEF IInv, TypeOK, WireInv, UniqueInv, ClientInv, TokenInv, OwedInv, ReplyAnswersRequest, PostNotLost, AdapterReceives, client, Waiting
<1>3. UniqueInv'
  BY DEF IInv, TypeOK, WireInv, UniqueInv, ClientInv, TokenInv, OwedInv, ReplyAnswersRequest, PostNotLost, AdapterReceives, client, Waiting
<1>4. ClientInv'
  BY DEF IInv, TypeOK, WireInv, UniqueInv, ClientInv, TokenInv, OwedInv, ReplyAnswersRequest, PostNotLost, AdapterReceives, client, Waiting
<1>5. TokenInv'
  BY DEF IInv, TypeOK, WireInv, UniqueInv, ClientInv, TokenInv, OwedInv, ReplyAnswersRequest, PostNotLost, AdapterReceives, client, Waiting
<1>6. OwedInv'
  BY DEF IInv, TypeOK, WireInv, UniqueInv, ClientInv, TokenInv, OwedInv, ReplyAnswersRequest, PostNotLost, AdapterReceives, client, Waiting
<1>7. ReplyAnswersRequest'
  BY DEF IInv, TypeOK, WireInv, UniqueInv, ClientInv, TokenInv, OwedInv, ReplyAnswersRequest, PostNotLost, AdapterReceives, client, Waiting
<1> QED BY <1>1, <1>2, <1>3, <1>4, <1>5, <1>6, <1>7 DEF IInv

LEMMA RepluggedInv == IInv /\ Replugged => IInv'
<1> SUFFICES ASSUME IInv, Replugged PROVE IInv'
  OBVIOUS
<1>1. TypeOK'
  BY DEF IInv, TypeOK, Replugged, client, kernel, Exchange, Results, Replies, Calls, Waiting
<1>2. WireInv'
  BY DEF IInv, TypeOK, WireInv, UniqueInv, ClientInv, TokenInv, OwedInv, ReplyAnswersRequest, PostNotLost, Replugged, client, kernel, Waiting
<1>3. UniqueInv'
  BY DEF IInv, TypeOK, WireInv, UniqueInv, ClientInv, TokenInv, OwedInv, ReplyAnswersRequest, PostNotLost, Replugged, client, kernel, Waiting
<1>4. ClientInv'
  BY DEF IInv, TypeOK, WireInv, UniqueInv, ClientInv, TokenInv, OwedInv, ReplyAnswersRequest, PostNotLost, Replugged, client, kernel, Waiting
<1>5. TokenInv'
  BY DEF IInv, TypeOK, WireInv, UniqueInv, ClientInv, TokenInv, OwedInv, ReplyAnswersRequest, PostNotLost, Replugged, client, kernel, Waiting
<1>6. OwedInv'
  BY DEF IInv, TypeOK, WireInv, UniqueInv, ClientInv, TokenInv, OwedInv, ReplyAnswersRequest, PostNotLost, Replugged, client, kernel, Waiting
<1>7. ReplyAnswersRequest'
  BY DEF IInv, TypeOK, WireInv, UniqueInv, ClientInv, TokenInv, OwedInv, ReplyAnswersRequest, PostNotLost, Replugged, client, kernel, Waiting
<1> QED BY <1>1, <1>2, <1>3, <1>4, <1>5, <1>6, <1>7 DEF IInv

LEMMA XferRefusedInv == IInv /\ XferRefused => IInv'
<1> SUFFICES ASSUME IInv, XferRefused PROVE IInv'
  OBVIOUS
<1>a. PICK r \in {"EBUF", "EDEAD", "EIO"} :
         ret' = [call |-> "xfer", res |-> r, got |-> "none"]
  BY DEF XferRefused, Return
<1>b. /\ pc = "send" /\ pc' = "idle" /\ ~xs.busy
      /\ up' = up /\ post' = post /\ tok' = tok /\ queue' = queue /\ timer' = timer
      /\ dev' = dev /\ missed' = missed /\ outPend' = outPend
      /\ \/ dead' = dead /\ xs' = xs /\ inPend' = inPend
            /\ owedOwn' = owedOwn /\ owedOld' = owedOld
         \/ dead' = dead /\ xs' = [NewExchange(FALSE) EXCEPT !.busy = FALSE]
            /\ inPend' = inPend /\ owedOwn' = owedOwn /\ owedOld' = owedOld
         \/ dead' = TRUE /\ xs' = [NewExchange(FALSE) EXCEPT !.outDone = TRUE]
            /\ inPend' = TRUE /\ owedOwn' = FALSE
            /\ owedOld' = IF owedOwn THEN owedOld + 1 ELSE owedOld
  BY DEF IInv, ClientInv, XferRefused, Return, PostRefused, PostInFails, PostOutFails, AgeOwed
<1>c. ret' \in [call : Calls, res : Results, got : Replies]
  BY <1>a DEF Calls, Results, Replies
<1>d. xs' \in Exchange
  BY <1>b, NewExchangeFacts DEF IInv, TypeOK
<1>e. owedOld' \in Nat
  <2>1. owedOld' = owedOld \/ owedOld' = owedOld + 1
    BY <1>b, Zenon
  <2> QED BY <2>1 DEF IInv, TypeOK
<1>1. TypeOK'
  BY <1>b, <1>c, <1>d, <1>e, ZenonT(60) DEF IInv, TypeOK
<1>2. WireInv'
  BY <1>a, <1>b DEF IInv, TypeOK, WireInv, UniqueInv, ClientInv, TokenInv, OwedInv, ReplyAnswersRequest, PostNotLost, NewExchange, Waiting
<1>3. UniqueInv'
  BY <1>a, <1>b DEF IInv, TypeOK, WireInv, UniqueInv, ClientInv, TokenInv, OwedInv, ReplyAnswersRequest, PostNotLost, NewExchange, Waiting
<1>4. ClientInv'
  BY <1>a, <1>b DEF IInv, TypeOK, WireInv, UniqueInv, ClientInv, TokenInv, OwedInv, ReplyAnswersRequest, PostNotLost, NewExchange, Waiting
<1>5. TokenInv'
  BY <1>a, <1>b DEF IInv, TypeOK, WireInv, UniqueInv, ClientInv, TokenInv, OwedInv, ReplyAnswersRequest, PostNotLost, NewExchange, Waiting
<1>6. OwedInv'
  BY <1>a, <1>b DEF IInv, TypeOK, WireInv, UniqueInv, ClientInv, TokenInv, OwedInv, ReplyAnswersRequest, PostNotLost, NewExchange, Waiting
<1>7. ReplyAnswersRequest'
  BY <1>a, <1>b DEF IInv, TypeOK, WireInv, UniqueInv, ClientInv, TokenInv, OwedInv, ReplyAnswersRequest, PostNotLost, NewExchange, Waiting
<1> QED BY <1>1, <1>2, <1>3, <1>4, <1>5, <1>6, <1>7 DEF IInv

LEMMA PostCallFailsInv == IInv /\ PostCallFails => IInv'
<1> SUFFICES ASSUME IInv, PostCallFails PROVE IInv'
  OBVIOUS
<1>a. PICK r \in {"EBUF", "EDEAD", "EIO"} :
         ret' = [call |-> "post", res |-> r, got |-> "none"]
  BY DEF PostCallFails, Return
<1>b. /\ pc = "idle" /\ pc' = "idle" /\ ~xs.busy
      /\ up' = up /\ post' = post /\ tok' = tok /\ queue' = queue /\ timer' = timer
      /\ dev' = dev /\ missed' = missed /\ outPend' = outPend
      /\ \/ dead' = dead /\ xs' = xs /\ inPend' = inPend
            /\ owedOwn' = owedOwn /\ owedOld' = owedOld
         \/ dead' = dead /\ xs' = [NewExchange(TRUE) EXCEPT !.busy = FALSE]
            /\ inPend' = inPend /\ owedOwn' = owedOwn /\ owedOld' = owedOld
         \/ dead' = TRUE /\ xs' = [NewExchange(TRUE) EXCEPT !.outDone = TRUE]
            /\ inPend' = TRUE /\ owedOwn' = FALSE
            /\ owedOld' = IF owedOwn THEN owedOld + 1 ELSE owedOld
  BY DEF IInv, ClientInv, PostCallFails, Return, PostRefused, PostInFails, PostOutFails, AgeOwed
<1>c. ret' \in [call : Calls, res : Results, got : Replies]
  BY <1>a DEF Calls, Results, Replies
<1>d. xs' \in Exchange
  BY <1>b, NewExchangeFacts DEF IInv, TypeOK
<1>e. owedOld' \in Nat
  <2>1. owedOld' = owedOld \/ owedOld' = owedOld + 1
    BY <1>b, Zenon
  <2> QED BY <2>1 DEF IInv, TypeOK
<1>1. TypeOK'
  BY <1>b, <1>c, <1>d, <1>e, ZenonT(60) DEF IInv, TypeOK
<1>2. WireInv'
  BY <1>a, <1>b DEF IInv, TypeOK, WireInv, UniqueInv, ClientInv, TokenInv, OwedInv, ReplyAnswersRequest, PostNotLost, NewExchange, Waiting
<1>3. UniqueInv'
  BY <1>a, <1>b DEF IInv, TypeOK, WireInv, UniqueInv, ClientInv, TokenInv, OwedInv, ReplyAnswersRequest, PostNotLost, NewExchange, Waiting
<1>4. ClientInv'
  BY <1>a, <1>b DEF IInv, TypeOK, WireInv, UniqueInv, ClientInv, TokenInv, OwedInv, ReplyAnswersRequest, PostNotLost, NewExchange, Waiting
<1>5. TokenInv'
  BY <1>a, <1>b DEF IInv, TypeOK, WireInv, UniqueInv, ClientInv, TokenInv, OwedInv, ReplyAnswersRequest, PostNotLost, NewExchange, Waiting
<1>6. OwedInv'
  BY <1>a, <1>b DEF IInv, TypeOK, WireInv, UniqueInv, ClientInv, TokenInv, OwedInv, ReplyAnswersRequest, PostNotLost, NewExchange, Waiting
<1>7. ReplyAnswersRequest'
  BY <1>a, <1>b DEF IInv, TypeOK, WireInv, UniqueInv, ClientInv, TokenInv, OwedInv, ReplyAnswersRequest, PostNotLost, NewExchange, Waiting
<1> QED BY <1>1, <1>2, <1>3, <1>4, <1>5, <1>6, <1>7 DEF IInv

LEMMA Ra_usb_postInv == IInv /\ ra_usb_post => IInv'
<1> SUFFICES ASSUME IInv, ra_usb_post PROVE IInv'
  OBVIOUS
<1>1. TypeOK'
  <2>1. (xs \in Exchange)'
    BY NewExchangeFacts DEF ra_usb_post, Return, PostBoth, AgeOwed
  <2>2. (post \in [open : BOOLEAN, ready : BOOLEAN, res : Results, got : Replies])'
    BY DEF IInv, TypeOK, ra_usb_post, Return, PostBoth, AgeOwed
  <2>3. (ret \in [call : Calls, res : Results, got : Replies])'
    BY DEF ra_usb_post, Return, PostBoth, AgeOwed, Results, Replies, Calls
  <2>4. (owedOld \in Nat)'
    BY DEF IInv, TypeOK, ra_usb_post, Return, PostBoth, AgeOwed
  <2> QED BY <2>1, <2>2, <2>3, <2>4 DEF IInv, TypeOK, ra_usb_post, Return, PostBoth, AgeOwed, Waiting
<1>2. WireInv'
  BY DEF IInv, TypeOK, WireInv, UniqueInv, ClientInv, TokenInv, OwedInv, ReplyAnswersRequest, PostNotLost, ra_usb_post, Return, PostBoth, AgeOwed, NewExchange, Waiting
<1>3. UniqueInv'
  BY DEF IInv, TypeOK, WireInv, UniqueInv, ClientInv, TokenInv, OwedInv, ReplyAnswersRequest, PostNotLost, ra_usb_post, Return, PostBoth, AgeOwed, NewExchange, Waiting
<1>4. ClientInv'
  BY DEF IInv, TypeOK, WireInv, UniqueInv, ClientInv, TokenInv, OwedInv, ReplyAnswersRequest, PostNotLost, ra_usb_post, Return, PostBoth, AgeOwed, NewExchange, Waiting
<1>5. TokenInv'
  BY DEF IInv, TypeOK, WireInv, UniqueInv, ClientInv, TokenInv, OwedInv, ReplyAnswersRequest, PostNotLost, ra_usb_post, Return, PostBoth, AgeOwed, NewExchange, Waiting
<1>6. OwedInv'
  BY DEF IInv, TypeOK, WireInv, UniqueInv, ClientInv, TokenInv, OwedInv, ReplyAnswersRequest, PostNotLost, ra_usb_post, Return, PostBoth, AgeOwed, NewExchange, Waiting
<1>7. ReplyAnswersRequest'
  BY DEF IInv, TypeOK, WireInv, UniqueInv, ClientInv, TokenInv, OwedInv, ReplyAnswersRequest, PostNotLost, ra_usb_post, Return, PostBoth, AgeOwed, NewExchange, Waiting
<1> QED BY <1>1, <1>2, <1>3, <1>4, <1>5, <1>6, <1>7 DEF IInv

LEMMA ReapReadyInv == IInv /\ ReapReady => IInv'
<1> SUFFICES ASSUME IInv, ReapReady PROVE IInv'
  OBVIOUS
<1>1. TypeOK'
  <2>1. (post \in [open : BOOLEAN, ready : BOOLEAN, res : Results, got : Replies])'
    BY DEF IInv, TypeOK, ReapReady, Closed, Return, kernel, adapter
  <2>2. (ret \in [call : Calls, res : Results, got : Replies])'
    BY DEF IInv, TypeOK, Calls, ReapReady, Closed, Return, kernel, adapter
  <2> QED BY <2>1, <2>2 DEF IInv, TypeOK, ReapReady, Closed, Return, kernel, adapter, Waiting
<1>2. WireInv'
  BY DEF IInv, TypeOK, WireInv, UniqueInv, ClientInv, TokenInv, OwedInv, ReplyAnswersRequest, PostNotLost, ReapReady, Closed, Return, kernel, adapter, Waiting
<1>3. UniqueInv'
  BY DEF IInv, TypeOK, WireInv, UniqueInv, ClientInv, TokenInv, OwedInv, ReplyAnswersRequest, PostNotLost, ReapReady, Closed, Return, kernel, adapter, Waiting
<1>4. ClientInv'
  BY DEF IInv, TypeOK, WireInv, UniqueInv, ClientInv, TokenInv, OwedInv, ReplyAnswersRequest, PostNotLost, ReapReady, Closed, Return, kernel, adapter, Waiting
<1>5. TokenInv'
  BY DEF IInv, TypeOK, WireInv, UniqueInv, ClientInv, TokenInv, OwedInv, ReplyAnswersRequest, PostNotLost, ReapReady, Closed, Return, kernel, adapter, Waiting
<1>6. OwedInv'
  BY DEF IInv, TypeOK, WireInv, UniqueInv, ClientInv, TokenInv, OwedInv, ReplyAnswersRequest, PostNotLost, ReapReady, Closed, Return, kernel, adapter, Waiting
<1>7. ReplyAnswersRequest'
  BY DEF IInv, TypeOK, WireInv, UniqueInv, ClientInv, TokenInv, OwedInv, ReplyAnswersRequest, PostNotLost, ReapReady, Closed, Return, kernel, adapter, Waiting
<1> QED BY <1>1, <1>2, <1>3, <1>4, <1>5, <1>6, <1>7 DEF IInv

LEMMA UnpluggedInv == IInv /\ Unplugged => IInv'
<1> SUFFICES ASSUME IInv, Unplugged PROVE IInv'
  OBVIOUS
<1>1. TypeOK'
  <2>1. (owedOld \in Nat)'
    BY DEF Unplugged
  <2> QED BY <2>1, ZenonT(60) DEF IInv, TypeOK, Unplugged, client, kernel, Waiting
<1>2. WireInv'
  BY DEF IInv, TypeOK, WireInv, UniqueInv, ClientInv, TokenInv, OwedInv, ReplyAnswersRequest, PostNotLost, Unplugged, client, kernel, Waiting
<1>3. UniqueInv'
  BY DEF IInv, TypeOK, WireInv, UniqueInv, ClientInv, TokenInv, OwedInv, ReplyAnswersRequest, PostNotLost, Unplugged, client, kernel, Waiting
<1>4. ClientInv'
  BY DEF IInv, TypeOK, WireInv, UniqueInv, ClientInv, TokenInv, OwedInv, ReplyAnswersRequest, PostNotLost, Unplugged, client, kernel, Waiting
<1>5. TokenInv'
  BY DEF IInv, TypeOK, WireInv, UniqueInv, ClientInv, TokenInv, OwedInv, ReplyAnswersRequest, PostNotLost, Unplugged, client, kernel, Waiting
<1>6. OwedInv'
  BY DEF IInv, TypeOK, WireInv, UniqueInv, ClientInv, TokenInv, OwedInv, ReplyAnswersRequest, PostNotLost, Unplugged, client, kernel, Waiting
<1>7. ReplyAnswersRequest'
  BY DEF IInv, TypeOK, WireInv, UniqueInv, ClientInv, TokenInv, OwedInv, ReplyAnswersRequest, PostNotLost, Unplugged, client, kernel, Waiting
<1> QED BY <1>1, <1>2, <1>3, <1>4, <1>5, <1>6, <1>7 DEF IInv

LEMMA XferWaitsFirstInv == IInv /\ XferWaitsFirst => IInv'
<1> SUFFICES ASSUME IInv, XferWaitsFirst PROVE IInv'
  OBVIOUS
<1>a. /\ queue' = Aged
      /\ queue' \in Seq(Messages)
      /\ DOMAIN queue' = DOMAIN queue
      /\ \A i \in DOMAIN queue :
           /\ queue'[i].kind = queue[i].kind
           /\ queue'[i].ok = queue[i].ok
           /\ queue'[i].got = queue[i].got
           /\ queue'[i].tok = queue[i].tok
           /\ queue'[i].fresh <=> (queue[i].kind # "tok")
  BY AgedFacts DEF IInv, TypeOK, XferWaitsFirst, StartWait, adapter
<1>b. tok' \in 0..(TokMod - 1) /\ tok' # tok
  BY NextTokDiffers DEF IInv, TypeOK, XferWaitsFirst, StartWait, adapter
<1>1. TypeOK'
  <2>1. (timer \in {"none", "armed", "fired"})'
    BY DEF XferWaitsFirst, StartWait, adapter
  <2> QED BY <1>a, <1>b, <2>1 DEF IInv, TypeOK, XferWaitsFirst, StartWait, adapter, Waiting
<1>2. WireInv'
  BY <1>a, <1>b DEF IInv, TypeOK, WireInv, UniqueInv, ClientInv, TokenInv, OwedInv, ReplyAnswersRequest, PostNotLost, XferWaitsFirst, StartWait, adapter, Waiting
<1>3. UniqueInv'
  <2> SUFFICES ASSUME NEW i \in DOMAIN queue, NEW j \in DOMAIN queue,
                      queue'[i].kind = queue'[j].kind
               PROVE  i = j
    BY <1>a DEF UniqueInv
  <2>1. CASE queue[i].kind = "tok"
    BY <1>a, <2>1 DEF IInv, TokenInv, Waiting, XferWaitsFirst
  <2>2. CASE queue[i].kind # "tok"
    BY <1>a, <2>2 DEF IInv, TokenInv, UniqueInv
  <2> QED BY <2>1, <2>2
<1>4. ClientInv'
  BY <1>a, <1>b DEF IInv, TypeOK, WireInv, UniqueInv, ClientInv, TokenInv, OwedInv, ReplyAnswersRequest, PostNotLost, XferWaitsFirst, StartWait, adapter, Waiting
<1>5. TokenInv'
  BY <1>a, <1>b DEF IInv, TypeOK, WireInv, UniqueInv, ClientInv, TokenInv, OwedInv, ReplyAnswersRequest, PostNotLost, XferWaitsFirst, StartWait, adapter, Waiting
<1>6. OwedInv'
  BY <1>a, <1>b DEF IInv, TypeOK, WireInv, UniqueInv, ClientInv, TokenInv, OwedInv, ReplyAnswersRequest, PostNotLost, XferWaitsFirst, StartWait, adapter, Waiting
<1>7. ReplyAnswersRequest'
  BY <1>a, <1>b DEF IInv, TypeOK, WireInv, UniqueInv, ClientInv, TokenInv, OwedInv, ReplyAnswersRequest, PostNotLost, XferWaitsFirst, StartWait, adapter, Waiting
<1> QED BY <1>1, <1>2, <1>3, <1>4, <1>5, <1>6, <1>7 DEF IInv

LEMMA ReapWaitsInv == IInv /\ ReapWaits => IInv'
<1> SUFFICES ASSUME IInv, ReapWaits PROVE IInv'
  OBVIOUS
<1>a. /\ queue' = Aged
      /\ queue' \in Seq(Messages)
      /\ DOMAIN queue' = DOMAIN queue
      /\ \A i \in DOMAIN queue :
           /\ queue'[i].kind = queue[i].kind
           /\ queue'[i].ok = queue[i].ok
           /\ queue'[i].got = queue[i].got
           /\ queue'[i].tok = queue[i].tok
           /\ queue'[i].fresh <=> (queue[i].kind # "tok")
  BY AgedFacts DEF IInv, TypeOK, ReapWaits, StartWait, adapter
<1>b. tok' \in 0..(TokMod - 1) /\ tok' # tok
  BY NextTokDiffers DEF IInv, TypeOK, ReapWaits, StartWait, adapter
<1>1. TypeOK'
  <2>1. (timer \in {"none", "armed", "fired"})'
    BY DEF ReapWaits, StartWait, adapter
  <2> QED BY <1>a, <1>b, <2>1 DEF IInv, TypeOK, ReapWaits, StartWait, adapter, Waiting
<1>2. WireInv'
  BY <1>a, <1>b DEF IInv, TypeOK, WireInv, UniqueInv, ClientInv, TokenInv, OwedInv, ReplyAnswersRequest, PostNotLost, ReapWaits, StartWait, adapter, Waiting
<1>3. UniqueInv'
  <2> SUFFICES ASSUME NEW i \in DOMAIN queue, NEW j \in DOMAIN queue,
                      queue'[i].kind = queue'[j].kind
               PROVE  i = j
    BY <1>a DEF UniqueInv
  <2>1. CASE queue[i].kind = "tok"
    BY <1>a, <2>1 DEF IInv, TokenInv, Waiting, ReapWaits
  <2>2. CASE queue[i].kind # "tok"
    BY <1>a, <2>2 DEF IInv, TokenInv, UniqueInv
  <2> QED BY <2>1, <2>2
<1>4. ClientInv'
  BY <1>a, <1>b DEF IInv, TypeOK, WireInv, UniqueInv, ClientInv, TokenInv, OwedInv, ReplyAnswersRequest, PostNotLost, ReapWaits, StartWait, adapter, Waiting
<1>5. TokenInv'
  BY <1>a, <1>b DEF IInv, TypeOK, WireInv, UniqueInv, ClientInv, TokenInv, OwedInv, ReplyAnswersRequest, PostNotLost, ReapWaits, StartWait, adapter, Waiting
<1>6. OwedInv'
  BY <1>a, <1>b DEF IInv, TypeOK, WireInv, UniqueInv, ClientInv, TokenInv, OwedInv, ReplyAnswersRequest, PostNotLost, ReapWaits, StartWait, adapter, Waiting
<1>7. ReplyAnswersRequest'
  BY <1>a, <1>b DEF IInv, TypeOK, WireInv, UniqueInv, ClientInv, TokenInv, OwedInv, ReplyAnswersRequest, PostNotLost, ReapWaits, StartWait, adapter, Waiting
<1> QED BY <1>1, <1>2, <1>3, <1>4, <1>5, <1>6, <1>7 DEF IInv

LEMMA XferPostedInv == IInv /\ XferPosted => IInv'
<1> SUFFICES ASSUME IInv, XferPosted PROVE IInv'
  OBVIOUS
<1>a. /\ queue' = Aged
      /\ queue' \in Seq(Messages)
      /\ DOMAIN queue' = DOMAIN queue
      /\ \A i \in DOMAIN queue :
           /\ queue'[i].kind = queue[i].kind
           /\ queue'[i].ok = queue[i].ok
           /\ queue'[i].got = queue[i].got
           /\ queue'[i].tok = queue[i].tok
           /\ queue'[i].fresh <=> (queue[i].kind # "tok")
  BY AgedFacts DEF IInv, TypeOK, XferPosted, PostBoth, StartWait, AgeOwed
<1>b. tok' \in 0..(TokMod - 1) /\ tok' # tok
  BY NextTokDiffers DEF IInv, TypeOK, XferPosted, PostBoth, StartWait, AgeOwed
<1>1. TypeOK'
  <2>1. (timer \in {"none", "armed", "fired"})'
    BY DEF XferPosted, PostBoth, StartWait, AgeOwed
  <2>2. (xs \in Exchange)'
    BY NewExchangeFacts DEF XferPosted, PostBoth, StartWait, AgeOwed
  <2>3. (owedOld \in Nat)'
    BY DEF IInv, TypeOK, XferPosted, PostBoth, StartWait, AgeOwed
  <2> QED BY <1>a, <1>b, <2>1, <2>2, <2>3 DEF IInv, TypeOK, XferPosted, PostBoth, StartWait, AgeOwed, Waiting
<1>2. WireInv'
  BY <1>a, <1>b DEF IInv, TypeOK, WireInv, UniqueInv, ClientInv, TokenInv, OwedInv, ReplyAnswersRequest, PostNotLost, XferPosted, PostBoth, StartWait, AgeOwed, NewExchange, Waiting
<1>3. UniqueInv'
  <2> SUFFICES ASSUME NEW i \in DOMAIN queue, NEW j \in DOMAIN queue,
                      queue'[i].kind = queue'[j].kind
               PROVE  i = j
    BY <1>a DEF UniqueInv
  <2>1. CASE queue[i].kind = "tok"
    BY <1>a, <2>1 DEF IInv, TokenInv, Waiting, XferPosted
  <2>2. CASE queue[i].kind # "tok"
    BY <1>a, <2>2 DEF IInv, TokenInv, UniqueInv
  <2> QED BY <2>1, <2>2
<1>4. ClientInv'
  BY <1>a, <1>b DEF IInv, TypeOK, WireInv, UniqueInv, ClientInv, TokenInv, OwedInv, ReplyAnswersRequest, PostNotLost, XferPosted, PostBoth, StartWait, AgeOwed, NewExchange, Waiting
<1>5. TokenInv'
  BY <1>a, <1>b DEF IInv, TypeOK, WireInv, UniqueInv, ClientInv, TokenInv, OwedInv, ReplyAnswersRequest, PostNotLost, XferPosted, PostBoth, StartWait, AgeOwed, NewExchange, Waiting
<1>6. OwedInv'
  BY <1>a, <1>b DEF IInv, TypeOK, WireInv, UniqueInv, ClientInv, TokenInv, OwedInv, ReplyAnswersRequest, PostNotLost, XferPosted, PostBoth, StartWait, AgeOwed, NewExchange, Waiting
<1>7. ReplyAnswersRequest'
  BY <1>a, <1>b DEF IInv, TypeOK, WireInv, UniqueInv, ClientInv, TokenInv, OwedInv, ReplyAnswersRequest, PostNotLost, XferPosted, PostBoth, StartWait, AgeOwed, NewExchange, Waiting
<1> QED BY <1>1, <1>2, <1>3, <1>4, <1>5, <1>6, <1>7 DEF IInv

LEMMA ReceiveCompletionInv == IInv /\ ReceiveCompletion => IInv'
<1> SUFFICES ASSUME IInv, ReceiveCompletion PROVE IInv'
  OBVIOUS
<1>a. /\ queue' \in Seq(Messages)
      /\ Len(queue) \in Nat /\ Len(queue) >= 1
      /\ DOMAIN queue = 1..Len(queue)
      /\ DOMAIN queue' = 1..(Len(queue) - 1)
      /\ \A i \in 1..(Len(queue) - 1) :
           i + 1 \in 1..Len(queue) /\ queue'[i] = queue[i + 1]
      /\ Head(queue) = queue[1]
      /\ 1 \in DOMAIN queue
      /\ queue[1] \in Messages
  BY TailFacts DEF IInv, TypeOK, ReceiveCompletion, adapter
<1> DEFINE m == queue[1]
<1>b. /\ xs' = Recorded(m)
      /\ ~(xs'.outDone /\ xs'.inDone)
      /\ m.kind # "tok"
  BY <1>a DEF ReceiveCompletion
<1>c. /\ xs' \in Exchange
      /\ xs'.busy <=> xs.busy
      /\ xs'.isPost <=> xs.isPost
      /\ m.kind = "out" => xs'.outDone /\ (xs'.inDone <=> xs.inDone) /\ xs'.got = xs.got
      /\ m.kind = "in" => xs'.inDone /\ (xs'.outDone <=> xs.outDone) /\ xs'.got = m.got
      /\ m.kind \in {"out", "in"}
  BY <1>a, <1>b, RecordedFacts DEF IInv, TypeOK
<1>1. TypeOK'
  BY <1>a, <1>c DEF IInv, TypeOK, ReceiveCompletion, adapter
<1>2. WireInv'
  <2>1. /\ inPend' = inPend /\ outPend' = outPend
    BY DEF ReceiveCompletion
  <2>2. \A i \in 1..(Len(queue) - 1) : queue'[i].kind # m.kind
    BY <1>a, <1>b DEF IInv, UniqueInv, TokenInv
  <2>3. CASE m.kind = "out"
    BY <1>a, <1>b, <1>c, <2>1, <2>2, <2>3 DEF IInv, WireInv
  <2>4. CASE m.kind = "in"
    BY <1>a, <1>b, <1>c, <2>1, <2>2, <2>4 DEF IInv, WireInv
  <2> QED BY <1>c, <2>3, <2>4
<1>3. UniqueInv'
  <2> SUFFICES ASSUME NEW i \in 1..(Len(queue) - 1), NEW j \in 1..(Len(queue) - 1),
                      queue'[i].kind = queue'[j].kind, queue'[i].fresh <=> queue'[j].fresh
               PROVE  i = j
    BY <1>a DEF UniqueInv
  <2> QED BY <1>a DEF IInv, UniqueInv
<1>4. ClientInv'
  BY <1>a, <1>b, <1>c DEF IInv, TypeOK, WireInv, UniqueInv, ClientInv, TokenInv, OwedInv, ReplyAnswersRequest, PostNotLost, ReceiveCompletion, adapter, Waiting
<1>5. TokenInv'
  BY <1>a, <1>b, <1>c DEF IInv, TypeOK, WireInv, UniqueInv, ClientInv, TokenInv, OwedInv, ReplyAnswersRequest, PostNotLost, ReceiveCompletion, adapter, Waiting
<1>6. OwedInv'
  BY <1>a, <1>b, <1>c DEF IInv, TypeOK, WireInv, UniqueInv, ClientInv, TokenInv, OwedInv, ReplyAnswersRequest, PostNotLost, ReceiveCompletion, adapter, Waiting
<1>7. ReplyAnswersRequest'
  BY <1>a, <1>b, <1>c DEF IInv, TypeOK, WireInv, UniqueInv, ClientInv, TokenInv, OwedInv, ReplyAnswersRequest, PostNotLost, ReceiveCompletion, adapter, Waiting
<1> QED BY <1>1, <1>2, <1>3, <1>4, <1>5, <1>6, <1>7 DEF IInv

LEMMA ReceiveStaleTokenInv == IInv /\ ReceiveStaleToken => IInv'
<1> SUFFICES ASSUME IInv, ReceiveStaleToken PROVE IInv'
  OBVIOUS
<1>a. /\ queue' \in Seq(Messages)
      /\ Len(queue) \in Nat /\ Len(queue) >= 1
      /\ DOMAIN queue = 1..Len(queue)
      /\ DOMAIN queue' = 1..(Len(queue) - 1)
      /\ \A i \in 1..(Len(queue) - 1) :
           i + 1 \in 1..Len(queue) /\ queue'[i] = queue[i + 1]
      /\ Head(queue) = queue[1]
      /\ 1 \in DOMAIN queue
      /\ queue[1] \in Messages
  BY TailFacts DEF IInv, TypeOK, ReceiveStaleToken, IsOwnToken, adapter
<1>1. TypeOK'
  BY <1>a DEF IInv, TypeOK, ReceiveStaleToken, IsOwnToken, adapter
<1>2. WireInv'
  BY <1>a DEF IInv, TypeOK, WireInv, UniqueInv, ClientInv, TokenInv, OwedInv, ReplyAnswersRequest, PostNotLost, ReceiveStaleToken, IsOwnToken, adapter, Waiting
<1>3. UniqueInv'
  <2> SUFFICES ASSUME NEW i \in 1..(Len(queue) - 1), NEW j \in 1..(Len(queue) - 1),
                      queue'[i].kind = queue'[j].kind, queue'[i].fresh <=> queue'[j].fresh
               PROVE  i = j
    BY <1>a DEF UniqueInv
  <2> QED BY <1>a DEF IInv, UniqueInv
<1>4. ClientInv'
  BY <1>a DEF IInv, TypeOK, WireInv, UniqueInv, ClientInv, TokenInv, OwedInv, ReplyAnswersRequest, PostNotLost, ReceiveStaleToken, IsOwnToken, adapter, Waiting
<1>5. TokenInv'
  BY <1>a DEF IInv, TypeOK, WireInv, UniqueInv, ClientInv, TokenInv, OwedInv, ReplyAnswersRequest, PostNotLost, ReceiveStaleToken, IsOwnToken, adapter, Waiting
<1>6. OwedInv'
  BY <1>a DEF IInv, TypeOK, WireInv, UniqueInv, ClientInv, TokenInv, OwedInv, ReplyAnswersRequest, PostNotLost, ReceiveStaleToken, IsOwnToken, adapter, Waiting
<1>7. ReplyAnswersRequest'
  BY <1>a DEF IInv, TypeOK, WireInv, UniqueInv, ClientInv, TokenInv, OwedInv, ReplyAnswersRequest, PostNotLost, ReceiveStaleToken, IsOwnToken, adapter, Waiting
<1> QED BY <1>1, <1>2, <1>3, <1>4, <1>5, <1>6, <1>7 DEF IInv

LEMMA TimesOutInv == IInv /\ TimesOut => IInv'
<1> SUFFICES ASSUME IInv, TimesOut PROVE IInv'
  OBVIOUS
<1>a. /\ queue' \in Seq(Messages)
      /\ Len(queue) \in Nat /\ Len(queue) >= 1
      /\ DOMAIN queue = 1..Len(queue)
      /\ DOMAIN queue' = 1..(Len(queue) - 1)
      /\ \A i \in 1..(Len(queue) - 1) :
           i + 1 \in 1..Len(queue) /\ queue'[i] = queue[i + 1]
      /\ Head(queue) = queue[1]
      /\ 1 \in DOMAIN queue
      /\ queue[1] \in Messages
  BY TailFacts DEF IInv, TypeOK, TimesOut, IsOwnToken, Return, adapter
<1>1. TypeOK'
  <2>1. (ret \in [call : Calls, res : Results, got : Replies])'
    BY DEF TimesOut, IsOwnToken, Return, adapter, Results, Replies, Calls
  <2> QED BY <1>a, <2>1 DEF IInv, TypeOK, TimesOut, IsOwnToken, Return, adapter, Waiting
<1>2. WireInv'
  BY <1>a DEF IInv, TypeOK, WireInv, UniqueInv, ClientInv, TokenInv, OwedInv, ReplyAnswersRequest, PostNotLost, TimesOut, IsOwnToken, Return, adapter, Waiting
<1>3. UniqueInv'
  <2> SUFFICES ASSUME NEW i \in 1..(Len(queue) - 1), NEW j \in 1..(Len(queue) - 1),
                      queue'[i].kind = queue'[j].kind, queue'[i].fresh <=> queue'[j].fresh
               PROVE  i = j
    BY <1>a DEF UniqueInv
  <2> QED BY <1>a DEF IInv, UniqueInv
<1>4. ClientInv'
  BY <1>a DEF IInv, TypeOK, WireInv, UniqueInv, ClientInv, TokenInv, OwedInv, ReplyAnswersRequest, PostNotLost, TimesOut, IsOwnToken, Return, adapter, Waiting
<1>5. TokenInv'
  <2>1. /\ queue[1].kind = "tok" /\ queue[1].tok = tok
        /\ pc \in Waiting /\ pc' = "idle" /\ tok' = tok /\ timer' = "none"
    BY <1>a DEF TimesOut, IsOwnToken, Return
  <2>2. queue[1].fresh
    BY <1>a, <2>1 DEF IInv, TokenInv
  <2>3. \A i \in 2..Len(queue) : queue[i].kind # "tok"
    BY <1>a, <2>1, <2>2 DEF IInv, UniqueInv, TokenInv
  <2> QED BY <1>a, <2>1, <2>3 DEF IInv, TokenInv, Waiting
<1>6. OwedInv'
  BY <1>a DEF IInv, TypeOK, WireInv, UniqueInv, ClientInv, TokenInv, OwedInv, ReplyAnswersRequest, PostNotLost, TimesOut, IsOwnToken, Return, adapter, Waiting
<1>7. ReplyAnswersRequest'
  BY <1>a DEF IInv, TypeOK, WireInv, UniqueInv, ClientInv, TokenInv, OwedInv, ReplyAnswersRequest, PostNotLost, TimesOut, IsOwnToken, Return, adapter, Waiting
<1> QED BY <1>1, <1>2, <1>3, <1>4, <1>5, <1>6, <1>7 DEF IInv

LEMMA CompletesInv == IInv /\ Completes => IInv'
<1> SUFFICES ASSUME IInv, Completes PROVE IInv'
  OBVIOUS
<1>a. /\ queue' \in Seq(Messages)
      /\ Len(queue) \in Nat /\ Len(queue) >= 1
      /\ DOMAIN queue = 1..Len(queue)
      /\ DOMAIN queue' = 1..(Len(queue) - 1)
      /\ \A i \in 1..(Len(queue) - 1) :
           i + 1 \in 1..Len(queue) /\ queue'[i] = queue[i + 1]
      /\ Head(queue) = queue[1]
      /\ 1 \in DOMAIN queue
      /\ queue[1] \in Messages
  BY TailFacts DEF IInv, TypeOK, Completes, WaitEnds
<1> DEFINE m == queue[1]
              x == Recorded(m)
<1>b. /\ m.kind # "tok"
      /\ x.outDone /\ x.inDone
      /\ xs' = [x EXCEPT !.busy = FALSE, !.isPost = FALSE]
  BY <1>a DEF Completes, WaitEnds
<1>c. /\ x \in Exchange
      /\ x.isPost <=> xs.isPost
      /\ m.kind = "out" => (x.inDone <=> xs.inDone) /\ x.got = xs.got
      /\ m.kind = "in" => (x.outDone <=> xs.outDone) /\ x.got = m.got
      /\ m.kind \in {"out", "in"}
  BY <1>a, <1>b, RecordedFacts DEF IInv, TypeOK
<1>d. /\ xs' \in Exchange
      /\ ~xs'.busy /\ ~xs'.isPost
      /\ xs'.outDone /\ xs'.inDone
      /\ xs'.got = x.got
  BY <1>b, <1>c DEF Exchange
<1>e. /\ PostSlot(x) \in [open : BOOLEAN, ready : BOOLEAN, res : Results, got : Replies]
      /\ PostSlot(x).open = post.open
      /\ x.isPost => PostSlot(x).ready /\ PostSlot(x).got = x.got
      /\ ~x.isPost => PostSlot(x) = post
  BY <1>c DEF IInv, TypeOK, PostSlot, xs_result, Exchange, Results
<1>f. ~missed => x.got = "own"
  BY <1>a, <1>b, <1>c DEF IInv, TypeOK, OwedInv
<1>g. \/ pc = "pre" /\ post' = PostSlot(x) /\ pc' = "send" /\ ret' = ret
      \/ /\ pc = "xfer" /\ post' = PostSlot(x) /\ pc' = "idle"
         /\ ret' = [call |-> "xfer", res |-> xs_result(x), got |-> x.got]
      \/ /\ pc = "reap" /\ pc' = "idle"
         /\ post' = [PostSlot(x) EXCEPT !.open = FALSE, !.ready = FALSE]
         /\ ret' = [call |-> "reap", res |-> PostSlot(x).res, got |-> PostSlot(x).got]
  BY <1>a DEF Completes, WaitEnds, Return
<1>h. /\ up' = up /\ dead' = dead /\ tok' = tok /\ timer' = "none"
      /\ inPend' = inPend /\ outPend' = outPend
      /\ dev' = dev /\ owedOwn' = owedOwn /\ owedOld' = owedOld /\ missed' = missed
      /\ pc \in Waiting /\ pc' \notin Waiting
  BY <1>g DEF Completes, WaitEnds, adapter, Waiting
<1>i. \A i \in 1..(Len(queue) - 1) :
        queue'[i].kind = "tok" /\ queue'[i].fresh /\ i = 1
  <2>1. \A i \in 2..Len(queue) : queue[i] \in Messages /\ i # 1 /\ i \in DOMAIN queue
    BY <1>a DEF IInv, TypeOK
  <2>2. \A i \in 2..Len(queue) : queue[i].kind = "tok"
    <3> SUFFICES ASSUME NEW i \in 2..Len(queue), queue[i].kind \in {"out", "in"}
                 PROVE  FALSE
      BY <2>1 DEF Messages
    <3>1. queue[i].kind # m.kind
      BY <1>a, <1>b, <2>1 DEF IInv, UniqueInv, TokenInv
    <3> QED BY <1>a, <1>b, <1>c, <2>1, <3>1 DEF IInv, WireInv
  <2>3. \A i \in 2..Len(queue) : queue[i].fresh
    BY <1>h, <2>1, <2>2 DEF IInv, TokenInv
  <2>4. \A i, j \in 2..Len(queue) : i = j
    BY <2>1, <2>2, <2>3 DEF IInv, TypeOK, UniqueInv, Messages
  <2>5. Len(queue) <= 2
    BY <1>a, <2>4
  <2> QED BY <1>a, <2>2, <2>3, <2>5
<1>1. TypeOK'
  <2>1. (post \in [open : BOOLEAN, ready : BOOLEAN, res : Results, got : Replies])'
    BY <1>e, <1>g
  <2>2. (ret \in [call : Calls, res : Results, got : Replies])'
    BY <1>c, <1>e, <1>g DEF IInv, TypeOK, xs_result, Exchange, Results, Calls
  <2>3. (pc \in {"idle", "send"} \cup Waiting)'
    BY <1>g
  <2> QED BY <1>a, <1>d, <1>h, <2>1, <2>2, <2>3 DEF IInv, TypeOK
<1>2. WireInv'
  <2>1. outPend = "none" /\ ~inPend
    BY <1>a, <1>b, <1>c DEF IInv, WireInv
  <2> QED BY <1>a, <1>d, <1>h, <1>i, <2>1 DEF WireInv
<1>3. UniqueInv'
  BY <1>a, <1>i DEF UniqueInv
<1>4. ClientInv'
  BY <1>c, <1>d, <1>e, <1>g DEF IInv, TypeOK, ClientInv, PostNotLost, Waiting
<1>5. TokenInv'
  BY <1>a, <1>h, <1>i DEF IInv, TypeOK, TokenInv
<1>6. OwedInv'
  BY <1>a, <1>c, <1>d, <1>e, <1>f, <1>g, <1>h, <1>i, ZenonT(60) DEF IInv, TypeOK, OwedInv, ClientInv
<1>7. ReplyAnswersRequest'
  BY <1>c, <1>e, <1>f, <1>g, <1>h DEF IInv, TypeOK, ReplyAnswersRequest, ClientInv
<1> QED BY <1>1, <1>2, <1>3, <1>4, <1>5, <1>6, <1>7 DEF IInv

LEMMA TimerFiresInv == IInv /\ TimerFires => IInv'
<1> SUFFICES ASSUME IInv, TimerFires PROVE IInv'
  OBVIOUS
<1> DEFINE m == Token
<1>a. m \in Messages
  BY TokAssumption DEF IInv, TypeOK, Messages, Replies, Token
<1>b. /\ queue' \in Seq(Messages)
      /\ Len(queue) \in Nat
      /\ DOMAIN queue = 1..Len(queue)
      /\ DOMAIN queue' = 1..(Len(queue) + 1)
      /\ \A i \in DOMAIN queue : queue'[i] = queue[i]
      /\ queue'[Len(queue) + 1] = m
  <2>1. queue' = Append(queue, m)
    BY DEF TimerFires, client, adapter
  <2> HIDE DEF m
  <2> QED BY <1>a, <2>1, AppendFacts DEF IInv, TypeOK
<1>1. TypeOK'
  BY <1>b DEF IInv, TypeOK, TimerFires, client, adapter
<1>2. WireInv'
  BY <1>b DEF IInv, TypeOK, WireInv, UniqueInv, ClientInv, TokenInv, OwedInv, ReplyAnswersRequest, PostNotLost, TimerFires, client, adapter, Token, Waiting
<1>3. UniqueInv'
  <2> SUFFICES ASSUME NEW i \in 1..(Len(queue) + 1), NEW j \in 1..(Len(queue) + 1),
                      queue'[i].kind = queue'[j].kind, queue'[i].fresh <=> queue'[j].fresh
               PROVE  i = j
    BY <1>b DEF UniqueInv
  <2>1. \A k \in DOMAIN queue : ~(queue[k].kind = m.kind /\ (queue[k].fresh <=> m.fresh))
    BY DEF IInv, TypeOK, WireInv, TokenInv, TimerFires, client, adapter, Token, Waiting
  <2>2. i \in DOMAIN queue \/ i = Len(queue) + 1
    BY <1>b
  <2>3. j \in DOMAIN queue \/ j = Len(queue) + 1
    BY <1>b
  <2> HIDE DEF m
  <2> QED BY <1>b, <2>1, <2>2, <2>3 DEF IInv, UniqueInv
<1>4. ClientInv'
  BY <1>b DEF IInv, TypeOK, WireInv, UniqueInv, ClientInv, TokenInv, OwedInv, ReplyAnswersRequest, PostNotLost, TimerFires, client, adapter, Token, Waiting
<1>5. TokenInv'
  BY <1>b DEF IInv, TypeOK, WireInv, UniqueInv, ClientInv, TokenInv, OwedInv, ReplyAnswersRequest, PostNotLost, TimerFires, client, adapter, Token, Waiting
<1>6. OwedInv'
  BY <1>b DEF IInv, TypeOK, WireInv, UniqueInv, ClientInv, TokenInv, OwedInv, ReplyAnswersRequest, PostNotLost, TimerFires, client, adapter, Token, Waiting
<1>7. ReplyAnswersRequest'
  BY <1>b DEF IInv, TypeOK, WireInv, UniqueInv, ClientInv, TokenInv, OwedInv, ReplyAnswersRequest, PostNotLost, TimerFires, client, adapter, Token, Waiting
<1> QED BY <1>1, <1>2, <1>3, <1>4, <1>5, <1>6, <1>7 DEF IInv

LEMMA OutCompletesInv == IInv /\ OutCompletes => IInv'
<1> SUFFICES ASSUME IInv, OutCompletes PROVE IInv'
  OBVIOUS
<1> DEFINE m == Completion("out", TRUE, "none")
<1>a. m \in Messages
  BY TokAssumption DEF IInv, TypeOK, Messages, Replies, Completion
<1>b. /\ queue' \in Seq(Messages)
      /\ Len(queue) \in Nat
      /\ DOMAIN queue = 1..Len(queue)
      /\ DOMAIN queue' = 1..(Len(queue) + 1)
      /\ \A i \in DOMAIN queue : queue'[i] = queue[i]
      /\ queue'[Len(queue) + 1] = m
  <2>1. queue' = Append(queue, m)
    BY DEF OutCompletes, client, adapter
  <2> HIDE DEF m
  <2> QED BY <1>a, <2>1, AppendFacts DEF IInv, TypeOK
<1>1. TypeOK'
  BY <1>b, ZenonT(60) DEF IInv, TypeOK, OutCompletes, client, adapter
<1>2. WireInv'
  BY <1>b DEF IInv, TypeOK, WireInv, UniqueInv, ClientInv, TokenInv, OwedInv, ReplyAnswersRequest, PostNotLost, OutCompletes, client, adapter, Completion, Waiting
<1>3. UniqueInv'
  <2> SUFFICES ASSUME NEW i \in 1..(Len(queue) + 1), NEW j \in 1..(Len(queue) + 1),
                      queue'[i].kind = queue'[j].kind, queue'[i].fresh <=> queue'[j].fresh
               PROVE  i = j
    BY <1>b DEF UniqueInv
  <2>1. \A k \in DOMAIN queue : ~(queue[k].kind = m.kind /\ (queue[k].fresh <=> m.fresh))
    BY DEF IInv, TypeOK, WireInv, TokenInv, OutCompletes, client, adapter, Completion, Waiting
  <2>2. i \in DOMAIN queue \/ i = Len(queue) + 1
    BY <1>b
  <2>3. j \in DOMAIN queue \/ j = Len(queue) + 1
    BY <1>b
  <2> HIDE DEF m
  <2> QED BY <1>b, <2>1, <2>2, <2>3 DEF IInv, UniqueInv
<1>4. ClientInv'
  BY <1>b DEF IInv, TypeOK, WireInv, UniqueInv, ClientInv, TokenInv, OwedInv, ReplyAnswersRequest, PostNotLost, OutCompletes, client, adapter, Completion, Waiting
<1>5. TokenInv'
  BY <1>b DEF IInv, TypeOK, WireInv, UniqueInv, ClientInv, TokenInv, OwedInv, ReplyAnswersRequest, PostNotLost, OutCompletes, client, adapter, Completion, Waiting
<1>6. OwedInv'
  BY <1>b DEF IInv, TypeOK, WireInv, UniqueInv, ClientInv, TokenInv, OwedInv, ReplyAnswersRequest, PostNotLost, OutCompletes, client, adapter, Completion, Waiting
<1>7. ReplyAnswersRequest'
  BY <1>b DEF IInv, TypeOK, WireInv, UniqueInv, ClientInv, TokenInv, OwedInv, ReplyAnswersRequest, PostNotLost, OutCompletes, client, adapter, Completion, Waiting
<1> QED BY <1>1, <1>2, <1>3, <1>4, <1>5, <1>6, <1>7 DEF IInv

LEMMA OutFailsInv == IInv /\ OutFails => IInv'
<1> SUFFICES ASSUME IInv, OutFails PROVE IInv'
  OBVIOUS
<1> DEFINE m == Completion("out", FALSE, "none")
<1>a. m \in Messages
  BY TokAssumption DEF IInv, TypeOK, Messages, Replies, Completion
<1>b. /\ queue' \in Seq(Messages)
      /\ Len(queue) \in Nat
      /\ DOMAIN queue = 1..Len(queue)
      /\ DOMAIN queue' = 1..(Len(queue) + 1)
      /\ \A i \in DOMAIN queue : queue'[i] = queue[i]
      /\ queue'[Len(queue) + 1] = m
  <2>1. queue' = Append(queue, m)
    BY DEF OutFails, client, adapter
  <2> HIDE DEF m
  <2> QED BY <1>a, <2>1, AppendFacts DEF IInv, TypeOK
<1>1. TypeOK'
  BY <1>b, ZenonT(60) DEF IInv, TypeOK, OutFails, client, adapter
<1>2. WireInv'
  BY <1>b DEF IInv, TypeOK, WireInv, UniqueInv, ClientInv, TokenInv, OwedInv, ReplyAnswersRequest, PostNotLost, OutFails, client, adapter, Completion, Waiting
<1>3. UniqueInv'
  <2> SUFFICES ASSUME NEW i \in 1..(Len(queue) + 1), NEW j \in 1..(Len(queue) + 1),
                      queue'[i].kind = queue'[j].kind, queue'[i].fresh <=> queue'[j].fresh
               PROVE  i = j
    BY <1>b DEF UniqueInv
  <2>1. \A k \in DOMAIN queue : ~(queue[k].kind = m.kind /\ (queue[k].fresh <=> m.fresh))
    BY DEF IInv, TypeOK, WireInv, TokenInv, OutFails, client, adapter, Completion, Waiting
  <2>2. i \in DOMAIN queue \/ i = Len(queue) + 1
    BY <1>b
  <2>3. j \in DOMAIN queue \/ j = Len(queue) + 1
    BY <1>b
  <2> HIDE DEF m
  <2> QED BY <1>b, <2>1, <2>2, <2>3 DEF IInv, UniqueInv
<1>4. ClientInv'
  BY <1>b DEF IInv, TypeOK, WireInv, UniqueInv, ClientInv, TokenInv, OwedInv, ReplyAnswersRequest, PostNotLost, OutFails, client, adapter, Completion, Waiting
<1>5. TokenInv'
  BY <1>b DEF IInv, TypeOK, WireInv, UniqueInv, ClientInv, TokenInv, OwedInv, ReplyAnswersRequest, PostNotLost, OutFails, client, adapter, Completion, Waiting
<1>6. OwedInv'
  BY <1>b DEF IInv, TypeOK, WireInv, UniqueInv, ClientInv, TokenInv, OwedInv, ReplyAnswersRequest, PostNotLost, OutFails, client, adapter, Completion, Waiting
<1>7. ReplyAnswersRequest'
  BY <1>b DEF IInv, TypeOK, WireInv, UniqueInv, ClientInv, TokenInv, OwedInv, ReplyAnswersRequest, PostNotLost, OutFails, client, adapter, Completion, Waiting
<1> QED BY <1>1, <1>2, <1>3, <1>4, <1>5, <1>6, <1>7 DEF IInv

LEMMA InFailsInv == IInv /\ InFails => IInv'
<1> SUFFICES ASSUME IInv, InFails PROVE IInv'
  OBVIOUS
<1> DEFINE m == Completion("in", FALSE, "none")
<1>a. m \in Messages
  BY TokAssumption DEF IInv, TypeOK, Messages, Replies, Completion
<1>b. /\ queue' \in Seq(Messages)
      /\ Len(queue) \in Nat
      /\ DOMAIN queue = 1..Len(queue)
      /\ DOMAIN queue' = 1..(Len(queue) + 1)
      /\ \A i \in DOMAIN queue : queue'[i] = queue[i]
      /\ queue'[Len(queue) + 1] = m
  <2>1. queue' = Append(queue, m)
    BY DEF InFails, client
  <2> HIDE DEF m
  <2> QED BY <1>a, <2>1, AppendFacts DEF IInv, TypeOK
<1>1. TypeOK'
  BY <1>b, ZenonT(60) DEF IInv, TypeOK, InFails, client
<1>2. WireInv'
  BY <1>b DEF IInv, TypeOK, WireInv, UniqueInv, ClientInv, TokenInv, OwedInv, ReplyAnswersRequest, PostNotLost, InFails, client, Completion, Waiting
<1>3. UniqueInv'
  <2> SUFFICES ASSUME NEW i \in 1..(Len(queue) + 1), NEW j \in 1..(Len(queue) + 1),
                      queue'[i].kind = queue'[j].kind, queue'[i].fresh <=> queue'[j].fresh
               PROVE  i = j
    BY <1>b DEF UniqueInv
  <2>1. \A k \in DOMAIN queue : ~(queue[k].kind = m.kind /\ (queue[k].fresh <=> m.fresh))
    BY DEF IInv, TypeOK, WireInv, TokenInv, InFails, client, Completion, Waiting
  <2>2. i \in DOMAIN queue \/ i = Len(queue) + 1
    BY <1>b
  <2>3. j \in DOMAIN queue \/ j = Len(queue) + 1
    BY <1>b
  <2> HIDE DEF m
  <2> QED BY <1>b, <2>1, <2>2, <2>3 DEF IInv, UniqueInv
<1>4. ClientInv'
  BY <1>b DEF IInv, TypeOK, WireInv, UniqueInv, ClientInv, TokenInv, OwedInv, ReplyAnswersRequest, PostNotLost, InFails, client, Completion, Waiting
<1>5. TokenInv'
  BY <1>b DEF IInv, TypeOK, WireInv, UniqueInv, ClientInv, TokenInv, OwedInv, ReplyAnswersRequest, PostNotLost, InFails, client, Completion, Waiting
<1>6. OwedInv'
  BY <1>b DEF IInv, TypeOK, WireInv, UniqueInv, ClientInv, TokenInv, OwedInv, ReplyAnswersRequest, PostNotLost, InFails, client, Completion, Waiting
<1>7. ReplyAnswersRequest'
  BY <1>b DEF IInv, TypeOK, WireInv, UniqueInv, ClientInv, TokenInv, OwedInv, ReplyAnswersRequest, PostNotLost, InFails, client, Completion, Waiting
<1> QED BY <1>1, <1>2, <1>3, <1>4, <1>5, <1>6, <1>7 DEF IInv

LEMMA AdapterAnswersInv == IInv /\ AdapterAnswers => IInv'
<1> SUFFICES ASSUME IInv, AdapterAnswers PROVE IInv'
  OBVIOUS
<1>0. PICK g \in {"own", "old"} :
        /\ queue' = Append(queue, Completion("in", TRUE, g))
        /\ g = "old" => owedOld > 0 /\ owedOld' = owedOld - 1 /\ owedOwn' = owedOwn
        /\ g = "own" => owedOwn /\ ~owedOwn' /\ owedOld' = owedOld
  BY DEF AdapterAnswers
<1> DEFINE m == Completion("in", TRUE, g)
<1>a. m \in Messages
  BY TokAssumption DEF IInv, TypeOK, Messages, Replies, Completion
<1>b. /\ queue' \in Seq(Messages)
      /\ Len(queue) \in Nat
      /\ DOMAIN queue = 1..Len(queue)
      /\ DOMAIN queue' = 1..(Len(queue) + 1)
      /\ \A i \in DOMAIN queue : queue'[i] = queue[i]
      /\ queue'[Len(queue) + 1] = m
  <2>1. queue' = Append(queue, m)
    BY <1>0
  <2> HIDE DEF m
  <2> QED BY <1>a, <2>1, AppendFacts DEF IInv, TypeOK
<1>1. TypeOK'
  <2>1. owedOwn' = owedOwn \/ owedOwn' = FALSE
    BY DEF AdapterAnswers
  <2>2. owedOld' \in Nat
    BY <1>0 DEF IInv, TypeOK
  <2> QED BY <1>b, <2>1, <2>2, ZenonT(60) DEF IInv, TypeOK, AdapterAnswers, client
<1>2. WireInv'
  BY <1>0, <1>b DEF IInv, TypeOK, WireInv, UniqueInv, ClientInv, TokenInv, OwedInv, ReplyAnswersRequest, PostNotLost, AdapterAnswers, client, Completion, Waiting
<1>3. UniqueInv'
  <2> SUFFICES ASSUME NEW i \in 1..(Len(queue) + 1), NEW j \in 1..(Len(queue) + 1),
                      queue'[i].kind = queue'[j].kind, queue'[i].fresh <=> queue'[j].fresh
               PROVE  i = j
    BY <1>b DEF UniqueInv
  <2>1. \A k \in DOMAIN queue : ~(queue[k].kind = m.kind /\ (queue[k].fresh <=> m.fresh))
    BY DEF IInv, TypeOK, WireInv, TokenInv, AdapterAnswers, Completion
  <2>2. i \in DOMAIN queue \/ i = Len(queue) + 1
    BY <1>b
  <2>3. j \in DOMAIN queue \/ j = Len(queue) + 1
    BY <1>b
  <2> HIDE DEF m
  <2> QED BY <1>b, <2>1, <2>2, <2>3 DEF IInv, UniqueInv
<1>4. ClientInv'
  BY <1>0, <1>b DEF IInv, TypeOK, WireInv, UniqueInv, ClientInv, TokenInv, OwedInv, ReplyAnswersRequest, PostNotLost, AdapterAnswers, client, Completion, Waiting
<1>5. TokenInv'
  BY <1>0, <1>b DEF IInv, TypeOK, WireInv, UniqueInv, ClientInv, TokenInv, OwedInv, ReplyAnswersRequest, PostNotLost, AdapterAnswers, client, Completion, Waiting
<1>6. OwedInv'
  BY <1>0, <1>b DEF IInv, TypeOK, WireInv, UniqueInv, ClientInv, TokenInv, OwedInv, ReplyAnswersRequest, PostNotLost, AdapterAnswers, client, Completion, Waiting
<1>7. ReplyAnswersRequest'
  BY <1>0, <1>b DEF IInv, TypeOK, WireInv, UniqueInv, ClientInv, TokenInv, OwedInv, ReplyAnswersRequest, PostNotLost, AdapterAnswers, client, Completion, Waiting
<1> QED BY <1>1, <1>2, <1>3, <1>4, <1>5, <1>6, <1>7 DEF IInv

-----------------------------------------------------------------------------
(* The inductive step: every action, and stuttering, preserves IInv. *)
LEMMA NextInv == IInv /\ [Next]_vars => IInv'
<1> SUFFICES ASSUME IInv, [Next]_vars PROVE IInv'
  OBVIOUS
<1>1. CASE Calling
  BY <1>1, Ra_usb_initInv, XferDownInv, XferWaitsFirstInv, XferGoesOnInv,
     PostCallRefusedInv, PostCallFailsInv, Ra_usb_postInv, ReapIdleInv,
     ReapReadyInv, ReapWaitsInv
  DEF Calling
<1>2. CASE Running
  BY <1>2, XferRefusedInv, XferPostedInv, ReceiveCompletionInv,
     ReceiveStaleTokenInv, TimesOutInv, CompletesInv
  DEF Running
<1>3. CASE TimerFires
  BY <1>3, TimerFiresInv
<1>4. CASE Transfers
  BY <1>4, AdapterReceivesInv, OutCompletesInv, OutFailsInv, AdapterAnswersInv, InFailsInv
  DEF Transfers
<1>5. CASE Plugging
  BY <1>5, UnpluggedInv, RepluggedInv
  DEF Plugging
<1>6. CASE UNCHANGED vars
  <2>1. TypeOK' /\ WireInv' /\ UniqueInv'
    BY <1>6 DEF IInv, vars, TypeOK, WireInv, UniqueInv
  <2>2. ClientInv' /\ TokenInv' /\ OwedInv' /\ ReplyAnswersRequest'
    BY <1>6 DEF IInv, vars, ClientInv, PostNotLost, TokenInv, OwedInv, ReplyAnswersRequest
  <2> QED BY <2>1, <2>2 DEF IInv
<1> QED BY <1>1, <1>2, <1>3, <1>4, <1>5, <1>6 DEF Next

(***************************************************************************)
(* The link's state satisfies the inductive invariant in every behaviour.  *)
(***************************************************************************)
THEOREM LinkInvariant == Spec => []IInv
<1>1. Init => IInv
  BY InitInv
<1>2. IInv /\ [Next]_vars => IInv'
  BY NextInv
<1> QED BY <1>1, <1>2, PTL DEF Spec

(***************************************************************************)
(* Type correctness of the link's state.                                   *)
(***************************************************************************)
THEOREM TypeCorrect == Spec => []TypeOK
<1>1. IInv => TypeOK
  BY DEF IInv
<1> QED BY <1>1, LinkInvariant, PTL

(***************************************************************************)
(* Until an IN transfer fails, every reply ra_usb_xfer or ra_usb_reap      *)
(* returns answers the request of that very exchange.                      *)
(***************************************************************************)
THEOREM ReplyAttribution == Spec => []ReplyAnswersRequest
<1>1. IInv => ReplyAnswersRequest
  BY DEF IInv
<1> QED BY <1>1, LinkInvariant, PTL

(***************************************************************************)
(* req_out and req_in are reused only when no completion of theirs is left *)
(* with the kernel or in the queue.                                        *)
(***************************************************************************)
THEOREM NoOrphans == Spec => []NoOrphanCompletion
<1>1. IInv => NoOrphanCompletion
  BY DEF IInv, WireInv, NoOrphanCompletion, InQueue
<1> QED BY <1>1, LinkInvariant, PTL

(***************************************************************************)
(* A posted exchange is on the wire or kept for the reap.                  *)
(***************************************************************************)
THEOREM PostKept == Spec => []PostNotLost
<1>1. IInv => PostNotLost
  BY DEF IInv, ClientInv
<1> QED BY <1>1, LinkInvariant, PTL

(***************************************************************************)
(* g_q holds at most four messages: one per completion, one token of the   *)
(* current wait and one of an earlier one.                                 *)
(***************************************************************************)
THEOREM QueueBound == Spec => []QueueNeverFull
<1>1. IInv => QueueNeverFull
  <2> SUFFICES ASSUME IInv, Len(queue) >= 5 PROVE FALSE
    BY DEF IInv, TypeOK, QueueNeverFull
  <2>1. \A i \in 1..5 : i \in DOMAIN queue /\ queue[i] \in Messages
    BY DEF IInv, TypeOK
  <2>2. \A i, j \in 1..5 :
          queue[i].kind = queue[j].kind /\ (queue[i].fresh <=> queue[j].fresh) => i = j
    BY <2>1 DEF IInv, UniqueInv
  <2>3. \A i \in 1..5 : /\ queue[i].kind \in {"out", "in", "tok"}
                        /\ queue[i].kind # "tok" => queue[i].fresh
    BY <2>1 DEF IInv, TokenInv, Messages
  <2> QED BY <2>2, <2>3
<1> QED BY <1>1, LinkInvariant, PTL

(***************************************************************************)
(* A wait gives up only on the token of its own timer, for every modulus   *)
(* of the token counter that is at least 2.                                *)
(***************************************************************************)
THEOREM TimeoutIsOwn == Spec => TimesOutOnOwnTimer
<1>1. IInv /\ [Next]_vars =>
        [pc' = "idle" /\ pc \in Waiting /\ Head(queue).kind = "tok"
           => Head(queue).fresh]_vars
  <2> SUFFICES ASSUME IInv, Next, pc \in Waiting, pc' = "idle", Head(queue).kind = "tok"
               PROVE  Head(queue).fresh
    OBVIOUS
  <2>1. TimesOut
    BY DEF Next, Calling, Running, Transfers, Plugging, Waiting, ra_usb_init, XferDown,
       XferWaitsFirst, XferGoesOn, PostCallRefused, PostCallFails, ra_usb_post, ReapIdle,
       ReapReady, ReapWaits, XferRefused, XferPosted, ReceiveCompletion,
       ReceiveStaleToken, Completes, WaitEnds, TimerFires, AdapterReceives, OutCompletes,
       OutFails, AdapterAnswers, InFails, Unplugged, Replugged, client
  <2>2. queue # <<>> /\ Head(queue).tok = tok
    BY <2>1 DEF TimesOut, IsOwnToken
  <2>3. 1 \in DOMAIN queue /\ Head(queue) = queue[1]
    BY <2>2, TailFacts DEF IInv, TypeOK
  <2> QED BY <2>2, <2>3 DEF IInv, TokenInv
<1> QED BY <1>1, LinkInvariant, PTL DEF Spec, TimesOutOnOwnTimer

-----------------------------------------------------------------------------
(* What each step of the link is for a client that sees requests and       *)
(* replies only.                                                           *)
LEMMA PutStep ==
    ASSUME IInv, ~xs.busy, xs'.busy, missed' = missed
    PROVE  RR!Put
  BY DEF RR!Put

LEMMA FinishStep ==
    ASSUME IInv, Completes
    PROVE  RR!Finish
<1> DEFINE x == Recorded(queue[1])
<1>1. queue # <<>> /\ queue \in Seq(Messages) /\ Head(queue) = queue[1]
      /\ queue[1] \in Messages /\ 1 \in DOMAIN queue
  BY TailFacts DEF IInv, TypeOK, Completes, WaitEnds
<1>2. /\ queue[1].kind # "tok"
      /\ x.outDone /\ x.inDone
      /\ xs' = [x EXCEPT !.busy = FALSE, !.isPost = FALSE]
      /\ missed' = missed
      /\ pc \in Waiting
  BY <1>1 DEF Completes, WaitEnds, adapter
<1>3. /\ x \in Exchange
      /\ queue[1].kind = "out" => (x.inDone <=> xs.inDone) /\ x.got = xs.got
      /\ queue[1].kind = "in" => x.got = queue[1].got
      /\ queue[1].kind \in {"out", "in"}
  BY <1>1, <1>2, RecordedFacts DEF IInv, TypeOK
<1>4. ~xs'.busy /\ xs'.got = x.got /\ x.got \in Replies
  BY <1>2, <1>3 DEF Exchange
<1>5. xs.busy
  BY <1>2 DEF IInv, ClientInv
<1>6. ~missed => x.got = "own"
  BY <1>1, <1>2, <1>3 DEF IInv, OwedInv
<1> QED BY <1>2, <1>4, <1>5, <1>6 DEF RR!Finish, Replies

LEMMA LoseStep ==
    ASSUME IInv, InFails
    PROVE  RR!Lose
  BY DEF RR!Lose, IInv, WireInv, InFails, client

(* A post that fails leaves the wire as it was, free without a reply, or   *)
(* taken by a read with no request behind it.                              *)
LEMMA FailedPostStep ==
    ASSUME IInv, XferRefused \/ PostCallFails
    PROVE  RR!Next \/ UNCHANGED RR!vars
<1>1. ~xs.busy /\ missed' = missed
  BY DEF IInv, ClientInv, XferRefused, PostCallFails
<1>2. CASE xs' = xs
  BY <1>1, <1>2 DEF RR!vars
<1>3. CASE \E b \in BOOLEAN : xs' = [NewExchange(b) EXCEPT !.busy = FALSE]
  <2>1. ~xs'.busy /\ xs'.got = "none"
    BY <1>3 DEF NewExchange
  <2> QED BY <1>1, <2>1 DEF RR!Next, RR!Refuse
<1>4. CASE \E b \in BOOLEAN : xs' = [NewExchange(b) EXCEPT !.outDone = TRUE]
  <2>1. xs'.busy
    BY <1>4 DEF NewExchange
  <2> QED BY <1>1, <2>1, PutStep DEF RR!Next
<1> QED
  BY <1>2, <1>3, <1>4
  DEF XferRefused, PostCallFails, PostRefused, PostInFails, PostOutFails

(***************************************************************************)
(* The link implements RequestReply: timeouts, stale tokens, late replies  *)
(* and the pipelined post are invisible at that level, and a client of the *)
(* link never sees a reply to another request unless a read has failed.    *)
(***************************************************************************)
THEOREM LinkRefinesRequestReply == Spec => AlternatesRequestReply
<1>1. Init => RR!Init
  BY DEF Init, RR!Init, NewExchange
<1>2. IInv /\ [Next]_vars => [RR!Next]_(RR!vars)
  <2> SUFFICES ASSUME IInv, [Next]_vars
               PROVE  RR!Next \/ UNCHANGED RR!vars
    OBVIOUS
  <2>1. CASE XferPosted \/ ra_usb_post
    <3>1. ~xs.busy /\ xs'.busy /\ missed' = missed
      BY <2>1 DEF IInv, ClientInv, XferPosted, ra_usb_post, PostBoth, NewExchange
    <3> QED BY <3>1, PutStep DEF RR!Next
  <2>2. CASE XferRefused \/ PostCallFails
    BY <2>2, FailedPostStep
  <2>3. CASE Completes
    BY <2>3, FinishStep DEF RR!Next
  <2>4. CASE InFails
    BY <2>4, LoseStep DEF RR!Next
  <2>5. CASE ReceiveCompletion
    <3>1. queue # <<>> /\ queue \in Seq(Messages) /\ Head(queue) = queue[1]
          /\ queue[1] \in Messages
      BY <2>5, TailFacts DEF IInv, TypeOK, ReceiveCompletion
    <3>2. xs.busy /\ missed' = missed /\ xs' = Recorded(queue[1]) /\ queue[1].kind # "tok"
      BY <2>5, <3>1 DEF IInv, ClientInv, ReceiveCompletion, adapter
    <3>3. xs'.busy
      BY <3>1, <3>2, RecordedFacts DEF IInv, TypeOK
    <3> QED BY <3>2, <3>3 DEF RR!vars
  <2>6. CASE UNCHANGED <<xs, missed>>
    BY <2>6 DEF RR!vars
  <2> QED
    BY <2>1, <2>2, <2>3, <2>4, <2>5, <2>6
    DEF vars, Next, Calling, Running, Transfers, Plugging, ra_usb_init, XferDown,
        XferWaitsFirst, XferGoesOn, PostCallRefused, ReapIdle, ReapReady, ReapWaits,
        ReceiveStaleToken, TimesOut, TimerFires, AdapterReceives, OutCompletes,
        OutFails, AdapterAnswers, Unplugged, Replugged, client, adapter
<1> QED BY <1>1, <1>2, LinkInvariant, PTL DEF Spec, AlternatesRequestReply, RR!Spec
=============================================================================
