----------------------------- MODULE XbufProofs -----------------------------
(***************************************************************************)
(* Theorems about Xbuf, for any number of senders, any buffer size and any *)
(* message lengths, and about Lcall: the long-call service uses its xbuf   *)
(* as Xbuf assumes, so what is proved of Xbuf holds of it, and its thread  *)
(* never sleeps over an accepted request.                                  *)
(***************************************************************************)
EXTENDS Lcall, TLAPS

-----------------------------------------------------------------------------
(***************************************************************************)
(* Type correctness.                                                       *)
(***************************************************************************)

(* A byte of a message and an uninitialised byte are bytes.                *)
LEMMA ByteType ==
  /\ Junk \in Bytes
  /\ \A k \in {"req", "resp", "junk"}, m \in Nat, i \in Nat : Byte(k, m, i) \in Bytes
  BY DEF Junk, Byte, Bytes

(* A thread that moves to a label of its kind leaves pc well typed.        *)
LEMMA GotoType ==
  ASSUME PcOK, NEW t \in Threads, NEW l, Goto(t, l),
         t = Server  => l \in ServerLabels,
         t # Server => l \in SenderLabels
  PROVE  PcOK'
  BY ServerAssumption DEF PcOK, Goto, Threads

(* The transfer routines keep every variable in its type.                  *)
LEMMA TransferType ==
  ASSUME TypeOK, NEW t \in Threads, Transfer(t)
  PROVE  TypeOK'
  <1> USE DEF TypeOK, chan, local
  <1>l. /\ {"put", "mark", "send", "recv", "take", "low"} \subseteq SenderLabels \intersect ServerLabels
        /\ {"ipi", "done", "reset", "err"} \subseteq SenderLabels
        /\ {"complete", "idle", "dead", "work"} \subseteq ServerLabels
    BY DEF SenderLabels, ServerLabels
  <1>1. CASE StageLen(t)
    <2>1. PcOK'
      BY <1>1, <1>l, GotoType DEF StageLen
    <2>2. QED
      BY <1>1, <2>1 DEF StageLen, PageOK, LocalOK
  <1>2. CASE StagePut(t)
    <2>1. PcOK'
      BY <1>2, <1>l, GotoType DEF StagePut
    <2>2. Kind(t) \in {"req", "resp", "junk"} /\ tag[t] \in Nat /\ off[t] \in Nat
      BY DEF Kind, LocalOK
    <2>3. data' \in [1..Size -> Bytes]
      <3>1. \A i \in 1..Size : Byte(Kind(t), tag[t], off[t] + i) \in Bytes
        BY <2>2, ByteType, SizeAssumption
      <3>2. QED
        BY <1>2, <3>1 DEF StagePut, PageOK
    <2>4. QED
      BY <1>2, <2>1, <2>3 DEF StagePut, PageOK, LocalOK
  <1>3. CASE StageMark(t)
    <2>1. PcOK'
      BY <1>3, <1>l, GotoType DEF StageMark
    <2>2. off' \in [Threads -> Nat]
      BY <1>3, SizeAssumption DEF StageMark, Chunk, LocalOK
    <2>3. PageOK'
      BY <1>3 DEF StageMark, raise_flag, PageOK, Flags
    <2>4. QED
      BY <1>3, <2>1, <2>2, <2>3 DEF StageMark, LocalOK
  <1>4. CASE send_data(t)
    <2>1. PcOK'
      BY <1>4, <1>l, GotoType DEF send_data, AfterSend
    <2>2. QED
      BY <1>4, <2>1 DEF send_data, PageOK, LocalOK
  <1>5. CASE RecvLen(t)
    <2>1. PcOK'
      BY <1>5, <1>l, GotoType DEF RecvLen
    <2>2. LocalOK'
      <3>1. CASE t = Server /\ "active" \notin flags
        BY <1>5, <3>1 DEF RecvLen, LocalOK
      <3>2. CASE ~(t = Server /\ "active" \notin flags)
        <4> DEFINE new == [i \in 1..data_len |-> Junk]
        <4>1. data_len \in Nat /\ new \in [1..data_len -> Bytes]
          BY ByteType DEF PageOK
        <4>2. /\ inlen' = [inlen EXCEPT ![t] = data_len]
              /\ in' = [in EXCEPT ![t] = new]
              /\ off' = [off EXCEPT ![t] = 0]
              /\ UNCHANGED <<tag, len>>
          BY <1>5, <3>2 DEF RecvLen
        <4> HIDE DEF new
        <4>3. QED
          BY <4>1, <4>2 DEF LocalOK
      <3>3. QED
        BY <3>1, <3>2
    <2>3. QED
      BY <1>5, <2>1, <2>2 DEF RecvLen, PageOK
  <1>6. CASE recv_data(t)
    <2>1. PcOK'
      BY <1>6, <1>l, GotoType DEF recv_data, AfterRecv
    <2>2. QED
      BY <1>6, <2>1 DEF recv_data, PageOK, LocalOK
  <1>7. CASE RecvTake(t)
    <2>1. PcOK'
      BY <1>7, <1>l, GotoType DEF RecvTake
    <2>2. LocalOK'
      <3> DEFINE n == Chunk(inlen[t] - off[t])
      <3> DEFINE new == [i \in 1..inlen[t] |-> IF off[t] < i /\ i <= off[t] + n
                                               THEN data[i - off[t]]
                                               ELSE in[t][i]]
      <3>1. n \in Int /\ n <= Size /\ inlen[t] \in Nat /\ off[t] \in Nat
        BY SizeAssumption DEF Chunk, LocalOK
      <3>2. \A i \in 1..inlen[t] : off[t] < i /\ i <= off[t] + n => i - off[t] \in 1..Size
        BY <3>1, SizeAssumption
      <3>3. new \in [1..inlen[t] -> Bytes]
        BY <3>2 DEF PageOK, LocalOK
      <3>4. in' = [in EXCEPT ![t] = new]
        BY <1>7 DEF RecvTake
      <3> HIDE DEF new
      <3>5. QED
        BY <1>7, <3>3, <3>4 DEF RecvTake, LocalOK
    <2>3. QED
      BY <1>7, <2>1, <2>2 DEF RecvTake, PageOK
  <1>8. CASE RecvLower(t)
    <2>1. PcOK'
      BY <1>8, <1>l, GotoType DEF RecvLower
    <2>2. off' \in [Threads -> Nat]
      BY <1>8, SizeAssumption DEF RecvLower, Chunk, LocalOK
    <2>3. PageOK'
      BY <1>8 DEF RecvLower, lower_flag, PageOK
    <2>4. QED
      BY <1>8, <2>1, <2>2, <2>3 DEF RecvLower, LocalOK
  <1>9. QED
    BY <1>1, <1>2, <1>3, <1>4, <1>5, <1>6, <1>7, <1>8 DEF Transfer

(* So do the steps of sync_send.                                           *)
LEMMA SendType ==
  ASSUME TypeOK, NEW s \in Senders, SendStart(s) \/ SendSignal(s) \/ Send(s)
  PROVE  TypeOK'
  <1> USE DEF TypeOK, chan, local
  <1>s. s \in Threads /\ s # Server
    BY ServerAssumption DEF Threads
  <1>l. {"lock", "err", "len", "wait", "sleep", "send", "rlen", "reset", "wake", "idle"} \subseteq SenderLabels
    BY DEF SenderLabels
  <1>1. CASE SendStart(s)
    <2>1. PcOK'
      BY <1>1, <1>l, <1>s, GotoType DEF SendStart
    <2>2. LocalOK'
      <3> DEFINE new == [i \in 1..0 |-> Junk]
      <3>1. new \in [1..0 -> Bytes]
        OBVIOUS
      <3>2. PICK n \in ReqLens : len' = [len EXCEPT ![s] = n]
        BY <1>1 DEF SendStart
      <3>3. /\ tag' = [tag EXCEPT ![s] = msgs + 1]
            /\ off' = [off EXCEPT ![s] = 0]
            /\ inlen' = [inlen EXCEPT ![s] = 0]
            /\ in' = [in EXCEPT ![s] = new]
        BY <1>1 DEF SendStart
      <3> HIDE DEF new
      <3>4. /\ tag' \in [Threads -> Nat]
            /\ len' \in [Threads -> Nat]
            /\ off' \in [Threads -> Nat]
            /\ inlen' \in [Threads -> Nat]
        BY <1>s, <3>2, <3>3, LensAssumption DEF LocalOK
      <3>5. QED
        BY <1>s, <3>1, <3>3, <3>4 DEF LocalOK
    <2>3. QED
      BY <1>1, <2>1, <2>2 DEF SendStart, PageOK
  <1>2. CASE SendSignal(s)
    <2>1. PcOK'
      BY <1>2, <1>l, <1>s, GotoType DEF SendSignal
    <2>2. QED
      BY <1>2, <2>1 DEF SendSignal, PageOK, LocalOK
  <1>3. CASE SendAcquire(s)
    <2>1. PcOK'
      BY <1>3, <1>l, <1>s, GotoType DEF SendAcquire
    <2>2. flags' \in SUBSET Flags
      BY <1>3 DEF SendAcquire, Flags, PageOK
    <2>3. QED
      BY <1>3, <2>1, <2>2 DEF SendAcquire, PageOK, LocalOK
  <1>4. CASE SendWait(s)
    <2>1. PcOK'
      BY <1>4, <1>l, <1>s, GotoType DEF SendWait
    <2>2. QED
      BY <1>4, <2>1 DEF SendWait, PageOK, LocalOK
  <1>5. CASE SendIpi(s)
    <2>1. PcOK'
      BY <1>5, <1>l, <1>s, GotoType DEF SendIpi
    <2>2. QED
      BY <1>5, <2>1 DEF SendIpi, PageOK, LocalOK
  <1>6. CASE SendDone(s)
    <2>1. PcOK'
      BY <1>6, <1>l, <1>s, GotoType DEF SendDone
    <2>2. QED
      BY <1>6, <2>1 DEF SendDone, PageOK, LocalOK
  <1>7. CASE SendReset(s)
    <2>1. PcOK'
      BY <1>7, <1>l, <1>s, GotoType DEF SendReset
    <2>2. QED
      BY <1>7, <2>1 DEF SendReset, reset_flags, PageOK, LocalOK
  <1>8. CASE SendReturn(s)
    <2>1. PcOK'
      <3>1. "wait" \in SenderLabels /\ "idle" \in SenderLabels /\ "sleep" \notin ServerLabels
        BY DEF SenderLabels, ServerLabels
      <3>2. pc'[Server] = pc[Server]
        BY <1>8, <1>s, <3>1 DEF SendReturn, PcOK, Threads
      <3>3. \A u \in Senders : pc'[u] \in SenderLabels
        BY <1>8, <3>1 DEF SendReturn, PcOK, Threads
      <3>4. pc' \in [Threads -> SenderLabels \union ServerLabels]
        BY <1>8, <3>1 DEF SendReturn, PcOK
      <3>5. QED
        BY <3>2, <3>3, <3>4 DEF PcOK
    <2>2. QED
      BY <1>8, <2>1 DEF SendReturn, PageOK, LocalOK
  <1>9. QED
    BY <1>1, <1>2, <1>3, <1>4, <1>5, <1>6, <1>7, <1>8 DEF Send

(* And those of the server and of the channel's life.                      *)
LEMMA ServeType ==
  ASSUME TypeOK, irq_handler \/ Serve \/ Life
  PROVE  TypeOK'
  <1> USE DEF TypeOK, chan, local
  <1>s. Server \in Threads
    BY DEF Threads
  <1>l. /\ {"down", "init", "idle", "rlen", "len", "complete", "send"} \subseteq ServerLabels
        /\ {"halted", "boot", "idle"} \subseteq SenderLabels
    BY DEF SenderLabels, ServerLabels
  <1>1. CASE irq_handler
    BY <1>1 DEF irq_handler, raise_flag, PcOK, PageOK, LocalOK, Flags
  <1>2. CASE ServeBegin
    <2>1. PcOK'
      BY <1>2, <1>l, <1>s, GotoType DEF ServeBegin
    <2>2. QED
      BY <1>2, <2>1 DEF ServeBegin, PageOK, LocalOK
  <1>3. CASE pisces_xbuf_complete
    <2>1. PcOK'
      BY <1>3, <1>l, <1>s, GotoType DEF pisces_xbuf_complete
    <2>2. ReadTag(Server) \in Nat
      <3>1. CASE inlen[Server] > 0
        <4>1. inlen[Server] \in Nat /\ in[Server] \in [1..inlen[Server] -> Bytes]
          BY <1>s DEF LocalOK
        <4>2. 1 \in 1..inlen[Server]
          BY <4>1, <3>1
        <4>3. in[Server][1] \in Bytes
          BY <4>1, <4>2
        <4>4. QED
          BY <4>3, <3>1 DEF ReadTag, Bytes
      <3>2. CASE ~(inlen[Server] > 0)
        BY <3>2 DEF ReadTag, Junk, Byte
      <3>3. QED
        BY <3>1, <3>2
    <2>3. LocalOK'
      <3>1. CASE "active" \notin flags
        BY <1>3, <3>1 DEF pisces_xbuf_complete, LocalOK
      <3>2. CASE "active" \in flags
        <4>1. PICK n \in RespLens :
                 /\ tag' = [tag EXCEPT ![Server] = ReadTag(Server)]
                 /\ len' = [len EXCEPT ![Server] = n]
                 /\ off' = [off EXCEPT ![Server] = 0]
          BY <1>3, <3>2 DEF pisces_xbuf_complete
        <4>2. UNCHANGED <<inlen, in>> /\ n \in Nat
          BY <1>3, <4>1, LensAssumption DEF pisces_xbuf_complete
        <4>3. QED
          BY <1>s, <2>2, <4>1, <4>2 DEF LocalOK
      <3>3. QED
        BY <3>1, <3>2
    <2>4. QED
      BY <1>3, <2>1, <2>3 DEF pisces_xbuf_complete, PageOK
  <1>4. CASE RaiseComplete
    <2>1. PcOK'
      BY <1>4, <1>l, <1>s, GotoType DEF RaiseComplete
    <2>2. QED
      BY <1>4, <2>1 DEF RaiseComplete, raise_flag, PageOK, LocalOK, Flags
  <1>5. CASE pisces_xbuf_server_init
    <2>1. PcOK'
      BY <1>5, <1>l, <1>s, ServerAssumption DEF pisces_xbuf_server_init, PcOK, Threads
    <2>2. PageOK'
      BY <1>5, ByteType DEF pisces_xbuf_server_init, set_flags, PageOK
    <2>3. LocalOK' /\ inits' \in Nat
      BY <1>5 DEF pisces_xbuf_server_init, LocalOK
    <2>4. QED
      BY <1>5, <2>1, <2>2, <2>3 DEF pisces_xbuf_server_init
  <1>6. CASE pisces_xbuf_enable
    <2>1. PcOK'
      BY <1>6, <1>l, <1>s, GotoType DEF pisces_xbuf_enable
    <2>2. QED
      BY <1>6, <2>1 DEF pisces_xbuf_enable, set_flags, PageOK, LocalOK, Flags
  <1>7. CASE pisces_xbuf_disable
    <2>1. PcOK'
      BY <1>7, <1>l, <1>s, GotoType DEF pisces_xbuf_disable
    <2>2. QED
      BY <1>7, <2>1 DEF pisces_xbuf_disable, lower_flag, PageOK, LocalOK
  <1>8. CASE BootSenders \/ StopSenders
    <2>1. PcOK'
      BY <1>8, <1>l, <1>s, ServerAssumption DEF BootSenders, StopSenders, PcOK, Threads
    <2>2. QED
      BY <1>8, <2>1 DEF BootSenders, StopSenders, PageOK, LocalOK
  <1>9. CASE ServeAbandon
    <2>1. PcOK'
      BY <1>9, <1>l, <1>s, GotoType DEF ServeAbandon
    <2>2. QED
      BY <1>9, <2>1 DEF ServeAbandon, PageOK, LocalOK
  <1>10. QED
    BY <1>1, <1>2, <1>3, <1>4, <1>5, <1>6, <1>7, <1>8, <1>9 DEF Serve, Life

(* Every variable of the channel keeps its type, for every instance.       *)
THEOREM TypeCorrect == Spec => []TypeOK
  <1>1. Init => TypeOK
    <2> SUFFICES ASSUME Init PROVE TypeOK
      OBVIOUS
    <2>1. PcOK
      BY ServerAssumption DEF Init, PcOK, Threads, SenderLabels, ServerLabels
    <2>2. PageOK
      BY ByteType DEF Init, PageOK
    <2>3. LocalOK
      <3>1. [i \in 1..0 |-> Junk] \in [1..0 -> Bytes]
        OBVIOUS
      <3>2. QED
        BY <3>1 DEF Init, LocalOK
    <2>4. QED
      BY <2>1, <2>2, <2>3 DEF Init, TypeOK
  <1>2. TypeOK /\ [Next]_vars => TypeOK'
    <2> SUFFICES ASSUME TypeOK, [Next]_vars PROVE TypeOK'
      OBVIOUS
    <2>1. CASE UNCHANGED vars
      BY <2>1 DEF vars, TypeOK, PcOK, PageOK, LocalOK
    <2>2. CASE Next
      BY <2>2, TransferType, SendType, ServeType DEF Next
    <2>3. QED
      BY <2>1, <2>2
  <1>3. QED
    BY <1>1, <1>2, PTL DEF Spec

-----------------------------------------------------------------------------
(***************************************************************************)
(* The channel's control.                                                  *)
(***************************************************************************)

(* What Goto does to the labels, and where a thread cannot be.             *)
LEMMA GotoFact ==
  ASSUME PcOK, NEW t \in Threads, NEW l, Goto(t, l)
  PROVE  /\ pc'[t] = l
         /\ \A u \in Threads \ {t} : pc'[u] = pc[u]
  BY DEF PcOK, Goto

(* The transfer routines preserve the invariant.                           *)
LEMMA TransferInv ==
  ASSUME TypeOK, ControlInv, NEW t \in Threads, Transfer(t)
  PROVE  ControlInv'
  <1> USE DEF ControlInv, LifeInv, OneOwner, PhaseInv, ReplyInv, ServerSurvives, Owners,
              Owning, Serving, Fetching, chan, local
  <1>t. /\ PcOK /\ Server \in Threads /\ Senders \subseteq Threads
        /\ \A u \in Threads : u = Server \/ u \in Senders
    BY DEF TypeOK, Threads
  <1>1. CASE StageLen(t)
    BY <1>1, <1>t, ServerAssumption, GotoFact DEF StageLen
  <1>2. CASE StagePut(t)
    BY <1>2, <1>t, ServerAssumption, GotoFact DEF StagePut
  <1>o. off \in [Threads -> Nat] /\ len \in [Threads -> Nat]
    BY DEF TypeOK, LocalOK
  <1>3. CASE StageMark(t)
    <2>1. /\ off'[t] = off[t] + Chunk(len[t] - off[t])
          /\ \A u \in Threads \ {t} : off'[u] = off[u]
      BY <1>3, <1>o DEF StageMark
    <2>2. flags' = flags \union {"staged"} /\ UNCHANGED <<ipi, notified, len>>
      BY <1>3 DEF StageMark, raise_flag
    <2>3. CASE t = Server
      <3>1. off[Server] < len[Server]
        BY <1>3, <2>3 DEF StageMark
      <3>2. off'[Server] > 0
        BY <3>1, <2>1, <2>3, <1>o, <1>t, SizeAssumption DEF Chunk
      <3>3. pc'[Server] = IF off[Server] > 0 THEN "send" ELSE "complete"
        BY <1>3, <1>t, <2>3, GotoFact DEF StageMark
      <3>4. QED
        BY <1>3, <1>o, <1>t, <2>2, <2>3, <3>2, <3>3, ServerAssumption, GotoFact DEF StageMark
    <2>4. CASE t # Server
      <3>1. t \in Senders /\ off'[Server] = off[Server]
        BY <1>t, <2>1, <2>4
      <3>2. QED
        BY <1>3, <1>t, <2>2, <2>4, <3>1, GotoFact DEF StageMark
    <2>5. QED
      BY <2>3, <2>4
  <1>4. CASE send_data(t)
    BY <1>4, <1>t, ServerAssumption, GotoFact DEF send_data, AfterSend
  <1>5. CASE RecvLen(t)
    <2>1. t = Server => "active" \in flags
      BY <1>5 DEF RecvLen
    <2>2. Goto(t, "recv") /\ UNCHANGED <<flags, ipi, notified, len>>
      BY <1>5, <2>1 DEF RecvLen
    <2>3. \A u \in Threads \ {t} : off'[u] = off[u]
      BY <1>5, <1>o, <2>1 DEF RecvLen
    <2>4. CASE t = Server
      BY <1>5, <1>t, <2>2, <2>4, ServerAssumption, GotoFact DEF RecvLen
    <2>5. CASE t # Server
      BY <1>5, <1>t, <2>2, <2>3, <2>5, ServerAssumption, GotoFact DEF RecvLen
    <2>6. QED
      BY <2>4, <2>5
  <1>6. CASE recv_data(t)
    BY <1>6, <1>t, ServerAssumption, GotoFact DEF recv_data, AfterRecv
  <1>7. CASE RecvTake(t)
    BY <1>7, <1>t, ServerAssumption, GotoFact DEF RecvTake
  <1>8. CASE RecvLower(t)
    BY <1>8, <1>t, ServerAssumption, GotoFact DEF RecvLower, lower_flag
  <1>9. QED
    BY <1>1, <1>2, <1>3, <1>4, <1>5, <1>6, <1>7, <1>8 DEF Transfer

(* The steps of sync_send preserve it.                                     *)
LEMMA SendInv ==
  ASSUME TypeOK, ControlInv, NEW s \in Senders, SendStart(s) \/ SendSignal(s) \/ Send(s)
  PROVE  ControlInv'
  <1> USE DEF ControlInv, LifeInv, OneOwner, PhaseInv, ReplyInv, ServerSurvives, Owners,
              Owning, Serving, Fetching, chan, local
  <1>s. /\ PcOK /\ Server \in Threads /\ Senders \subseteq Threads
        /\ s \in Threads /\ Server # s
    BY ServerAssumption DEF TypeOK, Threads
  <1>1. CASE SendStart(s)
    BY <1>1, <1>s, GotoFact DEF SendStart
  <1>2. CASE SendSignal(s)
    BY <1>2, <1>s, GotoFact DEF SendSignal
  <1>3. CASE SendAcquire(s)
    BY <1>3, <1>s, GotoFact DEF SendAcquire
  <1>4. CASE SendWait(s)
    BY <1>4, <1>s, GotoFact DEF SendWait
  <1>5. CASE SendIpi(s)
    <2>1. pc[Server] # "init"
      BY <1>5, <1>s DEF SendIpi
    <2>2. pc[Server] = "down" => ~ipi'
      BY <1>5 DEF SendIpi
    <2>3. QED
      BY <1>5, <1>s, <2>1, <2>2, GotoFact DEF SendIpi
  <1>6. CASE SendDone(s)
    BY <1>6, <1>s, GotoFact DEF SendDone
  <1>7. CASE SendReset(s)
    BY <1>7, <1>s, GotoFact DEF SendReset, reset_flags
  <1>8. CASE SendReturn(s)
    BY <1>8, <1>s DEF SendReturn, PcOK, ServerLabels
  <1>9. QED
    BY <1>1, <1>2, <1>3, <1>4, <1>5, <1>6, <1>7, <1>8 DEF Send

(* So do those of the server and of the channel's life.                    *)
LEMMA ServeInv ==
  ASSUME TypeOK, ControlInv, irq_handler \/ Serve \/ Life
  PROVE  ControlInv'
  <1> USE DEF ControlInv, LifeInv, OneOwner, PhaseInv, ReplyInv, ServerSurvives, Owners,
              Owning, Serving, Fetching, chan, local
  <1>s. /\ PcOK /\ Server \in Threads /\ Senders \subseteq Threads
        /\ Server \notin Senders
    BY ServerAssumption DEF TypeOK, Threads
  <1>1. CASE irq_handler
    <2>1. ipi /\ ~ipi' /\ "ready" \in flags
      BY <1>1 DEF irq_handler
    <2>2. CASE "pending" \in flags /\ "active" \notin flags
      <3>1. flags' = flags \union {"active"} /\ notified' = TRUE /\ ~Serving
        BY <1>1, <2>1, <2>2 DEF irq_handler, raise_flag
      <3>2. "complete" \notin flags
        BY <2>2
      <3>3. QED
        BY <1>1, <1>s, <2>1, <2>2, <3>1, <3>2 DEF irq_handler
    <2>3. CASE ~("pending" \in flags /\ "active" \notin flags)
      BY <1>1, <1>s, <2>1, <2>3 DEF irq_handler
    <2>4. QED
      BY <2>2, <2>3
  <1>2. CASE ServeBegin
    BY <1>2, <1>s, GotoFact DEF ServeBegin
  <1>3. CASE pisces_xbuf_complete
    <2>1. "active" \in flags /\ UNCHANGED <<flags, ipi, notified>>
      BY <1>3 DEF pisces_xbuf_complete
    <2>2. PICK n \in RespLens :
             /\ len' = [len EXCEPT ![Server] = n]
             /\ off' = [off EXCEPT ![Server] = 0]
             /\ Goto(Server, IF n > 0 THEN "len" ELSE "complete")
      BY <1>3, <2>1 DEF pisces_xbuf_complete
    <2>3. len'[Server] = n /\ off'[Server] = 0 /\ n \in Nat
      BY <2>2, <1>s, LensAssumption DEF TypeOK, LocalOK
    <2>4. pc'[Server] = IF n > 0 THEN "len" ELSE "complete"
      BY <2>2, <1>s, GotoFact
    <2>5. \A s \in Senders : pc'[s] = pc[s]
      BY <2>2, <1>s, GotoFact
    <2>6. Serving
      BY <1>3 DEF pisces_xbuf_complete
    <2>7. QED
      BY <1>3, <1>s, <2>1, <2>3, <2>4, <2>5, <2>6 DEF pisces_xbuf_complete
  <1>4. CASE RaiseComplete
    BY <1>4, <1>s, GotoFact DEF RaiseComplete, raise_flag
  <1>5. CASE pisces_xbuf_server_init
    BY <1>5, <1>s DEF pisces_xbuf_server_init, set_flags
  <1>6. CASE pisces_xbuf_enable
    BY <1>6, <1>s, GotoFact DEF pisces_xbuf_enable, set_flags
  <1>7. CASE pisces_xbuf_disable
    BY <1>7, <1>s, GotoFact DEF pisces_xbuf_disable, lower_flag
  <1>8. CASE BootSenders
    BY <1>8, <1>s DEF BootSenders
  <1>9. CASE StopSenders
    BY <1>9, <1>s DEF StopSenders
  <1>10. CASE ServeAbandon
    BY <1>10, <1>s, GotoFact DEF ServeAbandon
  <1>11. QED
    BY <1>1, <1>2, <1>3, <1>4, <1>5, <1>6, <1>7, <1>8, <1>9, <1>10 DEF Serve, Life

(* The transfer routines preserve the lengths.                             *)
LEMMA TransferLen ==
  ASSUME TypeOK, ControlInv, LenInv, NEW t \in Threads, Transfer(t)
  PROVE  LenInv'
  <1> USE DEF LenInv, chan, local
  <1>t. /\ PcOK /\ Server \in Threads /\ Senders \subseteq Threads
        /\ Server \notin Senders
        /\ \A u \in Threads : u = Server \/ u \in Senders
    BY ServerAssumption DEF TypeOK, Threads
  <1>o. /\ off \in [Threads -> Nat] /\ len \in [Threads -> Nat]
        /\ inlen \in [Threads -> Nat] /\ data_len \in Nat
    BY DEF TypeOK, LocalOK, PageOK
  <1>1. CASE StageLen(t)
    <2>1. data_len' > 0
      BY <1>1, <1>t DEF StageLen, ControlInv, ReplyInv
    <2>2. QED
      BY <1>1, <2>1, <1>t, GotoFact DEF StageLen
  <1>2. CASE StagePut(t)
    BY <1>2, <1>t, GotoFact DEF StagePut
  <1>3. CASE StageMark(t)
    <2>1. data_len > 0 /\ UNCHANGED <<data_len, len, inlen>>
      BY <1>3 DEF StageMark
    <2>2. QED
      BY <1>3, <2>1, <1>t, GotoFact DEF StageMark, raise_flag
  <1>4. CASE send_data(t)
    BY <1>4, <1>t, GotoFact DEF send_data, AfterSend
  <1>5. CASE RecvLen(t)
    <2>1. \A u \in Threads \ {t} : off'[u] = off[u] /\ inlen'[u] = inlen[u]
      BY <1>5, <1>o DEF RecvLen
    <2>2. t \in Senders => inlen'[t] > 0
      BY <1>5, <1>o, <1>t DEF RecvLen
    <2>3. pc'[t] \in {"recv", "dead"} /\ UNCHANGED <<flags, data_len, len>>
      BY <1>5, <1>t, GotoFact DEF RecvLen
    <2>4. \A u \in Threads \ {t} : pc'[u] = pc[u]
      BY <1>5, <1>t, GotoFact DEF RecvLen
    <2>5. QED
      BY <1>t, <2>1, <2>2, <2>3, <2>4
  <1>6. CASE recv_data(t)
    BY <1>6, <1>t, GotoFact DEF recv_data, AfterRecv
  <1>7. CASE RecvTake(t)
    BY <1>7, <1>t, GotoFact DEF RecvTake
  <1>8. CASE RecvLower(t)
    <2>1. \A u \in Threads \ {t} : off'[u] = off[u]
      BY <1>8, <1>o DEF RecvLower
    <2>2. flags' \subseteq flags /\ UNCHANGED <<data_len, len, inlen>>
      BY <1>8 DEF RecvLower, lower_flag
    <2>3. QED
      BY <1>8, <2>1, <2>2, <1>t, GotoFact DEF RecvLower
  <1>9. QED
    BY <1>1, <1>2, <1>3, <1>4, <1>5, <1>6, <1>7, <1>8 DEF Transfer

(* The steps of sync_send preserve them.                                   *)
LEMMA SendLen ==
  ASSUME TypeOK, LenInv, NEW s \in Senders, SendStart(s) \/ SendSignal(s) \/ Send(s)
  PROVE  LenInv'
  <1> USE DEF LenInv, chan, local
  <1>s. /\ PcOK /\ Server \in Threads /\ Senders \subseteq Threads
        /\ s \in Threads /\ Server # s
        /\ \A u \in Threads : u = Server \/ u \in Senders
    BY ServerAssumption DEF TypeOK, Threads
  <1>1. CASE SendStart(s)
    <2>1. PICK n \in ReqLens : len' = [len EXCEPT ![s] = n]
      BY <1>1 DEF SendStart
    <2>2. len'[s] > 0 /\ \A u \in Threads \ {s} : len'[u] = len[u]
      BY <1>s, <2>1, LensAssumption DEF TypeOK, LocalOK
    <2>3. \A u \in Threads \ {s} : off'[u] = off[u] /\ inlen'[u] = inlen[u]
      BY <1>1 DEF SendStart, TypeOK, LocalOK
    <2>4. pc'[s] = "lock" /\ \A u \in Threads \ {s} : pc'[u] = pc[u]
      BY <1>1, <1>s, GotoFact DEF SendStart
    <2>5. UNCHANGED <<flags, data_len>>
      BY <1>1 DEF SendStart
    <2>6. QED
      BY <1>s, <2>2, <2>3, <2>4, <2>5
  <1>2. CASE SendSignal(s)
    BY <1>2, <1>s, GotoFact DEF SendSignal
  <1>3. CASE SendAcquire(s)
    BY <1>3, <1>s, GotoFact DEF SendAcquire
  <1>4. CASE SendWait(s)
    BY <1>4, <1>s, GotoFact DEF SendWait
  <1>5. CASE SendIpi(s)
    BY <1>5, <1>s, GotoFact DEF SendIpi
  <1>6. CASE SendDone(s)
    BY <1>6, <1>s, GotoFact DEF SendDone
  <1>7. CASE SendReset(s)
    BY <1>7, <1>s, GotoFact DEF SendReset, reset_flags
  <1>8. CASE SendReturn(s)
    BY <1>8, <1>s DEF SendReturn
  <1>9. QED
    BY <1>1, <1>2, <1>3, <1>4, <1>5, <1>6, <1>7, <1>8 DEF Send

(* So do those of the server and of the channel's life.                    *)
LEMMA ServeLen ==
  ASSUME TypeOK, LenInv, irq_handler \/ Serve \/ Life
  PROVE  LenInv'
  <1> USE DEF LenInv, chan, local
  <1>s. /\ PcOK /\ Server \in Threads /\ Senders \subseteq Threads
        /\ Server \notin Senders
        /\ \A u \in Threads : u = Server \/ u \in Senders
    BY ServerAssumption DEF TypeOK, Threads
  <1>1. CASE irq_handler
    BY <1>1, <1>s DEF irq_handler, raise_flag
  <1>2. CASE ServeBegin
    BY <1>2, <1>s, GotoFact DEF ServeBegin
  <1>3. CASE pisces_xbuf_complete
    <2>1. UNCHANGED <<flags, data_len, inlen>>
      BY <1>3 DEF pisces_xbuf_complete
    <2>2. \A s \in Senders : pc'[s] = pc[s] /\ off'[s] = off[s] /\ len'[s] = len[s]
      BY <1>3, <1>s, GotoFact DEF pisces_xbuf_complete, TypeOK, LocalOK
    <2>3. CASE "active" \notin flags
      BY <1>3, <1>s, <2>1, <2>2, <2>3, GotoFact DEF pisces_xbuf_complete
    <2>4. CASE "active" \in flags
      <3>1. PICK n \in RespLens :
              /\ len' = [len EXCEPT ![Server] = n]
              /\ off' = [off EXCEPT ![Server] = 0]
              /\ Goto(Server, IF n > 0 THEN "len" ELSE "complete")
        BY <1>3, <2>4 DEF pisces_xbuf_complete
      <3>2. pc'[Server] = "len" \/ (pc'[Server] = "complete" /\ ~(off'[Server] < len'[Server]))
        BY <1>s, <3>1, GotoFact, LensAssumption DEF TypeOK, LocalOK
      <3>3. QED
        BY <1>s, <2>1, <2>2, <3>2
    <2>5. QED
      BY <2>3, <2>4
  <1>4. CASE RaiseComplete
    BY <1>4, <1>s, GotoFact DEF RaiseComplete, raise_flag
  <1>5. CASE pisces_xbuf_server_init
    BY <1>5, <1>s DEF pisces_xbuf_server_init, set_flags
  <1>6. CASE pisces_xbuf_enable
    BY <1>6, <1>s, GotoFact DEF pisces_xbuf_enable, set_flags
  <1>7. CASE pisces_xbuf_disable
    BY <1>7, <1>s, GotoFact DEF pisces_xbuf_disable, lower_flag
  <1>8. CASE BootSenders
    BY <1>8, <1>s DEF BootSenders
  <1>9. CASE StopSenders
    BY <1>9, <1>s DEF StopSenders
  <1>10. CASE ServeAbandon
    BY <1>10, <1>s, GotoFact DEF ServeAbandon
  <1>11. QED
    BY <1>1, <1>2, <1>3, <1>4, <1>5, <1>6, <1>7, <1>8, <1>9, <1>10 DEF Serve, Life

(* The invariant of the channel holds of every instance.                   *)
THEOREM ChannelSafe == Spec => []ChannelInv
  <1>1. Init => ControlInv
    BY ServerAssumption DEF Init, ControlInv, LifeInv, OneOwner, PhaseInv, ReplyInv,
       ServerSurvives, Owners, Owning, Serving, Fetching, Threads
  <1>2. Init => LenInv
    BY ServerAssumption DEF Init, LenInv, Threads
  <1>3. TypeOK /\ ChannelInv /\ [Next]_vars => ChannelInv'
    <2> SUFFICES ASSUME TypeOK, ControlInv, LenInv, [Next]_vars
                 PROVE  ControlInv' /\ LenInv'
      BY DEF ChannelInv
    <2>1. CASE UNCHANGED vars
      <3>1. ControlInv'
        BY <2>1 DEF vars, ControlInv, LifeInv, OneOwner, PhaseInv, ReplyInv,
           ServerSurvives, Owners, Serving
      <3>2. LenInv'
        BY <2>1 DEF vars, LenInv
      <3>3. QED
        BY <3>1, <3>2
    <2>2. CASE Next
      <3>1. ControlInv'
        BY <2>2, TransferInv, SendInv, ServeInv DEF Next
      <3>2. LenInv'
        BY <2>2, TransferLen, SendLen, ServeLen DEF Next
      <3>3. QED
        BY <3>1, <3>2
    <2>3. QED
      BY <2>1, <2>2
  <1>4. QED
    BY <1>1, <1>2, <1>3, TypeCorrect, PTL DEF Spec, ChannelInv

(* Two threads in sync_send never use the page at the same time.           *)
THEOREM MutualExclusion == Spec => []OneOwner
  <1>1. ChannelInv => OneOwner
    BY DEF ChannelInv, ControlInv
  <1>2. QED
    BY <1>1, ChannelSafe, PTL

(* The serving thread never gives up on a request it was told of.          *)
THEOREM ServerNeverDies == Spec => []ServerSurvives
  <1>1. ChannelInv => ServerSurvives
    BY DEF ChannelInv, ControlInv
  <1>2. QED
    BY <1>1, ChannelSafe, PTL

-----------------------------------------------------------------------------
(***************************************************************************)
(* The xbuf implements the abstract call channel.                          *)
(***************************************************************************)

(* The callers' states in the abstract channel.                            *)
stBar == [s \in Senders |-> CallState(s)]

(* A step that moves no sender between call states and leaves READY alone  *)
(* is a stutter of the channel.                                            *)
LEMMA SameCalls ==
  ASSUME \A s \in Senders : CallState(s)' = CallState(s),
         ("ready" \in flags') <=> ("ready" \in flags)
  PROVE  UNCHANGED Rpc!vars
  <1>1. ("ready" \in flags)' = ("ready" \in flags)
    OBVIOUS
  <1>2. [s \in Senders |-> CallState(s)]' = [s \in Senders |-> CallState(s)]
    OBVIOUS
  <1>3. QED
    BY <1>1, <1>2 DEF Rpc!vars

(* A step that moves one sender from one call state to another.            *)
LEMMA OneCall ==
  ASSUME NEW s \in Senders, NEW from, NEW to,
         CallState(s) = from, CallState(s)' = to,
         \A u \in Senders \ {s} : CallState(u)' = CallState(u)
  PROVE  Rpc!Step(s, from, to)
  <1>1. stBar' = [stBar EXCEPT ![s] = to]
    BY DEF stBar
  <1>2. stBar[s] = from
    BY DEF stBar
  <1>3. QED
    BY <1>1, <1>2 DEF Rpc!Step, stBar

(* The transfer routines of the server move no call; those of a sender     *)
(* only give a call up, on a disabled channel.                             *)
LEMMA TransferRpc ==
  ASSUME TypeOK, ChannelInv, NEW t \in Threads, Transfer(t)
  PROVE  [Rpc!Next]_(Rpc!vars)
  <1>s. /\ PcOK /\ Server \notin Senders /\ Senders \subseteq Threads
        /\ \A u \in Threads : u = Server \/ u \in Senders
    BY ServerAssumption DEF TypeOK, Threads
  <1>f. /\ ("ready" \in flags') <=> ("ready" \in flags)
        /\ ("complete" \in flags') <=> ("complete" \in flags)
    BY DEF Transfer, StageLen, StagePut, StageMark, send_data, RecvLen, recv_data,
           RecvTake, RecvLower, raise_flag, lower_flag, chan
  <1>o. \A u \in Senders \ {t} : CallState(u)' = CallState(u)
    <2>1. \A u \in Senders \ {t} : pc'[u] = pc[u]
      BY <1>s, GotoFact DEF Transfer, StageLen, StagePut, StageMark, send_data,
         RecvLen, recv_data, RecvTake, RecvLower
    <2>2. QED
      BY <1>f, <2>1 DEF CallState
  <1>1. CASE t = Server \/ pc'[t] # "err"
    <2>1. t # Server => CallState(t)' = CallState(t)
      <3> SUFFICES ASSUME t # Server PROVE CallState(t)' = CallState(t)
        OBVIOUS
      <3>1. pc[t] \in Owning /\ pc'[t] \in Owning
        BY <1>s, <1>1, GotoFact DEF Transfer, StageLen, StagePut, StageMark, send_data,
           RecvLen, recv_data, RecvTake, RecvLower, AfterSend, AfterRecv, Owning
      <3>2. QED
        BY <1>f, <3>1 DEF CallState, Owning
    <2>2. \A u \in Senders : CallState(u)' = CallState(u)
      BY <1>o, <2>1, <1>s
    <2>3. QED
      BY <2>2, <1>f, SameCalls
  <1>2. CASE t # Server /\ pc'[t] = "err"
    <2>1. recv_data(t) /\ "ready" \notin flags
      BY <1>s, <1>2, GotoFact DEF Transfer, StageLen, StagePut, StageMark, send_data,
         RecvLen, recv_data, RecvTake, RecvLower, AfterSend, AfterRecv, ChannelInv,
         LenInv, TypeOK, LocalOK
    <2>2. CallState(t) = "served" /\ CallState(t)' = "idle"
      BY <1>s, <1>2, <2>1 DEF recv_data, CallState, ChannelInv, ControlInv, PhaseInv, Fetching
    <2>3. Rpc!Step(t, "served", "idle")
      BY <1>s, <1>2, <1>o, <2>2, OneCall
    <2>4. Rpc!Fail(t)
      BY <1>f, <2>1, <2>3 DEF Rpc!Fail
    <2>5. QED
      BY <1>s, <1>2, <2>4 DEF Rpc!Next
  <1>3. QED
    BY <1>1, <1>2

(* A step of sync_send is a step of its caller in the abstract channel.    *)
LEMMA SendRpc ==
  ASSUME TypeOK, ChannelInv, NEW s \in Senders, SendStart(s) \/ SendSignal(s) \/ Send(s)
  PROVE  [Rpc!Next]_(Rpc!vars)
  <1> USE DEF chan
  <1>s. PcOK /\ s \in Threads /\ Senders \subseteq Threads
    BY DEF TypeOK, Threads
  <1>r. ("ready" \in flags') <=> ("ready" \in flags)
    BY DEF SendStart, SendSignal, Send, SendAcquire, SendWait, SendIpi, SendDone,
           SendReset, SendReturn, reset_flags
  <1>1. CASE SendStart(s)
    <2>1. CallState(s) = "idle" /\ CallState(s)' = "waiting"
      BY <1>1, <1>s, GotoFact DEF SendStart, CallState
    <2>2. \A u \in Senders \ {s} : CallState(u)' = CallState(u)
      BY <1>1, <1>s, GotoFact DEF SendStart, CallState
    <2>3. Rpc!Call(s)
      BY <1>r, <2>1, <2>2, OneCall DEF Rpc!Call
    <2>4. QED
      BY <2>3 DEF Rpc!Next
  <1>2. CASE SendSignal(s) \/ SendWait(s) \/ SendIpi(s) \/ SendReturn(s)
    <2>1. \A u \in Senders : CallState(u)' = CallState(u)
      BY <1>2, <1>s, GotoFact DEF SendSignal, SendWait, SendIpi, SendReturn, CallState
    <2>2. QED
      BY <1>r, <2>1, SameCalls
  <1>3. CASE SendAcquire(s)
    <2>o. \A u \in Senders \ {s} : pc'[u] = pc[u]
      BY <1>3, <1>s, GotoFact DEF SendAcquire
    <2>1. CASE "ready" \notin flags
      <3>1. CallState(s) = "waiting" /\ CallState(s)' = "idle"
        BY <1>3, <1>s, <2>1, GotoFact DEF SendAcquire, CallState
      <3>2. \A u \in Senders \ {s} : CallState(u)' = CallState(u)
        BY <1>3, <2>1, <2>o DEF SendAcquire, CallState
      <3>3. Rpc!Fail(s)
        BY <1>r, <2>1, <3>1, <3>2, OneCall DEF Rpc!Fail
      <3>4. QED
        BY <3>3 DEF Rpc!Next
    <2>2. CASE "ready" \in flags /\ "pending" \notin flags
      <3>1. pc'[s] = "len" /\ "complete" \notin flags'
        BY <1>3, <1>s, <2>2, GotoFact DEF SendAcquire
      <3>2. CallState(s) = "waiting" /\ CallState(s)' = "begun"
        BY <1>3, <3>1 DEF SendAcquire, CallState
      <3>3. \A u \in Senders : pc[u] \in SenderLabels \ Owning
        BY <2>2 DEF ChannelInv, ControlInv, OneOwner, Owners, TypeOK, PcOK
      <3>4. \A u \in Senders : CallState(u) \in {"off", "idle", "waiting"}
        BY <3>3 DEF CallState, SenderLabels, Owning
      <3>5. \A u \in Senders \ {s} : CallState(u)' = CallState(u)
        BY <2>o, <3>3 DEF CallState, SenderLabels, Owning
      <3>6. Rpc!Busy = {}
        BY <3>4 DEF Rpc!Busy
      <3>7. Rpc!Begin(s)
        BY <1>r, <2>2, <3>2, <3>5, <3>6, OneCall DEF Rpc!Begin
      <3>8. QED
        BY <3>7 DEF Rpc!Next
    <2>3. CASE "ready" \in flags /\ "pending" \in flags
      <3>1. \A u \in Senders : CallState(u)' = CallState(u)
        BY <1>3, <1>s, <2>3, GotoFact DEF SendAcquire, CallState
      <3>2. QED
        BY <1>r, <3>1, SameCalls
    <2>4. QED
      BY <2>1, <2>2, <2>3
  <1>4. CASE SendDone(s)
    <2>o. UNCHANGED flags /\ \A u \in Senders \ {s} : pc'[u] = pc[u]
      BY <1>4, <1>s, GotoFact DEF SendDone
    <2>1. CASE "complete" \in flags
      <3>1. \A u \in Senders : CallState(u)' = CallState(u)
        BY <1>4, <1>s, <2>1, GotoFact DEF SendDone, CallState
      <3>2. QED
        BY <1>r, <3>1, SameCalls
    <2>2. CASE "complete" \notin flags
      <3>1. CallState(s) = "begun" /\ CallState(s)' = "idle" /\ "ready" \notin flags
        BY <1>4, <1>s, <2>2, GotoFact DEF SendDone, CallState
      <3>2. \A u \in Senders \ {s} : CallState(u)' = CallState(u)
        BY <2>o DEF CallState
      <3>3. Rpc!Fail(s)
        BY <1>r, <3>1, <3>2, OneCall DEF Rpc!Fail
      <3>4. QED
        BY <3>3 DEF Rpc!Next
    <2>3. QED
      BY <2>1, <2>2
  <1>5. CASE SendReset(s)
    <2>1. "complete" \in flags
      BY <1>5 DEF SendReset, ChannelInv, ControlInv, PhaseInv, Fetching
    <2>2. CallState(s) = "served" /\ CallState(s)' = "idle"
      BY <1>5, <1>s, <2>1, GotoFact DEF SendReset, CallState
    <2>3. \A u \in Senders \ {s} : pc'[u] = pc[u] /\ pc[u] \in SenderLabels \ Owning
      <3>1. s \in Owners
        BY <1>5 DEF SendReset, Owners, Owning
      <3>2. QED
        BY <1>5, <1>s, <3>1, GotoFact DEF SendReset, ChannelInv, ControlInv, OneOwner,
           Owners, TypeOK, PcOK
    <2>4. \A u \in Senders \ {s} : CallState(u)' = CallState(u)
      BY <2>3 DEF CallState, SenderLabels, Owning
    <2>5. Rpc!Return(s)
      BY <1>r, <2>2, <2>4, OneCall DEF Rpc!Return
    <2>6. QED
      BY <2>5 DEF Rpc!Next
  <1>6. QED
    BY <1>1, <1>2, <1>3, <1>4, <1>5 DEF Send

(* The server's COMPLETE is the call being served, unless its caller is    *)
(* gone; opening, closing, starting and stopping are what they say.        *)
LEMMA ServeRpc ==
  ASSUME TypeOK, ChannelInv, irq_handler \/ Serve \/ Life
  PROVE  [Rpc!Next]_(Rpc!vars)
  <1> USE DEF chan
  <1>s. PcOK /\ Server \in Threads /\ Senders \subseteq Threads /\ Server \notin Senders
    BY ServerAssumption DEF TypeOK, Threads
  <1>1. CASE irq_handler \/ ServeBegin \/ pisces_xbuf_complete \/ ServeAbandon
    <2>1. /\ ("ready" \in flags') <=> ("ready" \in flags)
          /\ ("complete" \in flags') <=> ("complete" \in flags)
      BY <1>1 DEF irq_handler, ServeBegin, pisces_xbuf_complete, ServeAbandon, raise_flag
    <2>2. \A u \in Senders : pc'[u] = pc[u]
      BY <1>1, <1>s, GotoFact DEF irq_handler, ServeBegin, pisces_xbuf_complete, ServeAbandon
    <2>3. \A u \in Senders : CallState(u)' = CallState(u)
      BY <2>1, <2>2 DEF CallState
    <2>4. QED
      BY <2>1, <2>3, SameCalls
  <1>2. CASE RaiseComplete
    <2>1. /\ "ready" \in flags /\ "ready" \in flags'
          /\ "complete" \notin flags /\ "complete" \in flags'
      BY <1>2 DEF RaiseComplete, raise_flag, ChannelInv, ControlInv, LifeInv, PhaseInv, Serving
    <2>2. \A u \in Senders : pc'[u] = pc[u] /\ pc[u] \in SenderLabels
      BY <1>2, <1>s, GotoFact DEF RaiseComplete, PcOK
    <2>3. \A u \in Senders : pc[u] \notin Owning => CallState(u)' = CallState(u)
      BY <2>2 DEF CallState, SenderLabels, Owning
    <2>4. \A u \in Senders : pc[u] \in Owning => CallState(u) = "begun" /\ CallState(u)' = "served"
      BY <2>1, <2>2 DEF CallState, Owning
    <2>5. CASE Owners = {}
      <3>1. \A u \in Senders : CallState(u)' = CallState(u)
        BY <2>3, <2>5 DEF Owners
      <3>2. QED
        BY <2>1, <3>1, SameCalls
    <2>6. CASE Owners # {}
      <3>1. PICK s \in Senders : pc[s] \in Owning
        BY <2>6 DEF Owners
      <3>2. \A u \in Senders \ {s} : pc[u] \notin Owning
        BY <3>1 DEF ChannelInv, ControlInv, OneOwner, Owners
      <3>3. Rpc!Step(s, "begun", "served")
        BY <2>3, <2>4, <3>1, <3>2, OneCall
      <3>4. Rpc!Serve(s)
        BY <2>1, <3>3 DEF Rpc!Serve
      <3>5. QED
        BY <3>4 DEF Rpc!Next
    <2>7. QED
      BY <2>5, <2>6
  <1>3. CASE pisces_xbuf_server_init
    <2>1. "ready" \notin flags'
      BY <1>3 DEF pisces_xbuf_server_init, set_flags
    <2>2. \A u \in Senders : CallState(u)' = CallState(u)
      BY <1>3, <1>s DEF pisces_xbuf_server_init, CallState
    <2>3. CASE "ready" \notin flags
      BY <2>1, <2>2, <2>3, SameCalls
    <2>4. CASE "ready" \in flags
      <3>1. stBar' = stBar
        BY <2>2 DEF stBar
      <3>2. Rpc!Close
        BY <2>1, <2>4, <3>1 DEF Rpc!Close, stBar
      <3>3. QED
        BY <3>2 DEF Rpc!Next
    <2>5. QED
      BY <2>3, <2>4
  <1>4. CASE pisces_xbuf_enable
    <2>1. "ready" \notin flags /\ "ready" \in flags'
      BY <1>4 DEF pisces_xbuf_enable, set_flags, ChannelInv, ControlInv, LifeInv
    <2>2. \A u \in Senders : CallState(u) = "off" /\ CallState(u)' = "off"
      BY <1>4, <1>s, GotoFact DEF pisces_xbuf_enable, ChannelInv, ControlInv, LifeInv, CallState
    <2>3. stBar' = stBar /\ \A u \in Senders : stBar[u] = "off"
      BY <2>2 DEF stBar
    <2>4. Rpc!Open
      BY <2>1, <2>3 DEF Rpc!Open, stBar
    <2>5. QED
      BY <2>4 DEF Rpc!Next
  <1>5. CASE pisces_xbuf_disable
    <2>1. "ready" \in flags /\ "ready" \notin flags'
      BY <1>5 DEF pisces_xbuf_disable, lower_flag, ChannelInv, ControlInv, LifeInv
    <2>2. \A u \in Senders : CallState(u)' = CallState(u)
      BY <1>5, <1>s, GotoFact DEF pisces_xbuf_disable, lower_flag, CallState
    <2>3. stBar' = stBar
      BY <2>2 DEF stBar
    <2>4. Rpc!Close
      BY <2>1, <2>3 DEF Rpc!Close, stBar
    <2>5. QED
      BY <2>4 DEF Rpc!Next
  <1>6. CASE BootSenders
    <2>1. \A u \in Senders : CallState(u) = "off" /\ CallState(u)' = "idle"
      BY <1>6, <1>s DEF BootSenders, CallState
    <2>2. stBar' = [u \in Senders |-> "idle"] /\ \A u \in Senders : stBar[u] = "off"
      BY <2>1 DEF stBar
    <2>3. Rpc!Start
      BY <1>6, <2>2 DEF BootSenders, Rpc!Start, stBar
    <2>4. QED
      BY <2>3 DEF Rpc!Next
  <1>7. CASE StopSenders
    <2>1. \A u \in Senders : CallState(u)' = "off"
      BY <1>7, <1>s DEF StopSenders, CallState
    <2>2. stBar' = [u \in Senders |-> "off"]
      BY <2>1 DEF stBar
    <2>3. Rpc!Stop
      BY <1>7, <2>2 DEF StopSenders, Rpc!Stop, stBar
    <2>4. QED
      BY <2>3 DEF Rpc!Next
  <1>8. QED
    BY <1>1, <1>2, <1>3, <1>4, <1>5, <1>6, <1>7 DEF Serve, Life

(* The xbuf implements the abstract call channel of RpcChannel: one call   *)
(* at a time, success only of a served call, failure only of a disabled    *)
(* channel, for any number of senders.                                     *)
THEOREM Implements == Spec => RpcSpec
  <1>1. Init => Rpc!Init
    <2> SUFFICES ASSUME Init PROVE Rpc!Init
      OBVIOUS
    <2>1. \A s \in Senders : CallState(s) = "off"
      BY ServerAssumption DEF Init, CallState, Threads
    <2>2. "ready" \notin flags
      BY DEF Init
    <2>3. QED
      BY <2>1, <2>2 DEF Rpc!Init
  <1>2. TypeOK /\ ChannelInv /\ [Next]_vars => [Rpc!Next]_(Rpc!vars)
    <2> SUFFICES ASSUME TypeOK, ChannelInv, [Next]_vars PROVE [Rpc!Next]_(Rpc!vars)
      OBVIOUS
    <2>1. CASE UNCHANGED vars
      <3>1. \A s \in Senders : CallState(s)' = CallState(s)
        BY <2>1 DEF vars, CallState
      <3>2. QED
        BY <2>1, <3>1, SameCalls DEF vars
    <2>2. CASE Next
      BY <2>2, TransferRpc, SendRpc, ServeRpc DEF Next
    <2>3. QED
      BY <2>1, <2>2
  <1>3. QED
    BY <1>1, <1>2, TypeCorrect, ChannelSafe, PTL DEF Spec, RpcSpec, Rpc!Spec

-----------------------------------------------------------------------------
(***************************************************************************)
(* Nobody sleeps on an enabled channel without a waker.                    *)
(***************************************************************************)

(* The senders' kernel boots and is stopped as a whole.                    *)
Together ==
  \A s, u \in Senders : pc[s] \in {"boot", "halted"} => pc[u] = pc[s]

(* PENDING of an enabled channel has an owner, unless the kernel of the    *)
(* senders was stopped, and is down while that kernel boots.               *)
PendingInv ==
  /\ \A s \in Senders : pc[s] = "boot" => "pending" \notin flags
  /\ \A s \in Senders :
       "ready" \in flags /\ "pending" \in flags /\ pc[s] # "halted" => Owners # {}

WakeInv == Together /\ PendingInv /\ SleeperHasWaker

(* A step in which the owner goes on owning, or gives up on a disabled     *)
(* channel, and PENDING stays as it is.                                    *)
LEMMA WakeKept ==
  ASSUME WakeInv,
         "pending" \in flags' <=> "pending" \in flags,
         "ready" \in flags' => "ready" \in flags,
         \A s \in Senders :
           \/ pc'[s] = pc[s]
           \/ pc[s] \in Owning /\ pc'[s] \in Owning
           \/ pc[s] \in Owning /\ pc'[s] = "err" /\ "ready" \notin flags'
  PROVE  WakeInv'
  <1>1. \A s \in Senders : /\ pc'[s] \in {"boot", "halted"} => pc'[s] = pc[s]
                           /\ pc'[s] = "sleep" => pc[s] = "sleep"
                           /\ pc[s] \in {"boot", "halted", "wake"} => pc'[s] = pc[s]
                           /\ "ready" \in flags' /\ pc[s] \in Owning => pc'[s] \in Owning
    BY DEF Owning
  <1>2. Together'
    BY <1>1 DEF WakeInv, Together
  <1>3. PendingInv'
    BY <1>1 DEF WakeInv, PendingInv, Owners
  <1>4. SleeperHasWaker'
    BY <1>1 DEF WakeInv, SleeperHasWaker
  <1>5. QED
    BY <1>2, <1>3, <1>4 DEF WakeInv

(* The transfer routines.                                                  *)
LEMMA TransferWake ==
  ASSUME TypeOK, ChannelInv, WakeInv, NEW t \in Threads, Transfer(t)
  PROVE  WakeInv'
  <1>1. PcOK /\ Senders \subseteq Threads /\ (t = Server \/ t \in Senders) /\ Server \notin Senders
    BY ServerAssumption DEF TypeOK, Threads
  <1>2. ASSUME NEW l, Goto(t, l), "pending" \in flags' <=> "pending" \in flags,
               "ready" \in flags' <=> "ready" \in flags,
               t # Server => pc[t] \in Owning /\ (l \in Owning \/ (l = "err" /\ "ready" \notin flags))
        PROVE  WakeInv'
    <2>1. pc'[t] = l /\ \A u \in Threads \ {t} : pc'[u] = pc[u]
      BY <1>1, <1>2, GotoFact
    <2>2. QED
      BY <1>1, <1>2, <2>1, WakeKept
  <1>3. CASE StageLen(t)
    BY <1>2, <1>3 DEF StageLen, Owning
  <1>4. CASE StagePut(t)
    BY <1>2, <1>4 DEF StagePut, Owning
  <1>5. CASE StageMark(t)
    <2> DEFINE l == IF off[t] > 0 THEN "send" ELSE IF t = Server THEN "complete" ELSE "ipi"
    <2>1. Goto(t, l) /\ pc[t] = "mark" /\ flags' = flags \union {"staged"}
      BY <1>5 DEF StageMark, raise_flag
    <2>2. t # Server => l \in {"send", "ipi"}
      OBVIOUS
    <2> HIDE DEF l
    <2>3. QED
      BY <1>2, <2>1, <2>2 DEF Owning
  <1>6. CASE send_data(t)
    <2>1. \E l \in {AfterSend(t), "put"} : Goto(t, l)
      BY <1>6 DEF send_data
    <2>2. pc[t] = "send" /\ flags' = flags
      BY <1>6 DEF send_data, chan
    <2>3. t # Server => {AfterSend(t), "put"} \subseteq Owning
      BY DEF AfterSend, Owning
    <2>4. QED
      BY <1>2, <2>1, <2>2, <2>3 DEF Owning
  <1>7. CASE RecvLen(t)
    <2>1. \E l \in {"dead", "recv"} : Goto(t, l) /\ (t # Server => l = "recv")
      BY <1>7 DEF RecvLen
    <2>2. pc[t] = "rlen" /\ flags' = flags
      BY <1>7 DEF RecvLen, chan
    <2>3. QED
      BY <1>2, <2>1, <2>2 DEF Owning
  <1>8. CASE recv_data(t)
    <2>1. t # Server => inlen[t] > 0
      BY <1>1, <1>8 DEF recv_data, ChannelInv, LenInv
    <2>2. pc[t] = "recv" /\ flags' = flags
      BY <1>8 DEF recv_data, chan
    <2>3. CASE Goto(t, "take")
      BY <1>2, <2>2, <2>3 DEF Owning
    <2>4. CASE Goto(t, AfterRecv(t)) /\ (off[t] = inlen[t] \/ "ready" \notin flags)
      <3>1. t # Server => AfterRecv(t) = "reset" \/ (AfterRecv(t) = "err" /\ "ready" \notin flags)
        BY <2>1, <2>4 DEF AfterRecv
      <3>2. QED
        BY <1>2, <2>2, <2>4, <3>1 DEF Owning
    <2>5. QED
      BY <1>8, <2>3, <2>4 DEF recv_data
  <1>9. CASE RecvTake(t)
    BY <1>2, <1>9 DEF RecvTake, Owning, chan
  <1>10. CASE RecvLower(t)
    BY <1>2, <1>10 DEF RecvLower, Owning, lower_flag
  <1>11. QED
    BY <1>3, <1>4, <1>5, <1>6, <1>7, <1>8, <1>9, <1>10 DEF Transfer

(* The steps of sync_send.  A thread goes to sleep only when it sees       *)
(* PENDING, which has an owner; the owner wakes on its way out.            *)
LEMMA SendWake ==
  ASSUME TypeOK, ChannelInv, WakeInv, NEW s \in Senders, SendStart(s) \/ SendSignal(s) \/ Send(s)
  PROVE  WakeInv'
  <1>1. PcOK /\ Senders \subseteq Threads /\ s \in Threads
    BY DEF TypeOK, Threads
  <1>2. ASSUME NEW l, Goto(s, l)
        PROVE  pc'[s] = l /\ \A u \in Senders \ {s} : pc'[u] = pc[u]
    BY <1>1, <1>2, GotoFact
  (* A step from one label outside Owning to another, flags untouched.     *)
  <1>3. ASSUME NEW l, Goto(s, l), flags' = flags, pc[s] \notin Owning \union {"boot", "halted", "wake"},
               l \in {"lock", "wait", "err"}
        PROVE  WakeInv'
    <2>1. /\ pc'[s] = l
          /\ \A u \in Senders \ {s} : pc'[u] = pc[u]
      BY <1>2, <1>3
    <2>2. \A u \in Senders : /\ pc'[u] \in {"boot", "halted"} => pc'[u] = pc[u]
                             /\ pc[u] \in Owning \union {"boot", "halted", "wake"} => pc'[u] = pc[u]
                             /\ pc'[u] = "sleep" => pc[u] = "sleep"
                             /\ pc'[u] # "halted" => pc[u] # "halted"
      BY <1>3, <2>1
    <2>3. Together'
      BY <2>2 DEF WakeInv, Together
    <2>4. PendingInv'
      BY <1>3, <2>2 DEF WakeInv, PendingInv, Owners
    <2>5. SleeperHasWaker'
      BY <1>3, <2>2 DEF WakeInv, SleeperHasWaker
    <2>6. QED
      BY <2>3, <2>4, <2>5 DEF WakeInv
  <1>4. CASE SendStart(s)
    BY <1>3, <1>4 DEF SendStart, chan, Owning
  <1>5. CASE SendSignal(s)
    BY <1>3, <1>5 DEF SendSignal, chan, Owning
  <1>6. CASE SendAcquire(s)
    <2>0. pc[s] = "lock"
      BY <1>6 DEF SendAcquire
    <2>1. CASE Goto(s, "err") /\ UNCHANGED flags
      BY <1>3, <2>0, <2>1 DEF Owning
    <2>2. CASE Goto(s, "wait") /\ UNCHANGED flags
      BY <1>3, <2>0, <2>2 DEF Owning
    <2>3. CASE Goto(s, "len")
      <3>1. pc'[s] = "len" /\ \A u \in Senders \ {s} : pc'[u] = pc[u]
        BY <1>2, <2>3
      <3>2. s \in Owners'
        BY <3>1 DEF Owners, Owning
      <3>3. \A u \in Senders : pc[u] \notin {"boot", "halted"}
        BY <2>0 DEF WakeInv, Together
      <3>4. \A u \in Senders : pc'[u] \notin {"boot", "halted"}
        BY <3>1, <3>3
      <3>5. SleeperHasWaker'
        BY <3>1 DEF SleeperHasWaker, Owning
      <3>6. QED
        BY <3>2, <3>4, <3>5 DEF WakeInv, PendingInv, Together
    <2>4. QED
      BY <1>6, <2>1, <2>2, <2>3 DEF SendAcquire
  <1>7. CASE SendWait(s)
    <2>0. pc[s] = "wait" /\ flags' = flags
      BY <1>7 DEF SendWait, chan
    <2>1. CASE "pending" \notin flags
      BY <1>3, <1>7, <2>0, <2>1 DEF SendWait, Owning
    <2>2. CASE "pending" \in flags
      <3>1. pc'[s] = "sleep" /\ \A u \in Senders \ {s} : pc'[u] = pc[u]
        BY <1>2, <1>7, <2>2 DEF SendWait
      <3>2. \A u \in Senders : pc[u] \in Owning \union {"boot", "halted"} => pc'[u] = pc[u]
        BY <2>0, <3>1 DEF Owning
      <3>3. Together'
        BY <2>0, <3>1 DEF WakeInv, Together
      <3>4. PendingInv'
        BY <2>0, <3>1, <3>2 DEF WakeInv, PendingInv, Owners
      <3>5. "ready" \in flags => \E u \in Senders : pc'[u] \in Owning
        BY <2>0, <2>2, <3>2 DEF WakeInv, PendingInv, Owners
      <3>6. QED
        BY <2>0, <3>3, <3>4, <3>5 DEF WakeInv, SleeperHasWaker
    <2>3. QED
      BY <2>1, <2>2
  <1>8. CASE SendIpi(s) \/ SendDone(s)
    <2>1. pc[s] \in Owning /\ flags' = flags
      BY <1>8 DEF SendIpi, SendDone, Owning, chan
    <2>2. \E l \in Owning \union {"err"} : Goto(s, l) /\ (l = "err" => "ready" \notin flags)
      BY <1>8 DEF SendIpi, SendDone, Owning
    <2>3. QED
      BY <1>2, <2>1, <2>2, WakeKept
  <1>9. CASE SendReset(s)
    <2>1. pc[s] = "reset" /\ pc'[s] = "wake" /\ \A u \in Senders \ {s} : pc'[u] = pc[u]
      BY <1>2, <1>9 DEF SendReset
    <2>2. "pending" \notin flags'
      BY <1>9 DEF SendReset, reset_flags
    <2>3. QED
      BY <2>1, <2>2 DEF WakeInv, Together, PendingInv, SleeperHasWaker
  <1>10. CASE SendReturn(s)
    <2>1. pc[s] \in {"wake", "err"} /\ flags' = flags
      BY <1>10 DEF SendReturn, chan
    <2>2. \A u \in Senders : pc'[u] = IF u = s THEN "idle"
                                      ELSE IF pc[u] = "sleep" THEN "wait" ELSE pc[u]
      BY <1>1, <1>10 DEF SendReturn
    <2>3. \A u \in Senders : /\ pc'[u] # "sleep"
                             /\ pc[u] \in Owning => pc'[u] = pc[u]
                             /\ pc[u] \notin {"boot", "halted"} /\ pc'[u] \notin {"boot", "halted"}
      <3>1. \A u \in Senders : pc[u] \notin {"boot", "halted"}
        BY <2>1 DEF WakeInv, Together
      <3>2. QED
        BY <2>1, <2>2, <3>1 DEF Owning
    <2>4. PendingInv'
      BY <2>1, <2>3 DEF WakeInv, PendingInv, Owners
    <2>5. QED
      BY <2>3, <2>4 DEF WakeInv, Together, SleeperHasWaker
  <1>11. QED
    BY <1>4, <1>5, <1>6, <1>7, <1>8, <1>9, <1>10 DEF Send

(* The server and the channel's life.                                      *)
LEMMA ServeWake ==
  ASSUME TypeOK, ChannelInv, WakeInv, irq_handler \/ Serve \/ Life
  PROVE  WakeInv'
  <1>1. PcOK /\ Senders \subseteq Threads /\ Server \in Threads /\ Server \notin Senders
    BY ServerAssumption DEF TypeOK, Threads
  <1>2. CASE irq_handler \/ Serve \/ pisces_xbuf_disable
    <2>1. \A s \in Senders : pc'[s] = pc[s]
      BY <1>1, <1>2, GotoFact DEF irq_handler, Serve, ServeBegin, pisces_xbuf_complete,
         RaiseComplete, ServeAbandon, pisces_xbuf_disable
    <2>2. /\ "pending" \in flags' <=> "pending" \in flags
          /\ "ready" \in flags' => "ready" \in flags
      BY <1>2 DEF irq_handler, Serve, ServeBegin, pisces_xbuf_complete, RaiseComplete,
         ServeAbandon, pisces_xbuf_disable, raise_flag, lower_flag, chan
    <2>3. QED
      BY <2>1, <2>2, WakeKept
  <1>3. CASE pisces_xbuf_server_init
    <2>1. flags' = {} /\ \A s \in Senders : pc'[s] = "boot"
      BY <1>1, <1>3 DEF pisces_xbuf_server_init, set_flags
    <2>2. QED
      BY <2>1 DEF WakeInv, Together, PendingInv, SleeperHasWaker
  <1>4. CASE pisces_xbuf_enable
    <2>1. flags' = {"ready"} /\ \A s \in Senders : pc'[s] = pc[s] /\ pc[s] \in {"boot", "halted"}
      BY <1>1, <1>4, GotoFact DEF pisces_xbuf_enable, set_flags, ChannelInv, ControlInv, LifeInv
    <2>2. QED
      BY <2>1 DEF WakeInv, Together, PendingInv, SleeperHasWaker
  <1>5. CASE BootSenders
    <2>1. flags' = flags /\ \A s \in Senders : pc[s] = "boot" /\ pc'[s] = "idle"
      BY <1>1, <1>5 DEF BootSenders, chan
    <2>2. QED
      BY <2>1 DEF WakeInv, Together, PendingInv, SleeperHasWaker
  <1>6. CASE StopSenders
    <2>1. \A s \in Senders : pc'[s] = "halted"
      BY <1>1, <1>6 DEF StopSenders
    <2>2. QED
      BY <2>1 DEF WakeInv, Together, PendingInv, SleeperHasWaker
  <1>7. QED
    BY <1>2, <1>3, <1>4, <1>5, <1>6 DEF Life

(* The invariant of waiting and waking.                                    *)
THEOREM WakeSafe == Spec => []WakeInv
  <1>1. Init => WakeInv
    BY ServerAssumption DEF Init, WakeInv, Together, PendingInv, SleeperHasWaker, Threads
  <1>2. TypeOK /\ ChannelInv /\ WakeInv /\ [Next]_vars => WakeInv'
    <2> SUFFICES ASSUME TypeOK, ChannelInv, WakeInv, [Next]_vars PROVE WakeInv'
      OBVIOUS
    <2>1. CASE UNCHANGED vars
      BY <2>1, WakeKept DEF vars
    <2>2. CASE Next
      BY <2>2, TransferWake, SendWake, ServeWake DEF Next
    <2>3. QED
      BY <2>1, <2>2
  <1>3. QED
    BY <1>1, <1>2, TypeCorrect, ChannelSafe, PTL DEF Spec

(* A thread asleep on xbuf_waitq of an enabled channel has one that will   *)
(* wake it, for any number of senders (pisces_xbuf.c:271, 326, 331).       *)
THEOREM NobodyForgotten == Spec => []SleeperHasWaker
  <1>1. WakeInv => SleeperHasWaker
    BY DEF WakeInv
  <1>2. QED
    BY <1>1, WakeSafe, PTL

-----------------------------------------------------------------------------
(***************************************************************************)
(* The bytes: how one message moves through the page, in either direction. *)
(***************************************************************************)

Receiving == {"recv", "take", "low"}

(* Bytes of the message that thread y has taken out of the page.           *)
Taken(y) == IF pc[y] \in Receiving THEN off[y] ELSE 0

(* The page holds the chunk of x's message that begins after byte o.       *)
Piece(x, o) ==
  \A i \in 1..Chunk(len[x] - o) : data[i] = Byte(Kind(x), tag[x], o + i)

(* The first n bytes y has received are the first n bytes x sends.         *)
Copied(x, y, n) == \A i \in 1..n : in[y][i] = Byte(Kind(x), tag[x], i)

(* Thread x is sending its message to y: what is staged is the chunk after *)
(* the last one taken, and what was taken is a prefix of the message.      *)
Moving(x, y) ==
  /\ "staged" \in flags => /\ Taken(y) < len[x]
                           /\ off[x] = Taken(y) + Chunk(len[x] - Taken(y))
                           /\ Piece(x, Taken(y))
                           /\ data_len = len[x]
  /\ "staged" \notin flags => off[x] = Taken(y)
  /\ pc[x] = "mark" => Piece(x, off[x])
  /\ pc[x] \in {"put", "mark"} => off[x] < len[x] /\ data_len = len[x]
  /\ pc[y] \in Receiving => /\ inlen[y] = len[x]
                            /\ data_len = len[x]
                            /\ off[y] <= len[x]
                            /\ Copied(x, y, off[y])
  /\ pc[y] \in {"take", "low"} => "staged" \in flags
  /\ pc[y] = "low" => Copied(x, y, off[y] + Chunk(len[x] - off[y]))

(* The size of a chunk.                                                    *)
LEMMA ChunkFacts ==
  ASSUME NEW n \in Int
  PROVE  /\ Chunk(n) \in Int /\ Chunk(n) <= Size /\ Chunk(n) <= n
         /\ n > 0 => Chunk(n) > 0
         /\ n >= 0 => Chunk(n) >= 0
  BY SizeAssumption DEF Chunk

(* The numbers of a thread.                                                *)
LEMMA Numbers ==
  ASSUME TypeOK, NEW x \in Threads
  PROVE  /\ off[x] \in Nat /\ len[x] \in Nat /\ inlen[x] \in Nat /\ tag[x] \in Nat
         /\ Taken(x) \in Nat
  BY DEF TypeOK, LocalOK, Taken

(* A step that touches neither end of the transfer nor the page.           *)
LEMMA MovingKept ==
  ASSUME NEW x, NEW y, Moving(x, y),
         "staged" \in flags' <=> "staged" \in flags, data' = data, data_len' = data_len,
         tag'[x] = tag[x], len'[x] = len[x], off'[x] = off[x],
         pc'[x] \in {"put", "mark"} => pc'[x] = pc[x],
         \/ pc'[y] = pc[y] /\ off'[y] = off[y] /\ inlen'[y] = inlen[y] /\ in'[y] = in[y]
         \/ pc[y] \notin Receiving /\ pc'[y] \notin Receiving
  PROVE  Moving(x, y)'
  <1>1. Taken(y)' = Taken(y)
    BY DEF Taken
  <1>4. Piece(x, off[x])' <=> Piece(x, off[x])
    BY DEF Piece, Kind
  <1>5. Piece(x, Taken(y))' <=> Piece(x, Taken(y))
    BY <1>1 DEF Piece, Kind
  <1>6. CASE pc'[y] = pc[y] /\ off'[y] = off[y] /\ inlen'[y] = inlen[y] /\ in'[y] = in[y]
    <2>1. /\ Copied(x, y, off[y])' <=> Copied(x, y, off[y])
          /\ Copied(x, y, off[y] + Chunk(len[x] - off[y]))' <=>
               Copied(x, y, off[y] + Chunk(len[x] - off[y]))
      BY <1>6 DEF Copied, Kind, Chunk
    <2>2. QED
      BY <1>1, <1>4, <1>5, <1>6, <2>1 DEF Moving, Chunk
  <1>7. CASE pc[y] \notin Receiving /\ pc'[y] \notin Receiving
    BY <1>1, <1>4, <1>5, <1>7 DEF Moving, Receiving, Chunk
  <1>8. QED
    BY <1>6, <1>7

(* The sending end.  It announces the length,                              *)
LEMMA MovingLen ==
  ASSUME TypeOK, NEW x \in Threads, NEW y \in Threads, x # y, Moving(x, y), StageLen(x),
         "staged" \notin flags, off[x] = 0, len[x] > 0
  PROVE  Moving(x, y)'
  <1>1. /\ data_len' = len[x] /\ pc'[x] = "put" /\ pc'[y] = pc[y]
        /\ UNCHANGED <<flags, data, tag, len, off, inlen, in>>
    BY GotoFact DEF StageLen, TypeOK, local
  <1>2. Taken(y)' = Taken(y)
    BY <1>1 DEF Taken
  <1>4. /\ Copied(x, y, off[y])' <=> Copied(x, y, off[y])
        /\ Copied(x, y, off[y] + Chunk(len[x] - off[y]))' <=>
             Copied(x, y, off[y] + Chunk(len[x] - off[y]))
    BY <1>1 DEF Copied, Kind, Chunk
  <1>5. QED
    BY <1>1, <1>2, <1>4 DEF Moving, Chunk

(* copies the next chunk,                                                  *)
LEMMA MovingPut ==
  ASSUME TypeOK, NEW x \in Threads, NEW y \in Threads, x # y, Moving(x, y), StagePut(x),
         "staged" \notin flags
  PROVE  Moving(x, y)'
  <1>1. /\ pc[x] = "put" /\ pc'[x] = "mark" /\ pc'[y] = pc[y]
        /\ UNCHANGED <<flags, data_len, tag, len, off, inlen, in>>
    BY GotoFact DEF StagePut, TypeOK, local
  <1>2. off[x] \in Nat /\ len[x] \in Nat /\ off[x] < len[x]
    BY <1>1, Numbers DEF Moving
  <1>3. Chunk(len[x] - off[x]) \in Int /\ Chunk(len[x] - off[x]) <= Size
    BY <1>2, ChunkFacts
  <1>4. data' = [i \in 1..Size |-> IF i <= Chunk(len[x] - off[x])
                                   THEN Byte(Kind(x), tag[x], off[x] + i) ELSE data[i]]
    BY DEF StagePut
  <1>5. \A i \in 1..Chunk(len[x] - off[x]) : data'[i] = Byte(Kind(x), tag[x], off[x] + i)
    BY <1>3, <1>4, SizeAssumption
  <1>6. Piece(x, off[x])'
    BY <1>1, <1>5 DEF Piece, Kind, Chunk
  <1>7. Taken(y)' = Taken(y)
    BY <1>1 DEF Taken
  <1>8. /\ Copied(x, y, off[y])' <=> Copied(x, y, off[y])
        /\ Copied(x, y, off[y] + Chunk(len[x] - off[y]))' <=>
             Copied(x, y, off[y] + Chunk(len[x] - off[y]))
    BY <1>1 DEF Copied, Kind, Chunk
  <1>9. QED
    BY <1>1, <1>6, <1>7, <1>8 DEF Moving, Chunk

(* raises STAGED,                                                          *)
LEMMA MovingMark ==
  ASSUME TypeOK, NEW x \in Threads, NEW y \in Threads, x # y, Moving(x, y), StageMark(x),
         "staged" \notin flags
  PROVE  Moving(x, y)'
  <1>1. /\ pc[x] = "mark" /\ pc'[x] \notin {"put", "mark"} /\ pc'[y] = pc[y]
        /\ UNCHANGED <<data, data_len, tag, len, inlen, in>> /\ flags' = flags \union {"staged"}
    BY GotoFact DEF StageMark, TypeOK, raise_flag
  <1>2. off'[x] = off[x] + Chunk(len[x] - off[x]) /\ off'[y] = off[y]
    BY DEF StageMark, TypeOK, LocalOK
  <1>3. Taken(y)' = Taken(y) /\ off[x] = Taken(y)
    BY <1>1, <1>2 DEF Taken, Moving
  <1>4. Piece(x, Taken(y))' <=> Piece(x, Taken(y))
    BY <1>1, <1>3 DEF Piece, Kind, Chunk
  <1>5. /\ Copied(x, y, off[y])' <=> Copied(x, y, off[y])
        /\ Copied(x, y, off[y] + Chunk(len[x] - off[y]))' <=>
             Copied(x, y, off[y] + Chunk(len[x] - off[y]))
    BY <1>1, <1>2 DEF Copied, Kind, Chunk
  <1>6. /\ off[x] < len[x] /\ data_len = len[x] /\ Piece(x, off[x])
    BY <1>1 DEF Moving
  <1>7. QED
    BY <1>1, <1>2, <1>3, <1>4, <1>5, <1>6 DEF Moving, Chunk

(* and goes on when the chunk was taken.                                   *)
LEMMA MovingSend ==
  ASSUME TypeOK, NEW x \in Threads, NEW y \in Threads, x # y, Moving(x, y), send_data(x),
         off[x] < len[x] => data_len = len[x]
  PROVE  Moving(x, y)'
  <1>1. /\ pc[x] = "send" /\ pc'[y] = pc[y]
        /\ UNCHANGED <<flags, data, data_len, tag, len, off, inlen, in>>
    BY GotoFact DEF send_data, TypeOK, chan, local
  <1>2. (pc'[x] = "put" /\ off[x] < len[x]) \/ pc'[x] = AfterSend(x)
    BY GotoFact DEF send_data, TypeOK
  <1>3. pc'[x] # "mark" /\ (pc'[x] = "put" => off[x] < len[x])
    BY <1>2 DEF AfterSend
  <1>4. Taken(y)' = Taken(y)
    BY <1>1 DEF Taken
  <1>5. Piece(x, Taken(y))' <=> Piece(x, Taken(y))
    BY <1>1, <1>4 DEF Piece, Kind, Chunk
  <1>6. /\ Copied(x, y, off[y])' <=> Copied(x, y, off[y])
        /\ Copied(x, y, off[y] + Chunk(len[x] - off[y]))' <=>
             Copied(x, y, off[y] + Chunk(len[x] - off[y]))
    BY <1>1 DEF Copied, Kind, Chunk
  <1>7. QED
    BY <1>1, <1>3, <1>4, <1>5, <1>6 DEF Moving, Chunk

(* The receiving end.  It allocates what the page announces,               *)
LEMMA MovingRecv ==
  ASSUME TypeOK, NEW x \in Threads, NEW y \in Threads, x # y, Moving(x, y), RecvLen(y),
         y = Server => "active" \in flags, data_len = len[x]
  PROVE  Moving(x, y)'
  <1>1. /\ pc[y] = "rlen" /\ pc'[y] = "recv" /\ pc'[x] = pc[x]
        /\ UNCHANGED <<flags, data, data_len, tag, len>>
    BY GotoFact DEF RecvLen, TypeOK, chan
  <1>2. /\ inlen'[y] = len[x] /\ off'[y] = 0 /\ off'[x] = off[x]
    BY DEF RecvLen, TypeOK, LocalOK
  <1>3. Taken(y) = 0 /\ Taken(y)' = 0
    BY <1>1, <1>2 DEF Taken, Receiving
  <1>4. Piece(x, Taken(y))' <=> Piece(x, Taken(y))
    BY <1>1, <1>3 DEF Piece, Kind, Chunk
  <1>5. Piece(x, off[x])' <=> Piece(x, off[x])
    BY <1>1, <1>2 DEF Piece, Kind, Chunk
  <1>6. Copied(x, y, off[y])'
    BY <1>2 DEF Copied
  <1>7. len[x] \in Nat
    BY Numbers
  <1>8. QED
    BY <1>1, <1>2, <1>3, <1>4, <1>5, <1>6, <1>7 DEF Moving, Chunk

(* waits for a chunk,                                                      *)
LEMMA MovingWait ==
  ASSUME TypeOK, NEW x \in Threads, NEW y \in Threads, x # y, Moving(x, y), recv_data(y),
         Goto(y, "take"), "staged" \in flags
  PROVE  Moving(x, y)'
  <1>1. /\ pc[y] = "recv" /\ pc'[y] = "take" /\ pc'[x] = pc[x]
        /\ UNCHANGED <<flags, data, data_len, tag, len, off, inlen, in>>
    BY GotoFact DEF recv_data, TypeOK, chan, local
  <1>2. Taken(y)' = Taken(y)
    BY <1>1 DEF Taken, Receiving
  <1>3. Piece(x, Taken(y))' <=> Piece(x, Taken(y))
    BY <1>1, <1>2 DEF Piece, Kind, Chunk
  <1>4. Piece(x, off[x])' <=> Piece(x, off[x])
    BY <1>1 DEF Piece, Kind, Chunk
  <1>5. Copied(x, y, off[y])' <=> Copied(x, y, off[y])
    BY <1>1 DEF Copied, Kind
  <1>6. QED
    BY <1>1, <1>2, <1>3, <1>4, <1>5 DEF Moving, Receiving, Chunk

(* copies it out,                                                          *)
LEMMA MovingTake ==
  ASSUME TypeOK, NEW x \in Threads, NEW y \in Threads, x # y, Moving(x, y), RecvTake(y)
  PROVE  Moving(x, y)'
  <1> DEFINE n == Chunk(len[x] - off[y])
  <1>1. /\ pc[y] = "take" /\ pc'[y] = "low" /\ pc'[x] = pc[x]
        /\ UNCHANGED <<flags, data, data_len, tag, len, off, inlen>>
    BY GotoFact DEF RecvTake, TypeOK, chan
  <1>2. /\ "staged" \in flags /\ Taken(y) = off[y] /\ inlen[y] = len[x] /\ off[y] < len[x]
        /\ Piece(x, off[y]) /\ Copied(x, y, off[y])
    BY <1>1 DEF Moving, Receiving, Taken
  <1>3. off[y] \in Nat /\ len[x] \in Nat /\ n \in Int /\ n > 0 /\ n <= len[x] - off[y]
    <2>1. off[y] \in Nat /\ len[x] \in Nat
      BY Numbers
    <2>2. QED
      BY <2>1, <1>2, ChunkFacts
  <1>4. in'[y] = [i \in 1..len[x] |-> IF off[y] < i /\ i <= off[y] + n
                                      THEN data[i - off[y]] ELSE in[y][i]]
    BY <1>2 DEF RecvTake, TypeOK, LocalOK
  <1>5. \A i \in 1..(off[y] + n) : in'[y][i] = Byte(Kind(x), tag[x], i)
    <2> SUFFICES ASSUME NEW i \in 1..(off[y] + n) PROVE in'[y][i] = Byte(Kind(x), tag[x], i)
      OBVIOUS
    <2> HIDE DEF n
    <2>1. i \in 1..len[x]
      BY <1>3
    <2>2. CASE i <= off[y]
      <3>1. in'[y][i] = in[y][i]
        BY <1>3, <1>4, <2>1, <2>2
      <3>2. i \in 1..off[y]
        BY <1>3, <2>2
      <3>3. QED
        BY <1>2, <3>1, <3>2 DEF Copied
    <2>3. CASE ~(i <= off[y])
      <3>1. in'[y][i] = data[i - off[y]]
        BY <1>3, <1>4, <2>1, <2>3
      <3>2. i - off[y] \in 1..n /\ off[y] + (i - off[y]) = i
        BY <1>3, <2>3
      <3>3. data[i - off[y]] = Byte(Kind(x), tag[x], off[y] + (i - off[y]))
        BY <1>2, <3>2 DEF Piece, n
      <3>4. QED
        BY <3>1, <3>2, <3>3
    <2>4. QED
      BY <2>2, <2>3
  <1>6. Copied(x, y, off[y] + Chunk(len[x] - off[y]))'
    BY <1>1, <1>5 DEF Copied, Kind, Chunk
  <1>7. \A i \in 1..off[y] : in'[y][i] = Byte(Kind(x), tag[x], i)
    <2> HIDE DEF n
    <2>1. \A i \in 1..off[y] : i \in 1..(off[y] + n)
      BY <1>3
    <2>2. QED
      BY <1>5, <2>1
  <1>8. Copied(x, y, off[y])'
    BY <1>1, <1>7 DEF Copied, Kind
  <1>9. Taken(y)' = Taken(y)
    BY <1>1 DEF Taken, Receiving
  <1>10. Piece(x, Taken(y))' <=> Piece(x, Taken(y))
    BY <1>1, <1>9 DEF Piece, Kind, Chunk
  <1>11. Piece(x, off[x])' <=> Piece(x, off[x])
    BY <1>1 DEF Piece, Kind, Chunk
  <1> HIDE DEF n
  <1>12. QED
    BY <1>1, <1>2, <1>6, <1>8, <1>9, <1>10, <1>11 DEF Moving, Receiving, Chunk

(* and lowers STAGED.                                                      *)
LEMMA MovingLower ==
  ASSUME TypeOK, NEW x \in Threads, NEW y \in Threads, x # y, Moving(x, y), RecvLower(y),
         pc[x] \notin {"put", "mark"}
  PROVE  Moving(x, y)'
  <1> DEFINE n == Chunk(len[x] - off[y])
  <1>1. /\ pc[y] = "low" /\ pc'[y] = "recv" /\ pc'[x] = pc[x] /\ flags' = flags \ {"staged"}
        /\ UNCHANGED <<data, data_len, tag, len, inlen, in>>
    BY GotoFact DEF RecvLower, TypeOK, lower_flag
  <1>2. /\ "staged" \in flags /\ inlen[y] = len[x] /\ data_len = len[x] /\ off[y] < len[x]
        /\ off[x] = off[y] + n /\ Copied(x, y, off[y] + n)
    BY <1>1 DEF Moving, Receiving, Taken
  <1>3. off'[x] = off[x] /\ off'[y] = off[y] + n
    BY <1>2 DEF RecvLower, TypeOK, LocalOK
  <1>4. off[y] \in Nat /\ len[x] \in Nat /\ n \in Int /\ n > 0 /\ n <= len[x] - off[y]
    <2>1. off[y] \in Nat /\ len[x] \in Nat
      BY Numbers
    <2>2. QED
      BY <2>1, <1>2, ChunkFacts
  <1>5. Copied(x, y, off[y])'
    BY <1>1, <1>2, <1>3 DEF Copied, Kind
  <1> HIDE DEF n
  <1>6. off'[y] <= len'[x] /\ Taken(y)' = off'[x]
    BY <1>1, <1>2, <1>3, <1>4 DEF Taken, Receiving
  <1>7. QED
    BY <1>1, <1>2, <1>5, <1>6 DEF Moving, Receiving

(* When recv_data has all bytes the message was moved whole.               *)
LEMMA MovedWhole ==
  ASSUME TypeOK, NEW x \in Threads, NEW y \in Threads, Moving(x, y), pc[y] \in Receiving,
         off[y] = inlen[y]
  PROVE  /\ "staged" \notin flags
         /\ off[x] = len[x] /\ inlen[y] = len[x]
         /\ in[y] = Message(Kind(x), tag[x], len[x])
  <1>1. inlen[y] = len[x] /\ Taken(y) = len[x] /\ Copied(x, y, len[x])
    BY DEF Moving, Taken
  <1>2. "staged" \notin flags /\ off[x] = len[x]
    BY <1>1, Numbers DEF Moving
  <1>3. in[y] \in [1..len[x] -> Bytes]
    BY <1>1 DEF TypeOK, LocalOK
  <1>4. in[y] = [i \in 1..len[x] |-> Byte(Kind(x), tag[x], i)]
    BY <1>1, <1>3 DEF Copied
  <1>5. QED
    BY <1>1, <1>2, <1>4 DEF Message

-----------------------------------------------------------------------------
(***************************************************************************)
(* A call: the request moves to the server, then the response back.        *)
(***************************************************************************)

Asking    == {"idle", "send", "rlen", "recv", "take", "low"}
Answering == {"work", "len", "put", "mark", "complete"}

(* The request of s is on its way to a server that has not taken all of it *)
(* yet, or has not begun to.                                               *)
Asked(s) ==
  /\ Moving(s, Server)
  /\ off[s] = 0 => "active" \notin flags
  /\ pc[s] = "len" => off[s] = 0
  /\ pc[s] = "ipi" => "staged" \in flags /\ "active" \notin flags /\ ~ipi
  /\ pc[s] = "done" => off[s] = len[s]
  /\ pc[s] \in {"send", "done"} \/ "active" \in flags => data_len = len[s]

(* The server had the request of s and its handler returned without an     *)
(* answer.                                                                 *)
Dropped(s) ==
  /\ pc[Server] = "idle" /\ ~notified
  /\ "active" \in flags /\ "staged" \notin flags
  /\ off[s] = len[s]
  /\ pc[s] \in {"send", "done", "halted"}

(* The server has the request of s and prepares the first chunk of its     *)
(* response.                                                               *)
Answered(s) ==
  /\ off[s] = len[s]
  /\ pc[s] \in {"send", "done", "halted"}
  /\ pc[Server] = "work" => /\ "staged" \notin flags
                            /\ inlen[Server] = len[s]
                            /\ in[Server] = Message("req", tag[s], len[s])
  /\ pc[Server] # "work" => tag[Server] = tag[s] /\ Moving(Server, s)
  /\ pc[Server] = "complete" /\ len[Server] > 0 => data_len = len[Server]

(* The call that PENDING without COMPLETE stands for is one of s, which    *)
(* may have been stopped.                                                  *)
Request(s) ==
  /\ pc[s] \in {"len", "put", "mark", "ipi", "send", "done", "halted"}
  /\ len[s] > 0
  /\ pc[Server] \in Asking => Asked(s) \/ Dropped(s)
  /\ pc[Server] \in Answering => Answered(s)

(* After COMPLETE the response moves to s.                                 *)
Response(s) ==
  /\ pc[s] \in {"send", "done"} \union Fetching
  /\ pc[s] = "send" => off[s] = len[s]
  /\ tag[Server] = tag[s]
  /\ pc[Server] \in {"put", "mark", "send", "idle", "down"}
  /\ pc[Server] \in {"idle", "down"} => off[Server] = len[Server]
  /\ len[Server] > 0 => data_len = len[Server]
  /\ pc[s] = "rlen" => "staged" \in flags
  /\ pc[s] # "reset" => Moving(Server, s)
  /\ pc[s] = "reset" => /\ "staged" \notin flags
                        /\ off[Server] = len[Server]
                        /\ in[s] = Message("resp", tag[s], len[Server])

(* A thread about to copy into the page finds it free.                     *)
FreeInv == \A t \in Threads : pc[t] \in {"len", "put", "mark"} => "staged" \notin flags

(* A caller has no response before it fetches one, and has sent nothing    *)
(* before it owns the channel.                                             *)
FreshInv ==
  \A s \in Senders :
    /\ pc[s] \in {"lock", "wait", "sleep", "len", "put", "mark", "ipi", "send", "done"} =>
         inlen[s] = 0
    /\ pc[s] \in {"lock", "wait", "sleep"} => off[s] = 0

(* COMPLETE stays up while the server has more of the response to send,    *)
(* and a doorbell rings for a request nobody has accepted.                 *)
OrderInv ==
  /\ "complete" \in flags => "pending" \in flags
  /\ pc[Server] \in {"put", "mark"} /\ off[Server] > 0 => "complete" \in flags
  /\ pc[Server] = "send" => /\ off[Server] <= len[Server]
                            /\ off[Server] < len[Server] => "complete" \in flags
  /\ ipi => "pending" \in flags /\ "staged" \in flags /\ "active" \notin flags

RequestInv ==
  "ready" \in flags /\ "pending" \in flags /\ "complete" \notin flags =>
    \E s \in Senders : Request(s)

ResponseInv == "complete" \in flags => \A s \in Owners : Response(s)

(* The inductive invariant of the bytes.                                   *)
DataInv == FreeInv /\ FreshInv /\ OrderInv /\ RequestInv /\ ResponseInv

(* The owner of an enabled channel is the caller.                          *)
LEMMA TheCaller ==
  ASSUME ChannelInv, WakeInv, DataInv, NEW s \in Owners, "ready" \in flags,
         "complete" \notin flags
  PROVE  Request(s)
  <1>1. s \in Senders /\ pc[s] \in Owning /\ "pending" \in flags
    BY DEF ChannelInv, ControlInv, OneOwner, Owners
  <1>2. PICK u \in Senders : Request(u)
    BY <1>1 DEF DataInv, RequestInv
  <1>3. pc[u] # "halted"
    BY <1>1 DEF WakeInv, Together, Owning
  <1>4. u \in Owners
    BY <1>2, <1>3 DEF Request, Owners, Owning
  <1>5. QED
    BY <1>2, <1>4 DEF ChannelInv, ControlInv, OneOwner

(* While the server stages a chunk no sender does.                         *)
LEMMA OneStages ==
  ASSUME TypeOK, ChannelInv, WakeInv, DataInv, pc[Server] \in {"len", "put", "mark"},
         NEW s \in Senders
  PROVE  pc[s] \notin {"len", "put", "mark"}
  <1> SUFFICES ASSUME pc[s] \in {"len", "put", "mark"} PROVE FALSE
    OBVIOUS
  <1>1. s \in Owners /\ "ready" \in flags
    BY DEF Owners, Owning, ChannelInv, ControlInv, LifeInv
  <1>2. CASE "complete" \notin flags
    <2>1. Request(s)
      BY <1>1, <1>2, TheCaller
    <2>2. QED
      BY <2>1 DEF Request, Answered, Answering
  <1>3. CASE "complete" \in flags
    BY <1>1, <1>3 DEF DataInv, ResponseInv, Response, Fetching
  <1>4. QED
    BY <1>2, <1>3

(* A step that leaves a caller, the server and the page alone.             *)
LEMMA RequestKept ==
  ASSUME NEW s, Request(s), UNCHANGED <<flags, data, data_len, ipi, notified>>,
         \A t \in {s, Server} : /\ pc'[t] = pc[t] /\ tag'[t] = tag[t] /\ len'[t] = len[t]
                                /\ off'[t] = off[t] /\ inlen'[t] = inlen[t] /\ in'[t] = in[t]
  PROVE  Request(s)'
  <1>1. Moving(s, Server) => Moving(s, Server)'
    BY MovingKept
  <1>2. Moving(Server, s) => Moving(Server, s)'
    BY MovingKept
  <1>3. Asked(s) => Asked(s)'
    BY <1>1 DEF Asked
  <1>4. Answered(s) => Answered(s)'
    BY <1>2 DEF Answered, Message
  <1>5. Dropped(s) => Dropped(s)'
    BY DEF Dropped
  <1>6. QED
    BY <1>3, <1>4, <1>5 DEF Request

LEMMA ResponseKept ==
  ASSUME NEW s, Response(s), UNCHANGED <<flags, data, data_len>>,
         \A t \in {s, Server} : /\ pc'[t] = pc[t] /\ tag'[t] = tag[t] /\ len'[t] = len[t]
                                /\ off'[t] = off[t] /\ inlen'[t] = inlen[t] /\ in'[t] = in[t]
  PROVE  Response(s)'
  <1>1. Moving(Server, s) => Moving(Server, s)'
    BY MovingKept
  <1>2. QED
    BY <1>1 DEF Response, Message

(* What a transfer routine of thread t leaves alone.                       *)
LEMMA TransferFrame ==
  ASSUME TypeOK, NEW t \in Threads, Transfer(t)
  PROVE  /\ UNCHANGED <<ipi, notified, tag, len>>
         /\ \A u \in Threads \ {t} : /\ pc'[u] = pc[u] /\ off'[u] = off[u]
                                     /\ inlen'[u] = inlen[u] /\ in'[u] = in[u]
         /\ \A f \in {"ready", "pending", "active", "complete"} : f \in flags' <=> f \in flags
  <1>1. UNCHANGED <<ipi, notified, tag, len>>
    BY DEF Transfer, StageLen, StagePut, StageMark, send_data, RecvLen, recv_data, RecvTake,
       RecvLower, local
  <1>2. \A u \in Threads \ {t} : pc'[u] = pc[u]
    BY GotoFact DEF TypeOK, Transfer, StageLen, StagePut, StageMark, send_data, RecvLen, recv_data,
       RecvTake, RecvLower
  <1>3. \A u \in Threads \ {t} : off'[u] = off[u] /\ inlen'[u] = inlen[u] /\ in'[u] = in[u]
    <2>1. CASE StageLen(t) \/ StagePut(t) \/ send_data(t) \/ recv_data(t)
      BY <2>1 DEF StageLen, StagePut, send_data, recv_data, local
    <2>2. CASE StageMark(t) \/ RecvTake(t) \/ RecvLower(t)
      BY <2>2 DEF StageMark, RecvTake, RecvLower, TypeOK, LocalOK
    <2>3. CASE RecvLen(t)
      BY <2>3 DEF RecvLen, TypeOK, LocalOK
    <2>4. QED
      BY <2>1, <2>2, <2>3 DEF Transfer
  <1>4. \/ flags' = flags
        \/ flags' = flags \union {"staged"}
        \/ flags' = flags \ {"staged"}
    BY DEF Transfer, StageLen, StagePut, StageMark, send_data, RecvLen, recv_data, RecvTake,
       RecvLower, raise_flag, lower_flag, chan
  <1>5. QED
    BY <1>1, <1>2, <1>3, <1>4

(* The caller sends its request.                                           *)
LEMMA RequestBySender ==
  ASSUME TypeOK, FreeInv, OrderInv, "ready" \in flags, NEW s \in Senders, Request(s), Transfer(s)
  PROVE  Request(s)'
  <1>s. s \in Threads /\ Server \in Threads /\ s # Server /\ PcOK
    BY ServerAssumption DEF Threads, TypeOK
  <1>f. /\ UNCHANGED <<ipi, notified, tag, len>>
        /\ pc'[Server] = pc[Server] /\ off'[Server] = off[Server]
        /\ inlen'[Server] = inlen[Server] /\ in'[Server] = in[Server]
        /\ "active" \in flags' <=> "active" \in flags
    BY <1>s, TransferFrame
  <1>n. off[s] \in Nat /\ len[s] \in Nat /\ len[s] > 0
    BY <1>s, Numbers DEF Request
  <1>1. CASE StageLen(s)
    <2>1. /\ pc[s] = "len" /\ pc'[s] = "put" /\ UNCHANGED <<flags, off>> /\ data_len' = len[s]
      BY <1>s, <1>1, GotoFact DEF StageLen, local
    <2>2. pc[Server] \notin Answering /\ "staged" \notin flags
      BY <1>s, <2>1 DEF Request, Answered, FreeInv
    <2>3. ASSUME pc[Server] \in Asking PROVE Asked(s)'
      <3>1. Asked(s)
        BY <2>1, <2>3 DEF Request, Dropped
      <3>2. Moving(s, Server)'
        BY <1>1, <1>n, <1>s, <2>1, <2>2, <3>1, MovingLen DEF Asked
      <3>3. QED
        BY <1>f, <2>1, <3>1, <3>2 DEF Asked
    <2>4. QED
      BY <1>f, <1>n, <2>1, <2>2, <2>3 DEF Request
  <1>2. CASE StagePut(s)
    <2>1. /\ pc[s] = "put" /\ pc'[s] = "mark" /\ UNCHANGED <<flags, off, data_len>>
      BY <1>s, <1>2, GotoFact DEF StagePut, local
    <2>2. pc[Server] \notin Answering /\ "staged" \notin flags
      BY <1>s, <2>1 DEF Request, Answered, FreeInv
    <2>3. ASSUME pc[Server] \in Asking PROVE Asked(s)'
      <3>1. Asked(s)
        BY <2>1, <2>3 DEF Request, Dropped
      <3>2. Moving(s, Server)'
        BY <1>2, <1>s, <2>2, <3>1, MovingPut DEF Asked
      <3>3. QED
        BY <1>f, <2>1, <3>1, <3>2 DEF Asked
    <2>4. QED
      BY <1>f, <1>n, <2>1, <2>2, <2>3 DEF Request
  <1>3. CASE StageMark(s)
    <2>1. /\ pc[s] = "mark" /\ pc'[s] = (IF off[s] > 0 THEN "send" ELSE "ipi")
          /\ flags' = flags \union {"staged"} /\ data_len' = data_len
      BY <1>s, <1>3, GotoFact DEF StageMark, raise_flag
    <2>2. off'[s] = off[s] + Chunk(len[s] - off[s])
      BY <1>s, <1>3 DEF StageMark, TypeOK, LocalOK
    <2>3. pc[Server] \notin Answering /\ "staged" \notin flags
      BY <1>s, <2>1 DEF Request, Answered, FreeInv
    <2>4. ASSUME pc[Server] \in Asking PROVE Asked(s)'
      <3>1. Asked(s)
        BY <2>1, <2>4 DEF Request, Dropped
      <3>2. Moving(s, Server)'
        BY <1>3, <1>s, <2>3, <3>1, MovingMark DEF Asked
      <3>3. off[s] < len[s] /\ data_len = len[s]
        BY <2>1, <3>1 DEF Asked, Moving
      <3>4. off'[s] > 0
        BY <1>n, <2>2, <3>3, ChunkFacts
      <3>5. pc'[s] = "ipi" => "active" \notin flags /\ ~ipi
        BY <1>n, <2>1, <2>3, <3>1 DEF Asked, OrderInv
      <3>6. QED
        BY <1>f, <2>1, <3>2, <3>3, <3>4, <3>5 DEF Asked
    <2>5. QED
      BY <1>f, <1>n, <2>1, <2>3, <2>4 DEF Request
  <1>4. CASE send_data(s)
    <2>1. /\ pc[s] = "send" /\ UNCHANGED <<flags, off, inlen, in, data, data_len>>
          /\ \/ pc'[s] = "put" /\ off[s] < len[s]
             \/ pc'[s] = "done" /\ off[s] = len[s]
      BY <1>s, <1>4, GotoFact DEF send_data, AfterSend, chan, local
    <2>2. ASSUME pc[Server] \in Asking PROVE Asked(s)' \/ Dropped(s)'
      <3>1. CASE Asked(s)
        <4>1. Moving(s, Server)'
          BY <1>4, <1>s, <2>1, <3>1, MovingSend DEF Asked
        <4>2. QED
          BY <1>f, <2>1, <3>1, <4>1 DEF Asked
      <3>2. CASE Dropped(s)
        BY <1>f, <1>n, <2>1, <3>2 DEF Dropped
      <3>3. QED
        BY <2>2, <3>1, <3>2 DEF Request
    <2>3. ASSUME pc[Server] \in Answering PROVE Answered(s)'
      <3>1. Answered(s)
        BY <2>3 DEF Request
      <3>2. pc'[s] = "done"
        BY <1>n, <2>1, <3>1 DEF Answered
      <3>3. Moving(Server, s) => Moving(Server, s)'
        BY <1>f, <2>1, <3>2, MovingKept DEF Receiving
      <3>4. QED
        BY <1>f, <2>1, <3>1, <3>2, <3>3 DEF Answered, Message
    <2>4. QED
      BY <1>f, <1>n, <2>1, <2>2, <2>3 DEF Request
  <1>5. CASE RecvLen(s) \/ recv_data(s) \/ RecvTake(s) \/ RecvLower(s)
    BY <1>5 DEF RecvLen, recv_data, RecvTake, RecvLower, Request
  <1>6. QED
    BY <1>1, <1>2, <1>3, <1>4, <1>5 DEF Transfer

(* The caller fetches the response, or gives up on a disabled channel.     *)
LEMMA ResponseBySender ==
  ASSUME TypeOK, ChannelInv, FreeInv, NEW s \in Senders, Response(s), Transfer(s)
  PROVE  Response(s)' \/ s \notin Owners'
  <1>s. s \in Threads /\ Server \in Threads /\ s # Server /\ PcOK
    BY ServerAssumption DEF Threads, TypeOK
  <1>f. /\ UNCHANGED <<ipi, notified, tag, len>>
        /\ pc'[Server] = pc[Server] /\ off'[Server] = off[Server]
        /\ inlen'[Server] = inlen[Server] /\ in'[Server] = in[Server]
    BY <1>s, TransferFrame
  <1>1. CASE StageLen(s) \/ StagePut(s) \/ StageMark(s)
    BY <1>1 DEF StageLen, StagePut, StageMark, Response, Fetching
  <1>2. CASE send_data(s)
    <2>1. /\ pc[s] = "send" /\ UNCHANGED <<flags, off, inlen, in, data, data_len>>
          /\ \/ pc'[s] = "put" /\ off[s] < len[s]
             \/ pc'[s] = "done"
      BY <1>s, <1>2, GotoFact DEF send_data, AfterSend, chan, local
    <2>2. pc'[s] = "done"
      BY <1>s, <2>1, Numbers DEF Response
    <2>3. Moving(Server, s)'
      BY <1>f, <2>1, <2>2, MovingKept DEF Response, Receiving
    <2>4. QED
      BY <1>f, <2>1, <2>2, <2>3 DEF Response
  <1>3. CASE RecvLen(s)
    <2>1. /\ pc[s] = "rlen" /\ pc'[s] = "recv" /\ UNCHANGED <<flags, data, data_len>>
      BY <1>s, <1>3, GotoFact DEF RecvLen, chan
    <2>2. Moving(Server, s) /\ data_len = len[Server]
      BY <2>1 DEF Response, Moving
    <2>3. Moving(Server, s)'
      BY <1>3, <1>s, <2>2, MovingRecv
    <2>4. QED
      BY <1>f, <2>1, <2>3 DEF Response, Fetching
  <1>4. CASE recv_data(s)
    <2>1. /\ pc[s] = "recv" /\ UNCHANGED <<flags, off, inlen, in, data, data_len>>
          /\ Moving(Server, s) /\ inlen[s] > 0
      BY <1>4 DEF recv_data, chan, local, Response, ChannelInv, LenInv
    <2>2. CASE Goto(s, "take") /\ "staged" \in flags
      <3>1. pc'[s] = "take"
        BY <1>s, <2>2, GotoFact
      <3>2. Moving(Server, s)'
        BY <1>4, <1>s, <2>1, <2>2, MovingWait
      <3>3. QED
        BY <1>f, <2>1, <3>1, <3>2 DEF Response, Fetching
    <2>3. CASE Goto(s, AfterRecv(s))
      <3>1. pc'[s] = IF off[s] = inlen[s] THEN "reset" ELSE "err"
        BY <1>s, <2>1, <2>3, GotoFact DEF AfterRecv
      <3>2. CASE off[s] = inlen[s]
        <4>1. /\ "staged" \notin flags /\ off[Server] = len[Server]
              /\ in[s] = Message(Kind(Server), tag[Server], len[Server])
          BY <1>s, <2>1, <3>2, MovedWhole DEF Receiving
        <4>2. in[s] = Message("resp", tag[s], len[Server])
          BY <4>1 DEF Kind, Response
        <4>3. in'[s] = Message("resp", tag'[s], len'[Server])
          BY <1>f, <2>1, <4>2
        <4>4. QED
          BY <1>f, <2>1, <3>1, <3>2, <4>1, <4>3 DEF Response, Fetching
      <3>3. CASE off[s] # inlen[s]
        BY <3>1, <3>3 DEF Owners, Owning
      <3>4. QED
        BY <3>2, <3>3
    <2>4. QED
      BY <1>4, <2>2, <2>3 DEF recv_data
  <1>5. CASE RecvTake(s)
    <2>1. /\ pc[s] = "take" /\ pc'[s] = "low" /\ UNCHANGED <<flags, data, data_len>>
          /\ Moving(Server, s)
      BY <1>s, <1>5, GotoFact DEF RecvTake, chan, Response
    <2>2. Moving(Server, s)'
      BY <1>5, <1>s, <2>1, MovingTake
    <2>3. QED
      BY <1>f, <2>1, <2>2 DEF Response, Fetching
  <1>6. CASE RecvLower(s)
    <2>1. /\ pc[s] = "low" /\ pc'[s] = "recv" /\ UNCHANGED <<data, data_len>>
          /\ Moving(Server, s)
      BY <1>s, <1>6, GotoFact DEF RecvLower, Response
    <2>2. pc[Server] \notin {"put", "mark"}
      BY <1>s, <2>1 DEF Moving, FreeInv
    <2>3. Moving(Server, s)'
      BY <1>6, <1>s, <2>1, <2>2, MovingLower
    <2>4. QED
      BY <1>f, <2>1, <2>3 DEF Response, Fetching
  <1>7. QED
    BY <1>1, <1>2, <1>3, <1>4, <1>5, <1>6 DEF Transfer

(* The server takes the request and stages the first chunk of the response.*)
LEMMA RequestByServer ==
  ASSUME TypeOK, ChannelInv, FreeInv, OrderInv, "ready" \in flags, "complete" \notin flags,
         NEW s \in Senders, Request(s), Transfer(Server)
  PROVE  Request(s)'
  <1>s. s \in Threads /\ Server \in Threads /\ s # Server /\ PcOK
    BY ServerAssumption DEF Threads, TypeOK
  <1>f. /\ UNCHANGED <<ipi, notified, tag, len>>
        /\ pc'[s] = pc[s] /\ off'[s] = off[s] /\ inlen'[s] = inlen[s] /\ in'[s] = in[s]
        /\ "active" \in flags' <=> "active" \in flags
    BY <1>s, TransferFrame
  <1>n. off[s] \in Nat /\ len[s] \in Nat /\ len[s] > 0 /\ off[Server] \in Nat /\ len[Server] \in Nat
    BY <1>s, Numbers DEF Request
  <1>a. pc[Server] \in {"rlen"} \union Receiving => "active" \in flags
    BY DEF ChannelInv, ControlInv, PhaseInv, Serving, Receiving
  <1>1. CASE RecvLen(Server)
    <2>1. pc[Server] = "rlen" /\ "active" \in flags /\ Asked(s)
      BY <1>1, <1>a DEF RecvLen, Request, Asking, Dropped
    <2>2. pc'[Server] = "recv" /\ UNCHANGED <<flags, data, data_len>>
      BY <1>s, <1>1, <2>1, GotoFact DEF RecvLen, chan
    <2>3. Moving(s, Server)'
      BY <1>1, <1>s, <2>1, MovingRecv DEF Asked
    <2>4. Asked(s)'
      BY <1>f, <2>1, <2>2, <2>3 DEF Asked
    <2>5. QED
      BY <1>f, <2>2, <2>4 DEF Request, Answering
  <1>2. CASE recv_data(Server)
    <2>1. /\ pc[Server] = "recv" /\ UNCHANGED <<flags, off, inlen, in, data, data_len>>
          /\ Asked(s)
      BY <1>2 DEF recv_data, chan, local, Request, Asking, Dropped
    <2>2. CASE Goto(Server, "take") /\ "staged" \in flags
      <3>1. pc'[Server] = "take"
        BY <1>s, <2>2, GotoFact
      <3>2. Moving(s, Server)'
        BY <1>2, <1>s, <2>1, <2>2, MovingWait DEF Asked
      <3>3. Asked(s)'
        BY <1>f, <2>1, <3>2 DEF Asked
      <3>4. QED
        BY <1>f, <3>1, <3>3 DEF Request, Answering
    <2>3. CASE Goto(Server, AfterRecv(Server)) /\ off[Server] = inlen[Server]
      <3>1. pc'[Server] = "work"
        BY <1>s, <2>3, GotoFact DEF AfterRecv
      <3>2. /\ "staged" \notin flags /\ off[s] = len[s] /\ inlen[Server] = len[s]
            /\ in[Server] = Message("req", tag[s], len[s])
        BY <1>s, <2>1, <2>3, MovedWhole DEF Receiving, Asked, Kind
      <3>3. pc[s] \in {"send", "done", "halted"}
        BY <1>n, <2>1, <3>2 DEF Request, Asked, Moving
      <3>4. in'[Server] = Message("req", tag'[s], len'[s])
        BY <1>f, <2>1, <3>2
      <3>5. Answered(s)'
        BY <1>f, <2>1, <3>1, <3>2, <3>3, <3>4 DEF Answered
      <3>6. QED
        BY <1>f, <3>1, <3>5 DEF Request, Asking
    <2>4. QED
      BY <1>2, <2>2, <2>3 DEF recv_data
  <1>3. CASE RecvTake(Server)
    <2>1. /\ pc[Server] = "take" /\ pc'[Server] = "low" /\ UNCHANGED <<flags, data, data_len>>
          /\ Asked(s)
      BY <1>s, <1>3, GotoFact DEF RecvTake, chan, Request, Asking, Dropped
    <2>2. Moving(s, Server)'
      BY <1>3, <1>s, <2>1, MovingTake DEF Asked
    <2>3. Asked(s)'
      BY <1>f, <2>1, <2>2 DEF Asked
    <2>4. QED
      BY <1>f, <2>1, <2>3 DEF Request, Answering
  <1>4. CASE RecvLower(Server)
    <2>1. /\ pc[Server] = "low" /\ pc'[Server] = "recv" /\ UNCHANGED <<data, data_len>>
          /\ Asked(s)
      BY <1>s, <1>4, GotoFact DEF RecvLower, Request, Asking, Dropped
    <2>2. pc[s] \notin {"put", "mark"}
      BY <1>s, <2>1 DEF Asked, Moving, FreeInv
    <2>3. Moving(s, Server)'
      BY <1>4, <1>s, <2>1, <2>2, MovingLower DEF Asked
    <2>4. pc[s] # "ipi"
      BY <1>a, <2>1 DEF Asked, Receiving
    <2>5. Asked(s)'
      BY <1>f, <2>1, <2>3, <2>4 DEF Asked
    <2>6. QED
      BY <1>f, <2>1, <2>5 DEF Request, Answering
  <1>5. CASE send_data(Server)
    <2>1. /\ pc[Server] = "send" /\ UNCHANGED <<flags, off, inlen, in, data, data_len>>
          /\ Asked(s)
      BY <1>5 DEF send_data, chan, local, Request, Asking, Dropped
    <2>2. off[Server] = len[Server]
      BY <1>n, <2>1 DEF OrderInv
    <2>3. pc'[Server] = "idle"
      BY <1>n, <1>s, <1>5, <2>2, GotoFact DEF send_data, AfterSend
    <2>4. Moving(s, Server)'
      BY <1>f, <2>1, <2>3, MovingKept DEF Asked, Receiving
    <2>5. Asked(s)'
      BY <1>f, <2>1, <2>4 DEF Asked
    <2>6. QED
      BY <1>f, <2>3, <2>5 DEF Request, Answering
  <1>6. CASE StageLen(Server)
    <2>1. /\ pc[Server] = "len" /\ pc'[Server] = "put" /\ UNCHANGED <<flags, off>>
          /\ Answered(s)
      BY <1>s, <1>6, GotoFact DEF StageLen, local, Request, Answering
    <2>2. off[Server] = 0 /\ len[Server] > 0 /\ "staged" \notin flags
      BY <1>s, <2>1 DEF ChannelInv, ControlInv, ReplyInv, FreeInv
    <2>3. Moving(Server, s)'
      BY <1>6, <1>s, <2>1, <2>2, MovingLen DEF Answered
    <2>4. Answered(s)'
      BY <1>f, <2>1, <2>3 DEF Answered
    <2>5. QED
      BY <1>f, <2>1, <2>4 DEF Request, Asking
  <1>7. CASE StagePut(Server)
    <2>1. /\ pc[Server] = "put" /\ pc'[Server] = "mark" /\ UNCHANGED <<flags, off>>
          /\ Answered(s) /\ "staged" \notin flags
      BY <1>s, <1>7, GotoFact DEF StagePut, local, Request, Answering, FreeInv
    <2>2. Moving(Server, s)'
      BY <1>7, <1>s, <2>1, MovingPut DEF Answered
    <2>3. Answered(s)'
      BY <1>f, <2>1, <2>2 DEF Answered
    <2>4. QED
      BY <1>f, <2>1, <2>3 DEF Request, Asking
  <1>8. CASE StageMark(Server)
    <2>1. /\ pc[Server] = "mark" /\ Answered(s) /\ "staged" \notin flags
          /\ data_len' = data_len
      BY <1>s, <1>8 DEF StageMark, Request, Answering, FreeInv
    <2>2. ~(off[Server] > 0)
      BY <2>1 DEF OrderInv
    <2>3. pc'[Server] = "complete"
      BY <1>s, <1>8, <2>2, GotoFact DEF StageMark
    <2>4. Moving(Server, s)' /\ data_len = len[Server]
      BY <1>8, <1>s, <2>1, MovingMark DEF Answered, Moving
    <2>5. Answered(s)'
      BY <1>f, <2>1, <2>3, <2>4 DEF Answered
    <2>6. QED
      BY <1>f, <2>3, <2>5 DEF Request, Asking
  <1>9. QED
    BY <1>1, <1>2, <1>3, <1>4, <1>5, <1>6, <1>7, <1>8 DEF Transfer

(* The server sends the rest of the response.                              *)
LEMMA ResponseByServer ==
  ASSUME TypeOK, ChannelInv, FreeInv, OrderInv, "complete" \in flags,
         NEW s \in Senders, Response(s), Transfer(Server)
  PROVE  Response(s)'
  <1>s. s \in Threads /\ Server \in Threads /\ s # Server /\ PcOK
    BY ServerAssumption DEF Threads, TypeOK
  <1>f. /\ UNCHANGED <<ipi, notified, tag, len>>
        /\ pc'[s] = pc[s] /\ off'[s] = off[s] /\ inlen'[s] = inlen[s] /\ in'[s] = in[s]
    BY <1>s, TransferFrame
  <1>n. off[Server] \in Nat /\ len[Server] \in Nat
    BY <1>s, Numbers
  <1>1. CASE RecvLen(Server) \/ recv_data(Server) \/ RecvTake(Server) \/ RecvLower(Server)
             \/ StageLen(Server)
    BY <1>1 DEF RecvLen, recv_data, RecvTake, RecvLower, StageLen, Response
  <1>2. CASE StagePut(Server)
    <2>1. /\ pc[Server] = "put" /\ pc'[Server] = "mark" /\ UNCHANGED <<flags, off, data_len>>
          /\ "staged" \notin flags
      BY <1>s, <1>2, GotoFact DEF StagePut, local, FreeInv
    <2>2. pc[s] # "reset"
      BY <1>n, <2>1 DEF Response, ChannelInv, ControlInv, ReplyInv
    <2>3. Moving(Server, s)'
      BY <1>2, <1>s, <2>1, <2>2, MovingPut DEF Response
    <2>4. QED
      BY <1>f, <2>1, <2>2, <2>3 DEF Response
  <1>3. CASE StageMark(Server)
    <2>1. /\ pc[Server] = "mark" /\ flags' = flags \union {"staged"} /\ data_len' = data_len
          /\ "staged" \notin flags
      BY <1>s, <1>3 DEF StageMark, raise_flag, FreeInv
    <2>2. "ready" \in flags
      BY <2>1 DEF ChannelInv, ControlInv, LifeInv
    <2>3. off[Server] # 0
      BY <2>1, <2>2 DEF ChannelInv, ControlInv, PhaseInv, Serving
    <2>4. pc'[Server] = "send"
      BY <1>n, <1>s, <1>3, <2>3, GotoFact DEF StageMark
    <2>5. pc[s] # "reset"
      BY <1>n, <2>1 DEF Response, ChannelInv, ControlInv, ReplyInv
    <2>6. Moving(Server, s)'
      BY <1>3, <1>s, <2>1, <2>5, MovingMark DEF Response
    <2>7. QED
      BY <1>f, <2>1, <2>4, <2>5, <2>6 DEF Response
  <1>4. CASE send_data(Server)
    <2>1. /\ pc[Server] = "send" /\ UNCHANGED <<flags, off, inlen, in, data, data_len>>
      BY <1>4 DEF send_data, chan, local
    <2>2. "ready" \in flags
      BY <2>1 DEF ChannelInv, ControlInv, LifeInv
    <2>3. \/ pc'[Server] = "idle" /\ off[Server] = len[Server]
          \/ pc'[Server] = "put" /\ off[Server] < len[Server]
      BY <1>s, <1>4, <2>2, GotoFact DEF send_data, AfterSend
    <2>4. CASE pc[s] # "reset"
      <3>1. off[Server] < len[Server] => data_len = len[Server]
        BY <1>n DEF Response
      <3>2. Moving(Server, s)'
        BY <1>4, <1>s, <2>4, <3>1, MovingSend DEF Response
      <3>3. QED
        BY <1>f, <2>1, <2>3, <2>4, <3>2 DEF Response
    <2>5. CASE pc[s] = "reset"
      <3>1. in'[s] = Message("resp", tag'[s], len'[Server])
        BY <1>f, <2>5 DEF Response
      <3>2. QED
        BY <1>f, <2>1, <2>3, <2>5, <3>1 DEF Response
    <2>6. QED
      BY <2>4, <2>5
  <1>5. QED
    BY <1>1, <1>2, <1>3, <1>4 DEF Transfer

(* The transfer routines preserve the invariant of the bytes.              *)
LEMMA TransferData ==
  ASSUME TypeOK, ChannelInv, WakeInv, DataInv, NEW t \in Threads, Transfer(t)
  PROVE  DataInv'
  <1>s. /\ Senders \subseteq Threads /\ Server \in Threads /\ Server \notin Senders /\ PcOK
        /\ t = Server \/ t \in Senders
    BY ServerAssumption DEF Threads, TypeOK
  <1>d. FreeInv /\ FreshInv /\ OrderInv /\ RequestInv /\ ResponseInv
    BY DEF DataInv
  <1>f. /\ UNCHANGED <<ipi, notified, tag, len>>
        /\ \A u \in Threads \ {t} : /\ pc'[u] = pc[u] /\ off'[u] = off[u]
                                    /\ inlen'[u] = inlen[u] /\ in'[u] = in[u]
        /\ \A f \in {"ready", "pending", "active", "complete"} : f \in flags' <=> f \in flags
    BY TransferFrame
  <1>n. off[t] \in Nat /\ len[t] \in Nat
    BY Numbers
  (* A thread that stages a chunk is the only one.                         *)
  <1>1. ASSUME NEW u \in Threads, u # t, pc[u] \in {"len", "put", "mark"}, pc[t] = "mark"
        PROVE  FALSE
    <2>1. CASE t = Server \/ u = Server
      <3>1. pc[Server] \in {"len", "put", "mark"}
        BY <1>1, <2>1
      <3>2. t \in Senders \/ u \in Senders
        BY <1>1, <1>s DEF Threads
      <3>3. QED
        BY <1>1, <3>1, <3>2, OneStages
    <2>2. CASE t # Server /\ u # Server
      <3>1. t \in Owners /\ u \in Owners
        BY <1>1, <1>s, <2>2 DEF Owners, Owning, Threads
      <3>2. QED
        BY <1>1, <3>1 DEF ChannelInv, ControlInv, OneOwner
    <2>3. QED
      BY <2>1, <2>2
  <1>2. FreeInv'
    <2> SUFFICES ASSUME NEW u \in Threads, pc'[u] \in {"len", "put", "mark"}
                 PROVE  "staged" \notin flags'
      BY DEF FreeInv
    <2>1. CASE u # t
      <3>1. "staged" \notin flags /\ pc[u] \in {"len", "put", "mark"}
        BY <1>d, <1>f, <2>1 DEF FreeInv
      <3>2. ~StageMark(t)
        BY <1>1, <2>1, <3>1 DEF StageMark
      <3>3. QED
        BY <3>1, <3>2 DEF Transfer, StageLen, StagePut, send_data, RecvLen, recv_data, RecvTake,
           RecvLower, lower_flag, chan
    <2>2. CASE u = t
      <3>1. ~StageMark(t) /\ ~RecvLen(t) /\ ~recv_data(t) /\ ~RecvTake(t) /\ ~RecvLower(t)
        BY <1>s, <2>2, GotoFact DEF StageMark, RecvLen, recv_data, AfterRecv, RecvTake, RecvLower
      <3>2. CASE StageLen(t) \/ StagePut(t)
        BY <1>d, <3>2 DEF StageLen, StagePut, FreeInv
      <3>3. CASE send_data(t)
        <4>1. AfterSend(t) \notin {"len", "put", "mark"}
          BY DEF AfterSend
        <4>2. QED
          BY <1>s, <2>2, <3>3, <4>1, GotoFact DEF send_data, chan
      <3>4. QED
        BY <3>1, <3>2, <3>3 DEF Transfer
    <2>3. QED
      BY <2>1, <2>2
  <1>3. FreshInv'
    <2> SUFFICES ASSUME NEW s \in Senders
                 PROVE  /\ pc'[s] \in {"lock", "wait", "sleep", "len", "put", "mark", "ipi", "send", "done"} =>
                             inlen'[s] = 0
                        /\ pc'[s] \in {"lock", "wait", "sleep"} => off'[s] = 0
      BY DEF FreshInv
    <2>1. CASE s # t
      BY <1>d, <1>f, <1>s, <2>1 DEF FreshInv
    <2>2. CASE s = t
      <3>1. pc'[s] \notin {"lock", "wait", "sleep"}
        BY <1>s, <2>2, GotoFact DEF Transfer, StageLen, StagePut, StageMark, send_data, AfterSend,
           RecvLen, recv_data, AfterRecv, RecvTake, RecvLower
      <3>2. CASE StageLen(t) \/ StagePut(t) \/ StageMark(t) \/ send_data(t)
        <4>1. inlen' = inlen /\ pc[s] \in {"len", "put", "mark", "send"}
          BY <2>2, <3>2 DEF StageLen, StagePut, StageMark, send_data, local
        <4>2. QED
          BY <1>d, <3>1, <4>1 DEF FreshInv
      <3>3. CASE RecvLen(t) \/ recv_data(t) \/ RecvTake(t) \/ RecvLower(t)
        <4>1. pc'[s] \in {"recv", "take", "low", "reset", "err"}
          BY <1>s, <2>2, <3>3, GotoFact DEF RecvLen, recv_data, AfterRecv, RecvTake, RecvLower
        <4>2. QED
          BY <4>1
      <3>4. QED
        BY <3>2, <3>3 DEF Transfer
    <2>3. QED
      BY <2>1, <2>2
  <1>4. OrderInv'
    <2>1. ipi => "staged" \in flags'
      <3> SUFFICES ASSUME ipi PROVE "staged" \in flags'
        OBVIOUS
      <3>1. "staged" \in flags /\ "active" \notin flags
        BY <1>d DEF OrderInv
      <3>2. pc[t] # "low"
        <4>1. t \in Senders => pc[t] # "low"
          BY <3>1 DEF ChannelInv, ControlInv, PhaseInv, Fetching
        <4>2. pc[Server] # "low"
          BY <3>1 DEF ChannelInv, ControlInv, PhaseInv, LifeInv, Serving
        <4>3. QED
          BY <1>s, <4>1, <4>2
      <3>3. QED
        BY <3>1, <3>2 DEF Transfer, StageLen, StagePut, StageMark, send_data, RecvLen, recv_data,
           RecvTake, RecvLower, raise_flag, chan
    <2>2. CASE t # Server
      BY <1>d, <1>f, <1>s, <2>1, <2>2 DEF OrderInv
    <2>3. CASE t = Server
      <3>1. pc'[Server] \in {"put", "mark"} /\ off'[Server] > 0 => "complete" \in flags
        <4>1. CASE StageLen(t)
          BY <1>s, <2>3, <4>1 DEF StageLen, local, ChannelInv, ControlInv, ReplyInv
        <4>2. CASE StagePut(t)
          BY <1>d, <2>3, <4>2 DEF StagePut, local, OrderInv
        <4>3. CASE send_data(t)
          <5>1. off' = off /\ (pc'[Server] = "idle" \/ off[Server] < len[Server])
            BY <1>s, <2>3, <4>3, GotoFact DEF send_data, AfterSend, local
          <5>2. QED
            BY <1>d, <2>3, <4>3, <5>1 DEF send_data, OrderInv
        <4>4. CASE StageMark(t) \/ RecvLen(t) \/ recv_data(t) \/ RecvTake(t) \/ RecvLower(t)
          <5>1. pc'[Server] \notin {"put", "mark"}
            BY <1>s, <2>3, <4>4, GotoFact DEF StageMark, RecvLen, recv_data, AfterRecv, RecvTake,
               RecvLower
          <5>2. QED
            BY <5>1
        <4>5. QED
          BY <4>1, <4>2, <4>3, <4>4 DEF Transfer
      <3>2. pc'[Server] = "send" => /\ off'[Server] <= len[Server]
                                    /\ off'[Server] < len[Server] => "complete" \in flags
        <4>1. CASE StageMark(t)
          <5>1. pc[t] = "mark" /\ off'[t] = off[t] + Chunk(len[t] - off[t])
            BY <4>1 DEF StageMark, TypeOK, LocalOK
          <5>2. off[t] < len[t]
            BY <2>3, <5>1 DEF ChannelInv, ControlInv, ReplyInv
          <5>3. off'[t] <= len[t]
            BY <1>n, <5>1, <5>2, ChunkFacts
          <5>4. pc'[t] = "send" => off[t] > 0
            BY <1>s, <4>1, GotoFact DEF StageMark
          <5>5. QED
            BY <1>d, <2>3, <5>1, <5>3, <5>4 DEF OrderInv
        <4>2. CASE ~StageMark(t)
          <5>1. pc'[Server] # "send"
            BY <1>s, <2>3, <4>2, GotoFact DEF Transfer, StageLen, StagePut, send_data, AfterSend,
               RecvLen, recv_data, AfterRecv, RecvTake, RecvLower
          <5>2. QED
            BY <5>1
        <4>3. QED
          BY <4>1, <4>2
      <3>3. QED
        BY <1>d, <1>f, <2>1, <3>1, <3>2 DEF OrderInv
    <2>4. QED
      BY <2>2, <2>3
  <1>5. RequestInv'
    <2> SUFFICES ASSUME "ready" \in flags, "pending" \in flags, "complete" \notin flags
                 PROVE  \E s \in Senders : Request(s)'
      BY <1>f DEF RequestInv
    <2>1. PICK s \in Senders : Request(s)
      BY <1>d DEF RequestInv
    <2>2. CASE t = Server
      BY <1>d, <2>1, <2>2, RequestByServer
    <2>3. CASE t \in Senders
      <3>1. t \in Owners
        BY <2>3 DEF Transfer, StageLen, StagePut, StageMark, send_data, RecvLen, recv_data, RecvTake,
           RecvLower, Owners, Owning
      <3>2. Request(t)
        BY <3>1, TheCaller
      <3>3. QED
        BY <1>d, <2>3, <3>2, RequestBySender
    <2>4. QED
      BY <1>s, <2>2, <2>3
  <1>6. ResponseInv'
    <2> SUFFICES ASSUME "complete" \in flags, NEW s \in Senders, s \in Owners'
                 PROVE  Response(s)'
      BY <1>f DEF ResponseInv, Owners
    <2>1. CASE t = Server
      <3>1. s \in Owners
        BY <1>f, <1>s, <2>1 DEF Owners
      <3>2. Response(s)
        BY <1>d, <3>1 DEF ResponseInv
      <3>3. QED
        BY <1>d, <2>1, <3>2, ResponseByServer
    <2>2. CASE t \in Senders
      <3>1. t \in Owners
        BY <2>2 DEF Transfer, StageLen, StagePut, StageMark, send_data, RecvLen, recv_data, RecvTake,
           RecvLower, Owners, Owning
      <3>2. s = t
        BY <1>f, <1>s, <3>1 DEF Owners, ChannelInv, ControlInv, OneOwner
      <3>3. Response(s)
        BY <1>d, <3>1, <3>2 DEF ResponseInv
      <3>4. QED
        BY <1>d, <3>2, <3>3, ResponseBySender
    <2>3. QED
      BY <1>s, <2>1, <2>2
  <1>7. QED
    BY <1>2, <1>3, <1>4, <1>5, <1>6 DEF DataInv

(* A step of a thread that does not own the channel.                       *)
LEMMA DataKept ==
  ASSUME DataInv, UNCHANGED <<flags, data, data_len, ipi, notified>>,
         \A t \in Threads :
           t = Server \/ pc[t] \in Owning \union {"halted"} =>
             /\ pc'[t] = pc[t] /\ tag'[t] = tag[t] /\ len'[t] = len[t]
             /\ off'[t] = off[t] /\ inlen'[t] = inlen[t] /\ in'[t] = in[t],
         \A s \in Senders : pc'[s] \in Owning => pc[s] \in Owning,
         FreshInv'
  PROVE  DataInv'
  <1>s. Senders \subseteq Threads /\ Server \in Threads
    BY DEF Threads
  <1>1. FreeInv'
    <2>1. \A t \in Threads : pc'[t] \in {"len", "put", "mark"} => pc'[t] = pc[t]
      BY DEF Threads, Owning
    <2>2. QED
      BY <2>1 DEF DataInv, FreeInv
  <1>2. OrderInv'
    BY <1>s DEF DataInv, OrderInv
  <1>3. RequestInv'
    <2>1. ASSUME NEW s \in Senders, Request(s) PROVE Request(s)'
      <3>1. pc[s] \in Owning \union {"halted"}
        BY <2>1 DEF Request, Owning
      <3>2. QED
        BY <1>s, <2>1, <3>1, RequestKept
    <2>2. QED
      BY <2>1 DEF DataInv, RequestInv
  <1>4. ResponseInv'
    <2>1. ASSUME NEW s \in Senders, pc[s] \in Owning, Response(s) PROVE Response(s)'
      BY <1>s, <2>1, ResponseKept
    <2>2. QED
      BY <2>1 DEF DataInv, ResponseInv, Owners
  <1>5. QED
    BY <1>1, <1>2, <1>3, <1>4 DEF DataInv

(* The steps of sync_send preserve it.                                     *)
LEMMA SendData ==
  ASSUME TypeOK, ChannelInv, WakeInv, DataInv, NEW s \in Senders,
         SendStart(s) \/ SendSignal(s) \/ Send(s)
  PROVE  DataInv'
  <1>s. /\ s \in Threads /\ Server \in Threads /\ Senders \subseteq Threads /\ s # Server /\ PcOK
        /\ \A u \in Threads : u = Server \/ u \in Senders
    BY ServerAssumption DEF Threads, TypeOK
  <1>d. FreeInv /\ FreshInv /\ OrderInv /\ RequestInv /\ ResponseInv
    BY DEF DataInv
  <1>g. ASSUME NEW l, Goto(s, l)
        PROVE  pc'[s] = l /\ \A u \in Threads \ {s} : pc'[u] = pc[u]
    BY <1>s, <1>g, GotoFact
  <1>1. CASE SendStart(s)
    <2>1. pc[s] = "idle" /\ pc'[s] = "lock" /\ \A u \in Threads \ {s} : pc'[u] = pc[u]
      BY <1>1, <1>g DEF SendStart
    <2>2. PICK n \in ReqLens : len' = [len EXCEPT ![s] = n]
      BY <1>1 DEF SendStart
    <2>3. \A u \in Threads \ {s} : /\ tag'[u] = tag[u] /\ len'[u] = len[u] /\ off'[u] = off[u]
                                   /\ inlen'[u] = inlen[u] /\ in'[u] = in[u]
      BY <1>1, <2>2 DEF SendStart, TypeOK, LocalOK
    <2>4. inlen'[s] = 0 /\ off'[s] = 0
      BY <1>1, <1>s DEF SendStart, TypeOK, LocalOK
    <2>5. FreshInv'
      BY <1>d, <1>s, <2>1, <2>3, <2>4 DEF FreshInv
    <2>6. UNCHANGED <<flags, data, data_len, ipi, notified>>
      BY <1>1 DEF SendStart, chan
    <2>7. QED
      BY <1>s, <2>1, <2>3, <2>5, <2>6, DataKept DEF Owning
  <1>2. CASE SendSignal(s) \/ SendWait(s)
    <2>1. /\ pc[s] \in {"wait", "sleep"} /\ pc'[s] \in {"lock", "sleep"}
          /\ \A u \in Threads \ {s} : pc'[u] = pc[u]
      BY <1>2, <1>g DEF SendSignal, SendWait
    <2>2. UNCHANGED <<flags, data, data_len, ipi, notified, tag, len, off, inlen, in>>
      BY <1>2 DEF SendSignal, SendWait, chan, local
    <2>3. FreshInv'
      BY <1>d, <1>s, <2>1, <2>2 DEF FreshInv
    <2>4. QED
      BY <1>s, <2>1, <2>2, <2>3, DataKept DEF Owning
  <1>3. CASE SendReturn(s)
    <2>1. /\ pc[s] \in {"wake", "err"} /\ pc'[s] = "idle"
          /\ \A u \in Threads \ {s} : pc'[u] = IF pc[u] = "sleep" THEN "wait" ELSE pc[u]
      BY <1>3, <1>s DEF SendReturn
    <2>2. UNCHANGED <<flags, data, data_len, ipi, notified, tag, len, off, inlen, in>>
      BY <1>3 DEF SendReturn, chan, local
    <2>3. FreshInv'
      BY <1>d, <1>s, <2>1, <2>2 DEF FreshInv
    <2>4. pc[Server] # "sleep"
      BY DEF TypeOK, PcOK, ServerLabels
    <2>5. \A t \in Threads : t = Server \/ pc[t] \in Owning \union {"halted"} => pc'[t] = pc[t]
      BY <1>s, <2>1, <2>4 DEF Owning
    <2>6. \A u \in Senders : pc'[u] \in Owning => pc[u] \in Owning
      BY <1>s, <2>1 DEF Owning
    <2>7. QED
      BY <2>2, <2>3, <2>5, <2>6, DataKept
  <1>4. CASE SendAcquire(s)
    <2>0. pc[s] = "lock" /\ UNCHANGED <<data, data_len, ipi, notified, tag, len, off, inlen, in>>
      BY <1>4 DEF SendAcquire, local
    <2>1. ASSUME NEW l \in {"err", "wait"}, Goto(s, l), UNCHANGED flags PROVE DataInv'
      <3>1. pc'[s] = l /\ \A u \in Threads \ {s} : pc'[u] = pc[u]
        BY <1>g, <2>1
      <3>2. FreshInv'
        BY <1>d, <1>s, <2>0, <3>1 DEF FreshInv
      <3>3. QED
        BY <1>s, <2>0, <2>1, <3>1, <3>2, DataKept DEF Owning
    <2>2. CASE /\ "ready" \in flags /\ "pending" \notin flags
               /\ flags' = (flags \intersect {"ready"}) \union {"pending"}
               /\ Goto(s, "len")
      <3>1. /\ pc'[s] = "len" /\ \A u \in Threads \ {s} : pc'[u] = pc[u]
            /\ flags' = {"ready", "pending"}
        BY <1>g, <2>2
      <3>2. pc[Server] \in {"idle", "send"} /\ "complete" \notin flags /\ ~ipi
        <4>1. ~ipi /\ "complete" \notin flags
          BY <1>d, <2>2 DEF OrderInv
        <4>2. ~Serving /\ pc[Server] \notin {"down", "init", "dead"}
          BY <2>2 DEF ChannelInv, ControlInv, PhaseInv, LifeInv, ServerSurvives
        <4>3. pc[Server] \notin {"put", "mark"}
          <5>1. off[Server] \in Nat
            BY <1>s, Numbers
          <5>2. QED
            BY <1>d, <4>1, <4>2, <5>1 DEF OrderInv, Serving
        <4>4. QED
          BY <4>1, <4>2, <4>3 DEF Serving, TypeOK, PcOK, ServerLabels
      <3>3. off[s] = 0 /\ inlen[s] = 0 /\ len[s] > 0
        BY <1>d, <2>0 DEF FreshInv, ChannelInv, LenInv
      <3>4. FreeInv'
        BY <3>1 DEF FreeInv
      <3>5. FreshInv'
        BY <1>d, <1>s, <2>0, <3>1, <3>3 DEF FreshInv
      <3>6. OrderInv'
        BY <1>d, <1>s, <2>0, <3>1, <3>2 DEF OrderInv
      <3>7. Request(s)'
        <4>1. Moving(s, Server)'
          <5>1. Taken(Server)' = 0 /\ pc'[Server] \notin Receiving \union {"take", "low"}
            BY <1>s, <3>1, <3>2 DEF Taken, Receiving
          <5>2. QED
            BY <2>0, <3>1, <3>3, <5>1 DEF Moving, Receiving
        <4>2. Asked(s)'
          BY <2>0, <3>1, <3>3, <4>1 DEF Asked
        <4>3. QED
          BY <1>s, <2>0, <3>1, <3>2, <3>3, <4>2 DEF Request, Asking, Answering
      <3>8. QED
        BY <3>1, <3>4, <3>5, <3>6, <3>7 DEF DataInv, RequestInv, ResponseInv
    <2>3. QED
      BY <1>4, <2>1, <2>2 DEF SendAcquire
  <1>5. CASE SendIpi(s)
    <2>1. /\ pc[s] = "ipi" /\ pc'[s] = "send" /\ \A u \in Threads \ {s} : pc'[u] = pc[u]
          /\ UNCHANGED <<flags, data, data_len, tag, len, off, inlen, in>>
          /\ ipi' = (pc[Server] # "down")
      BY <1>5, <1>g DEF SendIpi, chan, local
    <2>2. s \in Owners
      BY <2>1 DEF Owners, Owning
    <2>3. "complete" \notin flags
      BY <1>d, <2>1, <2>2 DEF ResponseInv, Response, Fetching
    <2>4. FreeInv'
      BY <1>d, <1>s, <2>1 DEF FreeInv
    <2>5. FreshInv'
      BY <1>d, <1>s, <2>1 DEF FreshInv
    <2>6. CASE "ready" \in flags
      <3>1. Request(s) /\ "pending" \in flags
        BY <2>2, <2>3, <2>6, TheCaller DEF ChannelInv, ControlInv, OneOwner
      <3>2. pc[Server] \notin {"down", "init", "dead"}
        BY <2>6 DEF ChannelInv, ControlInv, LifeInv, ServerSurvives
      <3>3. pc[Server] \in Asking
        BY <2>1, <3>1, <3>2 DEF Request, Answered, Answering, Asking, TypeOK, PcOK, ServerLabels
      <3>4. Asked(s)
        BY <2>1, <3>1, <3>3 DEF Request, Dropped
      <3>5. OrderInv'
        BY <1>d, <1>s, <2>1, <3>1, <3>4 DEF OrderInv, Asked
      <3>6. Moving(s, Server)'
        BY <1>s, <2>1, <3>4, MovingKept DEF Asked
      <3>7. Asked(s)'
        BY <2>1, <3>4, <3>6 DEF Asked, Moving
      <3>8. Request(s)'
        BY <1>s, <2>1, <3>1, <3>3, <3>7 DEF Request, Asking, Answering
      <3>9. QED
        BY <2>1, <2>3, <2>4, <2>5, <3>5, <3>8 DEF DataInv, RequestInv, ResponseInv
    <2>7. CASE "ready" \notin flags
      <3>1. pc[Server] = "down"
        BY <2>1, <2>7 DEF ChannelInv, ControlInv, LifeInv
      <3>2. OrderInv'
        BY <1>d, <1>s, <2>1, <3>1 DEF OrderInv
      <3>3. QED
        BY <2>1, <2>3, <2>4, <2>5, <2>7, <3>2 DEF DataInv, RequestInv, ResponseInv
    <2>8. QED
      BY <2>6, <2>7
  <1>6. CASE SendDone(s)
    <2>1. /\ pc[s] = "done" /\ \A u \in Threads \ {s} : pc'[u] = pc[u]
          /\ pc'[s] \in {"rlen", "reset", "err"}
          /\ UNCHANGED <<flags, data, data_len, ipi, tag, len, off, inlen, in>>
      BY <1>6, <1>g DEF SendDone, chan, local
    <2>2. s \in Owners
      BY <2>1 DEF Owners, Owning
    <2>3. FreeInv'
      BY <1>d, <1>s, <2>1 DEF FreeInv
    <2>4. FreshInv'
      BY <1>d, <1>s, <2>1 DEF FreshInv
    <2>5. OrderInv'
      BY <1>d, <1>s, <2>1 DEF OrderInv
    <2>6. CASE "complete" \in flags
      <3>1. pc'[s] = IF "staged" \in flags THEN "rlen" ELSE "reset"
        BY <1>6, <1>g, <2>6 DEF SendDone
      <3>2. Response(s) /\ Moving(Server, s) /\ Taken(s) = 0
        BY <1>d, <2>1, <2>2, <2>6 DEF ResponseInv, Response, Taken, Receiving
      <3>3. Response(s)'
        <4>1. CASE "staged" \in flags
          <5>1. Moving(Server, s)'
            BY <1>s, <2>1, <3>1, <3>2, <4>1, MovingKept DEF Receiving
          <5>2. QED
            BY <1>s, <2>1, <3>1, <3>2, <4>1, <5>1 DEF Response, Fetching
        <4>2. CASE "staged" \notin flags
          <5>1. off[Server] = 0
            BY <3>2, <4>2 DEF Moving
          <5>2. pc[Server] \notin {"put", "mark"}
            BY <2>6, <5>1 DEF ChannelInv, ControlInv, LifeInv, PhaseInv, Serving
          <5>3. len[Server] = 0
            BY <1>s, <3>2, <5>1, <5>2, Numbers DEF Response, ChannelInv, ControlInv, ReplyInv
          <5>4. inlen[s] = 0 /\ in[s] \in [1..0 -> Bytes]
            BY <1>d, <1>s, <2>1 DEF FreshInv, TypeOK, LocalOK
          <5>5. in[s] = Message("resp", tag[s], 0)
            BY <5>4 DEF Message
          <5>6. in'[s] = Message("resp", tag'[s], len'[Server])
            BY <2>1, <5>3, <5>5
          <5>7. QED
            BY <1>s, <2>1, <3>1, <3>2, <4>2, <5>1, <5>3, <5>6 DEF Response, Fetching
        <4>3. QED
          BY <4>1, <4>2
      <3>4. \A u \in Senders : u \in Owners' => u = s
        BY <1>s, <2>1, <2>2 DEF Owners, ChannelInv, ControlInv, OneOwner
      <3>5. ResponseInv'
        BY <3>3, <3>4 DEF ResponseInv, Owners
      <3>6. QED
        BY <2>1, <2>3, <2>4, <2>5, <2>6, <3>5 DEF DataInv, RequestInv
    <2>7. CASE "complete" \notin flags
      <3>1. "ready" \notin flags
        BY <1>6, <2>7 DEF SendDone
      <3>2. QED
        BY <2>1, <2>3, <2>4, <2>5, <2>7, <3>1 DEF DataInv, RequestInv, ResponseInv
    <2>8. QED
      BY <2>6, <2>7
  <1>7. CASE SendReset(s)
    <2>1. /\ pc[s] = "reset" /\ pc'[s] = "wake" /\ \A u \in Threads \ {s} : pc'[u] = pc[u]
          /\ flags' = flags \intersect {"ready"}
          /\ UNCHANGED <<data, data_len, ipi, tag, len, off, inlen, in>>
      BY <1>7, <1>g DEF SendReset, reset_flags, local
    <2>2. s \in Owners /\ "complete" \in flags
      BY <2>1 DEF Owners, Owning, ChannelInv, ControlInv, PhaseInv, Fetching
    <2>3. off[Server] = len[Server] /\ off[Server] \in Nat
      BY <1>d, <1>s, <2>1, <2>2, Numbers DEF ResponseInv, Response
    <2>4. pc[Server] \notin {"put", "mark"} /\ ~ipi
      BY <1>d, <2>2, <2>3 DEF ChannelInv, ControlInv, ReplyInv, PhaseInv, OrderInv
    <2>5. OrderInv'
      BY <1>s, <2>1, <2>3, <2>4 DEF OrderInv
    <2>6. FreshInv'
      BY <1>d, <1>s, <2>1 DEF FreshInv
    <2>7. QED
      BY <2>1, <2>5, <2>6 DEF DataInv, FreeInv, RequestInv, ResponseInv
  <1>8. QED
    BY <1>1, <1>2, <1>3, <1>4, <1>5, <1>6, <1>7 DEF Send

(* The server preserves it,                                                *)
LEMMA ServeData ==
  ASSUME TypeOK, ChannelInv, WakeInv, DataInv, irq_handler \/ Serve
  PROVE  DataInv'
  <1>s. /\ Server \in Threads /\ Senders \subseteq Threads /\ Server \notin Senders /\ PcOK
        /\ \A u \in Threads : u = Server \/ u \in Senders
    BY ServerAssumption DEF Threads, TypeOK
  <1>d. FreeInv /\ FreshInv /\ OrderInv /\ RequestInv /\ ResponseInv
    BY DEF DataInv
  <1>n. off[Server] \in Nat /\ len[Server] \in Nat
    BY <1>s, Numbers
  <1>1. CASE irq_handler
    <2>1. /\ ipi /\ ~ipi' /\ UNCHANGED <<data, data_len, pc, tag, len, off, inlen, in>>
          /\ "pending" \in flags /\ "staged" \in flags /\ "active" \notin flags
      BY <1>1, <1>d DEF irq_handler, local, OrderInv
    <2>2. flags' = flags \union {"active"}
      BY <1>1, <2>1 DEF irq_handler, raise_flag
    <2>3. "complete" \notin flags /\ ~Serving
      BY <2>1 DEF ChannelInv, ControlInv, PhaseInv, LifeInv, Serving
    <2>4. FreeInv' /\ FreshInv' /\ OrderInv'
      BY <1>d, <2>1, <2>2 DEF FreeInv, FreshInv, OrderInv
    <2>5. ASSUME NEW s \in Senders, Request(s) PROVE Request(s)'
      <3>1. CASE pc[Server] \in Asking
        <4>1. Asked(s) /\ Moving(s, Server)
          BY <2>1, <2>5, <3>1 DEF Request, Asked, Dropped
        <4>2. data_len = len[s] /\ off[s] > 0
          <5>1. /\ data_len = len[s] /\ Taken(Server) < len[s]
                /\ off[s] = Taken(Server) + Chunk(len[s] - Taken(Server))
            BY <2>1, <4>1 DEF Moving
          <5>2. Taken(Server) \in Nat /\ len[s] \in Nat
            BY <1>s, Numbers
          <5>3. QED
            BY <5>1, <5>2, ChunkFacts
        <4>3. pc[s] # "ipi"
          BY <2>1, <4>1 DEF Asked
        <4>4. Moving(s, Server)'
          BY <2>1, <2>2, <4>1, MovingKept
        <4>5. Asked(s)'
          BY <2>1, <2>2, <4>1, <4>2, <4>3, <4>4 DEF Asked
        <4>6. QED
          BY <2>1, <2>5, <3>1, <4>5 DEF Request, Asking, Answering
      <3>2. CASE pc[Server] \notin Asking
        <4>1. pc[Server] \notin {"work", "len", "complete"}
          BY <2>3 DEF Serving
        <4>2. pc[Server] \notin {"put", "mark"}
          BY <1>d, <1>n, <2>3 DEF OrderInv, Serving
        <4>3. QED
          BY <2>1, <2>5, <3>2, <4>1, <4>2 DEF Request, Answering
      <3>3. QED
        BY <3>1, <3>2
    <2>6. RequestInv'
      BY <1>d, <2>2, <2>5 DEF RequestInv
    <2>7. QED
      BY <2>2, <2>3, <2>4, <2>6 DEF DataInv, ResponseInv
  <1>2. CASE ServeBegin
    <2>1. /\ pc[Server] = "idle" /\ pc'[Server] = "rlen" /\ \A u \in Senders : pc'[u] = pc[u]
          /\ UNCHANGED <<flags, data, data_len, ipi, tag, len, off, inlen, in>>
      BY <1>2, <1>s, GotoFact DEF ServeBegin, chan, local
    <2>2. "complete" \notin flags
      BY <1>2, <2>1 DEF ServeBegin, ChannelInv, ControlInv, PhaseInv, LifeInv
    <2>3. FreeInv' /\ FreshInv' /\ OrderInv'
      BY <1>d, <1>s, <2>1 DEF FreeInv, FreshInv, OrderInv
    <2>4. ASSUME NEW s \in Senders, Request(s) PROVE Request(s)'
      <3>1. Asked(s)
        BY <1>2, <2>1, <2>4 DEF ServeBegin, Request, Asking, Dropped
      <3>2. Moving(s, Server)'
        BY <2>1, <3>1, MovingKept DEF Asked, Receiving
      <3>3. Asked(s)'
        BY <2>1, <3>1, <3>2 DEF Asked
      <3>4. QED
        BY <2>1, <2>4, <3>3 DEF Request, Answering
    <2>5. QED
      BY <1>d, <2>1, <2>2, <2>3, <2>4 DEF DataInv, RequestInv, ResponseInv
  <1>3. CASE pisces_xbuf_complete
    <2>1. pc[Server] = "work" /\ Serving /\ "ready" \in flags
      BY <1>3 DEF pisces_xbuf_complete, Serving, ChannelInv, ControlInv, LifeInv
    <2>2. "active" \in flags /\ "complete" \notin flags
      BY <2>1 DEF ChannelInv, ControlInv, PhaseInv
    <2>3. PICK n \in RespLens :
            /\ tag' = [tag EXCEPT ![Server] = ReadTag(Server)]
            /\ len' = [len EXCEPT ![Server] = n]
            /\ off' = [off EXCEPT ![Server] = 0]
            /\ Goto(Server, IF n > 0 THEN "len" ELSE "complete")
      BY <1>3, <2>2 DEF pisces_xbuf_complete
    <2>4. /\ UNCHANGED <<flags, data, data_len, ipi, inlen, in>> /\ n \in Nat
          /\ pc'[Server] = (IF n > 0 THEN "len" ELSE "complete")
          /\ tag'[Server] = ReadTag(Server) /\ len'[Server] = n /\ off'[Server] = 0
          /\ \A u \in Senders : pc'[u] = pc[u] /\ tag'[u] = tag[u] /\ len'[u] = len[u] /\ off'[u] = off[u]
      <3>1. UNCHANGED <<flags, data, data_len, ipi, inlen, in>> /\ n \in Nat
        BY <1>3, LensAssumption DEF pisces_xbuf_complete, chan
      <3>2. /\ pc'[Server] = (IF n > 0 THEN "len" ELSE "complete")
            /\ \A u \in Senders : pc'[u] = pc[u]
        BY <1>s, <2>3, GotoFact
      <3>3. /\ tag'[Server] = ReadTag(Server) /\ len'[Server] = n /\ off'[Server] = 0
            /\ \A u \in Senders : tag'[u] = tag[u] /\ len'[u] = len[u] /\ off'[u] = off[u]
        BY <1>s, <2>3 DEF TypeOK, LocalOK
      <3>4. QED
        BY <3>1, <3>2, <3>3
    <2>5. PICK s \in Senders : Request(s)
      BY <1>d, <2>1, <2>2 DEF RequestInv, ChannelInv, ControlInv, PhaseInv
    <2>6. Answered(s) /\ "staged" \notin flags
      BY <2>1, <2>5 DEF Request, Answered, Answering
    <2>7. FreeInv' /\ FreshInv' /\ OrderInv'
      <3>1. FreeInv'
        BY <2>4, <2>6 DEF FreeInv
      <3>2. FreshInv'
        BY <1>d, <2>4 DEF FreshInv
      <3>3. OrderInv'
        BY <1>d, <2>4 DEF OrderInv
      <3>4. QED
        BY <3>1, <3>2, <3>3
    <2>8. ReadTag(Server) = tag[s]
      <3>1. inlen[Server] = len[s] /\ len[s] > 0 /\ in[Server] = Message("req", tag[s], len[s])
        BY <2>1, <2>5, <2>6 DEF Answered, Request
      <3>2. 1 \in 1..len[s]
        BY <1>s, <3>1, Numbers
      <3>3. in[Server][1] = Byte("req", tag[s], 1)
        BY <3>1, <3>2 DEF Message
      <3>4. QED
        BY <3>1, <3>3 DEF ReadTag, Byte
    <2>9. Request(s)'
      <3>1. pc[s] \in {"send", "done", "halted"} /\ off[s] = len[s]
        BY <2>6 DEF Answered
      <3>2. Moving(Server, s)'
        <4>1. Taken(s)' = 0
          BY <2>4, <3>1 DEF Taken, Receiving
        <4>2. QED
          BY <2>4, <2>6, <3>1, <4>1 DEF Moving, Receiving
      <3>3. Answered(s)'
        BY <2>4, <2>8, <3>1, <3>2 DEF Answered
      <3>4. QED
        BY <2>4, <2>5, <3>3 DEF Request, Asking
    <2>10. QED
      BY <2>2, <2>4, <2>7, <2>9 DEF DataInv, RequestInv, ResponseInv
  <1>4. CASE RaiseComplete
    <2>1. /\ pc[Server] = "complete" /\ pc'[Server] = "send" /\ \A u \in Senders : pc'[u] = pc[u]
          /\ flags' = flags \union {"complete"}
          /\ UNCHANGED <<data, data_len, ipi, tag, len, off, inlen, in>>
      BY <1>4, <1>s, GotoFact DEF RaiseComplete, raise_flag, local
    <2>2. "ready" \in flags /\ "pending" \in flags /\ "active" \in flags /\ "complete" \notin flags
      BY <2>1 DEF ChannelInv, ControlInv, LifeInv, PhaseInv, Serving
    <2>3. PICK s \in Senders : Request(s)
      BY <1>d, <2>2 DEF RequestInv
    <2>4. off[Server] <= len[Server]
      <3>1. Moving(Server, s) /\ Taken(s) = 0
        BY <2>1, <2>3 DEF Request, Answered, Answering, Taken, Receiving
      <3>2. off[Server] = 0 \/ off[Server] = 0 + Chunk(len[Server] - 0)
        BY <3>1 DEF Moving
      <3>3. QED
        BY <1>n, <3>2, ChunkFacts
    <2>5. FreeInv' /\ FreshInv'
      BY <1>d, <1>s, <2>1 DEF FreeInv, FreshInv
    <2>6. OrderInv'
      BY <1>d, <2>1, <2>2, <2>4 DEF OrderInv
    <2>7. ASSUME NEW u \in Senders, u \in Owners PROVE Response(u)'
      <3>1. Request(u)
        BY <2>2, <2>7, TheCaller
      <3>2. /\ Answered(u) /\ Moving(Server, u) /\ tag[Server] = tag[u]
            /\ pc[u] \in {"send", "done"}
        BY <2>1, <2>7, <3>1 DEF Request, Answered, Answering, Owners, Owning
      <3>3. Moving(Server, u)'
        BY <2>1, <3>2, MovingKept
      <3>4. QED
        BY <2>1, <3>2, <3>3 DEF Response, Answered
    <2>8. ResponseInv'
      BY <2>1, <2>7 DEF ResponseInv, Owners
    <2>9. QED
      BY <2>1, <2>5, <2>6, <2>8 DEF DataInv, RequestInv
  <1>5. CASE ServeAbandon
    <2>1. /\ pc[Server] = "work" /\ pc'[Server] = "idle" /\ \A u \in Senders : pc'[u] = pc[u]
          /\ UNCHANGED <<flags, data, data_len, ipi, tag, len, off, inlen, in>>
      BY <1>5, <1>s, GotoFact DEF ServeAbandon, chan, local
    <2>2. "complete" \notin flags /\ "active" \in flags
      BY <2>1 DEF ChannelInv, ControlInv, PhaseInv, LifeInv, Serving
    <2>3. FreeInv' /\ FreshInv' /\ OrderInv'
      BY <1>d, <1>s, <2>1 DEF FreeInv, FreshInv, OrderInv
    <2>4. ASSUME NEW s \in Senders, Request(s) PROVE Request(s)'
      <3>1. Answered(s)
        BY <2>1, <2>4 DEF Request, Answering
      <3>2. Dropped(s)'
        BY <1>5, <2>1, <2>2, <3>1 DEF Dropped, Answered, ServeAbandon, ChannelInv, ControlInv, PhaseInv,
           LifeInv, Serving
      <3>3. QED
        BY <2>1, <2>4, <3>2 DEF Request, Answering
    <2>5. QED
      BY <1>d, <2>1, <2>2, <2>3, <2>4 DEF DataInv, RequestInv, ResponseInv
  <1>6. QED
    BY <1>1, <1>2, <1>3, <1>4, <1>5 DEF Serve

(* and so does the channel's life.                                         *)
LEMMA LifeData ==
  ASSUME TypeOK, ChannelInv, WakeInv, DataInv, Life
  PROVE  DataInv'
  <1>s. /\ Server \in Threads /\ Senders \subseteq Threads /\ Server \notin Senders /\ PcOK
        /\ \A u \in Threads : u = Server \/ u \in Senders
    BY ServerAssumption DEF Threads, TypeOK
  <1>d. FreeInv /\ FreshInv /\ OrderInv /\ RequestInv /\ ResponseInv
    BY DEF DataInv
  <1>1. CASE pisces_xbuf_server_init \/ pisces_xbuf_enable
    <2>1. flags' \subseteq {"ready"} /\ ~ipi'
      BY <1>1 DEF pisces_xbuf_server_init, pisces_xbuf_enable, set_flags, ChannelInv, ControlInv,
         LifeInv
    <2>2. /\ pc'[Server] \in {"init", "idle"}
          /\ \A s \in Senders : pc'[s] \in {"boot", "halted"}
      BY <1>1, <1>s, GotoFact DEF pisces_xbuf_server_init, pisces_xbuf_enable, ChannelInv, ControlInv,
         LifeInv
    <2>3. QED
      BY <2>1, <2>2 DEF DataInv, FreeInv, FreshInv, OrderInv, RequestInv, ResponseInv
  <1>2. CASE pisces_xbuf_disable
    <2>1. /\ pc[Server] \in {"idle", "work"} /\ pc'[Server] = "down"
          /\ \A u \in Senders : pc'[u] = pc[u]
          /\ flags' = flags \ {"ready"} /\ ~ipi'
          /\ UNCHANGED <<data, data_len, tag, len, off, inlen, in>>
      BY <1>2, <1>s, GotoFact DEF pisces_xbuf_disable, lower_flag, local, ChannelInv, ControlInv,
         ServerSurvives
    <2>2. FreeInv' /\ FreshInv' /\ OrderInv'
      BY <1>d, <1>s, <2>1 DEF FreeInv, FreshInv, OrderInv
    <2>3. ASSUME "complete" \in flags, NEW s \in Senders, s \in Owners PROVE Response(s)'
      <3>1. Response(s) /\ pc[Server] = "idle"
        BY <1>d, <2>1, <2>3 DEF ResponseInv, Response
      <3>2. Moving(Server, s) => Moving(Server, s)'
        BY <2>1, <2>3, <1>s, MovingKept
      <3>3. in'[s] = in[s] /\ tag'[s] = tag[s] /\ len'[Server] = len[Server]
        BY <2>1
      <3>4. QED
        BY <2>1, <3>1, <3>2, <3>3 DEF Response
    <2>4. QED
      BY <2>1, <2>2, <2>3 DEF DataInv, RequestInv, ResponseInv, Owners
  <1>3. CASE BootSenders
    <2>1. /\ \A s \in Senders : pc[s] = "boot" /\ pc'[s] = "idle"
          /\ pc'[Server] = pc[Server]
          /\ UNCHANGED <<flags, data, data_len, ipi, tag, len, off, inlen, in>>
      BY <1>3, <1>s DEF BootSenders, chan, local
    <2>2. FreeInv' /\ FreshInv' /\ OrderInv'
      BY <1>d, <1>s, <2>1 DEF FreeInv, FreshInv, OrderInv
    <2>3. RequestInv'
      BY <1>d, <2>1 DEF RequestInv, Request
    <2>4. ResponseInv'
      BY <2>1 DEF ResponseInv, Owners, Owning
    <2>5. QED
      BY <2>2, <2>3, <2>4 DEF DataInv
  <1>4. CASE StopSenders
    <2>1. /\ \A s \in Senders : pc'[s] = "halted"
          /\ pc'[Server] = pc[Server]
          /\ UNCHANGED <<flags, data, data_len, ipi, notified, tag, len, off, inlen, in>>
      BY <1>4, <1>s DEF StopSenders, chan, local
    <2>2. FreeInv' /\ FreshInv' /\ OrderInv'
      BY <1>d, <1>s, <2>1 DEF FreeInv, FreshInv, OrderInv
    <2>3. ASSUME NEW s \in Senders, Request(s) PROVE Request(s)'
      <3>1. Moving(s, Server) => Moving(s, Server)'
        BY <2>1, MovingKept
      <3>2. pc[s] \notin Receiving /\ pc'[s] \notin Receiving
        BY <2>1, <2>3 DEF Request, Receiving
      <3>3. Moving(Server, s) => Moving(Server, s)'
        BY <2>1, <3>2, MovingKept
      <3>4. Asked(s) => Asked(s)'
        BY <2>1, <3>1 DEF Asked
      <3>5. Answered(s) => Answered(s)'
        BY <2>1, <3>3 DEF Answered, Message
      <3>6. Dropped(s) => Dropped(s)'
        BY <2>1 DEF Dropped
      <3>7. QED
        BY <2>1, <2>3, <3>4, <3>5, <3>6 DEF Request
    <2>4. RequestInv'
      BY <1>d, <2>1, <2>3 DEF RequestInv
    <2>5. ResponseInv'
      BY <2>1 DEF ResponseInv, Owners, Owning
    <2>6. QED
      BY <2>2, <2>4, <2>5 DEF DataInv
  <1>5. QED
    BY <1>1, <1>2, <1>3, <1>4 DEF Life

(* The invariant of the bytes holds of every instance.                     *)
THEOREM DataSafe == Spec => []DataInv
  <1>1. Init => DataInv
    <2> SUFFICES ASSUME Init PROVE DataInv
      OBVIOUS
    <2>1. flags = {} /\ ~ipi /\ pc[Server] = "down" /\ \A s \in Senders : pc[s] = "halted"
      BY ServerAssumption DEF Init, Threads
    <2>2. \A t \in Threads : pc[t] \notin {"len", "put", "mark"}
      BY <2>1 DEF Threads
    <2>3. QED
      BY <2>1, <2>2 DEF DataInv, FreeInv, FreshInv, OrderInv, RequestInv, ResponseInv
  <1>2. TypeOK /\ ChannelInv /\ WakeInv /\ DataInv /\ [Next]_vars => DataInv'
    <2> SUFFICES ASSUME TypeOK, ChannelInv, WakeInv, DataInv, [Next]_vars PROVE DataInv'
      OBVIOUS
    <2>1. CASE UNCHANGED vars
      <3>1. FreshInv'
        BY <2>1 DEF vars, DataInv, FreshInv
      <3>2. QED
        BY <2>1, <3>1, DataKept DEF vars
    <2>2. CASE Next
      BY <2>2, TransferData, SendData, ServeData, LifeData DEF Next
    <2>3. QED
      BY <2>1, <2>2
  <1>3. QED
    BY <1>1, <1>2, TypeCorrect, ChannelSafe, WakeSafe, PTL DEF Spec

(* The request the server works on is, byte for byte, what a sender passed *)
(* to sync_send, for any buffer size and any lengths (pisces_xbuf.c:95-176)*)
THEOREM RequestCorrect == Spec => []RequestIntact
  <1>1. ChannelInv /\ DataInv => RequestIntact
    <2> SUFFICES ASSUME ChannelInv, DataInv, pc[Server] = "work" PROVE RequestIntact
      BY DEF RequestIntact
    <2>1. "ready" \in flags /\ "pending" \in flags /\ "complete" \notin flags
      BY DEF ChannelInv, ControlInv, LifeInv, PhaseInv, Serving
    <2>2. PICK s \in Senders : Request(s)
      BY <2>1 DEF DataInv, RequestInv
    <2>3. Answered(s)
      BY <2>2 DEF Request, Answering
    <2>4. QED
      BY <2>3 DEF Answered, RequestIntact
  <1>2. QED
    BY <1>1, ChannelSafe, DataSafe, PTL

(* A sender that returns success holds the whole response to its own       *)
(* request (pisces_xbuf.c:302-326).                                        *)
THEOREM ResponseCorrect == Spec => []ResponseIntact
  <1>1. ChannelInv /\ DataInv => ResponseIntact
    <2> SUFFICES ASSUME ChannelInv, DataInv, NEW s \in Senders, pc[s] = "reset"
                 PROVE  in[s] = Message("resp", tag[s], len[Server])
      BY DEF ResponseIntact
    <2>1. s \in Owners /\ "complete" \in flags
      BY DEF Owners, Owning, ChannelInv, ControlInv, PhaseInv, Fetching
    <2>2. QED
      BY <2>1 DEF DataInv, ResponseInv, Response
  <1>2. QED
    BY <1>1, ChannelSafe, DataSafe, PTL

(* A staged chunk is never overwritten before the other end took it.       *)
THEOREM ChunkSafe == Spec => NoOverwrite
  <1>1. TypeOK /\ FreeInv /\ [Next]_vars => [data' # data => "staged" \notin flags \/ inits' # inits]_vars
    <2> SUFFICES ASSUME TypeOK, FreeInv, Next, data' # data
                 PROVE  "staged" \notin flags \/ inits' # inits
      BY DEF vars
    <2>1. CASE \E t \in Threads : Transfer(t)
      <3>1. PICK t \in Threads : Transfer(t)
        BY <2>1
      <3>2. StagePut(t)
        BY <3>1 DEF Transfer, StageLen, StageMark, send_data, RecvLen, recv_data, RecvTake, RecvLower,
           chan
      <3>3. QED
        BY <3>2 DEF StagePut, FreeInv
    <2>2. CASE \E s \in Senders : SendStart(s) \/ SendSignal(s) \/ Send(s)
      BY <2>2 DEF SendStart, SendSignal, Send, SendAcquire, SendWait, SendIpi, SendDone, SendReset,
         SendReturn, chan
    <2>3. CASE irq_handler \/ Serve
      BY <2>3 DEF irq_handler, Serve, ServeBegin, pisces_xbuf_complete, RaiseComplete, ServeAbandon,
         chan
    <2>4. CASE Life
      <3>1. pisces_xbuf_server_init
        BY <2>4 DEF Life, pisces_xbuf_enable, pisces_xbuf_disable, BootSenders, StopSenders, chan
      <3>2. QED
        BY <3>1 DEF pisces_xbuf_server_init, TypeOK
    <2>5. QED
      BY <2>1, <2>2, <2>3, <2>4 DEF Next
  <1>2. QED
    BY <1>1, TypeCorrect, DataSafe, PTL DEF Spec, NoOverwrite, DataInv

-----------------------------------------------------------------------------
(***************************************************************************)
(* The service keeps the contract of the xbuf.                             *)
(***************************************************************************)

(* A step of the kernel thread is a step of the server, or none of Xbuf.   *)
LEMMA ThreadXbuf ==
  ASSUME Thread
  PROVE  [Next]_vars
  <1>1. CASE ThreadTop \/ ThreadWait \/ ThreadFetched \/ ThreadLoop
    BY <1>1 DEF ThreadTop, ThreadWait, ThreadFetched, ThreadLoop
  <1>2. CASE ThreadFetch
    <2>1. UNCHANGED vars \/ ServeBegin
      BY <1>2 DEF ThreadFetch
    <2>2. QED
      BY <2>1 DEF Next, Serve
  <1>3. CASE ThreadHandle
    <2>1. pisces_xbuf_complete \/ RaiseComplete \/ ServeAbandon
      BY <1>3 DEF ThreadHandle
    <2>2. QED
      BY <2>1 DEF Next, Serve
  <1>4. QED
    BY <1>1, <1>2, <1>3 DEF Thread

(* An ioctl is a step of the channel's life, or none of Xbuf.              *)
LEMMA IoctlXbuf ==
  ASSUME Ioctl
  PROVE  [Next]_vars
  <1>1. UNCHANGED vars \/ Life
    BY DEF Ioctl, LaunchInit, LaunchEnable, LaunchBoot, LateBoot, ResetStop, KthreadStop,
       LcallDeinit, Life
  <1>2. QED
    BY <1>1 DEF Next

(* The long-call service implements Xbuf: lcall_kern_thread calls recv and *)
(* complete, and the ioctls set the channel up and down, only when Xbuf    *)
(* allows it (pisces_lcall.c, enclave.c).                                  *)
THEOREM LcallImplements == LSpec => XbufSpec
  <1>1. LInit => Init
    BY DEF LInit
  <1>2. [LNext]_lvars => [Next]_vars
    <2> SUFFICES ASSUME [LNext]_lvars PROVE [Next]_vars
      OBVIOUS
    <2>1. CASE UNCHANGED lvars
      BY <2>1 DEF lvars
    <2>2. CASE Thread
      BY <2>2, ThreadXbuf
    <2>3. CASE Ioctl
      BY <2>3, IoctlXbuf
    <2>4. CASE lcall_handler
      BY <2>4 DEF lcall_handler, Next
    <2>5. CASE \E s \in Senders : Enclave(s)
      <3>1. PICK s \in Senders : Enclave(s)
        BY <2>5
      <3>2. s \in Threads
        BY DEF Threads
      <3>3. QED
        BY <3>1, <3>2 DEF Enclave, Next
    <2>6. CASE Transfer(Server)
      <3>1. Server \in Threads
        BY DEF Threads
      <3>2. QED
        BY <2>6, <3>1 DEF Next
    <2>7. QED
      BY <2>1, <2>2, <2>3, <2>4, <2>5, <2>6 DEF LNext
  <1>3. QED
    BY <1>1, <1>2, PTL DEF LSpec, XbufSpec, Spec

-----------------------------------------------------------------------------
(***************************************************************************)
(* No accepted request is slept over.                                      *)
(***************************************************************************)

(* A request that was accepted and not completed is announced to the       *)
(* serving thread, or the thread works on it, or left it.                  *)
AcceptedInv ==
  "ready" \in flags /\ "active" \in flags /\ "complete" \notin flags =>
    notified \/ Serving \/ left

(* The steps of the channel that no handler's bare return is part of.      *)
Answers ==
  \/ UNCHANGED vars
  \/ \E t \in Threads : Transfer(t)
  \/ \E s \in Senders : SendStart(s) \/ SendSignal(s) \/ Send(s)
  \/ irq_handler \/ ServeBegin \/ pisces_xbuf_complete \/ RaiseComplete
  \/ pisces_xbuf_enable \/ pisces_xbuf_disable \/ BootSenders \/ StopSenders

(* A request is left by a handler's bare return only, and forgotten only   *)
(* when the channel is initialised.                                        *)
LEMMA LeftStep ==
  ASSUME [LNext]_lvars
  PROVE  \/ ServeAbandon /\ left' = TRUE
         \/ pisces_xbuf_server_init
         \/ Answers /\ left' = left
  <1>1. CASE UNCHANGED lvars
    BY <1>1 DEF lvars, Answers
  <1>2. CASE Thread
    BY <1>2 DEF Thread, ThreadTop, ThreadWait, ThreadFetch, ThreadFetched, ThreadHandle, ThreadLoop,
       Answers
  <1>3. CASE lcall_handler
    BY <1>3 DEF lcall_handler, Answers
  <1>4. CASE Ioctl
    BY <1>4 DEF Ioctl, LaunchInit, LaunchEnable, LaunchBoot, LateBoot, ResetStop, KthreadStop,
       LcallDeinit, Answers
  <1>5. CASE (\E s \in Senders : Enclave(s)) /\ left' = left
    BY <1>5 DEF Enclave, Answers, Threads
  <1>6. CASE Transfer(Server) /\ left' = left
    BY <1>6 DEF Answers, Threads
  <1>7. QED
    BY <1>1, <1>2, <1>3, <1>4, <1>5, <1>6 DEF LNext

(* Every step of the service preserves it.                                 *)
LEMMA AcceptedStep ==
  ASSUME TypeOK, ChannelInv, AcceptedInv, [LNext]_lvars
  PROVE  AcceptedInv'
  <1>s. /\ Server \in Threads /\ Senders \subseteq Threads /\ Server \notin Senders /\ PcOK
        /\ \A u \in Threads : u = Server \/ u \in Senders
    BY ServerAssumption DEF Threads, TypeOK
  <1>a. CASE ServeAbandon /\ left' = TRUE
    BY <1>a DEF AcceptedInv
  <1>b. CASE pisces_xbuf_server_init
    BY <1>b DEF pisces_xbuf_server_init, set_flags, AcceptedInv
  <1> SUFFICES ASSUME Answers, left' = left PROVE AcceptedInv'
    BY <1>a, <1>b, LeftStep
  (* A step that leaves the server alone and raises no ACTIVE.             *)
  <1>k. ASSUME "ready" \in flags' => "ready" \in flags,
               "active" \in flags' => "active" \in flags /\ ("complete" \in flags => "complete" \in flags'),
               notified' = notified, pc'[Server] = pc[Server], off'[Server] = off[Server]
        PROVE  AcceptedInv'
    BY <1>k DEF AcceptedInv, Serving
  <1>1. CASE UNCHANGED vars
    BY <1>1, <1>k DEF vars
  <1>2. ASSUME NEW t \in Senders, Transfer(t) PROVE AcceptedInv'
    BY <1>k, <1>s, <1>2, TransferFrame
  <1>3. CASE Transfer(Server)
    <2>1. /\ notified' = notified
          /\ \A f \in {"ready", "pending", "active", "complete"} : f \in flags' <=> f \in flags
      BY <1>3, <1>s, TransferFrame
    <2>2. Serving => Serving'
      <3>1. CASE StageLen(Server)
        BY <1>s, <3>1, GotoFact DEF StageLen, local, Serving, ChannelInv, ControlInv, ReplyInv
      <3>2. CASE StagePut(Server)
        BY <1>s, <3>2, GotoFact DEF StagePut, local, Serving
      <3>3. CASE StageMark(Server)
        <4>1. pc[Server] = "mark" /\ pc'[Server] = IF off[Server] > 0 THEN "send" ELSE "complete"
          BY <1>s, <3>3, GotoFact DEF StageMark
        <4>2. QED
          BY <4>1 DEF Serving
      <3>4. CASE send_data(Server)
        BY <3>4 DEF send_data, Serving
      <3>5. CASE RecvLen(Server)
        <4>1. "active" \in flags
          BY <3>5 DEF RecvLen, ChannelInv, ControlInv, LifeInv, PhaseInv, Serving
        <4>2. QED
          BY <1>s, <3>5, <4>1, GotoFact DEF RecvLen, Serving
      <3>6. CASE recv_data(Server)
        BY <1>s, <3>6, GotoFact DEF recv_data, AfterRecv, Serving
      <3>7. CASE RecvTake(Server) \/ RecvLower(Server)
        BY <1>s, <3>7, GotoFact DEF RecvTake, RecvLower, Serving
      <3>8. QED
        BY <1>3, <3>1, <3>2, <3>3, <3>4, <3>5, <3>6, <3>7 DEF Transfer
    <2>3. QED
      BY <2>1, <2>2 DEF AcceptedInv
  <1>4. ASSUME NEW s \in Senders, SendStart(s) \/ SendSignal(s) \/ Send(s) PROVE AcceptedInv'
    <2>1. pc'[Server] = pc[Server] /\ notified' = notified
      <3>1. CASE SendReturn(s)
        BY <1>s, <3>1 DEF SendReturn, TypeOK, PcOK, ServerLabels
      <3>2. CASE ~SendReturn(s)
        BY <1>s, <1>4, <3>2, GotoFact DEF SendStart, SendSignal, Send, SendAcquire, SendWait, SendIpi,
           SendDone, SendReset
      <3>3. QED
        BY <3>1, <3>2
    <2>2. off'[Server] = off[Server]
      BY <1>s, <1>4 DEF SendStart, SendSignal, Send, SendAcquire, SendWait, SendIpi, SendDone, SendReset,
         SendReturn, local, TypeOK, LocalOK
    <2>3. \/ flags' = flags
          \/ "active" \notin flags' /\ ("ready" \in flags' => "ready" \in flags)
      BY <1>4 DEF SendStart, SendSignal, Send, SendAcquire, SendWait, SendIpi, SendDone, SendReset,
         SendReturn, reset_flags, chan
    <2>4. QED
      BY <1>k, <2>1, <2>2, <2>3
  <1>5. CASE irq_handler
    <2>1. pc' = pc /\ off' = off
      BY <1>5 DEF irq_handler, local
    <2>2. CASE "pending" \in flags /\ "active" \notin flags
      BY <1>5, <2>2 DEF irq_handler, AcceptedInv
    <2>3. CASE ~("pending" \in flags /\ "active" \notin flags)
      BY <1>5, <1>k, <2>1, <2>3 DEF irq_handler
    <2>4. QED
      BY <2>2, <2>3
  <1>6. CASE ServeBegin
    <2>1. pc'[Server] = "rlen"
      BY <1>6, <1>s, GotoFact DEF ServeBegin
    <2>2. QED
      BY <2>1 DEF AcceptedInv, Serving
  <1>7. CASE pisces_xbuf_complete
    <2>1. pc[Server] = "work" /\ flags' = flags
      BY <1>7 DEF pisces_xbuf_complete, chan
    <2>2. "active" \in flags => pc'[Server] \in {"len", "complete"}
      BY <1>7, <1>s, GotoFact DEF pisces_xbuf_complete
    <2>3. QED
      BY <2>1, <2>2 DEF AcceptedInv, Serving
  <1>8. CASE RaiseComplete
    BY <1>8 DEF RaiseComplete, raise_flag, AcceptedInv
  <1>9. CASE pisces_xbuf_enable \/ pisces_xbuf_disable
    BY <1>9 DEF pisces_xbuf_enable, pisces_xbuf_disable, set_flags, lower_flag, AcceptedInv
  <1>10. CASE BootSenders \/ StopSenders
    BY <1>10, <1>k, <1>s DEF BootSenders, StopSenders, chan, local
  <1>11. QED
    BY <1>s, <1>1, <1>2, <1>3, <1>4, <1>5, <1>6, <1>7, <1>8, <1>9, <1>10 DEF Answers

(* What the service adds to it: its thread waits only while the server is  *)
(* idle, and sleeps only while active_lcall is clear.                      *)
ThreadInv ==
  /\ thr \in ThreadLabels /\ should_stop \in BOOLEAN /\ op \in Ops /\ left \in BOOLEAN
  /\ thr \in {"top", "wait", "sleep", "woken"} => pc[Server] = "idle"
  /\ thr = "sleep" => ~notified
  /\ op \in {"loaded", "resetdown"} => thr \in {"none", "exited"}

(* The invariant of the service.                                           *)
LcallIInv == TypeOK /\ ChannelInv /\ AcceptedInv /\ ThreadInv

(* It implies what the run checks.                                         *)
LEMMA LcallIInvImplies ==
  ASSUME LcallIInv
  PROVE  LcallInv
  <1>1. thr = "sleep" => pc[Server] = "idle" /\ ~notified
    BY DEF LcallIInv, ThreadInv
  <1>2. pc[Server] = "idle" => "ready" \in flags /\ ~Serving
    BY DEF LcallIInv, ChannelInv, ControlInv, LifeInv, Serving
  <1>3. SleepMeansServed
    BY <1>1, <1>2 DEF LcallIInv, AcceptedInv, SleepMeansServed
  <1>4. QED
    BY <1>3 DEF LcallIInv, ThreadInv, LcallInv, LTypeOK

(* Every step of the service preserves it.                                 *)
LEMMA ThreadStep ==
  ASSUME TypeOK, ChannelInv, ThreadInv, [LNext]_lvars
  PROVE  ThreadInv'
  <1>s. Server \in Threads /\ Senders \subseteq Threads /\ Server \notin Senders /\ PcOK
    BY ServerAssumption DEF Threads, TypeOK
  <1>1. CASE UNCHANGED lvars
    BY <1>1 DEF lvars, vars, ThreadInv
  <1>2. CASE ThreadTop \/ ThreadWait
    <2>1. UNCHANGED <<pc, notified, should_stop, op, left>>
      BY <1>2 DEF ThreadTop, ThreadWait, vars
    <2>2. /\ thr \in {"top", "wait"} /\ thr' \in {"exited", "wait", "woken", "sleep"}
          /\ thr' = "sleep" => ~notified
      BY <1>2 DEF ThreadTop, ThreadWait
    <2>3. QED
      BY <2>1, <2>2 DEF ThreadInv, ThreadLabels
  <1>3. CASE ThreadFetch
    <2>1. thr = "woken" /\ thr' \in {"exited", "recv"} /\ UNCHANGED <<should_stop, op, left>>
      BY <1>3 DEF ThreadFetch
    <2>2. QED
      BY <2>1 DEF ThreadInv, ThreadLabels
  <1>4. CASE ThreadFetched
    <2>1. thr = "recv" /\ thr' \in {"exited", "handle"} /\ UNCHANGED <<should_stop, op, left>>
      BY <1>4 DEF ThreadFetched
    <2>2. QED
      BY <2>1 DEF ThreadInv, ThreadLabels
  <1>5. CASE ThreadHandle
    <2>1. thr = "handle" /\ UNCHANGED <<thr, should_stop, op>> /\ (left' = left \/ left' = TRUE)
      BY <1>5 DEF ThreadHandle
    <2>2. QED
      BY <2>1 DEF ThreadInv
  <1>6. CASE ThreadLoop
    <2>1. thr = "handle" /\ pc[Server] = "idle" /\ thr' = "top" /\ UNCHANGED <<pc, should_stop, op, left>>
      BY <1>6 DEF ThreadLoop, vars
    <2>2. QED
      BY <2>1 DEF ThreadInv, ThreadLabels
  <1>7. CASE lcall_handler
    <2>1. /\ pc' = pc /\ UNCHANGED <<should_stop, op, left>>
          /\ thr' = IF notified' /\ thr = "sleep" THEN "wait" ELSE thr
      BY <1>7 DEF lcall_handler, irq_handler
    <2>2. QED
      BY <2>1 DEF ThreadInv, ThreadLabels
  <1>8. CASE LaunchInit
    <2>1. /\ should_stop' = should_stop /\ op' = "init" /\ notified' = FALSE /\ left' = FALSE
          /\ \/ thr' = "none"
             \/ thr' = thr /\ thr \in {"none", "exited"}
      <3>1. CASE op = "failed"
        BY <1>8, <3>1 DEF LaunchInit, pisces_xbuf_server_init
      <3>2. CASE op # "failed"
        BY <1>8, <3>2 DEF LaunchInit, pisces_xbuf_server_init, ThreadInv
      <3>3. QED
        BY <3>1, <3>2
    <2>2. thr' \notin {"top", "wait", "sleep", "woken"}
      BY <2>1 DEF ThreadInv
    <2>3. QED
      BY <2>1, <2>2 DEF ThreadInv, Ops, ThreadLabels
  <1>9. CASE LaunchEnable
    <2>1. pc'[Server] = "idle" /\ thr' = "top" /\ should_stop' = FALSE /\ op' = "boot" /\ left' = left
      BY <1>9, <1>s, GotoFact DEF LaunchEnable, pisces_xbuf_enable
    <2>2. QED
      BY <2>1 DEF ThreadInv, Ops, ThreadLabels
  <1>10. CASE LaunchBoot \/ LateBoot \/ ResetStop
    <2>1. /\ pc'[Server] = pc[Server] /\ notified' = notified /\ UNCHANGED <<thr, should_stop, left>>
          /\ op' \in {"running", "failed", "reset"}
      BY <1>10, <1>s DEF LaunchBoot, LateBoot, ResetStop, BootSenders, StopSenders, vars
    <2>2. QED
      BY <2>1 DEF ThreadInv, Ops
  <1>11. CASE KthreadStop
    <2>1. /\ UNCHANGED <<pc, notified>> /\ should_stop' = TRUE /\ op' \in {"resetjoin", "freejoin"}
          /\ left' = left
          /\ thr' = IF thr = "sleep" THEN "wait" ELSE thr
      BY <1>11 DEF KthreadStop, vars
    <2>2. QED
      BY <2>1 DEF ThreadInv, Ops, ThreadLabels
  <1>12. CASE LcallDeinit
    <2>1. thr = "exited" /\ UNCHANGED <<thr, should_stop, left>> /\ op' \in {"resetdown", "gone"}
      BY <1>12 DEF LcallDeinit
    <2>2. QED
      BY <2>1 DEF ThreadInv, Ops
  <1>13. CASE (\E s \in Senders : Enclave(s)) /\ UNCHANGED <<thr, should_stop, op, left>>
    <2>1. PICK s \in Senders : Enclave(s)
      BY <1>13
    <2>2. notified' = notified /\ pc'[Server] = pc[Server]
      <3>1. CASE Transfer(s)
        BY <1>s, <3>1, TransferFrame
      <3>2. CASE SendReturn(s)
        BY <1>s, <3>2 DEF SendReturn, TypeOK, PcOK, ServerLabels
      <3>3. CASE (SendStart(s) \/ SendSignal(s) \/ Send(s)) /\ ~SendReturn(s)
        BY <1>s, <3>3, GotoFact DEF SendStart, SendSignal, Send, SendAcquire, SendWait, SendIpi,
           SendDone, SendReset
      <3>4. QED
        BY <2>1, <3>1, <3>2, <3>3 DEF Enclave
    <2>3. QED
      BY <1>13, <2>2 DEF ThreadInv
  <1>14. CASE Transfer(Server) /\ UNCHANGED <<thr, should_stop, op, left>>
    <2>1. pc[Server] # "idle"
      BY <1>14 DEF Transfer, StageLen, StagePut, StageMark, send_data, RecvLen, recv_data, RecvTake,
         RecvLower
    <2>2. QED
      BY <1>14, <2>1 DEF ThreadInv
  <1>15. QED
    BY <1>1, <1>2, <1>3, <1>4, <1>5, <1>6, <1>7, <1>8, <1>9, <1>10, <1>11, <1>12, <1>13, <1>14
       DEF LNext, Thread, Ioctl

(* The inductive invariant of the service holds, for any number of enclave *)
(* threads, any buffer size and any lengths.                               *)
THEOREM LcallAlways == LSpec => []LcallIInv
  <1>1. LInit => AcceptedInv /\ ThreadInv
    BY DEF LInit, Init, AcceptedInv, ThreadInv, ThreadLabels, Ops
  <1>2. TypeOK /\ ChannelInv /\ AcceptedInv /\ ThreadInv /\ [LNext]_lvars =>
          AcceptedInv' /\ ThreadInv'
    BY AcceptedStep, ThreadStep
  <1>3. LSpec => [](TypeOK /\ ChannelInv)
    BY LcallImplements, TypeCorrect, ChannelSafe, PTL DEF XbufSpec, Spec
  <1>4. QED
    BY <1>1, <1>2, <1>3, PTL DEF LSpec, LcallIInv

(* The long-call thread sleeps over an accepted request only when its      *)
(* handler returned without an answer (lcall_kern_thread, lcall_handler).  *)
THEOREM LcallCorrect == LSpec => []LcallInv
  <1>1. LcallIInv => LcallInv
    BY LcallIInvImplies
  <1>2. QED
    BY <1>1, LcallAlways, PTL
=============================================================================
