---------------------------- MODULE TradingProofs ----------------------------
(* Proofs about the order requests, the order events and the table they    *)
(* share, for every number of requests, attempts, handles and slots, every *)
(* set of order ids and every volume; then about what the user is shown of *)
(* his orders: which order a number stands for, which orders are listed,   *)
(* and with what volume.                                                   *)
EXTENDS Trading, OrderTableProofs, SequenceTheorems

(* What the place of a request, and the menu, say of the other variables:  *)
(* the user has picked a slot while he is asked for its number, he has not *)
(* quit before he did, an attempt that is under way is not yet counted,    *)
(* an answer is one to the request that asked, and an open order has       *)
(* something left to be filled.                                            *)
RequestShape ==
  /\ ui = "cancel" => pick \in OrderSlots \X Uuids
  /\ ui \in {"menu", "make", "cancel"} => pc[Bulk] = "idle"
  /\ \A j \in Jobs : attempt[j] <= Attempts(j)
  /\ \A j \in Jobs :
       pc[j] \in {"idle", "try", "sent", "log_no_handle", "log_failure"} =>
         attempt[j] < Attempts(j)
  /\ \A j \in Places \cup Cancels :
       reply[j].ok => reply[j].uuid \in Uuids /\ reply[j].state \in Statuses
  /\ \A r \in Places : reply[r].ok => reply[r].volume \in {0, Lots}
  /\ reply[Bulk].ok => reply[Bulk].uuids \subseteq Uuids
  /\ \A u \in Open : book[u].left > 0

(* A handle nobody uses has been reset.                                    *)
FreeHandlesReset == \A h \in FreeHandles : ~delete[h]

RequestsInv ==
  /\ PoolTypeOK
  /\ UserTypeOK
  /\ JobTypeOK
  /\ ExchangeTypeOK
  /\ RequestShape
  /\ HandlesAccounted
  /\ OwnMethod
  /\ FreeHandlesReset

(* The order the exchange keeps for an identifier, and the one answer that *)
(* reports it: its request has taken in the answer before it enters the    *)
(* table, and it enters the table with that answer.                        *)
Taken == {"parsed", "log_answer", "done"}

Reported(u) == u \in Known /\ pc[book[u].identifier[1]] \in Taken

OrdersIdentified ==
  /\ \A u \in Known : \E r \in Places : book[u].identifier = <<r, 0>> /\ pc[r] # "idle"
  /\ \A m \in net : pc[m[1]] # "idle"
  /\ \A r \in Places :
       reply[r].ok => reply[r].uuid \in Known /\ book[reply[r].uuid].identifier = <<r, 0>>
  /\ AtMostOneOrderPerRequest
  /\ \A u \in Tracked : Reported(u)

TradingIInv ==
  /\ TableInv
  /\ RequestsInv
  /\ OrdersIdentified

-----------------------------------------------------------------------------
(* THE REQUESTS AND THEIR HANDLES                                          *)

LEMMA RequestsInit == TradingInit => RequestsInv
  <1> SUFFICES ASSUME TradingInit
               PROVE  RequestsInv
    OBVIOUS
  <1> USE TradingAssumption, TableAssumption, PoolAssumption
      DEF TradingInit, TableInit, PoolInit
  <1>1. PoolTypeOK
    BY DEF PoolTypeOK
  <1>2. UserTypeOK
    BY DEF UserTypeOK
  <1>3. JobTypeOK
    BY DEF JobTypeOK, Replies, NoReply
  <1>4. ExchangeTypeOK
    BY DEF ExchangeTypeOK, BookEntries, NoOrder
  <1>5. RequestShape
    BY DEF RequestShape, NoReply, NoOrder, Open, Attempts, Jobs
  <1>6. HandlesAccounted
    BY DEF HandlesAccounted, NoHandle, Handles
  <1>7. OwnMethod /\ FreeHandlesReset
    BY DEF OwnMethod, FreeHandlesReset, FreeHandles
  <1>8. QED
    BY <1>1, <1>2, <1>3, <1>4, <1>5, <1>6, <1>7 DEF RequestsInv

LEMMA PerformRequests ==
  ASSUME TradingIInv, NEW j \in Jobs, Perform(j)
  PROVE  RequestsInv'
  <1> USE TradingAssumption, TableAssumption, PoolAssumption
      DEF TradingIInv, RequestsInv, Perform, get_curl_pool_handle, userVars, exchangeVars
  <1>1. PICK h \in Handles :
          /\ get_curl_pool_handle(h)
          /\ handle' = [handle EXCEPT ![j] = h]
          /\ delete' = [delete EXCEPT ![h] = @ \/ j \notin Places]
    OBVIOUS
  <1>2. PoolTypeOK'
    BY <1>1 DEF PoolTypeOK
  <1>3. UserTypeOK'
    BY <1>1 DEF UserTypeOK
  <1>4. JobTypeOK'
    BY <1>1 DEF JobTypeOK, Replies, NoReply, Refusal, Jobs, Attempts, RequestShape
  <1>5. ExchangeTypeOK'
    BY <1>1 DEF ExchangeTypeOK, JobTypeOK
  <1>6. RequestShape'
    BY <1>1 DEF UserTypeOK, JobTypeOK, RequestShape, NoReply, Refusal, Open, Attempts, Jobs
  <1>7. HandlesAccounted'
    <2>1. ~in_use[h] /\ pc[j] = "try" /\ handle[j] = NoHandle /\ \A k \in Jobs : handle[k] # h
      BY <1>1 DEF FreeHandles, HandlesAccounted
    <2>2. /\ pc' = [pc EXCEPT ![j] = "sent"]
          /\ in_use' = [in_use EXCEPT ![h] = TRUE]
          /\ handle' = [handle EXCEPT ![j] = h]
      BY <1>1
    <2>7. h \in Handles /\ h # NoHandle
      BY DEF NoHandle, Handles
    <2> HIDE DEF Perform, get_curl_pool_handle
    <2>3. \A g \in Handles : in_use'[g] <=> \E k \in Jobs : handle'[k] = g
      <3>1. in_use'[h] /\ handle'[j] = h
        BY <2>2, <2>7 DEF PoolTypeOK, JobTypeOK
      <3>2. \A g \in Handles \ {h} : in_use'[g] = in_use[g]
        BY <2>2 DEF PoolTypeOK
      <3>3. \A k \in Jobs \ {j} : handle'[k] = handle[k]
        BY <2>2 DEF JobTypeOK
      <3>4. \A g \in Handles : in_use[g] <=> \E k \in Jobs : handle[k] = g
        BY DEF HandlesAccounted
      <3>5. \A g \in Handles : g # NoHandle
        BY DEF NoHandle, Handles
      <3>6. ASSUME NEW g \in Handles \ {h}
            PROVE  (\E k \in Jobs : handle'[k] = g) <=> (\E k \in Jobs : handle[k] = g)
        <4>1. ~(handle[j] = g) /\ ~(handle'[j] = g)
          BY <2>1, <3>1, <3>5
        <4>2. QED
          BY <3>3, <4>1
      <3>7. QED
        BY <3>1, <3>2, <3>4, <3>6
    <2>4. \A i, k \in Jobs : handle'[i] = handle'[k] /\ handle'[i] # NoHandle => i = k
      BY <2>1, <2>2, <2>7 DEF JobTypeOK, HandlesAccounted
    <2>5. \A k \in Jobs : handle'[k] # NoHandle <=> pc'[k] \in {"sent", "parsed", "log_failure", "log_answer"}
      BY <2>1, <2>2, <2>7 DEF JobTypeOK, HandlesAccounted
    <2>6. QED
      BY <2>3, <2>4, <2>5 DEF HandlesAccounted
  <1>8. OwnMethod'
    <2>1. ~delete[h] /\ \A k \in Jobs : handle[k] # h
      BY <1>1 DEF FreeHandles, FreeHandlesReset, HandlesAccounted
    <2>2. /\ handle' = [handle EXCEPT ![j] = h]
          /\ delete' = [delete EXCEPT ![h] = delete[h] \/ j \notin Places]
      BY <1>1
    <2> HIDE DEF Perform, get_curl_pool_handle
    <2>3. ASSUME NEW k \in Jobs, handle'[k] # NoHandle
          PROVE  delete'[handle'[k]] <=> k \notin Places
      <3>1. CASE k = j
        BY <2>1, <2>2, <3>1 DEF PoolTypeOK, JobTypeOK
      <3>2. CASE k # j
        <4>1. handle'[k] = handle[k] /\ handle[k] # h /\ handle[k] \in Handles
          BY <2>1, <2>2, <2>3, <3>2 DEF JobTypeOK
        <4>2. delete'[handle[k]] = delete[handle[k]]
          BY <2>2, <4>1 DEF PoolTypeOK
        <4>3. QED
          BY <2>3, <4>1, <4>2 DEF OwnMethod
      <3>3. QED
        BY <3>1, <3>2
    <2>4. QED
      BY <2>3 DEF OwnMethod
  <1>9. FreeHandlesReset'
    BY <1>1 DEF PoolTypeOK, JobTypeOK, HandlesAccounted, FreeHandlesReset, FreeHandles
  <1>10. QED
    BY <1>2, <1>3, <1>4, <1>5, <1>6, <1>7, <1>8, <1>9

(* The user interface hands out work; it touches no handle and no answer.  *)
LEMMA UserRequests ==
  ASSUME TradingIInv, UserInterface
  PROVE  RequestsInv'
  <1> USE TradingAssumption, TableAssumption, PoolAssumption
      DEF TradingIInv, RequestsInv, userVars, jobVars, exchangeVars, poolVars
  <1>1. /\ UNCHANGED <<poolVars, attempt, handle, reply, removing, net, exchangeVars, missed>>
        /\ \A j \in Jobs : pc'[j] = pc[j] \/ (pc[j] = "idle" /\ pc'[j] = "try")
        /\ pc' \in [Jobs -> {"idle", "try", "sent", "parsed", "done", "failed"} \cup Logging]
    <2>1. UNCHANGED <<poolVars, attempt, handle, reply, removing, net, exchangeVars, missed>>
      BY DEF UserInterface, MenuMake, AbandonOrder, MenuQuit, BulkReturns, SendOrder,
           MenuCancel, SendCancel
    <2>2. /\ \A j \in Jobs : pc'[j] = pc[j] \/ (pc[j] = "idle" /\ pc'[j] = "try")
          /\ pc' \in [Jobs -> {"idle", "try", "sent", "parsed", "done", "failed"} \cup Logging]
      BY DEF UserInterface, MenuMake, AbandonOrder, MenuQuit, BulkReturns, SendOrder,
           MenuCancel, SendCancel, JobTypeOK, RequestShape, Jobs
    <2>3. QED
      BY <2>1, <2>2
  <1>2. PoolTypeOK'
    BY <1>1 DEF PoolTypeOK
  <1>3. UserTypeOK'
    BY DEF UserInterface, MenuMake, AbandonOrder, MenuQuit, BulkReturns, SendOrder,
           MenuCancel, SendCancel, UserTypeOK, RequestShape,
           TableInv, TableTypeOK, Occupied, Order
  <1>4. JobTypeOK'
    BY <1>1 DEF JobTypeOK, Replies, NoReply, Refusal, Jobs, Attempts, RequestShape
  <1>5. ExchangeTypeOK'
    BY <1>1 DEF ExchangeTypeOK, JobTypeOK
  <1>6. RequestShape'
    <2>1. /\ ui' = "cancel" => pick' \in OrderSlots \X Uuids
          /\ ui' \in {"menu", "make", "cancel"} => pc'[Bulk] = "idle"
      BY DEF UserInterface, MenuMake, AbandonOrder, MenuQuit, BulkReturns, SendOrder,
           MenuCancel, SendCancel, UserTypeOK, JobTypeOK,
             RequestShape, TableInv, TableTypeOK, Occupied, Order, Jobs
    <2>2. QED
      BY <1>1, <2>1 DEF RequestShape, Open, JobTypeOK
  <1>7. HandlesAccounted'
    BY <1>1 DEF PoolTypeOK, JobTypeOK, HandlesAccounted, FreeHandles, NoHandle, Handles
  <1>8. OwnMethod'
    BY <1>1 DEF PoolTypeOK, JobTypeOK, HandlesAccounted, OwnMethod, FreeHandlesReset,
         FreeHandles, NoHandle, Handles
  <1>9. FreeHandlesReset'
    BY <1>1 DEF PoolTypeOK, JobTypeOK, HandlesAccounted, FreeHandlesReset, FreeHandles
  <1>10. QED
    BY <1>2, <1>3, <1>4, <1>5, <1>6, <1>7, <1>8, <1>9

LEMMA FindNoHandleRequests ==
  ASSUME TradingIInv, NEW j \in Jobs, FindNoHandle(j)
  PROVE  RequestsInv'
  <1> USE TradingAssumption, TableAssumption, PoolAssumption
      DEF TradingIInv, RequestsInv, FindNoHandle, NoHandleFree, poolVars, userVars, exchangeVars
  <1>2. PoolTypeOK'
    BY DEF PoolTypeOK
  <1>3. UserTypeOK'
    BY DEF UserTypeOK
  <1>4. JobTypeOK'
    BY DEF JobTypeOK, Replies, NoReply, Logging
  <1>5. ExchangeTypeOK'
    BY DEF ExchangeTypeOK, JobTypeOK
  <1>6. RequestShape'
    BY DEF UserTypeOK, JobTypeOK, RequestShape, NoReply, Refusal, Open, Attempts, Jobs
  <1>7. HandlesAccounted'
    BY DEF PoolTypeOK, JobTypeOK, HandlesAccounted, FreeHandles, NoHandle, Handles
  <1>8. OwnMethod'
    BY DEF PoolTypeOK, JobTypeOK, HandlesAccounted, OwnMethod, FreeHandlesReset, FreeHandles,
         NoHandle, Handles
  <1>9. FreeHandlesReset'
    BY DEF PoolTypeOK, JobTypeOK, HandlesAccounted, FreeHandlesReset, FreeHandles
  <1>10. QED
    BY <1>2, <1>3, <1>4, <1>5, <1>6, <1>7, <1>8, <1>9

LEMMA AttemptFailsRequests ==
  ASSUME TradingIInv, NEW j \in Jobs, AttemptFails(j)
  PROVE  RequestsInv'
  <1> USE TradingAssumption, TableAssumption, PoolAssumption
      DEF TradingIInv, RequestsInv, AttemptFails, poolVars, userVars, exchangeVars
  <1>2. PoolTypeOK'
    BY DEF PoolTypeOK
  <1>3. UserTypeOK'
    BY DEF UserTypeOK
  <1>4. JobTypeOK'
    BY DEF JobTypeOK, Replies, NoReply, Logging
  <1>5. ExchangeTypeOK'
    BY DEF ExchangeTypeOK, JobTypeOK
  <1>6. RequestShape'
    BY DEF UserTypeOK, JobTypeOK, RequestShape, NoReply, Refusal, Open, Attempts, Jobs
  <1>7. HandlesAccounted'
    BY DEF PoolTypeOK, JobTypeOK, HandlesAccounted, FreeHandles, NoHandle, Handles
  <1>8. OwnMethod'
    BY DEF PoolTypeOK, JobTypeOK, HandlesAccounted, OwnMethod, FreeHandlesReset, FreeHandles,
         NoHandle, Handles
  <1>9. FreeHandlesReset'
    BY DEF PoolTypeOK, JobTypeOK, HandlesAccounted, FreeHandlesReset, FreeHandles
  <1>10. QED
    BY <1>2, <1>3, <1>4, <1>5, <1>6, <1>7, <1>8, <1>9

LEMMA LogAnswerRequests ==
  ASSUME TradingIInv, NEW j \in Jobs, LogAnswer(j)
  PROVE  RequestsInv'
  <1> USE TradingAssumption, TableAssumption, PoolAssumption
      DEF TradingIInv, RequestsInv, LogAnswer, ReleaseAnd, release_curl_pool_handle, userVars,
           exchangeVars
  <1>2. PoolTypeOK'
    BY DEF PoolTypeOK
  <1>3. UserTypeOK'
    BY DEF UserTypeOK
  <1>4. JobTypeOK'
    BY DEF JobTypeOK, Logging
  <1>5. ExchangeTypeOK'
    BY DEF ExchangeTypeOK, JobTypeOK
  <1>6. RequestShape'
    BY DEF UserTypeOK, JobTypeOK, RequestShape, NoReply, Refusal, Open, Attempts, Jobs
  <1>7. HandlesAccounted'
    BY DEF PoolTypeOK, JobTypeOK, HandlesAccounted, FreeHandles, NoHandle, Handles
  <1>8. OwnMethod'
    BY DEF PoolTypeOK, JobTypeOK, HandlesAccounted, OwnMethod, FreeHandlesReset, FreeHandles,
         NoHandle, Handles
  <1>9. FreeHandlesReset'
    BY DEF PoolTypeOK, JobTypeOK, HandlesAccounted, FreeHandlesReset, FreeHandles
  <1>10. QED
    BY <1>2, <1>3, <1>4, <1>5, <1>6, <1>7, <1>8, <1>9

(* Where an attempt that failed leaves the request.                        *)
LEMMA AfterIs ==
  ASSUME NEW j
  PROVE  /\ AfterAttempt(j) \in {"try", "log_give_up", "failed"}
         /\ AfterAttempt(j) = "try" => attempt[j] + 1 < Attempts(j)
  BY DEF AfterAttempt

LEMMA LogFailureRequests ==
  ASSUME TradingIInv, NEW j \in Jobs, LogFailure(j)
  PROVE  RequestsInv'
  <1> USE TradingAssumption, TableAssumption, PoolAssumption
      DEF TradingIInv, RequestsInv, LogFailure, ReleaseAnd, release_curl_pool_handle, userVars,
           exchangeVars
  <1>2. PoolTypeOK'
    BY DEF PoolTypeOK
  <1>3. UserTypeOK'
    BY DEF UserTypeOK
  <1>4. JobTypeOK'
    <2>1. attempt' \in [Jobs -> 0..RETRY]
      BY DEF JobTypeOK, RequestShape, Attempts
    <2>2. QED
      BY <2>1 DEF JobTypeOK, Replies, NoReply, AfterAttempt, Logging
  <1>5. ExchangeTypeOK'
    BY DEF ExchangeTypeOK, JobTypeOK
  <1>6. RequestShape'
    <2>1. j # Bulk \/ ui \notin {"menu", "make", "cancel"}
      BY DEF RequestShape
    <2>2. attempt[j] < Attempts(j) /\ attempt[j] \in Nat /\ Attempts(j) \in Nat
      BY DEF JobTypeOK, RequestShape, Attempts
    <2>3. /\ attempt' = [attempt EXCEPT ![j] = attempt[j] + 1]
          /\ pc' = [pc EXCEPT ![j] = AfterAttempt(j)]
          /\ UNCHANGED <<ui, pick, reply, book>>
      OBVIOUS
    <2>4. \A i \in Jobs :
            /\ attempt'[i] <= Attempts(i)
            /\ pc'[i] \in {"idle", "try", "sent", "log_no_handle", "log_failure"} =>
                 attempt'[i] < Attempts(i)
      BY <2>2, <2>3, AfterIs DEF JobTypeOK, RequestShape
    <2>5. ui \in {"menu", "make", "cancel"} => pc'[Bulk] = "idle"
      BY <2>1, <2>3 DEF JobTypeOK, RequestShape, Jobs
    <2>6. (\A u \in Open : book[u].left > 0)'
      BY <2>3 DEF RequestShape, Open
    <2>7. /\ ui' = "cancel" => pick' \in OrderSlots \X Uuids
          /\ \A i \in Places \cup Cancels :
               reply'[i].ok => reply'[i].uuid \in Uuids /\ reply'[i].state \in Statuses
          /\ \A r \in Places : reply'[r].ok => reply'[r].volume \in {0, Lots}
          /\ reply'[Bulk].ok => reply'[Bulk].uuids \subseteq Uuids
      BY <2>3 DEF RequestShape
    <2>8. UNCHANGED <<ui, pick, reply>>
      BY <2>3
    <2>9. \A r \in Places : reply'[r].ok => reply'[r].volume \in {0, Lots}
      BY <2>7
    <2> HIDE TradingAssumption, TableAssumption, PoolAssumption
        DEF TradingIInv, RequestsInv, LogFailure, LogNoHandle, ReleaseAnd, release_curl_pool_handle,
            poolVars, userVars, exchangeVars
    <2> QED
      <3>1. (ui = "cancel" => pick \in OrderSlots \X Uuids)'
        BY <2>7 DEF OrderSlots
      <3>2. (ui \in {"menu", "make", "cancel"} => pc[Bulk] = "idle")'
        BY <2>5, <2>8
      <3>3. \A i \in Jobs' : attempt'[i] <= Attempts(i)'
        BY <2>4 DEF Attempts, Jobs
      <3>4. \A i \in Jobs' :
              pc'[i] \in {"idle", "try", "sent", "log_no_handle", "log_failure"} =>
                attempt'[i] < Attempts(i)'
        BY <2>4 DEF Attempts, Jobs
      <3>5. (\A i \in Places \cup Cancels :
               reply[i].ok => reply[i].uuid \in Uuids /\ reply[i].state \in Statuses)'
        BY <2>7
      <3>6. (\A r \in Places : reply[r].ok => reply[r].volume \in {0, Lots})'
        BY <2>9
      <3>7. (reply[Bulk].ok => reply[Bulk].uuids \subseteq Uuids)'
        BY <2>7
      <3> QED
        BY <3>1, <3>2, <3>3, <3>4, <3>5, <3>6, <3>7, <2>6 DEF RequestShape
  <1>7. HandlesAccounted'
    <2>1. /\ handle' = [handle EXCEPT ![j] = NoHandle]
          /\ in_use' = [in_use EXCEPT ![handle[j]] = FALSE]
          /\ pc' = [pc EXCEPT ![j] = AfterAttempt(j)]
      OBVIOUS
    <2>2. handle[j] \in Handles /\ handle[j] # NoHandle /\ NoHandle \notin Handles
      BY DEF JobTypeOK, HandlesAccounted, NoHandle, Handles
    <2>3. \A i \in Jobs \ {j} : handle'[i] = handle[i] /\ pc'[i] = pc[i] /\ handle[i] # handle[j]
      BY <2>1, <2>2 DEF JobTypeOK, HandlesAccounted
    <2>4. handle'[j] = NoHandle /\ pc'[j] \notin {"sent", "parsed", "log_failure", "log_answer"}
      BY <2>1, AfterIs DEF JobTypeOK
    <2>5. /\ ~in_use'[handle[j]]
          /\ \A h \in Handles \ {handle[j]} : in_use'[h] = in_use[h]
      BY <2>1, <2>2 DEF PoolTypeOK
    <2>6. \A h \in Handles : in_use'[h] <=> \E i \in Jobs : handle'[i] = h
      BY <2>2, <2>3, <2>4, <2>5 DEF HandlesAccounted
    <2>7. \A i, k \in Jobs : handle'[i] = handle'[k] /\ handle'[i] # NoHandle => i = k
      BY <2>3, <2>4 DEF HandlesAccounted
    <2>8. \A i \in Jobs :
            handle'[i] # NoHandle <=> pc'[i] \in {"sent", "parsed", "log_failure", "log_answer"}
      BY <2>3, <2>4 DEF HandlesAccounted
    <2> QED
      BY <2>6, <2>7, <2>8 DEF HandlesAccounted
  <1>8. OwnMethod'
    BY DEF PoolTypeOK, JobTypeOK, HandlesAccounted, OwnMethod, FreeHandlesReset, FreeHandles,
         NoHandle, Handles
  <1>9. FreeHandlesReset'
    BY DEF PoolTypeOK, JobTypeOK, HandlesAccounted, FreeHandlesReset, FreeHandles
  <1>10. QED
    BY <1>2, <1>3, <1>4, <1>5, <1>6, <1>7, <1>8, <1>9

LEMMA LogNoHandleRequests ==
  ASSUME TradingIInv, NEW j \in Jobs, LogNoHandle(j)
  PROVE  RequestsInv'
  <1> USE TradingAssumption, TableAssumption, PoolAssumption
      DEF TradingIInv, RequestsInv, LogNoHandle, poolVars, userVars, exchangeVars
  <1>2. PoolTypeOK'
    BY DEF PoolTypeOK
  <1>3. UserTypeOK'
    BY DEF UserTypeOK
  <1>4. JobTypeOK'
    <2>1. attempt' \in [Jobs -> 0..RETRY]
      BY DEF JobTypeOK, RequestShape, Attempts
    <2>2. QED
      BY <2>1 DEF JobTypeOK, Replies, NoReply, AfterAttempt, Logging
  <1>5. ExchangeTypeOK'
    BY DEF ExchangeTypeOK, JobTypeOK
  <1>6. RequestShape'
    <2>1. j # Bulk \/ ui \notin {"menu", "make", "cancel"}
      BY DEF RequestShape
    <2>2. attempt[j] < Attempts(j) /\ attempt[j] \in Nat /\ Attempts(j) \in Nat
      BY DEF JobTypeOK, RequestShape, Attempts
    <2>3. /\ attempt' = [attempt EXCEPT ![j] = attempt[j] + 1]
          /\ pc' = [pc EXCEPT ![j] = AfterAttempt(j)]
          /\ UNCHANGED <<ui, pick, reply, book>>
      OBVIOUS
    <2>4. \A i \in Jobs :
            /\ attempt'[i] <= Attempts(i)
            /\ pc'[i] \in {"idle", "try", "sent", "log_no_handle", "log_failure"} =>
                 attempt'[i] < Attempts(i)
      BY <2>2, <2>3, AfterIs DEF JobTypeOK, RequestShape
    <2>5. ui \in {"menu", "make", "cancel"} => pc'[Bulk] = "idle"
      BY <2>1, <2>3 DEF JobTypeOK, RequestShape, Jobs
    <2>6. (\A u \in Open : book[u].left > 0)'
      BY <2>3 DEF RequestShape, Open
    <2>7. /\ ui' = "cancel" => pick' \in OrderSlots \X Uuids
          /\ \A i \in Places \cup Cancels :
               reply'[i].ok => reply'[i].uuid \in Uuids /\ reply'[i].state \in Statuses
          /\ \A r \in Places : reply'[r].ok => reply'[r].volume \in {0, Lots}
          /\ reply'[Bulk].ok => reply'[Bulk].uuids \subseteq Uuids
      BY <2>3 DEF RequestShape
    <2>8. UNCHANGED <<ui, pick, reply>>
      BY <2>3
    <2>9. \A r \in Places : reply'[r].ok => reply'[r].volume \in {0, Lots}
      BY <2>7
    <2> HIDE TradingAssumption, TableAssumption, PoolAssumption
        DEF TradingIInv, RequestsInv, LogFailure, LogNoHandle, ReleaseAnd, release_curl_pool_handle,
            poolVars, userVars, exchangeVars
    <2> QED
      <3>1. (ui = "cancel" => pick \in OrderSlots \X Uuids)'
        BY <2>7 DEF OrderSlots
      <3>2. (ui \in {"menu", "make", "cancel"} => pc[Bulk] = "idle")'
        BY <2>5, <2>8
      <3>3. \A i \in Jobs' : attempt'[i] <= Attempts(i)'
        BY <2>4 DEF Attempts, Jobs
      <3>4. \A i \in Jobs' :
              pc'[i] \in {"idle", "try", "sent", "log_no_handle", "log_failure"} =>
                attempt'[i] < Attempts(i)'
        BY <2>4 DEF Attempts, Jobs
      <3>5. (\A i \in Places \cup Cancels :
               reply[i].ok => reply[i].uuid \in Uuids /\ reply[i].state \in Statuses)'
        BY <2>7
      <3>6. (\A r \in Places : reply[r].ok => reply[r].volume \in {0, Lots})'
        BY <2>9
      <3>7. (reply[Bulk].ok => reply[Bulk].uuids \subseteq Uuids)'
        BY <2>7
      <3> QED
        BY <3>1, <3>2, <3>3, <3>4, <3>5, <3>6, <3>7, <2>6 DEF RequestShape
  <1>7. HandlesAccounted'
    BY AfterIs DEF PoolTypeOK, JobTypeOK, HandlesAccounted, FreeHandles, NoHandle, Handles
  <1>8. OwnMethod'
    BY DEF PoolTypeOK, JobTypeOK, HandlesAccounted, OwnMethod, FreeHandlesReset, FreeHandles,
         NoHandle, Handles
  <1>9. FreeHandlesReset'
    BY DEF PoolTypeOK, JobTypeOK, HandlesAccounted, FreeHandlesReset, FreeHandles
  <1>10. QED
    BY <1>2, <1>3, <1>4, <1>5, <1>6, <1>7, <1>8, <1>9

LEMMA LogGiveUpRequests ==
  ASSUME TradingIInv, NEW j \in Jobs, LogGiveUp(j)
  PROVE  RequestsInv'
  <1> USE TradingAssumption, TableAssumption, PoolAssumption
      DEF TradingIInv, RequestsInv, LogGiveUp, poolVars, userVars, exchangeVars
  <1>2. PoolTypeOK'
    BY DEF PoolTypeOK
  <1>3. UserTypeOK'
    BY DEF UserTypeOK
  <1>4. JobTypeOK'
    BY DEF JobTypeOK, Logging
  <1>5. ExchangeTypeOK'
    BY DEF ExchangeTypeOK, JobTypeOK
  <1>6. RequestShape'
    BY DEF UserTypeOK, JobTypeOK, RequestShape, NoReply, Refusal, Open, Attempts, Jobs
  <1>7. HandlesAccounted'
    BY DEF PoolTypeOK, JobTypeOK, HandlesAccounted, FreeHandles, NoHandle, Handles
  <1>8. OwnMethod'
    BY DEF PoolTypeOK, JobTypeOK, HandlesAccounted, OwnMethod, FreeHandlesReset, FreeHandles,
         NoHandle, Handles
  <1>9. FreeHandlesReset'
    BY DEF PoolTypeOK, JobTypeOK, HandlesAccounted, FreeHandlesReset, FreeHandles
  <1>10. QED
    BY <1>2, <1>3, <1>4, <1>5, <1>6, <1>7, <1>8, <1>9

LEMMA AnswerGarbledRequests ==
  ASSUME TradingIInv, NEW j \in Jobs, AnswerGarbled(j)
  PROVE  RequestsInv'
  <1> USE TradingAssumption, TableAssumption, PoolAssumption
      DEF TradingIInv, RequestsInv, AnswerGarbled, Answered, poolVars, userVars, exchangeVars
  <1>2. PoolTypeOK'
    BY DEF PoolTypeOK
  <1>3. UserTypeOK'
    BY DEF UserTypeOK
  <1>4. JobTypeOK'
    BY DEF JobTypeOK, Logging
  <1>5. ExchangeTypeOK'
    BY DEF ExchangeTypeOK, JobTypeOK
  <1>6. RequestShape'
    BY DEF UserTypeOK, JobTypeOK, RequestShape, NoReply, Refusal, Open, Attempts, Jobs
  <1>7. HandlesAccounted'
    BY DEF PoolTypeOK, JobTypeOK, HandlesAccounted, FreeHandles, NoHandle, Handles
  <1>8. OwnMethod'
    BY DEF PoolTypeOK, JobTypeOK, HandlesAccounted, OwnMethod, FreeHandlesReset, FreeHandles,
         NoHandle, Handles
  <1>9. FreeHandlesReset'
    BY DEF PoolTypeOK, JobTypeOK, HandlesAccounted, FreeHandlesReset, FreeHandles
  <1>10. QED
    BY <1>2, <1>3, <1>4, <1>5, <1>6, <1>7, <1>8, <1>9

LEMMA BulkPartlyFailedRequests ==
  ASSUME TradingIInv, BulkPartlyFailed
  PROVE  RequestsInv'
  <1> USE TradingAssumption, TableAssumption, PoolAssumption
      DEF TradingIInv, RequestsInv, BulkPartlyFailed, poolVars, userVars, exchangeVars
  <1>2. PoolTypeOK'
    BY DEF PoolTypeOK
  <1>3. UserTypeOK'
    BY DEF UserTypeOK
  <1>4. JobTypeOK'
    BY DEF JobTypeOK, Logging
  <1>5. ExchangeTypeOK'
    BY DEF ExchangeTypeOK, JobTypeOK
  <1>6. RequestShape'
    BY DEF UserTypeOK, JobTypeOK, RequestShape, NoReply, Refusal, Open, Attempts, Jobs
  <1>7. HandlesAccounted'
    BY DEF PoolTypeOK, JobTypeOK, HandlesAccounted, FreeHandles, NoHandle, Handles
  <1>8. OwnMethod'
    BY DEF PoolTypeOK, JobTypeOK, HandlesAccounted, OwnMethod, FreeHandlesReset, FreeHandles,
         NoHandle, Handles
  <1>9. FreeHandlesReset'
    BY DEF PoolTypeOK, JobTypeOK, HandlesAccounted, FreeHandlesReset, FreeHandles
  <1>10. QED
    BY <1>2, <1>3, <1>4, <1>5, <1>6, <1>7, <1>8, <1>9

LEMMA PlaceAnsweredRequests ==
  ASSUME TradingIInv, NEW r \in Places, PlaceAnswered(r)
  PROVE  RequestsInv'
  <1> USE TradingAssumption, TableAssumption, PoolAssumption
      DEF TradingIInv, RequestsInv, PlaceAnswered, Answered, poolVars, userVars, exchangeVars
  <1>2. PoolTypeOK'
    BY DEF PoolTypeOK
  <1>3. UserTypeOK'
    BY DEF UserTypeOK
  <1>4. JobTypeOK'
    BY DEF JobTypeOK, Replies, NoReply, Refusal, Jobs, Attempts, RequestShape
  <1>5. ExchangeTypeOK'
    BY DEF ExchangeTypeOK, JobTypeOK
  <1>6. RequestShape'
    BY DEF UserTypeOK, JobTypeOK, RequestShape, NoReply, Refusal, Open, Attempts, Jobs
  <1>7. HandlesAccounted'
    BY DEF PoolTypeOK, JobTypeOK, HandlesAccounted, FreeHandles, NoHandle, Handles
  <1>8. OwnMethod'
    BY DEF PoolTypeOK, JobTypeOK, HandlesAccounted, OwnMethod, FreeHandlesReset, FreeHandles,
         NoHandle, Handles
  <1>9. FreeHandlesReset'
    BY DEF PoolTypeOK, JobTypeOK, HandlesAccounted, FreeHandlesReset, FreeHandles
  <1>10. QED
    BY <1>2, <1>3, <1>4, <1>5, <1>6, <1>7, <1>8, <1>9

LEMMA CancelAnsweredRequests ==
  ASSUME TradingIInv, NEW c \in Cancels, CancelAnswered(c)
  PROVE  RequestsInv'
  <1> USE TradingAssumption, TableAssumption, PoolAssumption
      DEF TradingIInv, RequestsInv, CancelAnswered, Answered, poolVars, userVars, exchangeVars
  <1>2. PoolTypeOK'
    BY DEF PoolTypeOK
  <1>3. UserTypeOK'
    BY DEF UserTypeOK
  <1>4. JobTypeOK'
    BY DEF JobTypeOK, RequestShape, Jobs
  <1>5. ExchangeTypeOK'
    BY DEF ExchangeTypeOK, JobTypeOK
  <1>6. RequestShape'
    BY DEF UserTypeOK, JobTypeOK, RequestShape, NoReply, Refusal, Open, Attempts, Jobs
  <1>7. HandlesAccounted'
    BY DEF PoolTypeOK, JobTypeOK, HandlesAccounted, FreeHandles, NoHandle, Handles
  <1>8. OwnMethod'
    BY DEF PoolTypeOK, JobTypeOK, HandlesAccounted, OwnMethod, FreeHandlesReset, FreeHandles,
         NoHandle, Handles
  <1>9. FreeHandlesReset'
    BY DEF PoolTypeOK, JobTypeOK, HandlesAccounted, FreeHandlesReset, FreeHandles
  <1>10. QED
    BY <1>2, <1>3, <1>4, <1>5, <1>6, <1>7, <1>8, <1>9

LEMMA BulkAnsweredRequests ==
  ASSUME TradingIInv, BulkAnswered
  PROVE  RequestsInv'
  <1> USE TradingAssumption, TableAssumption, PoolAssumption
      DEF TradingIInv, RequestsInv, BulkAnswered, Answered, poolVars, userVars, exchangeVars
  <1>2. PoolTypeOK'
    BY DEF PoolTypeOK
  <1>3. UserTypeOK'
    BY DEF UserTypeOK
  <1>4. JobTypeOK'
    BY DEF JobTypeOK, RequestShape, Jobs
  <1>5. ExchangeTypeOK'
    BY DEF ExchangeTypeOK, JobTypeOK
  <1>6. RequestShape'
    BY DEF UserTypeOK, JobTypeOK, RequestShape, NoReply, Refusal, Open, Attempts, Jobs
  <1>7. HandlesAccounted'
    BY DEF PoolTypeOK, JobTypeOK, HandlesAccounted, FreeHandles, NoHandle, Handles
  <1>8. OwnMethod'
    BY DEF PoolTypeOK, JobTypeOK, HandlesAccounted, OwnMethod, FreeHandlesReset, FreeHandles,
         NoHandle, Handles
  <1>9. FreeHandlesReset'
    BY DEF PoolTypeOK, JobTypeOK, HandlesAccounted, FreeHandlesReset, FreeHandles
  <1>10. QED
    BY <1>2, <1>3, <1>4, <1>5, <1>6, <1>7, <1>8, <1>9

LEMMA RemoveRequests ==
  ASSUME TradingIInv, NEW j \in Jobs, Remove(j)
  PROVE  RequestsInv'
  <1> USE TradingAssumption, TableAssumption, PoolAssumption
      DEF TradingIInv, RequestsInv, Remove, poolVars, userVars, exchangeVars
  <1>2. PoolTypeOK'
    BY DEF PoolTypeOK
  <1>3. UserTypeOK'
    BY DEF UserTypeOK
  <1>4. JobTypeOK'
    BY DEF JobTypeOK
  <1>5. ExchangeTypeOK'
    BY DEF ExchangeTypeOK, JobTypeOK
  <1>6. RequestShape'
    BY DEF UserTypeOK, JobTypeOK, RequestShape, NoReply, Refusal, Open, Attempts, Jobs
  <1>7. HandlesAccounted'
    BY DEF PoolTypeOK, JobTypeOK, HandlesAccounted, FreeHandles, NoHandle, Handles
  <1>8. OwnMethod'
    BY DEF PoolTypeOK, JobTypeOK, HandlesAccounted, OwnMethod, FreeHandlesReset, FreeHandles,
         NoHandle, Handles
  <1>9. FreeHandlesReset'
    BY DEF PoolTypeOK, JobTypeOK, HandlesAccounted, FreeHandlesReset, FreeHandles
  <1>10. QED
    BY <1>2, <1>3, <1>4, <1>5, <1>6, <1>7, <1>8, <1>9

LEMMA ReturnsRequests ==
  ASSUME TradingIInv, NEW j \in Jobs, Returns(j)
  PROVE  RequestsInv'
  <1> USE TradingAssumption, TableAssumption, PoolAssumption
      DEF TradingIInv, RequestsInv, Returns, ReleaseAnd, release_curl_pool_handle, userVars,
           exchangeVars
  <1>2. PoolTypeOK'
    BY DEF PoolTypeOK
  <1>3. UserTypeOK'
    BY DEF UserTypeOK
  <1>4. JobTypeOK'
    BY DEF JobTypeOK
  <1>5. ExchangeTypeOK'
    BY DEF ExchangeTypeOK, JobTypeOK
  <1>6. RequestShape'
    BY DEF UserTypeOK, JobTypeOK, RequestShape, NoReply, Refusal, Open, Attempts, Jobs
  <1>7. HandlesAccounted'
    BY DEF PoolTypeOK, JobTypeOK, HandlesAccounted, FreeHandles, NoHandle, Handles
  <1>8. OwnMethod'
    BY DEF PoolTypeOK, JobTypeOK, HandlesAccounted, OwnMethod, FreeHandlesReset, FreeHandles,
         NoHandle, Handles
  <1>9. FreeHandlesReset'
    BY DEF PoolTypeOK, JobTypeOK, HandlesAccounted, FreeHandlesReset, FreeHandles
  <1>10. QED
    BY <1>2, <1>3, <1>4, <1>5, <1>6, <1>7, <1>8, <1>9

(* The websocket thread reads an event; it knows nothing of the requests.  *)
LEMMA ReceiveRequests ==
  ASSUME TradingIInv, ReceiveEvent \/ ReceivePieces
  PROVE  RequestsInv'
  <1> USE TradingAssumption, TableAssumption, PoolAssumption
      DEF TradingIInv, RequestsInv, poolVars, userVars, jobVars
  <1>1. /\ UNCHANGED <<poolVars, userVars, jobVars, net, book>>
        /\ stream # << >>
        /\ stream' = Tail(stream)
    BY DEF ReceiveEvent, ReceivePieces
  <1>2. PoolTypeOK'
    BY <1>1 DEF PoolTypeOK
  <1>3. UserTypeOK'
    BY <1>1 DEF UserTypeOK
  <1>4. JobTypeOK'
    BY <1>1 DEF JobTypeOK, Replies, NoReply, Refusal, Jobs, Attempts, RequestShape
  <1>5. ExchangeTypeOK'
    <2>1. missed' \in [Uuids -> SUBSET {"insert", "trade", "closed", "remaining", "unstated", "unparsed"}]
      <3> DEFINE u == Head(stream).uuid
      <3>1. \/ missed' = missed
            \/ \E k \in {"trade", "closed", "remaining"} :
                 missed' = [missed EXCEPT ![u] = missed[u] \cup {k}]
            \/ missed' = [missed EXCEPT ![u] = missed[u]]
        BY DEF ReceiveEvent, ReceivePieces, EventWait, EventClosed, EventTrade
      <3> HIDE DEF u
      <3>2. QED
        BY <3>1 DEF ExchangeTypeOK
    <2>2. stream' \in Seq(Events)
      BY <1>1 DEF ExchangeTypeOK
    <2>3. QED
      BY <1>1, <2>1, <2>2 DEF ExchangeTypeOK
  <1>6. RequestShape'
    BY <1>1 DEF UserTypeOK, JobTypeOK, RequestShape, NoReply, Refusal, Open, Attempts, Jobs
  <1>7. HandlesAccounted'
    BY <1>1 DEF PoolTypeOK, JobTypeOK, HandlesAccounted, FreeHandles, NoHandle, Handles
  <1>8. OwnMethod'
    BY <1>1 DEF PoolTypeOK, JobTypeOK, HandlesAccounted, OwnMethod, FreeHandlesReset,
         FreeHandles, NoHandle, Handles
  <1>9. FreeHandlesReset'
    BY <1>1 DEF PoolTypeOK, JobTypeOK, HandlesAccounted, FreeHandlesReset, FreeHandles
  <1>10. QED
    BY <1>2, <1>3, <1>4, <1>5, <1>6, <1>7, <1>8, <1>9

(* An answer reaches a job only in the form in which it was given.         *)
LEMMA Delivered ==
  ASSUME JobTypeOK, NEW m, NEW answer \in Replies, Deliver(m, answer)
  PROVE  /\ reply' \in [Jobs -> Replies]
         /\ \A j \in Jobs : reply'[j] = reply[j] \/ (j = m[1] /\ reply'[j] = answer)
  BY DEF JobTypeOK, Deliver

LEMMA FunctionIsSeq ==
  ASSUME NEW S, NEW n \in Nat, NEW f \in [1..n -> S]
  PROVE  f \in Seq(S) /\ Len(f) = n
  OBVIOUS

LEMMA PairIsSeq ==
  ASSUME NEW S, NEW a \in S, NEW b \in S
  PROVE  /\ <<a, b>> \in Seq(S) /\ Len(<<a, b>>) = 2
         /\ <<a, b>>[1] = a /\ <<a, b>>[2] = b
  OBVIOUS

(* The exchange sends one cancel event for each of the orders it cancels.  *)
LEMMA Permuted ==
  ASSUME NEW S \in SUBSET Uuids, NEW q \in SeqExt!SetToSeqs(S)
  PROVE  q \in Seq(S) /\ \A u \in S : \E i \in DOMAIN q : q[i] = u
  <1>1. IsFiniteSet(S) /\ Cardinality(S) \in Nat
    BY TradingAssumption, FS_Subset, FS_CardinalityType
  <1>2. SeqExt!Cardinality(S) = Cardinality(S)
    BY DEF SeqExt!Cardinality, Cardinality
  <1>3. /\ q \in [1..Cardinality(S) -> S]
        /\ \A i, k \in 1..Cardinality(S) : i # k => q[i] # q[k]
    BY <1>2 DEF SeqExt!SetToSeqs
  <1>4. q \in Injection(1..Cardinality(S), S)
    BY <1>3, Fun_IsInj
  <1>5. IsFiniteSet(1..Cardinality(S)) /\ Cardinality(1..Cardinality(S)) = Cardinality(S)
    BY <1>1, FS_Interval
  <1>6. q \in Surjection(1..Cardinality(S), S)
    BY <1>1, <1>4, <1>5, FS_Injection
  <1>7. QED
    BY <1>1, <1>3, <1>6, Fun_SurjectionProperties

LEMMA AcceptTypes ==
  ASSUME ExchangeTypeOK, RequestShape, NEW m \in net, AcceptOrder(m)
  PROVE  /\ book' \in [Uuids -> BookEntries]
         /\ \A u \in Uuids : book'[u].state = "wait" => book'[u].left > 0
         /\ stream' \in Seq(Events)
  <1> USE TradingAssumption
  <1>1. PICK u \in Uuids \ Known :
          /\ book' = [book EXCEPT ![u] =
                        [state |-> "wait", left |-> Lots, identifier |-> Identifier(m[1], m[2])]]
          /\ stream' = Append(stream, Event("wait", u, Lots, FALSE))
    BY DEF AcceptOrder
  <1>2. [state |-> "wait", left |-> Lots, identifier |-> Identifier(m[1], m[2])] \in BookEntries
    BY DEF AcceptOrder, BookEntries, Identifier
  <1>3. Event("wait", u, Lots, FALSE) \in Events
    BY DEF Event, Events
  <1>4. book' \in [Uuids -> BookEntries] /\ stream' \in Seq(Events)
    BY <1>1, <1>2, <1>3, AppendProperties DEF ExchangeTypeOK
  <1>5. \A x \in Uuids : book'[x].state = "wait" => book'[x].left > 0
    BY <1>1 DEF ExchangeTypeOK, RequestShape, Open
  <1>6. QED
    BY <1>4, <1>5

LEMMA CancelTypes ==
  ASSUME ExchangeTypeOK, RequestShape, NEW m \in net, CancelOpenOrder(m)
  PROVE  /\ book' \in [Uuids -> BookEntries]
         /\ \A u \in Uuids : book'[u].state = "wait" => book'[u].left > 0
         /\ stream' \in Seq(Events)
  <1> DEFINE u == target[m[1]]
  <1>1. u \in Uuids /\ u \in Open
    BY DEF CancelOpenOrder, Open
  <1>2. /\ book' = [book EXCEPT ![u] = [book[u] EXCEPT !.state = "cancel"]]
        /\ stream' = Append(stream, Event("cancel", u, book[u].left, FALSE))
    BY DEF CancelOpenOrder
  <1> HIDE DEF u
  <1>3. [book[u] EXCEPT !.state = "cancel"] \in BookEntries
    BY <1>1, ZenonT(30) DEF ExchangeTypeOK, BookEntries
  <1>4. Event("cancel", u, book[u].left, FALSE) \in Events
    BY <1>1 DEF Event, Events, ExchangeTypeOK, BookEntries
  <1>5. [book[u] EXCEPT !.state = "cancel"].state = "cancel"
    BY <1>1 DEF ExchangeTypeOK, BookEntries
  <1>6. book' \in [Uuids -> BookEntries] /\ stream' \in Seq(Events)
    BY <1>2, <1>3, <1>4, AppendProperties DEF ExchangeTypeOK
  <1>7. \A x \in Uuids : book'[x].state = "wait" => book'[x].left > 0
    BY <1>2, <1>5 DEF ExchangeTypeOK, RequestShape, Open
  <1>8. QED
    BY <1>6, <1>7

LEMMA CancelAllTypes ==
  ASSUME ExchangeTypeOK, RequestShape, NEW m \in net, CancelAllOpen(m)
  PROVE  /\ book' \in [Uuids -> BookEntries]
         /\ \A u \in Uuids : book'[u].state = "wait" => book'[u].left > 0
         /\ stream' \in Seq(Events)
  <1>1. PICK S \in SUBSET Open :
          /\ book' = [u \in Uuids |-> IF u \in S THEN [book[u] EXCEPT !.state = "cancel"]
                                      ELSE book[u]]
          /\ \E q \in SeqExt!SetToSeqs(S) :
               stream' = stream \o
                           [i \in DOMAIN q |-> Event("cancel", q[i], book[q[i]].left, FALSE)]
    BY DEF CancelAllOpen
  <1>2. PICK q \in SeqExt!SetToSeqs(S) :
          stream' = stream \o [i \in DOMAIN q |-> Event("cancel", q[i], book[q[i]].left, FALSE)]
    BY <1>1
  <1>3. S \in SUBSET Uuids
    BY DEF Open
  <1>4. q \in Seq(Uuids)
    BY <1>3, Permuted
  <1>5. \A u \in Uuids : /\ [book[u] EXCEPT !.state = "cancel"] \in BookEntries
                         /\ [book[u] EXCEPT !.state = "cancel"].state = "cancel"
                         /\ Event("cancel", u, book[u].left, FALSE) \in Events
    BY DEF Event, Events, ExchangeTypeOK, BookEntries
  <1>6. [i \in DOMAIN q |-> Event("cancel", q[i], book[q[i]].left, FALSE)] \in Seq(Events)
    <2>1. q \in [1..Len(q) -> Uuids] /\ Len(q) \in Nat /\ DOMAIN q = 1..Len(q)
      BY <1>4
    <2>2. [i \in 1..Len(q) |-> Event("cancel", q[i], book[q[i]].left, FALSE)]
            \in [1..Len(q) -> Events]
      BY <1>5, <2>1
    <2>3. QED
      BY <2>1, <2>2, FunctionIsSeq
  <1>7. stream' \in Seq(Events)
    BY <1>2, <1>6 DEF ExchangeTypeOK
  <1>8. QED
    BY <1>1, <1>5, <1>7 DEF ExchangeTypeOK, RequestShape, Open


(* What the exchange does to a request: whichever it accepts or refuses,   *)
(* the answer is one to that request.                                      *)
LEMMA ServeRequests ==
  ASSUME TradingIInv, ServeRequest
  PROVE  RequestsInv'
  <1> USE TradingAssumption, TableAssumption, PoolAssumption
      DEF TradingIInv, RequestsInv, poolVars, userVars, exchangeVars
  <1>0. UNCHANGED <<poolVars, userVars, pc, attempt, handle, removing, missed>>
    BY DEF ServeRequest
  <1>1. PICK m \in net :
          /\ AcceptOrder(m) \/ CancelOpenOrder(m) \/ CancelAllOpen(m) \/ RefuseRequest(m)
          /\ net' = net \ {m}
    BY DEF ServeRequest
  <1>11. PICK answer \in Replies :
           /\ Deliver(m, answer)
           /\ m[1] \in Places \cup Cancels /\ answer.ok =>
                answer.uuid \in Uuids /\ answer.state \in Statuses
           /\ m[1] \in Places /\ answer.ok => answer.volume \in {0, Lots}
           /\ m[1] = Bulk /\ answer.ok => answer.uuids \subseteq Uuids
    <2>1. CASE AcceptOrder(m)
      <3>1. PICK u \in Uuids, volume \in {0, Lots} :
              Deliver(m, [ok |-> TRUE, uuid |-> u, state |-> "wait", volume |-> volume])
        BY <2>1 DEF AcceptOrder
      <3>2. [ok |-> TRUE, uuid |-> u, state |-> "wait", volume |-> volume] \in Replies
        <4>1. volume \in Volumes /\ "wait" \in Statuses
          OBVIOUS
        <4> QED
          BY <4>1 DEF Replies
      <3>3. QED
        BY <2>1, <3>1, <3>2 DEF AcceptOrder
    <2>2. CASE CancelOpenOrder(m)
      BY <2>2 DEF CancelOpenOrder, Replies, Open
    <2>3. CASE CancelAllOpen(m)
      <3>1. PICK S \in SUBSET Open : Deliver(m, [ok |-> TRUE, uuids |-> S]) /\ m[1] = Bulk
        BY <2>3 DEF CancelAllOpen
      <3>2. [ok |-> TRUE, uuids |-> S] \in Replies /\ S \subseteq Uuids
        BY DEF Replies, Open
      <3>3. QED
        BY <3>1, <3>2
    <2>4. CASE RefuseRequest(m)
      <3>1. Refusal \in Replies /\ ~Refusal.ok
        BY DEF Replies, Refusal
      <3>2. QED
        BY <2>4, <3>1 DEF RefuseRequest
    <2>5. QED
      BY <1>1, <2>1, <2>2, <2>3, <2>4
  <1>12. /\ reply' \in [Jobs -> Replies]
         /\ \A j \in Jobs : reply'[j] = reply[j] \/ (j = m[1] /\ reply'[j] = answer)
    BY <1>11, Delivered
  <1>13. /\ book' \in [Uuids -> BookEntries]
         /\ \A u \in Uuids : book'[u].state = "wait" => book'[u].left > 0
         /\ stream' \in Seq(Events)
    <2>1. CASE AcceptOrder(m)
      BY <2>1, AcceptTypes
    <2>2. CASE CancelOpenOrder(m)
      BY <2>2, CancelTypes
    <2>3. CASE CancelAllOpen(m)
      BY <2>3, CancelAllTypes
    <2>4. CASE RefuseRequest(m)
      BY <2>4 DEF RefuseRequest, ExchangeTypeOK, RequestShape, Open
    <2>5. QED
      BY <1>1, <2>1, <2>2, <2>3, <2>4
  <1>2. PoolTypeOK'
    BY <1>0, <1>1, <1>12 DEF PoolTypeOK
  <1>3. UserTypeOK'
    BY <1>0, <1>1, <1>12 DEF UserTypeOK
  <1>4. JobTypeOK'
    BY <1>0, <1>1, <1>12 DEF JobTypeOK, Replies, NoReply, Refusal, Jobs, Attempts, RequestShape
  <1>5. ExchangeTypeOK'
    BY <1>0, <1>1, <1>13 DEF ExchangeTypeOK
  <1>6. RequestShape'
    BY <1>0, <1>11, <1>12, <1>13 DEF RequestShape, Open, Jobs
  <1>7. HandlesAccounted'
    BY <1>0, <1>1, <1>12 DEF PoolTypeOK, JobTypeOK, HandlesAccounted, FreeHandles, NoHandle, Handles
  <1>8. OwnMethod'
    BY <1>0, <1>1, <1>12 DEF PoolTypeOK, JobTypeOK, HandlesAccounted, OwnMethod,
         FreeHandlesReset, FreeHandles, NoHandle, Handles
  <1>9. FreeHandlesReset'
    BY <1>0, <1>1, <1>12 DEF PoolTypeOK, JobTypeOK, HandlesAccounted, FreeHandlesReset, FreeHandles
  <1>10. QED
    BY <1>2, <1>3, <1>4, <1>5, <1>6, <1>7, <1>8, <1>9

LEMMA LoseRequests ==
  ASSUME TradingIInv, LoseRequest
  PROVE  RequestsInv'
  <1> USE TradingAssumption, TableAssumption, PoolAssumption
      DEF TradingIInv, RequestsInv, LoseRequest, poolVars, userVars, jobVars, exchangeVars
  <1>2. PoolTypeOK'
    BY DEF PoolTypeOK
  <1>3. UserTypeOK'
    BY DEF UserTypeOK
  <1>4. JobTypeOK'
    BY DEF JobTypeOK
  <1>5. ExchangeTypeOK'
    BY DEF ExchangeTypeOK, JobTypeOK
  <1>6. RequestShape'
    BY DEF UserTypeOK, JobTypeOK, RequestShape, NoReply, Refusal, Open, Attempts, Jobs
  <1>7. HandlesAccounted'
    BY DEF PoolTypeOK, JobTypeOK, HandlesAccounted, FreeHandles, NoHandle, Handles
  <1>8. OwnMethod'
    BY DEF PoolTypeOK, JobTypeOK, HandlesAccounted, OwnMethod, FreeHandlesReset, FreeHandles,
         NoHandle, Handles
  <1>9. FreeHandlesReset'
    BY DEF PoolTypeOK, JobTypeOK, HandlesAccounted, FreeHandlesReset, FreeHandles
  <1>10. QED
    BY <1>2, <1>3, <1>4, <1>5, <1>6, <1>7, <1>8, <1>9

LEMMA FillRequests ==
  ASSUME TradingIInv, NEW u \in Uuids, FillOrder(u)
  PROVE  RequestsInv'
  <1> USE TradingAssumption, TableAssumption, PoolAssumption
      DEF TradingIInv, RequestsInv, poolVars, userVars, jobVars
  <1>1. UNCHANGED <<poolVars, userVars, jobVars, net, missed>>
    BY DEF FillOrder
  <1>11. PICK left, integer :
           /\ left = book[u].left - 1
           /\ integer \in BOOLEAN
           /\ book' = [book EXCEPT ![u].left = left,
                                   ![u].state = IF left = 0 THEN "done" ELSE "wait"]
           /\ \/ stream' = stream \o << Event("trade", u, left, integer), Event("done", u, left, FALSE) >>
              \/ stream' = Append(stream, Event("trade", u, left, integer))
    BY TradingAssumption DEF FillOrder
  <1>12. book[u] \in BookEntries /\ left \in 0..Lots
    BY <1>11 DEF FillOrder, ExchangeTypeOK, BookEntries, RequestShape, Open
  <1>13. /\ book' \in [Uuids -> BookEntries]
         /\ \A x \in Uuids : book'[x].state = "wait" => book'[x].left > 0
    <2> DEFINE entry == [book[u] EXCEPT !.left = left,
                                        !.state = IF left = 0 THEN "done" ELSE "wait"]
    <2>1. /\ entry \in BookEntries
          /\ entry.left = left
          /\ entry.state = IF left = 0 THEN "done" ELSE "wait"
      BY <1>12 DEF BookEntries
    <2>2. book' = [book EXCEPT ![u] = entry]
      BY <1>11, <1>12 DEF ExchangeTypeOK, BookEntries
    <2> HIDE DEF entry
    <2>3. QED
      BY <1>12, <2>1, <2>2 DEF ExchangeTypeOK, RequestShape, Open
  <1>14. stream' \in Seq(Events)
    <2>1. Event("trade", u, left, integer) \in Events /\ Event("done", u, left, FALSE) \in Events
      BY <1>11, <1>12 DEF Event, Events
    <2>2. CASE stream' = Append(stream, Event("trade", u, left, integer))
      BY <2>1, <2>2 DEF ExchangeTypeOK
    <2>3. CASE stream' = stream \o << Event("trade", u, left, integer), Event("done", u, left, FALSE) >>
      <3>1. << Event("trade", u, left, integer), Event("done", u, left, FALSE) >> \in Seq(Events)
        BY <2>1, PairIsSeq
      <3>2. QED
        BY <2>3, <3>1, ConcatProperties DEF ExchangeTypeOK
    <2>4. QED
      BY <1>11, <2>2, <2>3
  <1>2. PoolTypeOK'
    BY <1>1 DEF PoolTypeOK
  <1>3. UserTypeOK'
    BY <1>1 DEF UserTypeOK
  <1>4. JobTypeOK'
    BY <1>1 DEF JobTypeOK, Replies, NoReply, Refusal, Jobs, Attempts, RequestShape
  <1>5. ExchangeTypeOK'
    BY <1>1, <1>13, <1>14 DEF ExchangeTypeOK
  <1>6. RequestShape'
    BY <1>1, <1>13 DEF RequestShape, Open
  <1>7. HandlesAccounted'
    BY <1>1 DEF PoolTypeOK, JobTypeOK, HandlesAccounted, FreeHandles, NoHandle, Handles
  <1>8. OwnMethod'
    BY <1>1 DEF PoolTypeOK, JobTypeOK, HandlesAccounted, OwnMethod, FreeHandlesReset,
         FreeHandles, NoHandle, Handles
  <1>9. FreeHandlesReset'
    BY <1>1 DEF PoolTypeOK, JobTypeOK, HandlesAccounted, FreeHandlesReset, FreeHandles
  <1>10. QED
    BY <1>2, <1>3, <1>4, <1>5, <1>6, <1>7, <1>8, <1>9

LEMMA RequestsNext == TradingIInv /\ [TradingNext]_tradingVars => RequestsInv'
  <1> SUFFICES ASSUME TradingIInv, [TradingNext]_tradingVars
               PROVE  RequestsInv'
    OBVIOUS
  <1>1. ASSUME NEW j \in Jobs, Request(j)
        PROVE  RequestsInv'
    BY <1>1, PerformRequests, FindNoHandleRequests, AttemptFailsRequests,
       LogAnswerRequests, LogFailureRequests, LogNoHandleRequests, LogGiveUpRequests,
       PlaceAnsweredRequests, CancelAnsweredRequests, BulkAnsweredRequests,
       AnswerGarbledRequests, BulkPartlyFailedRequests, RemoveRequests, ReturnsRequests
    DEF Request, Runs, Logs
  <1>2. CASE UNCHANGED tradingVars
    BY <1>2 DEF tradingVars, TradingIInv, RequestsInv, PoolTypeOK, UserTypeOK, JobTypeOK,
                ExchangeTypeOK, RequestShape, Open, HandlesAccounted, OwnMethod,
                FreeHandlesReset, FreeHandles
  <1>3. QED
    BY <1>1, <1>2, UserRequests, ReceiveRequests, ServeRequests, LoseRequests, FillRequests
    DEF TradingNext, Exchange

-----------------------------------------------------------------------------
(* THE ORDERS AND THEIR IDENTIFIERS                                        *)

(* A request that has begun does not become idle again, and one whose      *)
(* answer has been parsed has only to return.                              *)
LEMMA JobStep ==
  ASSUME TradingIInv, [TradingNext]_tradingVars, NEW j \in Jobs
  PROVE  /\ pc[j] # "idle" => pc'[j] # "idle"
         /\ pc[j] \in Taken => pc'[j] \in Taken
  <1> DEFINE Kept == /\ pc[j] # "idle" => pc'[j] # "idle"
                     /\ pc[j] \in Taken => pc'[j] \in Taken
  <1> USE TradingAssumption DEF TradingIInv, RequestsInv, JobTypeOK
  <1>1. CASE UserInterface
    BY <1>1 DEF UserInterface, MenuMake, AbandonOrder, MenuQuit, BulkReturns, SendOrder,
                MenuCancel, SendCancel, RequestShape, Jobs, jobVars, Taken
  <1>2. ASSUME NEW i \in Jobs, Request(i)
        PROVE  Kept
    BY <1>2, AfterIs DEF Taken, Request, Runs, Logs, Perform, FindNoHandle, AttemptFails,
         ReleaseAnd,
                LogNoHandle, LogFailure, LogGiveUp, LogAnswer, AnswerGarbled,
                BulkPartlyFailed,
                PlaceAnswered, CancelAnswered, BulkAnswered, Answered, Remove, Returns
  <1>3. CASE ReceiveEvent \/ ReceivePieces \/ LoseRequest \/ (\E u \in Uuids : FillOrder(u))
    BY <1>3 DEF ReceiveEvent, ReceivePieces, LoseRequest, FillOrder, jobVars
  <1>4. CASE ServeRequest
    BY <1>4 DEF ServeRequest
  <1>5. CASE UNCHANGED tradingVars
    BY <1>5 DEF tradingVars
  <1>6. QED
    BY <1>1, <1>2, <1>3, <1>4, <1>5 DEF TradingNext, Exchange

(* What a step may do to the book: an order keeps its identifier and is    *)
(* only filled or closed; a new one answers a request not answered before. *)
BookGrows ==
  /\ \A u \in Known :
       /\ u \in Known'
       /\ book'[u].identifier = book[u].identifier
       /\ book'[u].left <= book[u].left
       /\ u \notin Open => u \notin Open' /\ book'[u] = book[u]
  /\ \A u \in Known' \ Known : \E m \in net :
       /\ m[1] \in Places
       /\ book'[u] = [state |-> "wait", left |-> Lots, identifier |-> <<m[1], 0>>]
       /\ \A v \in Known : book[v].identifier # <<m[1], 0>>
       /\ Known' = Known \cup {u}

LEMMA BookKept ==
  ASSUME TradingIInv, book' = book
  PROVE  BookGrows
  BY DEF BookGrows, Known, Open, TradingIInv, RequestsInv, ExchangeTypeOK, BookEntries

LEMMA BookStep ==
  ASSUME TradingIInv, [TradingNext]_tradingVars
  PROVE  BookGrows
  <1> USE TradingAssumption DEF TradingIInv, RequestsInv, ExchangeTypeOK
  <1>1. CASE UserInterface \/ (\E j \in Jobs : Request(j)) \/ ReceiveEvent \/ ReceivePieces
             \/ LoseRequest \/ UNCHANGED tradingVars
    <2>1. book' = book
      BY <1>1 DEF UserInterface, MenuMake, AbandonOrder, MenuQuit, BulkReturns, SendOrder,
                MenuCancel, SendCancel, Request, Runs, Logs, Perform, FindNoHandle, AttemptFails,
                AfterAttempt, LogNoHandle, LogFailure, LogGiveUp, LogAnswer, AnswerGarbled,
                BulkPartlyFailed,
                PlaceAnswered, CancelAnswered, BulkAnswered, Remove, Returns, ReceiveEvent,
                ReceivePieces, LoseRequest, tradingVars, exchangeVars
    <2>2. QED
      BY <2>1, BookKept
  <1>2. ASSUME NEW m \in net, AcceptOrder(m)
        PROVE  BookGrows
    <2>1. PICK u \in Uuids \ Known :
            book' = [book EXCEPT ![u] = [state |-> "wait", left |-> Lots,
                                         identifier |-> <<m[1], 0>>]]
      BY <1>2 DEF AcceptOrder, Identifier
    <2>2. \A v \in Known : book[v].identifier # <<m[1], 0>>
      BY <1>2 DEF AcceptOrder, Identifier
    <2>3. \A v \in Uuids \ {u} : book'[v] = book[v]
      BY <2>1
    <2>4. book'[u] = [state |-> "wait", left |-> Lots, identifier |-> <<m[1], 0>>]
      BY <2>1
    <2>5. Known' = Known \cup {u}
      BY <2>3, <2>4 DEF Known
    <2>6. \A v \in Known : book'[v] = book[v] /\ book[v].left \in Int
      BY <2>3 DEF Known, BookEntries
    <2>7. m[1] \in Places
      BY <1>2 DEF AcceptOrder
    <2>8. \A v \in Known' \ Known : v = u
      BY <2>5
    <2>9. \A v \in Known : /\ v \in Known'
                           /\ book'[v].identifier = book[v].identifier
                           /\ book'[v].left <= book[v].left
                           /\ v \notin Open => v \notin Open' /\ book'[v] = book[v]
      BY <2>5, <2>6 DEF Open
    <2>10. QED
      BY <2>2, <2>4, <2>5, <2>7, <2>8, <2>9 DEF BookGrows
  <1>3. ASSUME NEW m \in net, CancelOpenOrder(m)
        PROVE  BookGrows
    <2>1. PICK t \in Open : book' = [book EXCEPT ![t].state = "cancel"]
      BY <1>3 DEF CancelOpenOrder
    <2>2. t \in Uuids /\ book[t] \in BookEntries
      BY <2>1 DEF Open
    <2>3. /\ book'[t].state = "cancel" /\ book'[t].left = book[t].left
          /\ book'[t].identifier = book[t].identifier
      BY <2>1, <2>2 DEF BookEntries
    <2>4. \A v \in Uuids \ {t} : book'[v] = book[v]
      BY <2>1
    <2>5. \A v \in Uuids : book[v].left \in Int
      BY DEF BookEntries
    <2>6. Known' = Known /\ Open' = Open \ {t}
      BY <2>1, <2>2, <2>3, <2>4 DEF Known, Open
    <2>7. \A v \in Known : v \in Uuids
      BY DEF Known
    <2>8. \A v \in Known : /\ v \in Known'
                           /\ book'[v].identifier = book[v].identifier
                           /\ book'[v].left <= book[v].left
                           /\ v \notin Open => v \notin Open' /\ book'[v] = book[v]
      <3> SUFFICES ASSUME NEW v \in Known
                   PROVE  /\ v \in Known'
                          /\ book'[v].identifier = book[v].identifier
                          /\ book'[v].left <= book[v].left
                          /\ v \notin Open => v \notin Open' /\ book'[v] = book[v]
        OBVIOUS
      <3>1. CASE v = t
        BY <3>1, <2>1, <2>3, <2>5, <2>6, <2>7
      <3>2. CASE v # t
        <4>1. book'[v] = book[v]
          BY <3>2, <2>4, <2>7
        <4>2. book[v].left <= book[v].left
          BY <2>5, <2>7
        <4>3. QED
          BY <4>1, <4>2, <2>6
      <3>3. QED
        BY <3>1, <3>2
    <2>9. Known' \ Known = {}
      BY <2>6
    <2> QED
      BY <2>8, <2>9 DEF BookGrows
  <1>4. ASSUME NEW m \in net, CancelAllOpen(m)
        PROVE  BookGrows
    <2>1. PICK S \in SUBSET Open :
            book' = [u \in Uuids |-> IF u \in S THEN [book[u] EXCEPT !.state = "cancel"]
                                     ELSE book[u]]
      BY <1>4 DEF CancelAllOpen
    <2>2. QED
      BY <2>1, SMTT(30) DEF BookGrows, Known, Open, BookEntries
  <1>5. ASSUME NEW m \in net, RefuseRequest(m)
        PROVE  BookGrows
    BY <1>5, BookKept DEF RefuseRequest, exchangeVars
  <1>6. ASSUME NEW u \in Uuids, FillOrder(u)
        PROVE  BookGrows
    <2>1. PICK left : /\ left = book[u].left - 1
                      /\ book' = [book EXCEPT ![u].left = left,
                                              ![u].state = IF left = 0 THEN "done" ELSE "wait"]
      BY <1>6 DEF FillOrder
    <2>2. u \in Open /\ u \in Uuids
      BY <1>6 DEF FillOrder
    <2>3. book[u] \in BookEntries
      BY <2>2
    <2>4. /\ book'[u].left = left /\ left <= book[u].left
          /\ book'[u].identifier = book[u].identifier
          /\ book'[u].state \in {"done", "wait"}
      BY <2>1, <2>2, <2>3 DEF BookEntries
    <2>5. \A v \in Uuids \ {u} : book'[v] = book[v] /\ book[v].left <= book[v].left
      BY <2>1 DEF BookEntries
    <2>6. Known' = Known
      BY <2>2, <2>4, <2>5 DEF Known, Open
    <2>7. QED
      BY <2>2, <2>4, <2>5, <2>6 DEF BookGrows, Open, Known
  <1>7. QED
    BY <1>1, <1>2, <1>3, <1>4, <1>5, <1>6 DEF TradingNext, Exchange, ServeRequest

(* An order that has entered the table has been reported by its request,   *)
(* so the answer the table is about to take in names another.              *)
LEMMA ReportsOnce ==
  ASSUME TradingIInv, NEW r \in Places, Answered(r)
  PROVE  /\ reply[r].uuid \in Uuids \ Tracked
         /\ reply[r].state \in Statuses
         /\ reply[r].volume \in Volumes
  <1>1. reply[r].uuid \in Known /\ book[reply[r].uuid].identifier = <<r, 0>>
    BY DEF Answered, TradingIInv, OrdersIdentified
  <1>2. reply[r].uuid \notin Tracked
    BY <1>1 DEF Answered, TradingIInv, OrdersIdentified, Reported, Taken
  <1>3. QED
    BY <1>1, <1>2, TradingAssumption DEF Answered, TradingIInv, RequestsInv, RequestShape, Known

(* Who changes the table, and with what: an answer inserts the order it    *)
(* reports or restates the one it cancels, a request removes the orders    *)
(* its answer names, and the websocket thread applies the next event.      *)
TableUse ==
  \/ UNCHANGED tableVars
  \/ \E r \in Places :
       /\ PlaceAnswered(r)
       /\ insert_order(reply[r].uuid, reply[r].volume, reply[r].state)
       /\ reply[r].uuid \in Uuids \ Tracked /\ reply[r].state \in Statuses
       /\ reply[r].volume \in Volumes
  \/ \E u \in Uuids, s \in Statuses : update_order_status(u, s)
  \/ \E j \in Jobs : \E u \in removing[j] \cap Uuids : Remove(j) /\ remove_order(u)
  \/ /\ ReceiveEvent
     /\ Head(stream) \in Events
     /\ EventClosed(Head(stream)) \/ EventTrade(Head(stream))

LEMMA TableUsed ==
  ASSUME TradingIInv, [TradingNext]_tradingVars
  PROVE  TableUse
  <1> USE DEF TradingIInv, RequestsInv
  <1>1. CASE UserInterface \/ ReceivePieces \/ Exchange \/ UNCHANGED tradingVars
    BY <1>1 DEF UserInterface, MenuMake, AbandonOrder, MenuQuit, BulkReturns, SendOrder,
                MenuCancel, SendCancel, ReceivePieces, Exchange, ServeRequest, LoseRequest,
                FillOrder, tradingVars, tableVars, TableUse
  <1>2. ASSUME NEW j \in Jobs,
               Perform(j) \/ FindNoHandle(j) \/ AttemptFails(j) \/ Logs(j) \/ BulkAnswered
               \/ AnswerGarbled(j) \/ BulkPartlyFailed \/ Returns(j)
        PROVE  UNCHANGED tableVars
    BY <1>2 DEF Logs, Perform, FindNoHandle, AttemptFails,
                AfterAttempt, LogNoHandle, LogFailure, LogGiveUp, LogAnswer, AnswerGarbled,
                BulkPartlyFailed, BulkAnswered, Returns
  <1>3. ASSUME NEW r \in Places, PlaceAnswered(r)
        PROVE  TableUse
    <2>1. insert_order(reply[r].uuid, reply[r].volume, reply[r].state) /\ Answered(r)
      BY <1>3 DEF PlaceAnswered
    <2>2. QED
      BY <1>3, <2>1, ReportsOnce DEF TableUse
  <1>4. ASSUME NEW c \in Cancels, CancelAnswered(c)
        PROVE  TableUse
    <2>1. /\ update_order_status(reply[c].uuid, reply[c].state)
          /\ reply[c].uuid \in Uuids /\ reply[c].state \in Statuses
      BY <1>4 DEF CancelAnswered, Answered, RequestShape
    <2>2. QED
      BY <2>1 DEF TableUse
  <1>5. ASSUME NEW j \in Jobs, Remove(j)
        PROVE  TableUse
    <2>1. \E u \in removing[j] \cap Uuids : Remove(j) /\ remove_order(u)
      BY <1>5 DEF Remove, JobTypeOK
    <2>2. QED
      BY <2>1 DEF TableUse
  <1>6. CASE ReceiveEvent
    <2>1. Head(stream) \in Events
      BY <1>6 DEF ReceiveEvent, ExchangeTypeOK
    <2>2. QED
      BY <1>6, <2>1 DEF ReceiveEvent, EventWait, TableUse
  <1>7. ASSUME NEW j \in Jobs, Request(j)
        PROVE  TableUse
    BY <1>2, <1>3, <1>4, <1>5, <1>7 DEF Request, Runs, Logs, TableUse
  <1>8. QED
    BY <1>1, <1>6, <1>7 DEF TradingNext

(* Every step of the program is a step of the table.                       *)
LEMMA TableStep ==
  ASSUME TradingIInv, [TradingNext]_tradingVars
  PROVE  [TableNext]_tableVars
  <1>1. TableUse
    BY TableUsed
  <1>2. ASSUME NEW e \in Events
        PROVE  e.uuid \in Uuids /\ RemainingVolume(e) \in Volumes
    BY TradingAssumption DEF Events, RemainingVolume
  <1>3. QED
    BY <1>1, <1>2 DEF TableUse, TableNext, EventClosed, EventTrade

(* The only order a step brings into the table is one an answer reports.   *)
LEMMA TrackedStep ==
  ASSUME TradingIInv, TableInv', [TradingNext]_tradingVars, NEW u \in Tracked' \ Tracked
  PROVE  \E r \in Places : PlaceAnswered(r) /\ u = reply[r].uuid
  <1>1. TableUse /\ TableInv
    BY TableUsed DEF TradingIInv
  <1>2. ~UNCHANGED tableVars
    BY DEF tableVars, Tracked, Occupied
  <1>3. ASSUME NEW e \in Events
        PROVE  e.uuid \in Uuids /\ RemainingVolume(e) \in Volumes
    BY TradingAssumption DEF Events, RemainingVolume
  <1>5. /\ \A x \in Uuids : ~remove_order(x)
        /\ \A x \in Uuids, v \in Volumes : ~update_order_volume(x, v)
        /\ \A x \in Uuids, s \in Statuses : ~update_order_status(x, s)
    BY <1>1, RemoveListed, VolumeListed, StatusListed
  <1>6. PICK r \in Places : /\ PlaceAnswered(r)
                            /\ insert_order(reply[r].uuid, reply[r].volume, reply[r].state)
                            /\ reply[r].uuid \in Uuids \ Tracked /\ reply[r].state \in Statuses
                            /\ reply[r].volume \in Volumes
    BY <1>1, <1>2, <1>3, <1>5 DEF TableUse, EventClosed, EventTrade
  <1>7. QED
    BY <1>1, <1>6, InsertListed

(* A request on its way to the exchange has been sent by its job.          *)
LEMMA NetStep ==
  ASSUME TradingIInv, [TradingNext]_tradingVars, NEW m \in net' \ net
  PROVE  m[1] \in Jobs /\ pc'[m[1]] = "sent"
  <1> USE DEF TradingIInv, RequestsInv
  <1>1. CASE UserInterface \/ ReceiveEvent \/ ReceivePieces \/ Exchange \/ UNCHANGED tradingVars
    BY <1>1 DEF UserInterface, MenuMake, AbandonOrder, MenuQuit, BulkReturns, SendOrder,
                MenuCancel, SendCancel, ReceiveEvent, ReceivePieces, Exchange, ServeRequest,
                LoseRequest, FillOrder, tradingVars
  <1>2. ASSUME NEW j \in Jobs, Perform(j)
        PROVE  m[1] \in Jobs /\ pc'[m[1]] = "sent"
    BY <1>2 DEF Perform, JobTypeOK
  <1>3. ASSUME NEW j \in Jobs, Request(j), ~Perform(j)
        PROVE  FALSE
    BY <1>3 DEF Request, Runs, Logs, FindNoHandle, AttemptFails,
                AfterAttempt, LogNoHandle, LogFailure, LogGiveUp, LogAnswer, AnswerGarbled,
                BulkPartlyFailed, PlaceAnswered, CancelAnswered,
                BulkAnswered, Remove, Returns
  <1>4. QED
    BY <1>1, <1>2, <1>3 DEF TradingNext

(* A positive answer to a place_order names an order of the book that has  *)
(* the identifier of the request.                                          *)
LEMMA ReplyStep ==
  ASSUME TradingIInv, [TradingNext]_tradingVars, NEW r \in Places, reply'[r].ok
  PROVE  \/ reply'[r] = reply[r]
         \/ reply'[r].uuid \in Known' /\ book'[reply'[r].uuid].identifier = <<r, 0>>
  <1> USE TradingAssumption DEF TradingIInv, RequestsInv, JobTypeOK
  <1>1. CASE UserInterface \/ ReceiveEvent \/ ReceivePieces \/ LoseRequest
             \/ (\E u \in Uuids : FillOrder(u)) \/ UNCHANGED tradingVars
    BY <1>1 DEF UserInterface, MenuMake, AbandonOrder, MenuQuit, BulkReturns, SendOrder,
                MenuCancel, SendCancel, ReceiveEvent, ReceivePieces, LoseRequest,
                FillOrder, tradingVars, jobVars
  <1>2. ASSUME NEW j \in Jobs, Request(j)
        PROVE  reply'[r] = reply[r]
    BY <1>2 DEF Request, Runs, Logs, Perform, FindNoHandle, AttemptFails,
                AfterAttempt, LogNoHandle, LogFailure, LogGiveUp, LogAnswer, AnswerGarbled,
                BulkPartlyFailed, PlaceAnswered,
                CancelAnswered, BulkAnswered, Remove, Returns, NoReply, Jobs
  <1>3. ASSUME NEW m \in net, AcceptOrder(m)
        PROVE  \/ reply'[r] = reply[r]
               \/ reply'[r].uuid \in Known' /\ book'[reply'[r].uuid].identifier = <<r, 0>>
    <2>1. PICK u \in Uuids \ Known :
            /\ book' = [book EXCEPT ![u] = [state |-> "wait", left |-> Lots,
                                            identifier |-> <<m[1], 0>>]]
            /\ \E volume \in {Lots} \cup (IF MarketBuys THEN {0} ELSE {}) :
                 Deliver(m, [ok |-> TRUE, uuid |-> u, state |-> "wait", volume |-> volume])
      BY <1>3 DEF AcceptOrder, Identifier
    <2>10. PICK volume \in Volumes :
             Deliver(m, [ok |-> TRUE, uuid |-> u, state |-> "wait", volume |-> volume])
      <3>1. PICK v \in {Lots} \cup (IF MarketBuys THEN {0} ELSE {}) :
              Deliver(m, [ok |-> TRUE, uuid |-> u, state |-> "wait", volume |-> v])
        BY <2>1
      <3>2. v \in Volumes
        OBVIOUS
      <3> QED
        BY <3>1, <3>2
    <2> DEFINE answer == [ok |-> TRUE, uuid |-> u, state |-> "wait", volume |-> volume]
    <2>2. CASE m[1] = r /\ reply'[r] = answer
      BY <2>1, <2>2 DEF Known, ExchangeTypeOK
    <2>3. CASE reply'[r] = reply[r]
      BY <2>3
    <2>4. answer \in Replies /\ r \in Jobs
      BY DEF Replies, Jobs
    <2>5. \/ reply'[r] = reply[r]
          \/ r = m[1] /\ reply'[r] = answer
      BY <2>10, <2>4, Delivered DEF JobTypeOK
    <2>6. QED
      BY <2>2, <2>3, <2>5
  <1>4. ASSUME NEW m \in net, CancelOpenOrder(m) \/ CancelAllOpen(m) \/ RefuseRequest(m)
        PROVE  reply'[r] = reply[r]
    <2>1. PICK answer \in {Refusal} \cup {a \in Replies : m[1] \notin Places} : Deliver(m, answer)
      <3>1. CASE CancelOpenOrder(m)
        BY <3>1 DEF CancelOpenOrder, Open, Replies
      <3>2. CASE CancelAllOpen(m)
        <4>1. PICK S \in SUBSET Open : Deliver(m, [ok |-> TRUE, uuids |-> S])
          BY <3>2 DEF CancelAllOpen
        <4>2. [ok |-> TRUE, uuids |-> S] \in Replies /\ m[1] \notin Places
          BY <3>2 DEF CancelAllOpen, Open, Replies
        <4>3. QED
          BY <4>1, <4>2
      <3>3. CASE RefuseRequest(m)
        BY <3>3 DEF RefuseRequest
      <3>4. QED
        BY <1>4, <3>1, <3>2, <3>3
    <2>2. ~Refusal.ok /\ answer \in Replies
      BY DEF Refusal, Replies
    <2>3. reply'[r] = reply[r] \/ (r = m[1] /\ reply'[r] = answer)
      BY <2>1, <2>2, Delivered DEF JobTypeOK, Jobs
    <2>4. QED
      BY <2>1, <2>2, <2>3
  <1>5. QED
    BY <1>1, <1>2, <1>3, <1>4 DEF TradingNext, Exchange, ServeRequest

LEMMA OrdersIdentifiedInit == TradingInit => OrdersIdentified
  BY DEF TradingInit, TableInit, OrdersIdentified, Known, NoOrder, NoReply,
         AtMostOneOrderPerRequest, Tracked, Occupied, Jobs

LEMMA OrdersIdentifiedNext ==
  ASSUME TradingIInv, TableInv', [TradingNext]_tradingVars
  PROVE  OrdersIdentified'
  <1> USE DEF TradingIInv, OrdersIdentified
  <1>1. BookGrows
    BY BookStep
  <1>2. \A u \in Known : \E r \in Places : book[u].identifier = <<r, 0>> /\ r \in Jobs
    BY DEF Jobs
  <1>3. \A j \in Jobs : /\ pc[j] # "idle" => pc'[j] # "idle"
                        /\ pc[j] \in Taken => pc'[j] \in Taken
    BY JobStep
  <1>4. \A m \in net : m[1] \in Jobs
    BY DEF RequestsInv, ExchangeTypeOK
  <1>5. \A u \in Known' : \E r \in Places : book'[u].identifier = <<r, 0>> /\ pc'[r] # "idle"
    <2>1. ASSUME NEW u \in Known
          PROVE  \E r \in Places : book'[u].identifier = <<r, 0>> /\ pc'[r] # "idle"
      BY <1>1, <1>2, <1>3 DEF BookGrows
    <2>2. ASSUME NEW u \in Known' \ Known
          PROVE  \E r \in Places : book'[u].identifier = <<r, 0>> /\ pc'[r] # "idle"
      <3>1. PICK m \in net :
              /\ m[1] \in Places
              /\ book'[u] = [state |-> "wait", left |-> Lots, identifier |-> <<m[1], 0>>]
              /\ \A v \in Known : book[v].identifier # <<m[1], 0>>
              /\ Known' = Known \cup {u}
        BY <1>1, <2>2 DEF BookGrows
      <3>2. book'[u].identifier = <<m[1], 0>>
        BY <3>1
      <3>3. QED
        BY <1>3, <1>4, <3>1, <3>2
    <2>3. QED
      BY <2>1, <2>2
  <1>6. \A m \in net' : pc'[m[1]] # "idle"
    BY <1>3, <1>4, NetStep
  <1>7. \A r \in Places : reply'[r].ok =>
          reply'[r].uuid \in Known' /\ book'[reply'[r].uuid].identifier = <<r, 0>>
    BY <1>1, ReplyStep DEF BookGrows
  <1>8. AtMostOneOrderPerRequest'
    <2>1. ASSUME NEW u \in Known', NEW v \in Known',
                 book'[u].identifier[1] = book'[v].identifier[1], u # v
          PROVE  FALSE
      <3>1. book'[u].identifier = book'[v].identifier
        BY <1>5, <2>1
      <3>2. CASE u \in Known /\ v \in Known
        BY <1>1, <2>1, <3>2 DEF BookGrows, AtMostOneOrderPerRequest
      <3>3. CASE u \notin Known
        <4>1. PICK m \in net :
                /\ book'[u] = [state |-> "wait", left |-> Lots, identifier |-> <<m[1], 0>>]
                /\ \A w \in Known : book[w].identifier # <<m[1], 0>>
                /\ Known' = Known \cup {u}
          BY <1>1, <3>3, ZenonT(30) DEF BookGrows
        <4>2. v \in Known
          BY <2>1, <4>1
        <4>3. book'[u].identifier = <<m[1], 0>> /\ book'[v].identifier = book[v].identifier
          BY <1>1, <4>1, <4>2 DEF BookGrows
        <4>4. QED
          BY <3>1, <4>1, <4>2, <4>3
      <3>4. CASE v \notin Known
        <4>1. PICK m \in net :
                /\ book'[v] = [state |-> "wait", left |-> Lots, identifier |-> <<m[1], 0>>]
                /\ \A w \in Known : book[w].identifier # <<m[1], 0>>
                /\ Known' = Known \cup {v}
          BY <1>1, <3>4, ZenonT(30) DEF BookGrows
        <4>2. u \in Known
          BY <2>1, <4>1
        <4>3. book'[v].identifier = <<m[1], 0>> /\ book'[u].identifier = book[u].identifier
          BY <1>1, <4>1, <4>2 DEF BookGrows
        <4>4. QED
          BY <3>1, <4>1, <4>2, <4>3
      <3>5. QED
        BY <3>2, <3>3, <3>4
    <2>2. QED
      BY <2>1 DEF AtMostOneOrderPerRequest
  <1>9. \A u \in Tracked' : Reported(u)'
    <2>1. ASSUME NEW u \in Tracked
          PROVE  Reported(u)'
      <3>1. PICK r \in Places : book[u].identifier = <<r, 0>> /\ r \in Jobs
        BY <1>2 DEF Reported
      <3>2. QED
        BY <1>1, <1>3, <3>1 DEF Reported, BookGrows
    <2>2. ASSUME NEW u \in Tracked' \ Tracked
          PROVE  Reported(u)'
      <3>1. PICK r \in Places : PlaceAnswered(r) /\ u = reply[r].uuid
        BY TrackedStep
      <3>2. u \in Known /\ book[u].identifier = <<r, 0>>
        BY <3>1 DEF PlaceAnswered, Answered
      <3>3. pc'[r] = "parsed"
        BY <3>1 DEF PlaceAnswered, RequestsInv, JobTypeOK, Jobs
      <3>4. QED
        BY <1>1, <3>2, <3>3 DEF Reported, BookGrows, Taken
    <2>3. QED
      BY <2>1, <2>2
  <1>10. QED
    BY <1>5, <1>6, <1>7, <1>8, <1>9

LEMMA TradingIInvInit == TradingInit => TradingIInv
  <1>1. TradingInit => TableInv
    BY TableInvInit DEF TradingInit
  <1>2. QED
    BY <1>1, RequestsInit, OrdersIdentifiedInit DEF TradingIInv

LEMMA TradingIInvNext == TradingIInv /\ [TradingNext]_tradingVars => TradingIInv'
  <1> SUFFICES ASSUME TradingIInv, [TradingNext]_tradingVars
               PROVE  TradingIInv'
    OBVIOUS
  <1>1. TableInv'
    BY TableStep, TableInvNext DEF TradingIInv
  <1>2. QED
    BY <1>1, RequestsNext, OrdersIdentifiedNext DEF TradingIInv

(* Requests, handles, identifiers and the table are in order in every      *)
(* state: the invariant the theorems below follow from.                    *)
THEOREM TradingIInvariant == TradingSpec => []TradingIInv
  BY TradingIInvInit, TradingIInvNext, PTL DEF TradingSpec

(* Every variable has its type, and the pool's marks agree with the        *)
(* requests through every timeout, refusal, retry and late answer: no two  *)
(* share a handle, and none keeps one after its end.                       *)
THEOREM HandlesAreAccounted == TradingSpec => []TradingInv
  <1>1. TradingIInv => TradingInv
    BY DEF TradingIInv, TradingInv, TradingTypeOK, TableInv, RequestsInv
  <1>2. QED
    BY <1>1, TradingIInvariant, PTL

(* No order goes out as a DELETE and no cancellation as a POST.            *)
THEOREM MethodsAreOwn == TradingSpec => []OwnMethod
  <1>1. TradingIInv => OwnMethod
    BY DEF TradingIInv, RequestsInv
  <1>2. QED
    BY <1>1, TradingIInvariant, PTL

(* However often a place_order is sent, the exchange has one order of it.  *)
THEOREM OrdersArePlacedOnce == TradingSpec => []AtMostOneOrderPerRequest
  <1>1. TradingIInv => AtMostOneOrderPerRequest
    BY DEF TradingIInv, OrdersIdentified
  <1>2. QED
    BY <1>1, TradingIInvariant, PTL

(* The program uses the table as the table's own specification assumes: it *)
(* never inserts an order that is in it, ...                               *)
THEOREM TableIsUsedAsSpecified == TradingSpec => UsesTable
  <1>1. TradingInit => TableInit
    BY DEF TradingInit
  <1>2. TradingIInv /\ [TradingNext]_tradingVars => [TableNext]_tableVars
    BY TableStep
  <1>3. QED
    BY <1>1, <1>2, TradingIInvariant, PTL DEF TradingSpec, UsesTable, TableSpec

(* ... so what is proved of the table alone holds in the whole program:    *)
(* its counters and flags are right, ...                                   *)
THEOREM TableInvariantInUse == TradingSpec => []TableInv
  BY TableIsUsedAsSpecified, TableInvariant, PTL DEF UsesTable

(* ... and the table is, in the whole program, a map from ids to orders.   *)
THEOREM TableIsAMapInUse == TradingSpec => ImplementsTracked
  BY TableIsUsedAsSpecified, TableIsAMap, PTL DEF UsesTable

-----------------------------------------------------------------------------
(* WHAT THE USER POINTS AT                                                 *)

(* An order that has been shown has been reported, and while it is listed  *)
(* it stays in its slot.                                                   *)
SlotsShown ==
  /\ ui = "cancel" =>
       /\ Reported(pick[2])
       /\ pick[2] \in Tracked => pick[1] \in Occupied /\ orders[pick[1]].uuid = pick[2]
  /\ \A c \in Cancels : wanted[c] # Null => Reported(wanted[c])
  /\ CancelNamesShownOrder

LEMMA ReportedStep ==
  ASSUME TradingIInv, TableInv', [TradingNext]_tradingVars, NEW u, Reported(u)
  PROVE  /\ Reported(u)'
         /\ u \in Tracked' => u \in Tracked
  <1>1. PICK r \in Places : book[u].identifier = <<r, 0>> /\ r \in Jobs /\ u \in Known
    BY DEF TradingIInv, OrdersIdentified, Reported, Jobs
  <1>2. pc[r] \in Taken /\ pc'[r] \in Taken
    BY <1>1, JobStep DEF Reported
  <1>3. u \in Known' /\ book'[u].identifier = <<r, 0>>
    BY <1>1, BookStep DEF BookGrows
  <1>4. ASSUME u \in Tracked' \ Tracked
        PROVE  FALSE
    <2>1. PICK x \in Places : PlaceAnswered(x) /\ u = reply[x].uuid
      BY <1>4, TrackedStep
    <2>2. pc[x] = "sent" /\ book[u].identifier = <<x, 0>>
      BY <2>1 DEF PlaceAnswered, Answered, TradingIInv, OrdersIdentified
    <2>3. QED
      BY <1>1, <1>2, <2>2 DEF Taken
  <1>5. QED
    BY <1>2, <1>3, <1>4 DEF Reported

LEMMA SlotsShownInit == TradingInit => SlotsShown
  BY DEF TradingInit, SlotsShown, CancelNamesShownOrder

LEMMA SlotsShownNext ==
  ASSUME TradingIInv, TradingIInv', SlotsShown, [TradingNext]_tradingVars
  PROVE  SlotsShown'
  <1> USE TradingAssumption
  <1>1. TableInv /\ TableInv' /\ UserTypeOK /\ Tracked' \subseteq Uuids
    BY DEF TradingIInv, RequestsInv, TableInv, TableTypeOK, Tracked, Occupied, Order
  <1>2. \A u : Reported(u) => Reported(u)' /\ (u \in Tracked' => u \in Tracked)
    BY <1>1, ReportedStep
  <1>3. CASE UNCHANGED <<ui, pick, target, wanted>>
    <2>1. ASSUME ui = "cancel", pick[2] \in Tracked'
          PROVE  pick[1] \in Occupied' /\ orders'[pick[1]].uuid = pick[2]
      <3>1. pick[1] \in Occupied /\ orders[pick[1]].uuid = pick[2]
        BY <1>2, <2>1 DEF SlotsShown
      <3>2. QED
        BY <1>1, <2>1, <3>1, TableStep, OrdersStayPut
    <2>2. ASSUME NEW c \in Cancels, target[c] # wanted[c]
          PROVE  wanted[c] \notin Tracked'
      BY <1>1, <1>2, <2>2 DEF SlotsShown, CancelNamesShownOrder, UserTypeOK
    <2>3. QED
      BY <1>2, <1>3, <2>1, <2>2 DEF SlotsShown, CancelNamesShownOrder
  <1>4. CASE UserInterface /\ ~UNCHANGED <<ui, pick, target, wanted>>
    <2>1. UNCHANGED tableVars /\ Tracked' = Tracked /\ Occupied' = Occupied
      BY <1>4 DEF UserInterface, MenuMake, AbandonOrder, MenuQuit, BulkReturns, SendOrder,
                  MenuCancel, SendCancel, tableVars, Tracked, Occupied
    <2>2. ASSUME NEW i \in OrderSlots, MenuCancel(i)
          PROVE  SlotsShown'
      <3>1. i \in Occupied /\ pick' = <<i, orders[i].uuid>> /\ UNCHANGED <<target, wanted>>
        BY <2>2 DEF MenuCancel
      <3>2. orders[i].uuid \in Tracked /\ Reported(orders[i].uuid)
        BY <3>1 DEF TradingIInv, OrdersIdentified, Tracked
      <3>3. QED
        BY <1>2, <2>1, <3>1, <3>2 DEF SlotsShown, CancelNamesShownOrder, tableVars
    <2>3. ASSUME NEW c \in Cancels, SendCancel(c)
          PROVE  SlotsShown'
      <3>1. ui = "cancel" /\ ui' = "menu"
        BY <2>3 DEF SendCancel
      <3>2. \/ UNCHANGED <<target, wanted>>
            \/ /\ pick[1] \in Occupied
               /\ target' = [target EXCEPT ![c] = orders[pick[1]].uuid]
               /\ wanted' = [wanted EXCEPT ![c] = pick[2]]
        BY <2>3 DEF SendCancel
      <3>3. Reported(pick[2]) /\ (pick[2] \in Tracked => orders[pick[1]].uuid = pick[2])
        BY <3>1 DEF SlotsShown
      <3>4. QED
        BY <1>1, <1>2, <2>1, <3>1, <3>2, <3>3
        DEF SlotsShown, CancelNamesShownOrder, UserTypeOK
    <2>4. CASE MenuMake \/ AbandonOrder \/ MenuQuit \/ BulkReturns \/ \E r \in Places : SendOrder(r)
      <3>1. ui' # "cancel" /\ UNCHANGED <<target, wanted>>
        BY <2>4 DEF MenuMake, AbandonOrder, MenuQuit, BulkReturns, SendOrder
      <3>2. QED
        BY <1>2, <2>1, <3>1 DEF SlotsShown, CancelNamesShownOrder
    <2>5. QED
      BY <1>4, <2>2, <2>3, <2>4 DEF UserInterface
  <1>5. CASE ~UserInterface
    <2>1. UNCHANGED <<ui, pick, target, wanted>>
      BY <1>5 DEF TradingNext, Request, Runs, Logs, Perform, FindNoHandle, AttemptFails,
                AfterAttempt, LogNoHandle, LogFailure, LogGiveUp, LogAnswer, AnswerGarbled,
                BulkPartlyFailed,
                  PlaceAnswered, CancelAnswered, BulkAnswered, Remove, Returns, ReceiveEvent,
                  ReceivePieces, Exchange, ServeRequest, LoseRequest, FillOrder, userVars,
                  tradingVars
    <2>2. QED
      BY <1>3, <2>1
  <1>6. QED
    BY <1>3, <1>4, <1>5

(* The user's cancellation reaches the order he saw under the number he    *)
(* typed, or that order has left the table before he typed it.             *)
THEOREM CancelsWhatWasShown == TradingSpec => []CancelNamesShownOrder
  <1>1. TradingIInv /\ TradingIInv' /\ SlotsShown /\ [TradingNext]_tradingVars => SlotsShown'
    BY SlotsShownNext
  <1>2. SlotsShown => CancelNamesShownOrder
    BY DEF SlotsShown
  <1>3. QED
    BY <1>1, <1>2, SlotsShownInit, TradingIInvariant, PTL DEF TradingSpec

-----------------------------------------------------------------------------
(* THE EVENTS ON THEIR WAY                                                 *)

(* The events of an order come in the order of its fills: what remains of  *)
(* it never grows from one event to a later one, nor from an event to the  *)
(* book, and the last trade on its way says what remains in the book.      *)
StreamOrdered ==
  /\ \A i \in DOMAIN stream :
       /\ stream[i].uuid \in Known
       /\ stream[i].integer => IntegerVolumes
       /\ stream[i].left >= book[stream[i].uuid].left
       /\ stream[i].state \in {"done", "cancel"} => stream[i].uuid \notin Open
  /\ \A i \in DOMAIN stream : stream[i].state = "trade" =>
       \E k \in DOMAIN stream :
         /\ k >= i
         /\ stream[k].state = "trade" /\ stream[k].uuid = stream[i].uuid
         /\ stream[k].left = book[stream[i].uuid].left
  /\ \A i, k \in DOMAIN stream :
       i <= k /\ stream[i].uuid = stream[k].uuid => stream[i].left >= stream[k].left

(* What the exchange appends to the stream: events that say how the book   *)
(* stands after the step, a trade for every order that was filled and a    *)
(* closing event for every order that is over.                             *)
Publishes(t) ==
  /\ stream' = stream \o t
  /\ \A i \in 1..Len(t) :
       /\ t[i].uuid \in Known' /\ t[i].left = book'[t[i].uuid].left
       /\ t[i].integer => IntegerVolumes
       /\ t[i].state \in {"done", "cancel"} => t[i].uuid \notin Open'
  /\ \A u \in Known : book'[u].left # book[u].left =>
       \E i \in 1..Len(t) : t[i].uuid = u /\ t[i].state = "trade"
  /\ \A u \in Open \ Open' :
       \E i \in 1..Len(t) : t[i].uuid = u /\ t[i].state \in {"done", "cancel"}

LEMMA AppendPublishes ==
  ASSUME TradingIInv, NEW e \in Events, stream' = Append(stream, e),
         e.uuid \in Known', e.left = book'[e.uuid].left,
         e.integer => IntegerVolumes,
         e.state \in {"done", "cancel"} => e.uuid \notin Open',
         \A u \in Known : book'[u].left # book[u].left => u = e.uuid /\ e.state = "trade",
         \A u \in Open \ Open' : u = e.uuid /\ e.state \in {"done", "cancel"}
  PROVE  \E t \in Seq(Events) : Publishes(t)
  <1> DEFINE t == <<e>>
  <1>1. t \in Seq(Events) /\ Len(t) = 1 /\ t[1] = e
    OBVIOUS
  <1>2. stream' = stream \o t
    BY AppendIsConcat DEF TradingIInv, RequestsInv, ExchangeTypeOK
  <1> HIDE DEF t
  <1>3. 1..Len(t) = {1}
    BY <1>1
  <1>4. Publishes(t)
    BY <1>1, <1>2, <1>3 DEF Publishes
  <1>5. QED
    BY <1>1, <1>4

LEMMA AcceptPublishes ==
  ASSUME TradingIInv, NEW m \in net, AcceptOrder(m)
  PROVE  \E t \in Seq(Events) : Publishes(t)
  <1>1. PICK u \in Uuids \ Known :
          /\ book' = [book EXCEPT ![u] =
                        [state |-> "wait", left |-> Lots,
                         identifier |-> Identifier(m[1], m[2])]]
          /\ stream' = Append(stream, Event("wait", u, Lots, FALSE))
    BY DEF AcceptOrder
  <1> DEFINE e == Event("wait", u, Lots, FALSE)
  <1>2. /\ e \in Events /\ e.uuid = u /\ e.left = Lots /\ ~e.integer /\ e.state = "wait"
    BY TradingAssumption DEF Event, Events
  <1>3. book'[u].state = "wait" /\ book'[u].left = Lots
    BY <1>1 DEF TradingIInv, RequestsInv, ExchangeTypeOK
  <1>4. \A v \in Known : book'[v] = book[v]
    BY <1>1 DEF Known, TradingIInv, RequestsInv, ExchangeTypeOK
  <1>5. u \in Known' /\ Open \ Open' = {}
    BY <1>3, <1>4 DEF Known, Open
  <1> HIDE DEF e
  <1>6. QED
    BY <1>1, <1>2, <1>3, <1>4, <1>5, AppendPublishes DEF e

LEMMA CancelPublishes ==
  ASSUME TradingIInv, NEW m \in net, CancelOpenOrder(m)
  PROVE  \E t \in Seq(Events) : Publishes(t)
  <1> DEFINE u == target[m[1]]
             e == Event("cancel", u, book[u].left, FALSE)
  <1>1. u \in Uuids /\ u \in Open /\ book \in [Uuids -> BookEntries]
    BY DEF CancelOpenOrder, Open, TradingIInv, RequestsInv, ExchangeTypeOK
  <1>2. /\ book' = [book EXCEPT ![u] = [book[u] EXCEPT !.state = "cancel"]]
        /\ stream' = Append(stream, e)
    BY DEF CancelOpenOrder
  <1>3. e \in Events /\ e.uuid = u /\ e.left = book[u].left /\ ~e.integer /\ e.state = "cancel"
    BY <1>1 DEF Event, Events, BookEntries
  <1> HIDE DEF u, e
  <1>4. book'[u].state = "cancel" /\ book'[u].left = book[u].left
    BY <1>1, <1>2 DEF BookEntries
  <1>5. \A v \in Uuids \ {u} : book'[v] = book[v]
    BY <1>1, <1>2
  <1>6. /\ u \in Known' /\ u \notin Open' /\ Open \ Open' \subseteq {u}
        /\ \A v \in Known : book'[v].left = book[v].left
    BY <1>1, <1>4, <1>5 DEF Known, Open
  <1>7. QED
    BY <1>2, <1>3, <1>4, <1>6, AppendPublishes

LEMMA CancelAllPublishes ==
  ASSUME TradingIInv, NEW m \in net, CancelAllOpen(m)
  PROVE  \E t \in Seq(Events) : Publishes(t)
  <1>1. PICK S \in SUBSET Open :
          /\ book' = [u \in Uuids |-> IF u \in S THEN [book[u] EXCEPT !.state = "cancel"]
                                      ELSE book[u]]
          /\ \E q \in SeqExt!SetToSeqs(S) :
               stream' = stream \o
                           [i \in DOMAIN q |-> Event("cancel", q[i], book[q[i]].left, FALSE)]
    BY DEF CancelAllOpen
  <1>2. PICK q \in SeqExt!SetToSeqs(S) :
          stream' = stream \o [i \in DOMAIN q |-> Event("cancel", q[i], book[q[i]].left, FALSE)]
    BY <1>1
  <1> DEFINE t == [i \in DOMAIN q |-> Event("cancel", q[i], book[q[i]].left, FALSE)]
  <1>3. S \in SUBSET Uuids /\ book \in [Uuids -> BookEntries]
    BY DEF Open, TradingIInv, RequestsInv, ExchangeTypeOK
  <1>4. q \in Seq(S) /\ \A u \in S : \E i \in DOMAIN q : q[i] = u
    BY <1>3, Permuted
  <1>5. /\ q \in [1..Len(q) -> S] /\ Len(q) \in Nat /\ DOMAIN q = 1..Len(q)
    BY <1>4
  <1>6. \A u \in Uuids : Event("cancel", u, book[u].left, FALSE) \in Events
    BY <1>3 DEF Event, Events, BookEntries
  <1>7. t \in [1..Len(q) -> Events]
    BY <1>3, <1>5, <1>6
  <1>8. t \in Seq(Events) /\ Len(t) = Len(q)
    BY <1>5, <1>7, FunctionIsSeq
  <1>9. \A i \in 1..Len(t) : /\ q[i] \in S
                             /\ t[i].uuid = q[i] /\ t[i].left = book[q[i]].left
                             /\ ~t[i].integer /\ t[i].state = "cancel"
    BY <1>5, <1>8 DEF Event
  <1>10. \A u \in S : \E i \in 1..Len(t) : q[i] = u
    BY <1>4, <1>5, <1>8
  <1>11. \A u \in S : /\ book'[u].state = "cancel" /\ book'[u].left = book[u].left
                      /\ u \in Known' /\ u \notin Open'
    BY <1>1, <1>3 DEF BookEntries, Known, Open
  <1>12. \A u \in Uuids \ S : book'[u] = book[u]
    BY <1>1
  <1>13. Open \ Open' \subseteq S /\ \A u \in Known : book'[u].left = book[u].left
    BY <1>11, <1>12 DEF Known, Open
  <1> HIDE DEF t
  <1>14. stream' = stream \o t
    BY <1>2 DEF t
  <1>15. \A i \in 1..Len(t) :
           /\ t[i].uuid \in Known' /\ t[i].left = book'[t[i].uuid].left
           /\ t[i].integer => IntegerVolumes
           /\ t[i].state \in {"done", "cancel"} => t[i].uuid \notin Open'
    BY <1>9, <1>11
  <1>16. \A u \in Open \ Open' :
           \E i \in 1..Len(t) : t[i].uuid = u /\ t[i].state \in {"done", "cancel"}
    BY <1>9, <1>10, <1>13
  <1>17. Publishes(t)
    BY <1>13, <1>14, <1>15, <1>16 DEF Publishes
  <1>18. QED
    BY <1>8, <1>17

LEMMA FillPublishes ==
  ASSUME TradingIInv, NEW u \in Uuids, FillOrder(u)
  PROVE  \E t \in Seq(Events) : Publishes(t)
  <1> DEFINE left == book[u].left - 1
             done == Event("done", u, left, FALSE)
  <1>1. /\ u \in Open
        /\ book' = [book EXCEPT ![u].left = left,
                                ![u].state = IF left = 0 THEN "done" ELSE "wait"]
    BY DEF FillOrder
  <1>2. PICK integer \in {FALSE, IntegerVolumes /\ left > 0} :
          stream' = IF left = 0
                    THEN stream \o <<Event("trade", u, left, integer), done>>
                    ELSE Append(stream, Event("trade", u, left, integer))
    BY DEF FillOrder
  <1> DEFINE trade == Event("trade", u, left, integer)
  <1>3. book[u] \in BookEntries /\ book[u].left > 0 /\ left \in 0..Lots
        /\ book \in [Uuids -> BookEntries]
    BY <1>1, TradingAssumption
    DEF TradingIInv, RequestsInv, RequestShape, ExchangeTypeOK, BookEntries
  <1>4. integer \in BOOLEAN /\ (integer => IntegerVolumes)
    OBVIOUS
  <1> HIDE DEF left
  <1>5. /\ trade \in Events /\ trade.uuid = u /\ trade.left = left /\ trade.state = "trade"
        /\ trade.integer = integer
        /\ done \in Events /\ done.uuid = u /\ done.left = left /\ done.state = "done"
        /\ ~done.integer
    BY <1>3, <1>4 DEF Event, Events
  <1>6. book'[u].left = left /\ book'[u].state = IF left = 0 THEN "done" ELSE "wait"
    BY <1>1, <1>3 DEF BookEntries
  <1>7. \A v \in Uuids \ {u} : book'[v] = book[v]
    BY <1>1, <1>3
  <1> HIDE DEF trade, done
  <1>8. /\ u \in Known'
        /\ u \in Open' <=> left # 0
        /\ Open \ Open' \subseteq {u}
        /\ \A v \in Known : book'[v].left # book[v].left => v = u
    BY <1>6, <1>7 DEF Known, Open
  <1>9. CASE left = 0
    <2> DEFINE t == <<trade, done>>
    <2>1. t \in Seq(Events) /\ Len(t) = 2 /\ t[1] = trade /\ t[2] = done
      BY <1>5, PairIsSeq
    <2>2. stream' = stream \o t
      BY <1>2, <1>9 DEF trade
    <2> HIDE DEF t
    <2>3. 1..Len(t) = {1, 2}
      BY <2>1
    <2>4. Publishes(t)
      BY <1>4, <1>5, <1>6, <1>8, <1>9, <2>1, <2>2, <2>3 DEF Publishes
    <2>5. QED
      BY <2>1, <2>4
  <1>10. CASE left # 0
    <2>1. stream' = Append(stream, trade)
      BY <1>2, <1>10 DEF trade
    <2>2. QED
      BY <1>4, <1>5, <1>6, <1>8, <1>10, <2>1, AppendPublishes
  <1>11. QED
    BY <1>9, <1>10

(* Nobody but the exchange adds to the stream or changes the book, and the *)
(* websocket thread takes the events one by one from the front.            *)
LEMMA StreamStep ==
  ASSUME TradingIInv, [TradingNext]_tradingVars
  PROVE  \/ UNCHANGED <<stream, book>>
         \/ /\ ReceiveEvent \/ ReceivePieces
            /\ stream # << >> /\ stream' = Tail(stream) /\ book' = book
         \/ \E t \in Seq(Events) : Publishes(t)
  <1>1. CASE UserInterface \/ (\E j \in Jobs : Request(j)) \/ LoseRequest \/ UNCHANGED tradingVars
    BY <1>1 DEF UserInterface, MenuMake, AbandonOrder, MenuQuit, BulkReturns, SendOrder,
                MenuCancel, SendCancel, Request, Runs, Logs, Perform, FindNoHandle, AttemptFails,
                AfterAttempt, LogNoHandle, LogFailure, LogGiveUp, LogAnswer, AnswerGarbled,
                BulkPartlyFailed,
                PlaceAnswered, CancelAnswered, BulkAnswered, Remove, Returns, LoseRequest,
                tradingVars, exchangeVars
  <1>2. CASE ReceiveEvent \/ ReceivePieces
    BY <1>2 DEF ReceiveEvent, ReceivePieces
  <1>3. ASSUME NEW m \in net, RefuseRequest(m)
        PROVE  UNCHANGED <<stream, book>>
    BY <1>3 DEF RefuseRequest, exchangeVars
  <1>4. QED
    BY <1>1, <1>2, <1>3, AcceptPublishes, CancelPublishes, CancelAllPublishes, FillPublishes
    DEF TradingNext, Exchange, ServeRequest

LEMMA StreamInit == TradingInit => StreamOrdered
  <1> SUFFICES ASSUME TradingInit
               PROVE  DOMAIN stream = {}
    BY DEF StreamOrdered
  <1>1. QED
    BY DEF TradingInit

LEMMA AppendOrdered ==
  ASSUME TradingIInv, TradingIInv', StreamOrdered, BookGrows,
         NEW t \in Seq(Events), Publishes(t)
  PROVE  StreamOrdered'
  <1> DEFINE n == Len(stream)
  <1>1. /\ stream \in Seq(Events) /\ n \in Nat /\ DOMAIN stream = 1..n
        /\ stream' \in Seq(Events) /\ DOMAIN stream' = 1..(n + Len(t)) /\ Len(t) \in Nat
    <2>1. stream \in Seq(Events) /\ stream' \in Seq(Events)
      BY DEF TradingIInv, RequestsInv, ExchangeTypeOK
    <2>2. stream' = stream \o t
      BY DEF Publishes
    <2>3. Len(stream') = n + Len(t)
      BY <2>1, <2>2, ConcatProperties
    <2>4. QED
      BY <2>1, <2>3
  <1>2. /\ \A i \in 1..n : stream'[i] = stream[i]
        /\ \A i \in 1..(n + Len(t)) : i > n => i - n \in 1..Len(t) /\ stream'[i] = t[i - n]
        /\ \A i \in 1..Len(t) : stream'[n + i] = t[i]
    <2>1. stream' = stream \o t
      BY DEF Publishes
    <2>2. \A i \in 1..(n + Len(t)) :
            stream'[i] = IF i <= n THEN stream[i] ELSE t[i - n]
      BY <1>1, <2>1, ConcatProperties
    <2> HIDE DEF n
    <2>3. \A i \in 1..Len(t) : n + i \in 1..(n + Len(t)) /\ ~(n + i <= n) /\ (n + i) - n = i
      BY <1>1
    <2>4. QED
      BY <1>1, <2>2, <2>3
  <1>3. /\ \A u \in Uuids : book[u].left \in Int /\ book'[u].left \in Int
        /\ Known \subseteq Uuids /\ Known' \subseteq Uuids
    BY DEF TradingIInv, RequestsInv, ExchangeTypeOK, BookEntries, Known
  <1>4. /\ \A i \in 1..n : stream[i].left \in Int
        /\ \A i \in 1..Len(t) : t[i].left \in Int
    <2>1. \A e \in Events : e.left \in Int
      BY DEF Events
    <2>2. QED
      BY <1>1, <2>1
  <1> HIDE DEF n
  <1>5. \A i \in 1..n : /\ stream[i].uuid \in Known
                        /\ stream[i].integer => IntegerVolumes
                        /\ stream[i].left >= book[stream[i].uuid].left
                        /\ stream[i].state \in {"done", "cancel"} => stream[i].uuid \notin Open
    BY <1>1 DEF StreamOrdered
  <1>6. \A u \in Known : u \in Known' /\ book'[u].left <= book[u].left
                         /\ (u \notin Open => u \notin Open')
    BY DEF BookGrows
  <1>7. \A i \in 1..Len(t) :
           /\ t[i].uuid \in Known' /\ t[i].left = book'[t[i].uuid].left
           /\ t[i].integer => IntegerVolumes
           /\ t[i].state \in {"done", "cancel"} => t[i].uuid \notin Open'
    BY DEF Publishes
  <1>8. ASSUME NEW i \in 1..(n + Len(t)), i > n
         PROVE  /\ stream'[i].uuid \in Known' /\ stream'[i].left = book'[stream'[i].uuid].left
                /\ stream'[i].integer => IntegerVolumes
                /\ stream'[i].state \in {"done", "cancel"} => stream'[i].uuid \notin Open'
    <2> DEFINE j == i - n
    <2>1. j \in 1..Len(t) /\ stream'[i] = t[j]
      BY <1>2, <1>8
    <2> HIDE DEF j
    <2>2. QED
      BY <1>7, <2>1
  <1>9. ASSUME NEW i \in 1..(n + Len(t))
        PROVE  /\ stream'[i].uuid \in Known'
               /\ stream'[i].integer => IntegerVolumes
               /\ stream'[i].left >= book'[stream'[i].uuid].left
               /\ stream'[i].state \in {"done", "cancel"} => stream'[i].uuid \notin Open'
    <2>1. CASE i \in 1..n
      BY <1>2, <1>3, <1>4, <1>5, <1>6, <2>1
    <2>2. CASE i > n
      BY <1>3, <1>8, <2>2
    <2>3. QED
      BY <1>1, <2>1, <2>2
  <1>10. ASSUME NEW i \in 1..(n + Len(t)), stream'[i].state = "trade"
        PROVE  \E k \in 1..(n + Len(t)) :
                 /\ k >= i
                 /\ stream'[k].state = "trade" /\ stream'[k].uuid = stream'[i].uuid
                 /\ stream'[k].left = book'[stream'[i].uuid].left
    <2>1. CASE i \in 1..n
      <3> DEFINE u == stream[i].uuid
      <3>1. PICK k \in 1..n : /\ k >= i
                              /\ stream[k].state = "trade" /\ stream[k].uuid = u
                              /\ stream[k].left = book[u].left
        BY <1>1, <1>2, <1>10, <2>1 DEF StreamOrdered
      <3>2. CASE book'[u].left = book[u].left
        <4>1. k \in 1..(n + Len(t))
          BY <1>1
        <4>2. QED
          BY <1>2, <2>1, <3>1, <3>2, <4>1
      <3>3. CASE book'[u].left # book[u].left
        <4>1. PICK j \in 1..Len(t) : t[j].uuid = u /\ t[j].state = "trade"
          BY <1>5, <2>1, <3>3, SMTT(30) DEF Publishes
        <4>2. t[j].left = book'[u].left
          BY <4>1 DEF Publishes
        <4>3. n + j \in 1..(n + Len(t)) /\ n + j >= i
          BY <1>1, <2>1
        <4>4. QED
          BY <1>2, <2>1, <4>1, <4>2, <4>3
      <3>4. QED
        BY <3>2, <3>3
    <2>2. CASE i > n
      BY <1>10, <1>8, <2>2
    <2>3. QED
      BY <1>1, <2>1, <2>2
  <1>11. ASSUME NEW i \in 1..(n + Len(t)), NEW k \in 1..(n + Len(t)),
               i <= k, stream'[i].uuid = stream'[k].uuid
        PROVE  stream'[i].left >= stream'[k].left
    <2>1. CASE i \in 1..n /\ k \in 1..n
      BY <1>1, <1>2, <1>11, <2>1 DEF StreamOrdered
    <2>2. CASE k > n
      <3>1. stream'[k].left = book'[stream'[k].uuid].left
        BY <1>8, <2>2
      <3>2. QED
        BY <1>9, <1>11, <3>1
    <2>3. QED
      BY <1>1, <1>11, <2>1, <2>2
  <1>12. QED
    BY <1>1, <1>9, <1>10, <1>11 DEF StreamOrdered

(* An event of the extended stream is an old one, or says how the book     *)
(* stands now.                                                             *)
LEMMA PublishedOrOld ==
  ASSUME TradingIInv, NEW t \in Seq(Events), Publishes(t), NEW i \in DOMAIN stream'
  PROVE  \/ stream'[i].left = book'[stream'[i].uuid].left
         \/ \E k \in DOMAIN stream : stream'[i] = stream[k]
  <1>1. stream \in Seq(Events) /\ stream' = stream \o t
    BY DEF Publishes, TradingIInv, RequestsInv, ExchangeTypeOK
  <1>2. /\ DOMAIN stream = 1..Len(stream) /\ Len(stream) \in Nat /\ Len(t) \in Nat
        /\ i \in 1..(Len(stream) + Len(t))
        /\ stream'[i] = IF i <= Len(stream) THEN stream[i] ELSE t[i - Len(stream)]
    BY <1>1, ConcatProperties
  <1>3. CASE i <= Len(stream)
    BY <1>2, <1>3
  <1>4. CASE ~(i <= Len(stream))
    <2> DEFINE j == i - Len(stream)
    <2>1. j \in 1..Len(t) /\ stream'[i] = t[j]
      BY <1>2, <1>4
    <2> HIDE DEF j
    <2>2. QED
      BY <2>1 DEF Publishes
  <1>5. QED
    BY <1>3, <1>4

LEMMA TailIndices ==
  ASSUME TradingIInv, stream # << >>, stream' = Tail(stream)
  PROVE  /\ DOMAIN stream = 1..Len(stream) /\ Len(stream) \in Nat
         /\ DOMAIN stream' = 1..(Len(stream) - 1)
         /\ 1 \in DOMAIN stream /\ stream[1] = Head(stream)
         /\ \A i \in DOMAIN stream' : i + 1 \in DOMAIN stream /\ stream'[i] = stream[i + 1]
         /\ \A i \in DOMAIN stream : i # 1 => i - 1 \in DOMAIN stream' /\ stream'[i - 1] = stream[i]
  <1>1. stream \in Seq(Events)
    BY DEF TradingIInv, RequestsInv, ExchangeTypeOK
  <1>2. /\ stream' \in Seq(Events) /\ Len(stream') = Len(stream) - 1
        /\ \A i \in 1..Len(stream') : stream'[i] = stream[i + 1]
    BY <1>1, HeadTailProperties
  <1>3. /\ DOMAIN stream = 1..Len(stream) /\ Len(stream) \in Nat
        /\ DOMAIN stream' = 1..(Len(stream) - 1)
        /\ 1 \in DOMAIN stream /\ stream[1] = Head(stream)
    BY <1>1, <1>2
  <1>4. QED
    BY <1>2, <1>3

LEMMA TailOrdered ==
  ASSUME TradingIInv, StreamOrdered, stream # << >>, stream' = Tail(stream), book' = book
  PROVE  StreamOrdered'
  <1>1. Known' = Known /\ Open' = Open
    BY DEF Known, Open
  <1>2. /\ DOMAIN stream = 1..Len(stream) /\ Len(stream) \in Nat
        /\ DOMAIN stream' = 1..(Len(stream) - 1)
        /\ \A i \in DOMAIN stream' : i + 1 \in DOMAIN stream /\ stream'[i] = stream[i + 1]
        /\ \A i \in DOMAIN stream : i # 1 => i - 1 \in DOMAIN stream' /\ stream'[i - 1] = stream[i]
    BY TailIndices
  <1>3. ASSUME NEW i \in DOMAIN stream'
        PROVE  /\ stream'[i].uuid \in Known
               /\ stream'[i].integer => IntegerVolumes
               /\ stream'[i].left >= book[stream'[i].uuid].left
               /\ stream'[i].state \in {"done", "cancel"} => stream'[i].uuid \notin Open
    BY <1>2 DEF StreamOrdered
  <1>4. ASSUME NEW i \in DOMAIN stream', stream'[i].state = "trade"
        PROVE  \E k \in DOMAIN stream' :
                 /\ k >= i
                 /\ stream'[k].state = "trade" /\ stream'[k].uuid = stream'[i].uuid
                 /\ stream'[k].left = book[stream'[i].uuid].left
    <2>1. PICK k \in DOMAIN stream :
            /\ k >= i + 1
            /\ stream[k].state = "trade" /\ stream[k].uuid = stream[i + 1].uuid
            /\ stream[k].left = book[stream[i + 1].uuid].left
      BY <1>2, <1>4 DEF StreamOrdered
    <2>2. k - 1 \in DOMAIN stream' /\ stream'[k - 1] = stream[k] /\ k - 1 >= i
      BY <1>2, <2>1
    <2>3. QED
      BY <1>2, <2>1, <2>2
  <1>5. ASSUME NEW i \in DOMAIN stream', NEW k \in DOMAIN stream',
               i <= k, stream'[i].uuid = stream'[k].uuid
        PROVE  stream'[i].left >= stream'[k].left
    <2>1. i + 1 <= k + 1
      BY <1>2, <1>5
    <2>2. QED
      BY <1>2, <1>5, <2>1 DEF StreamOrdered
  <1>6. QED
    BY <1>1, <1>3, <1>4, <1>5 DEF StreamOrdered

LEMMA StreamOrderedNext ==
  ASSUME TradingIInv, TradingIInv', StreamOrdered, [TradingNext]_tradingVars
  PROVE  StreamOrdered'
  <1>1. CASE UNCHANGED <<stream, book>>
    BY <1>1 DEF StreamOrdered, Known, Open
  <1>2. QED
    BY <1>1, StreamStep, BookStep, AppendOrdered, TailOrdered

-----------------------------------------------------------------------------
(* WHAT THE ANSWERS NAME                                                   *)

(* The orders a positive answer to a cancellation names are over, and so   *)
(* are those a request has still to take from the table.                   *)
ClosedNamed ==
  /\ \A j \in Jobs : removing[j] \subseteq Known \ Open
  /\ \A c \in Cancels : reply[c].ok => reply[c].uuid \in Known \ Open
  /\ reply[Bulk].ok => reply[Bulk].uuids \subseteq Known \ Open

LEMMA ClosedNamedInit == TradingInit => ClosedNamed
  <1> SUFFICES ASSUME TradingInit
               PROVE  ClosedNamed
    OBVIOUS
  <1>1. Cancels \subseteq Jobs /\ Bulk \in Jobs
    BY DEF Jobs
  <1>2. \A j \in Jobs : removing[j] = {} /\ reply[j] = NoReply
    BY DEF TradingInit
  <1>3. ~NoReply.ok
    BY DEF NoReply
  <1>4. QED
    BY <1>1, <1>2, <1>3 DEF ClosedNamed

LEMMA CancelAnswerStep ==
  ASSUME TradingIInv, BookGrows, NEW m \in net, CancelOpenOrder(m), NEW j \in Cancels \cup {Bulk}
  PROVE  \/ reply'[j] = reply[j]
         \/ j \in Cancels /\ reply'[j].uuid \in Known' \ Open'
  <1>1. PICK s \in {"wait", "cancel"} :
          Deliver(m, [ok |-> TRUE, uuid |-> target[m[1]], state |-> s])
    BY DEF CancelOpenOrder
  <1> DEFINE u == target[m[1]]
             answer == [ok |-> TRUE, uuid |-> u, state |-> s]
  <1>2. /\ m[1] \in Cancels /\ u \in Uuids /\ book[u] \in BookEntries
        /\ book' = [book EXCEPT ![u].state = "cancel"] /\ book \in [Uuids -> BookEntries]
    BY DEF CancelOpenOrder, Open, TradingIInv, RequestsInv, ExchangeTypeOK
  <1>3. answer.uuid = u
    OBVIOUS
  <1>4. reply'[j] = reply[j] \/ (j = m[1] /\ reply'[j] = answer)
    BY <1>1 DEF Deliver, TradingIInv, RequestsInv, JobTypeOK, Jobs
  <1> HIDE DEF u
  <1>5. u \in Known' \ Open'
    BY <1>2 DEF Known, Open, BookEntries
  <1>6. QED
    BY <1>2, <1>3, <1>4, <1>5

LEMMA BulkAnswerStep ==
  ASSUME TradingIInv, NEW m \in net, CancelAllOpen(m), NEW j \in Cancels \cup {Bulk}
  PROVE  \/ reply'[j] = reply[j]
         \/ j = Bulk /\ reply'[j].uuids \subseteq Known' \ Open'
  <1>1. PICK S \in SUBSET Open :
          /\ book' = [u \in Uuids |-> IF u \in S THEN [book[u] EXCEPT !.state = "cancel"]
                                      ELSE book[u]]
          /\ \E q \in SeqExt!SetToSeqs(S) :
               stream' = stream \o
                           [i \in DOMAIN q |-> Event("cancel", q[i], book[q[i]].left, FALSE)]
          /\ Deliver(m, [ok |-> TRUE, uuids |-> S])
    BY DEF CancelAllOpen
  <1> DEFINE answer == [ok |-> TRUE, uuids |-> S]
  <1>2. answer.uuids = S /\ m[1] = Bulk
    BY DEF CancelAllOpen
  <1>3. reply'[j] = reply[j] \/ (j = m[1] /\ reply'[j] = answer)
    BY <1>1 DEF Deliver, TradingIInv, RequestsInv, JobTypeOK, Jobs
  <1>4. \A u \in S : u \in Known' \ Open'
    BY <1>1 DEF Known, Open, TradingIInv, RequestsInv, ExchangeTypeOK, BookEntries
  <1>5. QED
    BY <1>2, <1>3, <1>4

LEMMA NamedStep ==
  ASSUME TradingIInv, [TradingNext]_tradingVars, NEW j \in Cancels \cup {Bulk}, reply'[j].ok
  PROVE  \/ reply'[j] = reply[j]
         \/ j \in Cancels /\ reply'[j].uuid \in Known' \ Open'
         \/ j = Bulk /\ reply'[j].uuids \subseteq Known' \ Open'
  <1> USE TradingAssumption DEF TradingIInv, RequestsInv, JobTypeOK
  <1>1. CASE UserInterface \/ ReceiveEvent \/ ReceivePieces \/ LoseRequest
             \/ (\E u \in Uuids : FillOrder(u)) \/ UNCHANGED tradingVars
    BY <1>1 DEF UserInterface, MenuMake, AbandonOrder, MenuQuit, BulkReturns, SendOrder,
                MenuCancel, SendCancel, ReceiveEvent, ReceivePieces, LoseRequest,
                FillOrder, tradingVars, jobVars
  <1>2. ASSUME NEW k \in Jobs, Request(k)
        PROVE  reply'[j] = reply[j]
    BY <1>2 DEF Request, Runs, Logs, Perform, FindNoHandle, AttemptFails,
                AfterAttempt, LogNoHandle, LogFailure, LogGiveUp, LogAnswer, AnswerGarbled,
                BulkPartlyFailed, PlaceAnswered,
                CancelAnswered, BulkAnswered, Remove, Returns, NoReply, Jobs
  <1>3. ASSUME NEW m \in net, AcceptOrder(m)
        PROVE  reply'[j] = reply[j]
    BY <1>3 DEF AcceptOrder, Deliver, Jobs
  <1>4. ASSUME NEW m \in net, RefuseRequest(m)
        PROVE  reply'[j] = reply[j]
    <2>1. ~Refusal.ok
      BY DEF Refusal
    <2>2. QED
      BY <1>4, <2>1 DEF RefuseRequest, Deliver, Jobs
  <1>5. QED
    BY <1>1, <1>2, <1>3, <1>4, BookStep, CancelAnswerStep, BulkAnswerStep
    DEF TradingNext, Exchange, ServeRequest

LEMMA RemovingStep ==
  ASSUME TradingIInv, [TradingNext]_tradingVars, NEW j \in Jobs, NEW u \in removing'[j]
  PROVE  \/ u \in removing[j]
         \/ j \in Cancels /\ reply[j].ok /\ u = reply[j].uuid
         \/ j = Bulk /\ reply[j].ok /\ u \in reply[j].uuids
  <1> USE DEF TradingIInv, RequestsInv, JobTypeOK
  <1>1. CASE UserInterface \/ ReceiveEvent \/ ReceivePieces \/ Exchange \/ UNCHANGED tradingVars
    BY <1>1 DEF UserInterface, MenuMake, AbandonOrder, MenuQuit, BulkReturns, SendOrder,
                MenuCancel, SendCancel, ReceiveEvent, ReceivePieces, Exchange, ServeRequest,
                LoseRequest, FillOrder, tradingVars, jobVars
  <1>2. ASSUME NEW k \in Jobs,
               Perform(k) \/ FindNoHandle(k) \/ AttemptFails(k) \/ Logs(k) \/ Returns(k)
               \/ (k \in Places /\ PlaceAnswered(k)) \/ AnswerGarbled(k) \/ BulkPartlyFailed
        PROVE  removing' = removing
    BY <1>2 DEF Logs, Perform, FindNoHandle, AttemptFails,
                AfterAttempt, LogNoHandle, LogFailure, LogGiveUp, LogAnswer, AnswerGarbled,
                BulkPartlyFailed, Returns, PlaceAnswered
  <1>3. ASSUME NEW k \in Jobs, Remove(k)
        PROVE  u \in removing[j]
    BY <1>3 DEF Remove
  <1>4. ASSUME NEW c \in Cancels, CancelAnswered(c)
        PROVE  u \in removing[j] \/ (j = c /\ reply[c].ok /\ u = reply[c].uuid)
    BY <1>4 DEF CancelAnswered, Answered, Jobs
  <1>5. ASSUME BulkAnswered
        PROVE  u \in removing[j] \/ (j = Bulk /\ reply[j].ok /\ u \in reply[j].uuids)
    BY <1>5 DEF BulkAnswered, Answered, Jobs
  <1>6. QED
    BY <1>1, <1>2, <1>3, <1>4, <1>5 DEF TradingNext, Request, Runs, Logs

LEMMA ClosedNamedNext ==
  ASSUME TradingIInv, ClosedNamed, [TradingNext]_tradingVars
  PROVE  ClosedNamed'
  <1>1. \A u \in Known \ Open : u \in Known' \ Open'
    BY BookStep DEF BookGrows
  <1>2. ASSUME NEW j \in Jobs, NEW u \in removing'[j]
        PROVE  u \in Known' \ Open'
    BY <1>1, <1>2, RemovingStep DEF ClosedNamed
  <1>3. ASSUME NEW c \in Cancels, reply'[c].ok
        PROVE  reply'[c].uuid \in Known' \ Open'
    BY <1>1, <1>3, NamedStep, TradingAssumption DEF ClosedNamed
  <1>4. ASSUME reply'[Bulk].ok
        PROVE  reply'[Bulk].uuids \subseteq Known' \ Open'
    BY <1>1, <1>4, NamedStep, TradingAssumption DEF ClosedNamed
  <1>5. QED
    BY <1>2, <1>3, <1>4 DEF ClosedNamed

-----------------------------------------------------------------------------
(* WHAT IS LISTED, AND WITH WHAT VOLUME                                    *)

(* What is missed of an order stays missed.                                *)
LEMMA MissedGrows ==
  ASSUME TradingIInv, [TradingNext]_tradingVars, NEW u \in Uuids
  PROVE  missed[u] \subseteq missed'[u]
  <1> USE DEF TradingIInv, RequestsInv, ExchangeTypeOK
  <1>1. CASE UserInterface \/ Exchange \/ UNCHANGED tradingVars
    BY <1>1 DEF UserInterface, MenuMake, AbandonOrder, MenuQuit, BulkReturns, SendOrder,
                MenuCancel, SendCancel, Exchange, ServeRequest, LoseRequest, FillOrder,
                tradingVars
  <1>2. ASSUME NEW j \in Jobs, Request(j)
        PROVE  missed[u] \subseteq missed'[u]
    BY <1>2 DEF Request, Runs, Logs, Perform, FindNoHandle, AttemptFails,
                AfterAttempt, LogNoHandle, LogFailure, LogGiveUp, LogAnswer, AnswerGarbled,
                BulkPartlyFailed, PlaceAnswered,
                CancelAnswered, BulkAnswered, Remove, Returns
  <1>3. CASE ReceiveEvent
    BY <1>3 DEF ReceiveEvent, EventWait, EventClosed, EventTrade
  <1>4. CASE ReceivePieces
    BY <1>4 DEF ReceivePieces
  <1>5. QED
    BY <1>1, <1>2, <1>3, <1>4 DEF TradingNext

(* What the table shows of an order is never less than what an event on    *)
(* its way or the book will say of it, unless its answer named no volume.  *)
Lags(u) ==
  /\ Shown[u].volume >= book[u].left
  /\ \A i \in DOMAIN stream : stream[i].uuid = u => Shown[u].volume >= stream[i].left

VolumesLag == \A u \in Tracked : "unstated" \in missed[u] \/ Lags(u)

(* The event the websocket thread is about to apply is a whole trade of u. *)
Trades(u) ==
  /\ ReceiveEvent
  /\ Head(stream).state = "trade" /\ Head(stream).uuid = u

VolumesShown == \A u \in Tracked : Volume(u) = Shown[u].volume

LEMMA ShownVolume == TableInv => VolumesShown
  <1> SUFFICES ASSUME TableInv, NEW i \in Occupied, NEW u, u = orders[i].uuid
               PROVE  Volume(u) = Shown[u].volume
    BY DEF Tracked, VolumesShown
  <1>1. First(Matches(u)) = i
    BY ShownRows DEF ShownBySlots
  <1>2. Shown[u] = [volume |-> orders[i].volume, status |-> orders[i].status]
    BY ShownRows DEF ShownBySlots
  <1>3. QED
    BY <1>1, <1>2 DEF Volume

LEMMA ShownBound ==
  ASSUME TradingIInv, NEW u \in Tracked
  PROVE  Shown[u].volume \in 0..Lots
  <1>1. PICK i \in Occupied : u = orders[i].uuid
    BY DEF Tracked
  <1>2. orders[i] \in Order /\ TableInv
    BY DEF TradingIInv, TableInv, TableTypeOK, Occupied
  <1>3. Shown[u] = [volume |-> orders[i].volume, status |-> orders[i].status]
    BY <1>1, <1>2, ShownRows DEF ShownBySlots
  <1>4. QED
    BY <1>2, <1>3, TradingAssumption DEF Order

(* The volume of an order that stays listed changes only with a trade.     *)
LEMMA VolumeStep ==
  ASSUME TradingIInv, TradingIInv', [TradingNext]_tradingVars, NEW u \in Tracked \cap Tracked'
  PROVE  \/ Shown'[u].volume = Shown[u].volume
         \/ /\ Trades(u) /\ ~Head(stream).integer
            /\ Shown'[u].volume = Head(stream).left
  <1>0. TableInv /\ TableInv' /\ TableUse
    BY TableUsed DEF TradingIInv
  <1>1. CASE UNCHANGED tableVars
    <2>1. Shown' = Shown
      BY <1>1, SameShown
    <2>2. QED
      BY <2>1
  <1>2. ASSUME NEW x \in Uuids, remove_order(x)
        PROVE  Shown'[u].volume = Shown[u].volume
    BY <1>0, <1>2, RemoveListed
  <1>3. ASSUME NEW x \in Uuids, NEW s \in Statuses, update_order_status(x, s)
        PROVE  Shown'[u].volume = Shown[u].volume
    BY <1>0, <1>3, StatusListed
  <1>4. ASSUME NEW r \in Places, insert_order(reply[r].uuid, reply[r].volume, reply[r].state),
               reply[r].uuid \in Uuids \ Tracked, reply[r].state \in Statuses,
               reply[r].volume \in Volumes
        PROVE  Shown'[u].volume = Shown[u].volume
    BY <1>0, <1>4, InsertListed
  <1>5. ASSUME ReceiveEvent, Head(stream) \in Events,
               EventClosed(Head(stream)) \/ EventTrade(Head(stream))
        PROVE  \/ Shown'[u].volume = Shown[u].volume
               \/ /\ Trades(u) /\ ~Head(stream).integer
                  /\ Shown'[u].volume = Head(stream).left
    <2> DEFINE e == Head(stream)
    <2>1. e.uuid \in Uuids /\ RemainingVolume(e) \in Volumes
      BY <1>5, TradingAssumption DEF Events, RemainingVolume
    <2> HIDE DEF e
    <2>2. CASE remove_order(e.uuid)
      BY <1>2, <2>1, <2>2
    <2>3. CASE e.state = "trade" /\ RemainingVolume(e) # 0
               /\ update_order_volume(e.uuid, RemainingVolume(e))
      <3>1. Shown'[u].volume = IF u = e.uuid THEN RemainingVolume(e) ELSE Shown[u].volume
        BY <1>0, <2>1, <2>3, VolumeListed
      <3>2. ~e.integer /\ RemainingVolume(e) = e.left
        BY <2>3 DEF RemainingVolume
      <3>3. QED
        BY <1>5, <2>3, <3>1, <3>2 DEF Trades, e
    <2>4. QED
      BY <1>5, <2>2, <2>3 DEF EventClosed, EventTrade, e
  <1>6. QED
    BY <1>0, <1>1, <1>2, <1>3, <1>4, <1>5 DEF TableUse

(* An order that comes into the table is listed with its whole volume, if  *)
(* the answer named it.                                                    *)
LEMMA ListedWhole ==
  ASSUME TradingIInv, TradingIInv', [TradingNext]_tradingVars, NEW u \in Tracked' \ Tracked
  PROVE  Shown'[u].volume = Lots \/ "unstated" \in missed'[u]
  <1>1. PICK r \in Places : PlaceAnswered(r) /\ u = reply[r].uuid
    BY TrackedStep DEF TradingIInv
  <1> DEFINE volume == reply[r].volume
  <1>2. insert_order(u, volume, reply[r].state) /\ Answered(r)
    BY <1>1 DEF PlaceAnswered
  <1>3. u \in Uuids \ Tracked /\ reply[r].state \in Statuses /\ volume \in Volumes
    BY <1>1, <1>2, ReportsOnce
  <1>4. /\ Tracked' = IF size = MaxOrderNum THEN Tracked ELSE Tracked \cup {u}
        /\ size # MaxOrderNum => Shown'[u].volume = volume
    BY <1>2, <1>3, InsertListed DEF TradingIInv
  <1>5. volume \in {0, Lots}
    BY <1>2 DEF Answered, TradingIInv, RequestsInv, RequestShape
  <1>6. volume = 0 => "unstated" \in missed'[u]
    BY <1>1, <1>3 DEF PlaceAnswered, TradingIInv, RequestsInv, ExchangeTypeOK
  <1>7. QED
    BY <1>4, <1>5, <1>6

LEMMA VolumesLagInit == TradingInit => VolumesLag
  BY DEF TradingInit, TableInit, VolumesLag, Tracked, Occupied

LEMMA VolumesLagNext ==
  ASSUME TradingIInv, TradingIInv', StreamOrdered, VolumesLag, [TradingNext]_tradingVars
  PROVE  VolumesLag'
  <1>1. /\ \A u \in Uuids : book[u].left \in Int /\ book'[u].left \in 0..Lots
        /\ \A i \in DOMAIN stream : stream[i].left \in 0..Lots
        /\ \A i \in DOMAIN stream' : stream'[i].left \in 0..Lots
        /\ Lots \in Nat /\ Tracked \subseteq Known /\ Tracked' \subseteq Uuids /\ Known \subseteq Uuids
    <2>1. /\ book \in [Uuids -> BookEntries] /\ book' \in [Uuids -> BookEntries]
          /\ stream \in Seq(Events) /\ stream' \in Seq(Events)
      BY DEF TradingIInv, RequestsInv, ExchangeTypeOK
    <2>2. /\ \A u \in Uuids : book[u].left \in Int /\ book'[u].left \in 0..Lots
          /\ Lots \in Nat
      BY <2>1, TradingAssumption DEF BookEntries
    <2>3. \A e \in Events : e.left \in 0..Lots
      BY DEF Events
    <2>4. /\ \A i \in DOMAIN stream : stream[i] \in Events
          /\ \A i \in DOMAIN stream' : stream'[i] \in Events
      BY <2>1
    <2>5. Tracked \subseteq Known /\ Tracked' \subseteq Known'
      BY DEF TradingIInv, OrdersIdentified, Reported
    <2>6. QED
      BY <2>2, <2>3, <2>4, <2>5 DEF Known
  <1>2. SUFFICES ASSUME NEW u \in Tracked', "unstated" \notin missed'[u]
                 PROVE  /\ Shown'[u].volume >= book'[u].left
                        /\ \A i \in DOMAIN stream' :
                             stream'[i].uuid = u => Shown'[u].volume >= stream'[i].left
    BY DEF VolumesLag, Lags
  <1>7. "unstated" \notin missed[u]
    BY <1>1, <1>2, MissedGrows
  <1>3. CASE u \notin Tracked
    <2>1. Shown'[u].volume = Lots
      BY <1>2, <1>3, ListedWhole
    <2>2. QED
      BY <1>1, <2>1
  <1>4. CASE u \in Tracked /\ Shown'[u].volume = Shown[u].volume
    <2>1. book'[u].left <= book[u].left
      BY <1>1, <1>4, BookStep DEF BookGrows
    <2>2. Lags(u) /\ Shown[u].volume >= book[u].left
      BY <1>4, <1>7 DEF VolumesLag, Lags
    <2>3. Shown[u].volume \in Int
      BY <1>4, ShownBound
    <2>4. ASSUME NEW i \in DOMAIN stream', stream'[i].uuid = u
          PROVE  Shown[u].volume >= stream'[i].left
      <3>1. CASE stream' = stream
        BY <2>2, <2>4, <3>1 DEF Lags
      <3>2. CASE stream # << >> /\ stream' = Tail(stream)
        BY <2>2, <2>4, <3>2, TailIndices DEF Lags
      <3>3. ASSUME NEW t \in Seq(Events), Publishes(t)
            PROVE  Shown[u].volume >= stream'[i].left
        <4>1. stream'[i].left = book'[u].left \/ \E k \in DOMAIN stream : stream'[i] = stream[k]
          BY <2>4, <3>3, PublishedOrOld
        <4>2. QED
          BY <1>1, <1>2, <1>4, <2>1, <2>2, <2>3, <2>4, <4>1 DEF Lags
      <3>4. QED
        BY <3>1, <3>2, <3>3, StreamStep
    <2>5. QED
      BY <1>1, <1>2, <1>4, <2>1, <2>2, <2>3, <2>4
  <1>5. CASE Trades(u) /\ Shown'[u].volume = Head(stream).left
    <2>1. stream # << >> /\ stream' = Tail(stream) /\ book' = book
      BY <1>5 DEF Trades, ReceiveEvent
    <2>2. /\ 1 \in DOMAIN stream /\ stream[1] = Head(stream)
          /\ \A i \in DOMAIN stream' : i + 1 \in DOMAIN stream /\ i + 1 >= 1
                                       /\ stream'[i] = stream[i + 1]
      BY <2>1, TailIndices
    <2>3. Head(stream).uuid = u
      BY <1>5 DEF Trades
    <2>4. QED
      BY <1>5, <2>1, <2>2, <2>3 DEF StreamOrdered
  <1>6. QED
    BY <1>2, <1>3, <1>4, <1>5, VolumeStep

(* An order leaves the table when it is over at the exchange, or when a    *)
(* trade is read whose remaining volume is written as a JSON integer.      *)
LEMMA RemovedStep ==
  ASSUME TradingIInv, TradingIInv', StreamOrdered, ClosedNamed, [TradingNext]_tradingVars,
         NEW u \in Tracked \ Tracked'
  PROVE  \/ u \notin Open
         \/ Trades(u) /\ EventTrade(Head(stream)) /\ Head(stream).integer
  <1>0. TableInv /\ TableInv' /\ TableUse
    BY TableUsed DEF TradingIInv
  <1>1. ~UNCHANGED tableVars
    BY DEF tableVars, Tracked, Occupied
  <1>2. \A x \in Uuids, s \in Statuses : ~update_order_status(x, s)
    BY <1>0, StatusListed
  <1>3. ASSUME NEW r \in Places, insert_order(reply[r].uuid, reply[r].volume, reply[r].state),
               reply[r].uuid \in Uuids \ Tracked, reply[r].state \in Statuses,
               reply[r].volume \in Volumes
        PROVE  FALSE
    BY <1>0, <1>3, InsertListed
  <1>4. ASSUME NEW x \in Uuids, remove_order(x)
        PROVE  x = u
    BY <1>0, <1>4, RemoveListed
  <1>5. ASSUME NEW j \in Jobs, NEW x \in removing[j] \cap Uuids, remove_order(x)
        PROVE  u \notin Open
    BY <1>4, <1>5 DEF ClosedNamed
  <1>6. ASSUME ReceiveEvent, Head(stream) \in Events,
               EventClosed(Head(stream)) \/ EventTrade(Head(stream))
        PROVE  \/ u \notin Open
               \/ Trades(u) /\ EventTrade(Head(stream)) /\ Head(stream).integer
    <2> DEFINE e == Head(stream)
    <2>1. e.uuid \in Uuids /\ RemainingVolume(e) \in Volumes
      BY <1>6, TradingAssumption DEF Events, RemainingVolume
    <2>2. stream # << >> /\ stream' = Tail(stream)
      BY <1>6 DEF ReceiveEvent
    <2>3. 1 \in DOMAIN stream /\ stream[1] = e
      BY <2>2, TailIndices
    <2>4. e.left >= book[e.uuid].left /\ (e.state \in {"done", "cancel"} => e.uuid \notin Open)
      BY <2>3 DEF StreamOrdered
    <2> HIDE DEF e
    <2>5. CASE EventClosed(e)
      BY <1>4, <2>1, <2>4, <2>5 DEF EventClosed
    <2>6. CASE EventTrade(e)
      <3>1. RemainingVolume(e) # 0 => update_order_volume(e.uuid, RemainingVolume(e))
        BY <2>6 DEF EventTrade
      <3>2. RemainingVolume(e) = 0 /\ e.uuid = u /\ e.state = "trade"
        BY <1>0, <1>4, <2>1, <2>6, <3>1, VolumeListed DEF EventTrade
      <3>3. CASE e.integer
        BY <1>6, <2>6, <3>2, <3>3 DEF Trades, e
      <3>4. CASE ~e.integer
        <4>1. e.left = 0
          BY <3>2, <3>4 DEF RemainingVolume
        <4>2. ~(0 >= book[u].left) \/ u \notin Open
          BY DEF TradingIInv, RequestsInv, RequestShape, ExchangeTypeOK, BookEntries, Open
        <4>3. QED
          BY <2>4, <3>2, <4>1, <4>2
      <3>5. QED
        BY <3>3, <3>4
    <2>7. QED
      BY <1>6, <2>5, <2>6 DEF e
  <1>7. QED
    BY <1>0, <1>1, <1>2, <1>3, <1>5, <1>6 DEF TableUse

(* All of this together is inductive.                                      *)
BookInv == TradingIInv /\ StreamOrdered /\ ClosedNamed /\ VolumesLag

LEMMA BookInvariant == TradingSpec => []BookInv
  <1>1. TradingInit => BookInv
    BY TradingIInvInit, StreamInit, ClosedNamedInit, VolumesLagInit DEF BookInv
  <1>2. BookInv /\ [TradingNext]_tradingVars => BookInv'
    <2> SUFFICES ASSUME BookInv, [TradingNext]_tradingVars
                 PROVE  BookInv'
      OBVIOUS
    <2>1. TradingIInv'
      BY TradingIInvNext DEF BookInv
    <2>2. QED
      BY <2>1, StreamOrderedNext, ClosedNamedNext, VolumesLagNext DEF BookInv
  <1>3. QED
    BY <1>1, <1>2, PTL DEF TradingSpec

(* The volume listed for an order never grows: what the workers and the    *)
(* websocket thread apply comes in the order of the fills.                 *)
THEOREM VolumesNeverGrow == TradingSpec => VolumeNeverGrows
  <1>1. BookInv /\ BookInv' /\ [TradingNext]_tradingVars =>
          [\A u \in Tracked \cap Tracked' :
             Volume(u)' <= Volume(u) \/ "unstated" \in missed[u]]_tradingVars
    <2> SUFFICES ASSUME BookInv, BookInv', [TradingNext]_tradingVars,
                        NEW u \in Tracked \cap Tracked', "unstated" \notin missed[u]
                 PROVE  Volume(u)' <= Volume(u)
      OBVIOUS
    <2>1. Volume(u) = Shown[u].volume
      BY ShownVolume DEF BookInv, TradingIInv, VolumesShown
    <2>2. Volume(u)' = Shown'[u].volume
      <3>1. TableInv'
        BY DEF BookInv, TradingIInv
      <3>2. VolumesShown'
        BY <3>1, ShownVolume, PTL
      <3>3. QED
        BY <3>2 DEF VolumesShown
    <2>3. Shown[u].volume \in 0..Lots
      BY ShownBound DEF BookInv
    <2>4. CASE Shown'[u].volume = Shown[u].volume
      BY <2>1, <2>2, <2>3, <2>4
    <2>5. CASE Trades(u) /\ Shown'[u].volume = Head(stream).left
      <3>1. stream # << >> /\ stream' = Tail(stream)
        BY <2>5 DEF Trades, ReceiveEvent
      <3>2. 1 \in DOMAIN stream /\ stream[1] = Head(stream)
        BY <3>1, TailIndices DEF BookInv
      <3>3. Shown[u].volume >= Head(stream).left
        BY <2>5, <3>2 DEF BookInv, VolumesLag, Lags, Trades
      <3>4. Head(stream).left \in Int
        <4>1. stream \in Seq(Events)
          BY DEF BookInv, TradingIInv, RequestsInv, ExchangeTypeOK
        <4>2. Head(stream) \in Events
          BY <3>1, <4>1
        <4>3. QED
          BY <4>2 DEF Events
      <3>5. QED
        BY <2>1, <2>2, <2>3, <2>5, <3>3, <3>4
    <2>6. QED
      BY <2>4, <2>5, VolumeStep DEF BookInv
  <1>2. QED
    BY <1>1, BookInvariant, PTL DEF TradingSpec, VolumeNeverGrows

(* An order leaves the table only when it is over at the exchange, or when *)
(* what remains of it is read from a JSON integer or from null.            *)
THEOREM RemovedWhenOver == TradingSpec => RemovedOnlyWhenOver
  <1>1. BookInv /\ BookInv' /\ [TradingNext]_tradingVars =>
          [\A u \in Tracked \ Tracked' :
             u \notin Open \/ "remaining" \in missed'[u]]_tradingVars
    <2> SUFFICES ASSUME BookInv, BookInv', [TradingNext]_tradingVars,
                        NEW u \in Tracked \ Tracked', u \in Open
                 PROVE  "remaining" \in missed'[u]
      OBVIOUS
    <2>1. Trades(u) /\ EventTrade(Head(stream)) /\ Head(stream).integer
      BY RemovedStep DEF BookInv
    <2>2. missed' = [missed EXCEPT ![u] = @ \cup {"remaining"}]
      BY <2>1 DEF EventTrade, Trades
    <2>3. QED
      BY <2>2 DEF Open, BookInv, TradingIInv, RequestsInv, ExchangeTypeOK
  <1>2. QED
    BY <1>1, BookInvariant, PTL DEF TradingSpec, RemovedOnlyWhenOver

-----------------------------------------------------------------------------
(* THE TABLE AND THE BOOK                                                  *)

(* A place_order that has taken in its answer still has it.                *)
AnswersKept == \A r \in Places : pc[r] \in Taken => reply[r].ok

InStream(u, kinds) == \E i \in DOMAIN stream : stream[i].uuid = u /\ stream[i].state \in kinds

(* What the program lacks of an order it has just not heard of, or has     *)
(* lost: an open order that is not listed, ...                             *)
OpenFollowed(u) ==
  u \in Open \ Tracked => ~Reported(u) \/ missed[u] \cap {"unparsed", "insert", "remaining"} # {}

(* ... a closed one that may be listed, ...                                *)
ClosedFollowed(u) ==
  u \notin Open =>
    \/ InStream(u, {"done", "cancel"})
    \/ "closed" \in missed[u]
    \/ u \notin Tracked /\ Reported(u)

(* ... and a volume that may differ from the book's.                       *)
VolumeFollowed(u) ==
  \/ missed[u] \cap {"unstated", "trade"} # {}
  \/ InStream(u, {"trade"})
  \/ IF Reported(u) THEN u \in Tracked => Shown[u].volume = book[u].left
     ELSE book[u].left = Lots

BookFollowed ==
  \A u \in Known : OpenFollowed(u) /\ ClosedFollowed(u) /\ VolumeFollowed(u)

SettleInv == BookInv /\ AnswersKept /\ BookFollowed

LEMMA AnswersKeptNext ==
  ASSUME TradingIInv, AnswersKept, [TradingNext]_tradingVars
  PROVE  AnswersKept'
  <1> USE TradingAssumption DEF TradingIInv, RequestsInv, JobTypeOK, AnswersKept, Taken
  <1>1. CASE UserInterface
    BY <1>1 DEF UserInterface, MenuMake, AbandonOrder, MenuQuit, BulkReturns, SendOrder,
                MenuCancel, SendCancel, jobVars, Jobs
  <1>2. CASE ReceiveEvent \/ ReceivePieces \/ LoseRequest
             \/ (\E u \in Uuids : FillOrder(u)) \/ UNCHANGED tradingVars
    BY <1>2 DEF ReceiveEvent, ReceivePieces, LoseRequest, FillOrder, tradingVars, jobVars
  <1>3. ASSUME NEW j \in Jobs, Request(j)
        PROVE  AnswersKept'
    <2>1. CASE Perform(j)
      BY <2>1 DEF Perform, Jobs
    <2>2. CASE FindNoHandle(j) \/ Logs(j) \/ AnswerGarbled(j) \/ Remove(j)
               \/ (j = Bulk /\ BulkPartlyFailed)
      BY <2>2, AfterIs DEF Logs, ReleaseAnd, Answered, FindNoHandle,
                LogNoHandle, LogFailure, LogGiveUp, LogAnswer, AnswerGarbled,
                BulkPartlyFailed, Remove, Jobs
    <2>3. CASE AttemptFails(j)
      BY <2>3 DEF AttemptFails, ReleaseAnd, Jobs
    <2>4. CASE Returns(j)
      BY <2>4 DEF Returns, ReleaseAnd, Jobs
    <2>5. CASE (j \in Places /\ PlaceAnswered(j)) \/ (j \in Cancels /\ CancelAnswered(j))
               \/ (j = Bulk /\ BulkAnswered)
      BY <2>5 DEF PlaceAnswered, CancelAnswered, BulkAnswered, Answered, Jobs
    <2>6. QED
      BY <1>3, <2>1, <2>2, <2>3, <2>4, <2>5 DEF Request, Runs, Logs
  <1>4. CASE ServeRequest
    <2>1. UNCHANGED pc /\ \A r \in Places : pc[r] # "sent" => reply'[r] = reply[r]
      BY <1>4, ZenonT(30) DEF ServeRequest, AcceptOrder, CancelOpenOrder, CancelAllOpen,
                              RefuseRequest, Deliver, Jobs
    <2>2. QED
      BY <2>1
  <1>5. QED
    BY <1>1, <1>2, <1>3, <1>4 DEF TradingNext, Exchange

(* place_order has the answer behind it from the step that parses it on,   *)
(* or that fails to.                                                       *)
LEMMA AnswerParsed ==
  ASSUME TradingIInv, [TradingNext]_tradingVars, NEW r \in Places,
         pc[r] \notin Taken, pc'[r] \in Taken
  PROVE  PlaceAnswered(r) \/ AnswerGarbled(r)
  <1> USE TradingAssumption DEF TradingIInv, RequestsInv, JobTypeOK, Taken
  <1>1. CASE UserInterface
    BY <1>1 DEF UserInterface, MenuMake, AbandonOrder, MenuQuit, BulkReturns, SendOrder,
                MenuCancel, SendCancel, jobVars, Jobs
  <1>2. CASE ReceiveEvent \/ ReceivePieces \/ Exchange \/ UNCHANGED tradingVars
    BY <1>2 DEF ReceiveEvent, ReceivePieces, Exchange, ServeRequest, LoseRequest, FillOrder,
                tradingVars, jobVars
  <1>3. ASSUME NEW j \in Jobs, Request(j)
        PROVE  PlaceAnswered(r) \/ AnswerGarbled(r)
    <2>1. CASE Perform(j) \/ FindNoHandle(j) \/ Logs(j) \/ AnswerGarbled(j) \/ Remove(j)
               \/ (j = Bulk /\ BulkPartlyFailed)
      BY <2>1, AfterIs DEF Logs, ReleaseAnd, Perform, FindNoHandle,
                LogNoHandle, LogFailure, LogGiveUp, LogAnswer, AnswerGarbled,
                BulkPartlyFailed, Remove, Jobs
    <2>2. CASE AttemptFails(j)
      BY <2>2 DEF AttemptFails, ReleaseAnd, Jobs
    <2>3. CASE Returns(j)
      BY <2>3 DEF Returns, ReleaseAnd, Jobs
    <2>4. CASE (j \in Places /\ PlaceAnswered(j)) \/ (j \in Cancels /\ CancelAnswered(j))
               \/ (j = Bulk /\ BulkAnswered)
      BY <2>4 DEF PlaceAnswered, CancelAnswered, BulkAnswered, Jobs
    <2>5. QED
      BY <1>3, <2>1, <2>2, <2>3, <2>4 DEF Request, Runs, Logs
  <1>4. QED
    BY <1>1, <1>2, <1>3 DEF TradingNext

(* An order becomes reported with the answer to its request.               *)
LEMMA ReportStep ==
  ASSUME TradingIInv, [TradingNext]_tradingVars, NEW u \in Known, ~Reported(u), Reported(u)'
  PROVE  \E r \in Places : (PlaceAnswered(r) \/ AnswerGarbled(r)) /\ u = reply[r].uuid
  <1>1. PICK r \in Places : book[u].identifier = <<r, 0>>
    BY DEF TradingIInv, OrdersIdentified
  <1>2. book'[u].identifier = <<r, 0>>
    BY <1>1, BookStep DEF BookGrows
  <1>3. pc[r] \notin Taken /\ pc'[r] \in Taken
    BY <1>1, <1>2 DEF Reported
  <1>4. PlaceAnswered(r) \/ AnswerGarbled(r)
    BY <1>3, TradingAssumption, AnswerParsed
  <1>5. reply[r].uuid \in Known /\ book[reply[r].uuid].identifier = <<r, 0>>
    BY <1>4 DEF PlaceAnswered, AnswerGarbled, Answered, TradingIInv, OrdersIdentified
  <1>6. u = reply[r].uuid
    BY <1>1, <1>5 DEF TradingIInv, OrdersIdentified, AtMostOneOrderPerRequest
  <1>7. QED
    BY <1>4, <1>6

(* An order the exchange has just accepted is open, whole and unreported.  *)
LEMMA NewOrderFollowed ==
  ASSUME TradingIInv, TradingIInv', AnswersKept, [TradingNext]_tradingVars,
         NEW u \in Known' \ Known
  PROVE  u \in Open' /\ ~Reported(u)' /\ book'[u].left = Lots
  <1>1. PICK m \in net :
          /\ m[1] \in Places
          /\ book'[u] = [state |-> "wait", left |-> Lots, identifier |-> <<m[1], 0>>]
          /\ \A v \in Known : book[v].identifier # <<m[1], 0>>
    BY BookStep DEF BookGrows
  <1> DEFINE r == m[1]
  <1>2. r \in Places /\ r \in Jobs
    BY <1>1 DEF Jobs
  <1>3. /\ book'[u].state = "wait" /\ book'[u].left = Lots /\ book'[u].identifier = <<r, 0>>
        /\ \A v \in Known : book[v].identifier # <<r, 0>>
    BY <1>1
  <1> HIDE DEF r
  <1>4. ~reply[r].ok
    BY <1>2, <1>3 DEF TradingIInv, OrdersIdentified
  <1>5. pc[r] \notin Taken
    BY <1>2, <1>4 DEF AnswersKept
  <1>6. pc'[r] \notin Taken
    <2>1. ~PlaceAnswered(r) /\ ~AnswerGarbled(r)
      BY <1>4 DEF PlaceAnswered, AnswerGarbled, Answered
    <2>2. QED
      BY <1>2, <1>5, <2>1, TradingAssumption, AnswerParsed
  <1>7. u \in Open'
    BY <1>3 DEF Open, Known
  <1>8. QED
    BY <1>3, <1>6, <1>7 DEF Reported

(* A kind of event of an order is on its way until the websocket thread    *)
(* takes it.                                                               *)
LEMMA InStreamStep ==
  ASSUME TradingIInv, [TradingNext]_tradingVars, NEW u, NEW kinds, InStream(u, kinds)
  PROVE  \/ InStream(u, kinds)'
         \/ /\ ReceiveEvent \/ ReceivePieces
            /\ stream # << >> /\ stream' = Tail(stream) /\ book' = book
            /\ Head(stream) \in Events
            /\ Head(stream).uuid = u /\ Head(stream).state \in kinds
  <1>1. PICK i \in DOMAIN stream : stream[i].uuid = u /\ stream[i].state \in kinds
    BY DEF InStream
  <1>2. CASE UNCHANGED stream
    BY <1>1, <1>2 DEF InStream
  <1>3. CASE /\ ReceiveEvent \/ ReceivePieces
             /\ stream # << >> /\ stream' = Tail(stream) /\ book' = book
    <2>1. /\ stream[1] = Head(stream)
          /\ i # 1 => i - 1 \in DOMAIN stream' /\ stream'[i - 1] = stream[i]
      BY <1>1, <1>3, TailIndices
    <2>2. Head(stream) \in Events
      BY <1>3 DEF TradingIInv, RequestsInv, ExchangeTypeOK
    <2>3. QED
      BY <1>1, <1>3, <2>1, <2>2 DEF InStream
  <1>4. ASSUME NEW t \in Seq(Events), Publishes(t)
        PROVE  InStream(u, kinds)'
    <2>1. stream \in Seq(Events) /\ stream' = stream \o t
      BY <1>4 DEF Publishes, TradingIInv, RequestsInv, ExchangeTypeOK
    <2>2. i \in DOMAIN stream' /\ stream'[i] = stream[i]
      BY <1>1, <2>1, ConcatProperties
    <2>3. QED
      BY <1>1, <2>2 DEF InStream
  <1>5. QED
    BY <1>2, <1>3, <1>4, StreamStep

(* An event the exchange publishes is on its way.                          *)
LEMMA PublishedInStream ==
  ASSUME TradingIInv, NEW t \in Seq(Events), Publishes(t), NEW i \in 1..Len(t), NEW kinds,
         t[i].state \in kinds
  PROVE  InStream(t[i].uuid, kinds)'
  <1>1. stream \in Seq(Events) /\ stream' = stream \o t
    BY DEF Publishes, TradingIInv, RequestsInv, ExchangeTypeOK
  <1> DEFINE k == Len(stream) + i
  <1>2. k \in 1..(Len(stream) + Len(t)) /\ ~(k <= Len(stream)) /\ k - Len(stream) = i
    BY <1>1
  <1>3. k \in DOMAIN stream' /\ stream'[k] = t[i]
    BY <1>1, <1>2, ConcatProperties
  <1> HIDE DEF k
  <1>4. QED
    BY <1>3 DEF InStream

LEMMA ClosedInStream ==
  ASSUME TradingIInv, [TradingNext]_tradingVars, NEW u \in Open \ Open'
  PROVE  InStream(u, {"done", "cancel"})'
  <1>1. PICK t \in Seq(Events) : Publishes(t)
    BY StreamStep DEF Open
  <1>2. PICK i \in 1..Len(t) : t[i].uuid = u /\ t[i].state \in {"done", "cancel"}
    BY <1>1 DEF Publishes
  <1>3. InStream(t[i].uuid, {"done", "cancel"})'
    BY <1>1, <1>2, PublishedInStream
  <1>4. QED
    BY <1>2, <1>3 DEF InStream

LEMMA FilledInStream ==
  ASSUME TradingIInv, [TradingNext]_tradingVars, NEW u \in Known,
         book'[u].left # book[u].left
  PROVE  InStream(u, {"trade"})'
  <1>1. PICK t \in Seq(Events) : Publishes(t)
    BY StreamStep
  <1>2. PICK i \in 1..Len(t) : t[i].uuid = u /\ t[i].state = "trade"
    BY <1>1 DEF Publishes
  <1>3. InStream(t[i].uuid, {"trade"})'
    BY <1>1, <1>2, PublishedInStream
  <1>4. QED
    BY <1>2, <1>3 DEF InStream

LEMMA OpenFollowedNext ==
  ASSUME SettleInv, BookInv', [TradingNext]_tradingVars, NEW u \in Known
  PROVE  OpenFollowed(u)'
  <1> USE DEF SettleInv, BookInv
  <1>1. SUFFICES ASSUME u \in Open' \ Tracked', Reported(u)'
                 PROVE  missed'[u] \cap {"unparsed", "insert", "remaining"} # {}
    BY DEF OpenFollowed
  <1>2. u \in Open /\ u \in Uuids /\ missed[u] \subseteq missed'[u]
    BY <1>1, BookStep, MissedGrows DEF BookGrows, Known
  <1>3. CASE u \in Tracked
    <2>1. Trades(u) /\ EventTrade(Head(stream)) /\ Head(stream).integer
      BY <1>1, <1>2, <1>3, RemovedStep
    <2>2. missed' = [missed EXCEPT ![u] = @ \cup {"remaining"}]
      BY <1>3, <2>1 DEF EventTrade, Trades
    <2>3. QED
      BY <1>2, <2>2 DEF TradingIInv, RequestsInv, ExchangeTypeOK
  <1>4. CASE u \notin Tracked /\ Reported(u)
    BY <1>2, <1>4 DEF BookFollowed, OpenFollowed
  <1>5. CASE u \notin Tracked /\ ~Reported(u)
    <2>1. PICK r \in Places : (PlaceAnswered(r) \/ AnswerGarbled(r)) /\ u = reply[r].uuid
      BY <1>1, <1>5, ReportStep
    <2>2. CASE AnswerGarbled(r)
      BY <1>2, <2>1, <2>2 DEF AnswerGarbled
    <2>3. CASE PlaceAnswered(r)
      <3>1. insert_order(u, reply[r].volume, reply[r].state) /\ Answered(r)
        BY <2>1, <2>3 DEF PlaceAnswered
      <3>2. /\ u \in Uuids \ Tracked /\ reply[r].state \in Statuses
            /\ reply[r].volume \in Volumes
        BY <2>1, <3>1, ReportsOnce
      <3>3. size = MaxOrderNum
        BY <1>1, <3>1, <3>2, InsertListed DEF TradingIInv
      <3>4. "insert" \in missed'[u]
        BY <1>2, <2>1, <2>3, <3>3 DEF PlaceAnswered, TradingIInv, RequestsInv, ExchangeTypeOK
      <3>5. QED
        BY <3>4
    <2>4. QED
      BY <2>1, <2>2, <2>3
  <1>6. QED
    BY <1>3, <1>4, <1>5

LEMMA ClosedFollowedNext ==
  ASSUME SettleInv, BookInv', [TradingNext]_tradingVars, NEW u \in Known
  PROVE  ClosedFollowed(u)'
  <1> USE DEF SettleInv, BookInv
  <1>1. SUFFICES ASSUME u \notin Open'
                 PROVE  \/ InStream(u, {"done", "cancel"})'
                        \/ "closed" \in missed'[u]
                        \/ u \notin Tracked' /\ Reported(u)'
    BY DEF ClosedFollowed
  <1>2. /\ u \in Uuids /\ missed[u] \subseteq missed'[u]
        /\ \A M, k : missed' = [missed EXCEPT ![u] = M \cup {k}] => k \in missed'[u]
    <2>1. u \in Uuids
      BY DEF Known
    <2>2. missed[u] \subseteq missed'[u]
      BY <2>1, MissedGrows
    <2>3. DOMAIN missed = Uuids
      BY DEF TradingIInv, RequestsInv, ExchangeTypeOK
    <2>4. QED
      BY <2>1, <2>2, <2>3
  <1>3. CASE u \in Open
    BY <1>1, <1>3, ClosedInStream
  <1>4. CASE "closed" \in missed[u]
    BY <1>2, <1>4
  <1>5. CASE u \notin Tracked /\ Reported(u)
    BY <1>5, ReportedStep DEF TradingIInv
  <1>6. CASE InStream(u, {"done", "cancel"})
    <2> DEFINE e == Head(stream)
    <2>1. SUFFICES ASSUME ReceiveEvent \/ ReceivePieces, e.uuid = u,
                          e.state \in {"done", "cancel"}
                   PROVE  "closed" \in missed'[u] \/ (u \notin Tracked' /\ Reported(u)')
      BY <1>6, InStreamStep
    <2> HIDE DEF e
    <2>2. CASE ReceivePieces
      <3>1. missed' = [missed EXCEPT ![u] = @ \cup {"closed"}]
        BY <2>1, <2>2 DEF ReceivePieces, e
      <3>2. QED
        BY <1>2, <3>1
    <2>3. CASE ReceiveEvent
      <3>1. /\ remove_order(u)
            /\ missed' = [missed EXCEPT ![u] = IF u \in Tracked THEN @ ELSE @ \cup {"closed"}]
        BY <2>1, <2>3 DEF ReceiveEvent, EventWait, EventClosed, EventTrade, e
      <3>2. CASE u \in Tracked
        <4>1. Reported(u)
          BY <3>2 DEF TradingIInv, OrdersIdentified
        <4>2. Reported(u)'
          BY <4>1, ReportedStep DEF TradingIInv
        <4>3. u \notin Tracked'
          BY <1>2, <3>1, RemoveListed DEF TradingIInv
        <4>4. QED
          BY <4>2, <4>3
      <3>3. CASE u \notin Tracked
        BY <1>2, <3>1, <3>3
      <3>4. QED
        BY <3>2, <3>3
    <2>4. QED
      BY <2>1, <2>2, <2>3
  <1>7. QED
    BY <1>3, <1>4, <1>5, <1>6 DEF BookFollowed, ClosedFollowed

LEMMA VolumeFollowedNext ==
  ASSUME SettleInv, BookInv', [TradingNext]_tradingVars, NEW u \in Known
  PROVE  VolumeFollowed(u)'
  <1> USE DEF SettleInv, BookInv
  <1>1. /\ u \in Uuids /\ missed[u] \subseteq missed'[u]
        /\ \A M, k : missed' = [missed EXCEPT ![u] = M \cup {k}] => k \in missed'[u]
    <2>1. u \in Uuids
      BY DEF Known
    <2>2. missed[u] \subseteq missed'[u]
      BY <2>1, MissedGrows
    <2>3. DOMAIN missed = Uuids
      BY DEF TradingIInv, RequestsInv, ExchangeTypeOK
    <2>4. QED
      BY <2>1, <2>2, <2>3
  <1>2. Reported(u) => Reported(u)' /\ (u \in Tracked' => u \in Tracked)
    BY ReportedStep DEF TradingIInv
  <1>3. u \in Tracked => Reported(u)
    BY DEF TradingIInv, OrdersIdentified
  <1>4. CASE missed[u] \cap {"unstated", "trade"} # {}
    BY <1>1, <1>4 DEF VolumeFollowed
  <1>5. CASE book'[u].left # book[u].left
    BY <1>5, FilledInStream DEF VolumeFollowed
  <1>6. CASE InStream(u, {"trade"})
    <2> DEFINE e == Head(stream)
    <2>1. SUFFICES ASSUME ReceiveEvent \/ ReceivePieces, stream # << >>,
                          stream' = Tail(stream), book' = book,
                          e \in Events, e.uuid = u, e.state = "trade"
                   PROVE  VolumeFollowed(u)'
      BY <1>6, InStreamStep DEF VolumeFollowed
    <2> HIDE DEF e
    <2>2. CASE ReceivePieces
      <3>1. missed' = [missed EXCEPT ![u] = @ \cup {"trade"}]
        BY <2>1, <2>2 DEF ReceivePieces, e
      <3>2. QED
        BY <1>1, <3>1 DEF VolumeFollowed
    <2>3. CASE ReceiveEvent
      <3>1. EventTrade(e)
        BY <2>1, <2>3 DEF ReceiveEvent, EventWait, EventClosed, e
      <3>2. CASE u \notin Tracked
        <4>1. missed' = [missed EXCEPT ![u] = @ \cup {"trade"}]
          BY <2>1, <3>1, <3>2 DEF EventTrade
        <4>2. QED
          BY <1>1, <4>1 DEF VolumeFollowed
      <3>3. CASE u \in Tracked /\ RemainingVolume(e) = 0
        <4>1. remove_order(u)
          BY <2>1, <3>1, <3>3 DEF EventTrade
        <4>2. u \notin Tracked'
          BY <1>1, <4>1, RemoveListed DEF TradingIInv
        <4>3. QED
          BY <1>2, <1>3, <3>3, <4>2 DEF VolumeFollowed
      <3>4. CASE u \in Tracked /\ RemainingVolume(e) # 0
        <4>1. update_order_volume(u, e.left) /\ e.left \in Volumes
          BY <2>1, <3>1, <3>4, TradingAssumption DEF EventTrade, RemainingVolume, Events
        <4>2. u \in Tracked' /\ Shown'[u].volume = e.left
          BY <1>1, <3>4, <4>1, VolumeListed DEF TradingIInv
        <4>3. /\ 1 \in DOMAIN stream /\ stream[1] = e
              /\ DOMAIN stream = 1..Len(stream) /\ Len(stream) \in Nat
              /\ \A i \in DOMAIN stream :
                   i # 1 => i - 1 \in DOMAIN stream' /\ stream'[i - 1] = stream[i]
          BY <2>1, TailIndices DEF e
        <4>4. PICK k \in DOMAIN stream :
                /\ stream[k].state = "trade" /\ stream[k].uuid = u
                /\ stream[k].left = book[u].left
          BY <2>1, <4>3 DEF StreamOrdered
        <4>5. CASE k = 1
          <5>1. Shown'[u].volume = book'[u].left
            BY <2>1, <4>2, <4>3, <4>4, <4>5
          <5>2. QED
            BY <1>2, <1>3, <3>4, <5>1 DEF VolumeFollowed
        <4>6. CASE k # 1
          BY <4>3, <4>4, <4>6 DEF VolumeFollowed, InStream
        <4>7. QED
          BY <4>5, <4>6
      <3>5. QED
        BY <3>2, <3>3, <3>4
    <2>4. QED
      BY <2>1, <2>2, <2>3
  <1>7. CASE /\ ~InStream(u, {"trade"})
             /\ book'[u].left = book[u].left
             /\ Reported(u) /\ (u \in Tracked => Shown[u].volume = book[u].left)
    <2>1. ASSUME u \in Tracked'
          PROVE  Shown'[u].volume = Shown[u].volume
      <3>1. ~Trades(u)
        <4>1. SUFFICES ASSUME Trades(u)
                       PROVE  InStream(u, {"trade"})
          BY <1>7
        <4>2. stream # << >> /\ stream' = Tail(stream)
          BY <4>1 DEF Trades, ReceiveEvent
        <4>3. 1 \in DOMAIN stream /\ stream[1] = Head(stream)
          BY <4>2, TailIndices
        <4>4. QED
          BY <4>1, <4>3 DEF InStream, Trades
      <3>2. QED
        BY <1>2, <1>7, <2>1, <3>1, VolumeStep
    <2>2. QED
      BY <1>2, <1>7, <2>1 DEF VolumeFollowed
  <1>8. CASE book'[u].left = book[u].left /\ ~Reported(u) /\ book[u].left = Lots
    <2>1. u \in Tracked' => Shown'[u].volume = Lots \/ "unstated" \in missed'[u]
      BY <1>3, <1>8, ListedWhole
    <2>2. QED
      BY <1>8, <2>1 DEF VolumeFollowed
  <1>9. QED
    BY <1>4, <1>5, <1>6, <1>7, <1>8 DEF BookFollowed, VolumeFollowed

LEMMA BookFollowedNext ==
  ASSUME SettleInv, BookInv', [TradingNext]_tradingVars
  PROVE  BookFollowed'
  <1>1. ASSUME NEW u \in Known' \ Known
        PROVE  OpenFollowed(u)' /\ ClosedFollowed(u)' /\ VolumeFollowed(u)'
    <2>1. u \in Open' /\ ~Reported(u)' /\ book'[u].left = Lots
      BY <1>1, NewOrderFollowed DEF SettleInv, BookInv
    <2>2. QED
      BY <2>1 DEF OpenFollowed, ClosedFollowed, VolumeFollowed
  <1>2. QED
    BY <1>1, OpenFollowedNext, ClosedFollowedNext, VolumeFollowedNext DEF BookFollowed

LEMMA SettleInvariant == TradingSpec => [](BookInv /\ SettleInv)
  <1>1. TradingInit => AnswersKept /\ BookFollowed
    <2> SUFFICES ASSUME TradingInit
                 PROVE  AnswersKept /\ BookFollowed
      OBVIOUS
    <2>1. Known = {}
      BY DEF TradingInit, Known, NoOrder
    <2>2. \A r \in Places : pc[r] = "idle"
      BY DEF TradingInit, Jobs
    <2>3. QED
      BY <2>1, <2>2 DEF AnswersKept, BookFollowed, Taken
  <1>2. BookInv /\ BookInv' /\ SettleInv /\ [TradingNext]_tradingVars => SettleInv'
    BY AnswersKeptNext, BookFollowedNext DEF SettleInv, BookInv
  <1>3. BookInv /\ AnswersKept /\ BookFollowed => SettleInv
    BY DEF SettleInv
  <1>4. QED
    BY <1>1, <1>2, <1>3, BookInvariant, PTL DEF TradingSpec

(* When nothing is on its way any more, the table and the exchange's book  *)
(* agree, but for what the program has no means to see.                    *)
THEOREM TableFollowsBook == TradingSpec => []TableMatchesBook
  <1>1. SettleInv => TableMatchesBook
    <2> SUFFICES ASSUME SettleInv, Settled, NEW u \in Known
                 PROVE  /\ u \in Open /\ u \notin Tracked =>
                             \/ Unreported(u)
                             \/ missed[u] \cap {"unparsed", "insert", "remaining"} # {}
                        /\ u \in Tracked /\ u \notin Open => "closed" \in missed[u]
                        /\ u \in Tracked \cap Open /\ Volume(u) # book[u].left =>
                             missed[u] \cap {"unstated", "trade"} # {}
      BY DEF TableMatchesBook
    <2> USE DEF SettleInv, BookInv, TradingIInv
    <2>1. OpenFollowed(u) /\ ClosedFollowed(u) /\ VolumeFollowed(u)
      BY DEF BookFollowed
    <2>2. \A kinds : ~InStream(u, kinds)
      BY DEF Settled, InStream
    <2>3. ~Reported(u) => Unreported(u)
      <3>1. PICK r \in Places : book[u].identifier = <<r, 0>> /\ pc[r] # "idle" /\ r \in Jobs
        BY DEF OrdersIdentified, Jobs
      <3>2. pc[r] \in {"idle", "done", "failed"}
        BY <3>1 DEF Settled
      <3>3. QED
        BY <3>1, <3>2 DEF Reported, Unreported, Taken
    <2>4. u \in Tracked => Reported(u) /\ Volume(u) = Shown[u].volume
      BY ShownVolume DEF OrdersIdentified, VolumesShown
    <2>5. QED
      BY <2>1, <2>2, <2>3, <2>4 DEF OpenFollowed, ClosedFollowed, VolumeFollowed
  <1>2. QED
    BY <1>1, SettleInvariant, PTL
=============================================================================
