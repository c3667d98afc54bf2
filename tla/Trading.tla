------------------------------ MODULE Trading ------------------------------
(***************************************************************************)
(* How the program keeps its table of open orders in step with the         *)
(* exchange.  Three parties touch the table: the user interface (ui.c),    *)
(* which reads slots and submits tasks; the workers, which run place_order *)
(* and cancel_order (rest_api.c) with their retries and put the responses  *)
(* into the table (json_handler.c); and the private websocket thread,      *)
(* which applies the order events of the exchange (json_handler.c).        *)
(*                                                                         *)
(* The exchange (the program's view of Upbit's REST and websocket service) *)
(* is external: a book of orders, requests in flight that it may serve,    *)
(* refuse or never get, answers that come too late, and one ordered stream *)
(* of events, not synchronised with the answers.  It refuses an order      *)
(* whose identifier it has seen.                                           *)
(*                                                                         *)
(* A job is one task: a call of place_order or cancel_order, or the        *)
(* cancel_by_bulk that the user interface calls itself when the user       *)
(* quits.  The wait in the task queue is the time a job spends in "try"    *)
(* before its first attempt.                                               *)
(***************************************************************************)
EXTENDS OrderTable, CurlPool, Sequences

SeqExt == INSTANCE SequencesExt

CONSTANTS Places,        \* calls of place_order
          Cancels,       \* calls of cancel_order
          Bulk,          \* the call of cancel_by_bulk
          RETRY,         \* attempts of place_order and cancel_order
          Lots,          \* bound: volume of an order, in equal lots
          IntegerVolumes, \* events give some volumes as JSON integers, or as null
          Fragments,     \* some events arrive in pieces
          MarketBuys,    \* some answers name no volume: orders for an amount of money
          Garbled        \* some answers of status 200 are not JSON

Jobs == Places \cup Cancels \cup {Bulk}

ASSUME TradingAssumption ==
  /\ RETRY \in Nat \ {0}
  /\ Lots \in Nat \ {0}
  /\ Volumes = 0..Lots
  /\ {"wait", "done", "cancel"} \subseteq Statuses
  /\ {IntegerVolumes, Fragments, MarketBuys, Garbled} \subseteq BOOLEAN
  /\ Places \cap Cancels = {} /\ Bulk \notin Places \cup Cancels
  /\ Null \notin Uuids /\ IsFiniteSet(Uuids)

VARIABLES ui,       \* where the menu is
          pick,     \* the slot the user chose to cancel and the order shown in it
          pc,       \* where each job is
          attempt,  \* attempts the job has used up
          handle,   \* the job's curl handle
          target,   \* the order a cancel job names
          wanted,   \* history: the order the user saw in that slot
          reply,    \* the response curl_easy_perform will return to the job
          removing, \* orders the job has still to take from the table
          net,      \* requests on their way to the exchange
          book,     \* the exchange's orders
          stream,   \* events on their way to the websocket thread
          missed    \* history: what the table could not record of an order

tradingVars == <<orders, size, is_full, is_empty, in_use, delete, ui, pick, pc, attempt,
                 handle, target, wanted, reply, removing, net, book, stream, missed>>
userVars == <<ui, pick, wanted, target>>
jobVars == <<pc, attempt, handle, reply, removing>>
exchangeVars == <<book, stream>>

NoOrder == [state |-> "none", left |-> 0, identifier |-> << >>]
NoReply == [ok |-> FALSE, answered |-> FALSE]
Refusal == [ok |-> FALSE, answered |-> TRUE]
Event(kind, u, left, integer) ==
  [state |-> kind, uuid |-> u, left |-> left, integer |-> integer]

Open == {u \in Uuids : book[u].state = "wait"}
Known == {u \in Uuids : book[u].state # "none"}

(* generate_uuid(identifier), called once before the loop over attempts.   *)
(* Mutated: called for every attempt.                                      *)
IdentifierPerAttempt(r, n) == <<r, n>>

Identifier(r, n) == <<r, 0>>

Attempts(j) == IF j = Bulk THEN 1 ELSE RETRY

TradingInit ==
  /\ TableInit
  /\ PoolInit
  /\ ui = "menu"
  /\ pick = Null
  /\ pc = [j \in Jobs |-> "idle"]
  /\ attempt = [j \in Jobs |-> 0]
  /\ handle = [j \in Jobs |-> NoHandle]
  /\ target = [c \in Cancels |-> Null]
  /\ wanted = [c \in Cancels |-> Null]
  /\ reply = [j \in Jobs |-> NoReply]
  /\ removing = [j \in Jobs |-> {}]
  /\ net = {}
  /\ book = [u \in Uuids |-> NoOrder]
  /\ stream = << >>
  /\ missed = [u \in Uuids |-> {}]

-----------------------------------------------------------------------------
(* THE USER INTERFACE (menu_ui)                                            *)

(* [m]: the flag is tested when the form is opened, not when it is sent.   *)
MenuMake ==
  /\ ui = "menu"
  /\ ~is_full
  /\ ui' = "make"
  /\ UNCHANGED <<tableVars, poolVars, pick, target, wanted, jobVars, net, exchangeVars, missed>>

SendOrder(r) ==
  /\ ui = "make"
  /\ pc[r] = "idle"
  /\ pc' = [pc EXCEPT ![r] = "try"]
  /\ ui' = "menu"
  /\ UNCHANGED <<tableVars, poolVars, pick, target, wanted, attempt, handle, reply,
                 removing, net, exchangeVars, missed>>

AbandonOrder ==
  /\ ui = "make"
  /\ ui' = "menu"
  /\ UNCHANGED <<tableVars, poolVars, pick, target, wanted, jobVars, net, exchangeVars, missed>>

(* [c]: order_ui has drawn the orders with the numbers of their slots and  *)
(* the user types the number of one of them.                               *)
MenuCancel(i) ==
  /\ ui = "menu"
  /\ ~is_empty
  /\ i \in Occupied
  /\ ui' = "cancel"
  /\ pick' = <<i, orders[i].uuid>>
  /\ UNCHANGED <<tableVars, poolVars, target, wanted, jobVars, net, exchangeVars, missed>>

(* get_uuid_from_orders reads the slot when the number has been typed.     *)
SendCancel(c) ==
  /\ ui = "cancel"
  /\ pc[c] = "idle"
  /\ IF pick[1] \in Occupied
     THEN /\ target' = [target EXCEPT ![c] = orders[pick[1]].uuid]
          /\ wanted' = [wanted EXCEPT ![c] = pick[2]]
          /\ pc' = [pc EXCEPT ![c] = "try"]
     ELSE UNCHANGED <<target, wanted, pc>>
  /\ ui' = "menu"
  /\ pick' = Null
  /\ UNCHANGED <<tableVars, poolVars, attempt, handle, reply, removing, net,
                 exchangeVars, missed>>

(* [q]: cancel_by_bulk runs in the user interface's thread.                *)
MenuQuit ==
  /\ ui = "menu"
  /\ IF is_empty
     THEN ui' = "quit" /\ UNCHANGED pc
     ELSE ui' = "bulk" /\ pc' = [pc EXCEPT ![Bulk] = "try"]
  /\ UNCHANGED <<tableVars, poolVars, pick, target, wanted, attempt, handle, reply,
                 removing, net, exchangeVars, missed>>

BulkReturns ==
  /\ ui = "bulk"
  /\ pc[Bulk] \in {"done", "failed"}
  /\ ui' = "quit"
  /\ UNCHANGED <<tableVars, poolVars, pick, target, wanted, jobVars, net, exchangeVars, missed>>

-----------------------------------------------------------------------------
(* THE REQUESTS (place_order, cancel_order, cancel_by_bulk)                *)

(* One turn of the loop as far as curl_easy_perform.                       *)
Perform(j) ==
  /\ pc[j] = "try"
  /\ \E h \in Handles :
       /\ get_curl_pool_handle(h)
       /\ handle' = [handle EXCEPT ![j] = h]
       /\ delete' = [delete EXCEPT ![h] = @ \/ j \notin Places]
  /\ pc' = [pc EXCEPT ![j] = "sent"]
  /\ reply' = [reply EXCEPT ![j] = NoReply]
  /\ net' = net \cup {<<j, attempt[j]>>}
  /\ UNCHANGED <<tableVars, userVars, attempt, removing, exchangeVars, missed>>

FindNoHandle(j) ==
  /\ pc[j] = "try"
  /\ NoHandleFree
  /\ pc' = [pc EXCEPT ![j] = "log_no_handle"]
  /\ UNCHANGED <<tableVars, userVars, attempt, handle, reply, removing, net,
                 exchangeVars, missed>>

(* Mutated: the handle is kept when an attempt fails.                      *)
LeakAnd(j, next) ==
  /\ handle' = [handle EXCEPT ![j] = NoHandle]
  /\ pc' = [pc EXCEPT ![j] = next]
  /\ UNCHANGED poolVars

ReleaseAnd(j, next) ==
  /\ release_curl_pool_handle(handle[j])
  /\ handle' = [handle EXCEPT ![j] = NoHandle]
  /\ pc' = [pc EXCEPT ![j] = next]

(* The transfer failed or timed out, or the exchange refused.  An answer   *)
(* to this attempt finds nobody.                                           *)
AttemptFails(j) ==
  /\ pc[j] = "sent"
  /\ ~reply[j].ok
  /\ pc' = [pc EXCEPT ![j] = "log_failure"]
  /\ reply' = [reply EXCEPT ![j] = NoReply]
  /\ UNCHANGED <<tableVars, poolVars, userVars, attempt, handle, removing, net,
                 exchangeVars, missed>>

(* Each failure is logged, and do_log puts a task into the queue of        *)
(* ThreadQueue: it returns when it has found a free slot there, if ever.   *)
Logging == {"log_no_handle", "log_failure", "log_give_up", "log_answer"}

(* The parser of an answer has logged: the rest is clean_up_resources.     *)
LogAnswer(j) ==
  /\ pc[j] = "log_answer"
  /\ ReleaseAnd(j, "done")
  /\ UNCHANGED <<tableVars, userVars, attempt, reply, removing, net, exchangeVars, missed>>

(* Where the loop over attempts goes on after a failed one: "max retries", *)
(* but for cancel_by_bulk, which has logged its one failure.               *)
AfterAttempt(j) ==
  CASE attempt[j] + 1 < Attempts(j) -> "try"
    [] attempt[j] + 1 = Attempts(j) /\ j # Bulk -> "log_give_up"
    [] OTHER -> "failed"

(* Mutated: a failed attempt is not counted.                               *)
LogFailureUncounted(j) ==
  /\ pc[j] = "log_failure"
  /\ ReleaseAnd(j, "try")
  /\ UNCHANGED <<tableVars, userVars, attempt, reply, removing, net, exchangeVars, missed>>

(* The job has its handle while it logs, not in the pause that follows.    *)
LogFailure(j) ==
  /\ pc[j] = "log_failure"
  /\ ReleaseAnd(j, AfterAttempt(j))
  /\ attempt' = [attempt EXCEPT ![j] = attempt[j] + 1]
  /\ UNCHANGED <<tableVars, userVars, reply, removing, net, exchangeVars, missed>>

(* No handle: `continue` uses up the attempt.                              *)
LogNoHandle(j) ==
  /\ pc[j] = "log_no_handle"
  /\ attempt' = [attempt EXCEPT ![j] = attempt[j] + 1]
  /\ pc' = [pc EXCEPT ![j] = AfterAttempt(j)]
  /\ UNCHANGED <<tableVars, poolVars, userVars, handle, reply, removing, net,
                 exchangeVars, missed>>

(* "max retries"                                                           *)
LogGiveUp(j) ==
  /\ pc[j] = "log_give_up"
  /\ pc' = [pc EXCEPT ![j] = "failed"]
  /\ UNCHANGED <<tableVars, poolVars, userVars, attempt, handle, reply, removing, net,
                 exchangeVars, missed>>

(* The answer of the exchange to a request of this job, status 200 or 201. *)
Answered(j) == pc[j] = "sent" /\ reply[j].ok

(* Mutated: no `break` and no `success`: the response is parsed again.     *)
PlaceAnsweredAgain(r) ==
  /\ Answered(r)
  /\ insert_order(reply[r].uuid, reply[r].volume, reply[r].state)
  /\ UNCHANGED <<poolVars, userVars, jobVars, net, exchangeVars, missed>>

(* parse_place_order_response; a volume that is not in the answer is 0.0.  *)
PlaceAnswered(r) ==
  /\ Answered(r)
  /\ insert_order(reply[r].uuid, reply[r].volume, reply[r].state)
  /\ missed' = [missed EXCEPT ![reply[r].uuid] = @
                  \cup (IF size = MaxOrderNum THEN {"insert"} ELSE {})
                  \cup (IF reply[r].volume = 0 THEN {"unstated"} ELSE {})]
  /\ pc' = [pc EXCEPT ![r] = "parsed"]
  /\ UNCHANGED <<poolVars, userVars, attempt, handle, reply, removing, net, exchangeVars>>

(* json_loads fails on the answer: the parser returns without a look at    *)
(* the order it is about, and the request counts as a success.             *)
AnswerGarbled(j) ==
  /\ Garbled
  /\ Answered(j)
  /\ missed' = [u \in Uuids |-> IF j \in Places /\ u = reply[j].uuid
                                THEN missed[u] \cup {"unparsed"} ELSE missed[u]]
  /\ pc' = [pc EXCEPT ![j] = "log_answer"]
  /\ UNCHANGED <<tableVars, poolVars, userVars, attempt, handle, reply, removing, net,
                 exchangeVars>>

(* parse_cancel_order_response_json: the new status, then the removal.     *)
CancelAnswered(c) ==
  /\ Answered(c)
  /\ update_order_status(reply[c].uuid, reply[c].state)
  /\ removing' = [removing EXCEPT ![c] =
                    IF reply[c].state \in {"done", "cancel"} THEN {reply[c].uuid} ELSE {}]
  /\ pc' = [pc EXCEPT ![c] = "parsed"]
  /\ UNCHANGED <<poolVars, userVars, attempt, handle, reply, net, exchangeVars, missed>>

(* parse_cancel_by_bulk_response                                           *)
BulkAnswered ==
  /\ Answered(Bulk)
  /\ removing' = [removing EXCEPT ![Bulk] = reply[Bulk].uuids]
  /\ pc' = [pc EXCEPT ![Bulk] = "parsed"]
  /\ UNCHANGED <<tableVars, poolVars, userVars, attempt, handle, reply, net,
                 exchangeVars, missed>>

Remove(j) ==
  /\ pc[j] = "parsed"
  /\ \E u \in removing[j] :
       /\ remove_order(u)
       /\ removing' = [removing EXCEPT ![j] = @ \ {u}]
  /\ UNCHANGED <<poolVars, userVars, pc, attempt, handle, reply, net, exchangeVars, missed>>

(* The exchange failed to cancel some of the orders; each is logged.       *)
BulkPartlyFailed ==
  /\ pc[Bulk] = "parsed"
  /\ removing[Bulk] = {}
  /\ pc' = [pc EXCEPT ![Bulk] = "log_answer"]
  /\ UNCHANGED <<tableVars, poolVars, userVars, attempt, handle, reply, removing, net,
                 exchangeVars, missed>>

Returns(j) ==
  /\ pc[j] = "parsed"
  /\ removing[j] = {}
  /\ ReleaseAnd(j, "done")
  /\ UNCHANGED <<tableVars, userVars, attempt, reply, removing, net, exchangeVars, missed>>

-----------------------------------------------------------------------------
(* THE PRIVATE WEBSOCKET THREAD (parse_my_order_json)                      *)

(* Mutated: every event but a trade removes the order.                     *)
EventWaitRemoves(e) ==
  /\ e.state = "wait"
  /\ remove_order(e.uuid)
  /\ UNCHANGED missed

(* "wait" and "watch" are left to parse_place_order_response.              *)
EventWait(e) ==
  /\ e.state = "wait"
  /\ UNCHANGED <<tableVars, missed>>

EventClosed(e) ==
  /\ e.state \in {"done", "cancel"}
  /\ remove_order(e.uuid)
  /\ missed' = [missed EXCEPT ![e.uuid] =
                  IF e.uuid \in Tracked THEN @ ELSE @ \cup {"closed"}]

(* Mutated: the volume that was traded is stored, not what remains of it.  *)
RemainingVolumeMistaken(e) == Lots - e.left

(* json_real_value of a JSON integer, or of null, is 0.0.                  *)
RemainingVolume(e) == IF e.integer THEN 0 ELSE e.left

EventTrade(e) ==
  /\ e.state = "trade"
  /\ IF RemainingVolume(e) = 0
     THEN remove_order(e.uuid)
     ELSE update_order_volume(e.uuid, RemainingVolume(e))
  /\ missed' = [missed EXCEPT ![e.uuid] =
                  CASE e.uuid \notin Tracked -> @ \cup {"trade"}
                    [] e.uuid \in Tracked /\ e.integer -> @ \cup {"remaining"}
                    [] OTHER -> @]

(* Mutated: "cancel" is ignored like "wait".                               *)
ReceiveEventIgnoringCancel ==
  /\ stream # << >>
  /\ LET e == Head(stream)
     IN  \/ EventWait(e)
         \/ e.state = "cancel" /\ UNCHANGED <<tableVars, missed>>
         \/ e.state = "done" /\ EventClosed(e)
         \/ EventTrade(e)
  /\ stream' = Tail(stream)
  /\ UNCHANGED <<poolVars, userVars, jobVars, net, book>>

ReceiveEvent ==
  /\ stream # << >>
  /\ LET e == Head(stream) IN EventWait(e) \/ EventClosed(e) \/ EventTrade(e)
  /\ stream' = Tail(stream)
  /\ UNCHANGED <<poolVars, userVars, jobVars, net, book>>

(* The callback takes each piece of a message that comes in pieces for a   *)
(* whole one, and the parser refuses them all: the event has no effect.    *)
ReceivePieces ==
  /\ Fragments
  /\ stream # << >>
  /\ LET e == Head(stream)
     IN  missed' = [missed EXCEPT ![e.uuid] =
                      CASE e.state = "wait"  -> @
                        [] e.state = "trade" -> @ \cup {"trade"}
                        [] OTHER             -> @ \cup {"closed"}]
  /\ stream' = Tail(stream)
  /\ UNCHANGED <<tableVars, poolVars, userVars, jobVars, net, book>>

-----------------------------------------------------------------------------
(* THE EXCHANGE (external)                                                 *)

(* The answer reaches the job if it still waits for this attempt.          *)
Deliver(m, answer) ==
  reply' = IF pc[m[1]] = "sent" /\ attempt[m[1]] = m[2]
           THEN [reply EXCEPT ![m[1]] = answer]
           ELSE reply

AcceptOrder(m) ==
  /\ m[1] \in Places
  /\ \A u \in Known : book[u].identifier # Identifier(m[1], m[2])
  /\ \E u \in Uuids \ Known :
       /\ book' = [book EXCEPT ![u] =
                     [state |-> "wait", left |-> Lots,
                      identifier |-> Identifier(m[1], m[2])]]
       /\ stream' = Append(stream, Event("wait", u, Lots, FALSE))
       /\ \E volume \in {Lots} \cup (IF MarketBuys THEN {0} ELSE {}) :
            Deliver(m, [ok |-> TRUE, uuid |-> u, state |-> "wait", volume |-> volume])

CancelOpenOrder(m) ==
  /\ m[1] \in Cancels
  /\ target[m[1]] \in Open
  /\ book' = [book EXCEPT ![target[m[1]]].state = "cancel"]
  /\ stream' = Append(stream, Event("cancel", target[m[1]], book[target[m[1]]].left, FALSE))
  /\ \E s \in {"wait", "cancel"} :
       Deliver(m, [ok |-> TRUE, uuid |-> target[m[1]], state |-> s])

(* At most `count` of the open orders, and not those it fails to cancel.   *)
CancelAllOpen(m) ==
  /\ m[1] = Bulk
  /\ \E S \in SUBSET Open :
       /\ book' = [u \in Uuids |-> IF u \in S THEN [book[u] EXCEPT !.state = "cancel"]
                                  ELSE book[u]]
       /\ \E q \in SeqExt!SetToSeqs(S) :
            stream' = stream \o
                        [i \in DOMAIN q |-> Event("cancel", q[i], book[q[i]].left, FALSE)]
       /\ Deliver(m, [ok |-> TRUE, uuids |-> S])

RefuseRequest(m) ==
  /\ Deliver(m, Refusal)
  /\ UNCHANGED exchangeVars

ServeRequest ==
  \E m \in net :
    /\ AcceptOrder(m) \/ CancelOpenOrder(m) \/ CancelAllOpen(m) \/ RefuseRequest(m)
    /\ net' = net \ {m}
    /\ UNCHANGED <<tableVars, poolVars, userVars, pc, attempt, handle, removing, missed>>

LoseRequest ==
  /\ \E m \in net : net' = net \ {m}
  /\ UNCHANGED <<tableVars, poolVars, userVars, jobVars, exchangeVars, missed>>

(* An open order is filled by a lot; the last one closes it.               *)
FillOrder(u) ==
  /\ u \in Open
  /\ LET left == book[u].left - 1
     IN  /\ book' = [book EXCEPT ![u].left = left,
                                 ![u].state = IF left = 0 THEN "done" ELSE "wait"]
         /\ \E integer \in {FALSE, IntegerVolumes /\ left > 0} :
              LET trade == Event("trade", u, left, integer)
              IN  stream' = IF left = 0
                            THEN stream \o <<trade, Event("done", u, left, FALSE)>>
                            ELSE Append(stream, trade)
  /\ UNCHANGED <<tableVars, poolVars, userVars, jobVars, net, missed>>

-----------------------------------------------------------------------------
UserInterface ==
  \/ MenuMake \/ AbandonOrder \/ MenuQuit \/ BulkReturns
  \/ \E r \in Places : SendOrder(r)
  \/ \E i \in OrderSlots : MenuCancel(i)
  \/ \E c \in Cancels : SendCancel(c)

Logs(j) == LogNoHandle(j) \/ LogFailure(j) \/ LogGiveUp(j) \/ LogAnswer(j)

Runs(j) ==
  \/ Perform(j) \/ FindNoHandle(j) \/ AttemptFails(j)
  \/ j \in Places /\ PlaceAnswered(j)
  \/ j \in Cancels /\ CancelAnswered(j)
  \/ j = Bulk /\ (BulkAnswered \/ BulkPartlyFailed)
  \/ AnswerGarbled(j) \/ Remove(j) \/ Returns(j)

Request(j) == Runs(j) \/ Logs(j)

Exchange == ServeRequest \/ LoseRequest \/ \E u \in Uuids : FillOrder(u)

TradingNext == UserInterface \/ (\E j \in Jobs : Request(j)) \/ ReceiveEvent \/ ReceivePieces
  \/ Exchange

TradingSpec == TradingInit /\ [][TradingNext]_tradingVars

(* A worker that runs a request runs it on: curl's timeouts end every      *)
(* transfer and the pauses are finite.  Nothing is assumed of do_log,      *)
(* which may wait for good (AsleepOnlyIfIdleOrStalled of ThreadQueue), nor *)
(* of the user, the exchange and the event stream.                         *)
TradingFairSpec == TradingSpec /\ \A j \in Jobs : WF_tradingVars(Runs(j))

-----------------------------------------------------------------------------
(* PROPERTIES                                                              *)

Replies ==
  {NoReply, Refusal}
    \cup [ok : {TRUE}, uuid : Uuids, state : Statuses, volume : Volumes]
    \cup [ok : {TRUE}, uuid : Uuids, state : Statuses]
    \cup [ok : {TRUE}, uuids : SUBSET Uuids]

PoolTypeOK ==
  in_use \in [Handles -> BOOLEAN] /\ delete \in [Handles -> BOOLEAN]

UserTypeOK ==
  /\ ui \in {"menu", "make", "cancel", "bulk", "quit"}
  /\ pick \in (OrderSlots \X Uuids) \cup {Null}
  /\ target \in [Cancels -> Uuids \cup {Null}]
  /\ wanted \in [Cancels -> Uuids \cup {Null}]

JobTypeOK ==
  /\ pc \in [Jobs -> {"idle", "try", "sent", "parsed", "done", "failed"} \cup Logging]
  /\ attempt \in [Jobs -> 0..RETRY]
  /\ handle \in [Jobs -> Handles \cup {NoHandle}]
  /\ reply \in [Jobs -> Replies]
  /\ removing \in [Jobs -> SUBSET Uuids]

BookEntries ==
  [state : {"none", "wait", "done", "cancel"}, left : 0..Lots,
   identifier : {<< >>} \cup (Places \X Nat)]

Events ==
  [state : {"wait", "trade", "done", "cancel"}, uuid : Uuids, left : 0..Lots,
   integer : BOOLEAN]

ExchangeTypeOK ==
  /\ net \subseteq Jobs \X (0..RETRY)
  /\ book \in [Uuids -> BookEntries]
  /\ stream \in Seq(Events)
  /\ missed \in [Uuids -> SUBSET {"insert", "trade", "closed", "remaining",
                               "unstated", "unparsed"}]

(* Every variable has its type, the table's and the pool's included.       *)
TradingTypeOK == TableTypeOK /\ PoolTypeOK /\ UserTypeOK /\ JobTypeOK /\ ExchangeTypeOK

(* However many attempts of one place_order reach the exchange, early or   *)
(* after the program gave up on them, it has at most one order from them   *)
(* (the "idempotency" of the identifier generated before the loop).        *)
AtMostOneOrderPerRequest ==
  \A u, v \in Known : book[u].identifier[1] = book[v].identifier[1] => u = v

(* A handle is marked exactly while one request uses it, through timeouts, *)
(* refusals, retries and late answers: no two requests share a handle and  *)
(* none is left marked behind a request that has ended.                    *)
HandlesAccounted ==
  /\ \A h \in Handles : in_use[h] <=> \E j \in Jobs : handle[j] = h
  /\ \A j, k \in Jobs : handle[j] = handle[k] /\ handle[j] # NoHandle => j = k
  /\ \A j \in Jobs :
       handle[j] # NoHandle <=> pc[j] \in {"sent", "parsed", "log_failure", "log_answer"}

(* The variables have their types and the pool's marks agree with the      *)
(* requests, in every state of orders, cancellations and retries.          *)
TradingInv == TradingTypeOK /\ HandlesAccounted

(* An order is not sent as a DELETE, nor a cancellation as a GET, whatever *)
(* request had the handle before and however it ended.                     *)
OwnMethod ==
  \A j \in Jobs : handle[j] # NoHandle => (delete[handle[j]] <=> j \notin Places)

(* Nothing is on its way any more.                                         *)
Settled ==
  /\ \A j \in Jobs : pc[j] \in {"idle", "done", "failed"}
  /\ net = {}
  /\ stream = << >>

(* The exchange accepted an order whose place_order gave up on the answer. *)
Unreported(u) == pc[book[u].identifier[1]] = "failed"

Volume(u) == orders[First(Matches(u))].volume

(* When everything on its way has arrived, the table and the exchange's    *)
(* book agree, but for what the program has no means to see: an open order *)
(* is missing only if its place_order never saw the answer or could not    *)
(* read it, the table was full, or a remaining volume was misread; a       *)
(* closed order is listed only if the event that closed it came before the *)
(* answer that inserted it, or in pieces; a volume is wrong only if the    *)
(* answer named none, or a trade came before that answer, or in pieces.    *)
TableMatchesBook ==
  Settled => \A u \in Known :
    /\ u \in Open /\ u \notin Tracked =>
         Unreported(u) \/ missed[u] \cap {"unparsed", "insert", "remaining"} # {}
    /\ u \in Tracked /\ u \notin Open => "closed" \in missed[u]
    /\ u \in Tracked \cap Open /\ Volume(u) # book[u].left =>
         missed[u] \cap {"unstated", "trade"} # {}

(* A cancel request names the order the user saw under the number he       *)
(* typed, or else that order has left the table meanwhile: no order moves  *)
(* to another slot while it is listed.                                     *)
CancelNamesShownOrder ==
  \A c \in Cancels : target[c] # wanted[c] => wanted[c] \notin Tracked

(* An order leaves the table only when it is over at the exchange, or when *)
(* an event gives what remains of it as a JSON integer or as null.         *)
RemovedOnlyWhenOver ==
  [][\A u \in Tracked \ Tracked' : u \notin Open \/ "remaining" \in missed'[u]]_tradingVars

(* The volume shown for an order never grows again: events applied by the  *)
(* websocket thread and answers applied by workers do not undo each other. *)
(* An order whose answer named no volume is shown with 0 until a trade.    *)
VolumeNeverGrows ==
  [][\A u \in Tracked \cap Tracked' :
       Volume(u)' <= Volume(u) \/ "unstated" \in missed[u]]_tradingVars

(* The three parties use the table as OrderTable assumes: none inserts an  *)
(* order that is already in it, so what is proved of TableSpec holds here. *)
UsesTable == TableSpec

(* Every request ends, with or without success, also when the pool has no  *)
(* handle and when the exchange answers none of its attempts, unless it    *)
(* waits for good in do_log for a free slot of the task queue.             *)
RequestEnds ==
  \A j \in Jobs :
    (pc[j] = "try" ~> pc[j] \in {"done", "failed"}) \/ <>[](pc[j] \in Logging)

(* A claim of the source that the program does not keep (json_handler.c):  *)
(* the event "wait" may be ignored because parse_place_order_response()    *)
(* does that work.                                                         *)
OpenOrdersAreTracked == Settled => \A u \in Open : u \in Tracked
=============================================================================
