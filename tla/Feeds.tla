------------------------------- MODULE Feeds -------------------------------
(***************************************************************************)
(* The tables the user interface draws: balances (src/account_handler.c)   *)
(* and quotes, the tickers and order books (src/symbol_handler.c).  Each   *)
(* is a malloc'ed array whose numbers nobody initialises.  The private     *)
(* websocket thread stores balances from myAsset events, the public one    *)
(* quotes from ticker and orderbook messages, and a worker stores the      *)
(* balances of one snapshot that the user interface asks for at its first  *)
(* frame.  Balances are stored under a lock per currency, quotes under     *)
(* none.  Drawing a row changes no state and is left out.                  *)
(*                                                                         *)
(* A value is its version: how often the exchange has changed it.  An      *)
(* entry is two fields, stored one after the other: balance and locked, or *)
(* the price and the rest of a quote.  The exchange is external.  A lost   *)
(* connection shuts the program down (Lifecycle) and is left out, as is an *)
(* asset of a currency the table does not know.                            *)
(***************************************************************************)
EXTENDS Naturals, Sequences

SetExt == INSTANCE FiniteSetsExt

CONSTANTS Currencies,              \* of the account table
          Quotes,                  \* entries of g_tickers and g_orderbooks
          Public, Private, Worker, \* the threads that store values
          NoThread, NoAsset,
          Garbage,                 \* what malloc left in a field
          Misread,                 \* a JSON integer read as a real number: 0.0
          MaxChanges               \* bound: messages the exchange sends or would send

Entries == Currencies \cup Quotes
Threads == {Public, Private, Worker}
Clients == {Public, Private}

ASSUME FeedsAssumption ==
  /\ Currencies \cap Quotes = {}
  /\ MaxChanges \in Nat
  /\ Public # Private /\ Worker \notin Clients /\ NoThread \notin Threads
  /\ Garbage \notin Nat
  /\ NoAsset \notin [entry : Entries, version : Nat, integer : BOOLEAN]

VARIABLES real,      \* the exchange's values
          changes,   \* history: messages so far
          link,      \* the connection of each websocket client
          stream,    \* messages on their way to it
          request,   \* the request for the snapshot
          answer,    \* history: the currencies the snapshot names, with its values
          todo,      \* what a thread has still to store of its message
          storing,   \* the asset whose second field it has still to store
          lock,      \* the holder of each currency's lock
          table,     \* g_account, g_tickers and g_orderbooks
          delivered, \* history: versions a thread got a whole message with
          stale      \* history: entries with an older version in a newer one's place

feedsVars == <<real, changes, link, stream, request, answer, todo, storing, lock,
               table, delivered, stale>>
exchangeVars == <<real, changes, stream>>
tableVars == <<todo, storing, lock, table, delivered, stale>>

Of(client) == IF client = Private THEN Currencies ELSE Quotes

Nothing == [first |-> Garbage, second |-> Garbage]

FeedsInit ==
  /\ real = [e \in Entries |-> 0]
  /\ changes = 0
  /\ link = [c \in Clients |-> "connecting"]
  /\ stream = [c \in Clients |-> << >>]
  /\ request = "none"
  /\ answer = << >>
  /\ todo = [t \in Threads |-> {}]
  /\ storing = [t \in Threads |-> NoAsset]
  /\ lock = [e \in Currencies |-> NoThread]
  /\ table = [e \in Entries |-> Nothing]
  /\ delivered = [e \in Entries |-> {}]
  /\ stale = {}

-----------------------------------------------------------------------------
(* THE EXCHANGE (external)                                                 *)

Asset(e, integer) == [entry |-> e, version |-> real'[e], integer |-> integer]

(* A trade or an order changes balances, a trade of anybody's a quote.     *)
(* Numbers may be written as JSON integers; only the parsers of quotes do  *)
(* not expect that.  Who has not subscribed is told nothing.               *)
Change(client, S) ==
  /\ changes < MaxChanges
  /\ changes' = changes + 1
  /\ real' = [e \in Entries |-> IF e \in S THEN real[e] + 1 ELSE real[e]]
  /\ IF link[client] = "subscribed"
     THEN \E integer \in {FALSE, client = Public} :
            stream' = [stream EXCEPT ![client] = Append(@, {Asset(e, integer) : e \in S})]
     ELSE UNCHANGED stream
  /\ UNCHANGED <<link, request, answer, tableVars>>

(* The accounts the user has; a currency he never held is not among them.  *)
AnswerSnapshot ==
  /\ request = "sent"
  /\ request' = "answered"
  /\ \E S \in SUBSET Currencies : answer' = [e \in S |-> real[e]]
  /\ UNCHANGED <<exchangeVars, link, tableVars>>

-----------------------------------------------------------------------------
(* THE WEBSOCKET CLIENTS (callback_upbit_public, callback_upbit_private)   *)

Established(c) ==
  /\ link[c] = "connecting"
  /\ link' = [link EXCEPT ![c] = "writeable"]
  /\ UNCHANGED <<exchangeVars, request, answer, tableVars>>

(* The subscription is sent once: the private client sets its flag also    *)
(* when lws_write failed, and the public one asks for no second callback.  *)
Subscribe(c) ==
  /\ link[c] = "writeable"
  /\ \E result \in {"subscribed", "silent"} : link' = [link EXCEPT ![c] = result]
  /\ UNCHANGED <<exchangeVars, request, answer, tableVars>>

Idle(t) == todo[t] = {} /\ storing[t] = NoAsset

Take(t, assets) ==
  /\ todo' = [todo EXCEPT ![t] = assets]
  /\ delivered' = [e \in Entries |->
                     delivered[e] \cup {a.version : a \in {b \in assets : b.entry = e}}]

(* Mutated: the last message to arrive is taken first.                     *)
ReceiveLast(c) ==
  /\ Idle(c)
  /\ stream[c] # << >>
  /\ LET last == Len(stream[c])
     IN  /\ Take(c, stream[c][last])
         /\ stream' = [stream EXCEPT ![c] = SubSeq(@, 1, last - 1)]
  /\ UNCHANGED <<real, changes, link, request, answer, storing, lock, table, stale>>

(* A message that comes in pieces is given to the parser piece by piece,   *)
(* and each piece is refused.                                              *)
Receive(c) ==
  /\ Idle(c)
  /\ stream[c] # << >>
  /\ \E assets \in {Head(stream[c]), {}} : Take(c, assets)
  /\ stream' = [stream EXCEPT ![c] = Tail(@)]
  /\ UNCHANGED <<real, changes, link, request, answer, storing, lock, table, stale>>

-----------------------------------------------------------------------------
(* THE SNAPSHOT (get_account_info)                                         *)

(* The first frame of the user interface, in menu_ui.                      *)
AskForSnapshot ==
  /\ request = "none"
  /\ request' = "queued"
  /\ UNCHANGED <<exchangeVars, link, answer, tableVars>>

(* A worker takes the task; there may be no handle.                        *)
SendSnapshot ==
  /\ request = "queued"
  /\ request' = "sent"
  /\ UNCHANGED <<exchangeVars, link, answer, tableVars>>

(* No handle, no answer, or one that is not an array: nothing is stored    *)
(* and nothing is tried again.                                             *)
SnapshotFails ==
  /\ request \in {"queued", "sent", "answered"}
  /\ request' = "over"
  /\ answer' = << >>
  /\ UNCHANGED <<exchangeVars, link, tableVars>>

ParseSnapshot ==
  /\ request = "answered"
  /\ request' = "over"
  /\ Take(Worker, {[entry |-> e, version |-> answer[e], integer |-> FALSE] : e \in DOMAIN answer})
  /\ UNCHANGED <<exchangeVars, link, answer, storing, lock, table, stale>>

-----------------------------------------------------------------------------
(* STORING (update_account, parse_ticker_json, parse_orderbook_json)       *)

(* json_real_value of an integer is 0.0; the parser of assets looks first. *)
Stored(a) == IF a.integer THEN Misread ELSE a.version

GoesBack(a) ==
  table[a.entry].second # Garbage /\ a.version < table[a.entry].second

(* Mutated: the lock of the currency is not taken.                         *)
StoreFirstUnlocked(t) ==
  /\ storing[t] = NoAsset
  /\ \E a \in todo[t] :
       /\ storing' = [storing EXCEPT ![t] = a]
       /\ table' = [table EXCEPT ![a.entry].first = Stored(a)]
  /\ UNCHANGED <<exchangeVars, link, request, answer, todo, lock, delivered, stale>>

StoreFirst(t) ==
  /\ storing[t] = NoAsset
  /\ \E a \in todo[t] :
       /\ a.entry \in Currencies => lock[a.entry] = NoThread
       /\ lock' = [e \in Currencies |-> IF e = a.entry THEN t ELSE lock[e]]
       /\ storing' = [storing EXCEPT ![t] = a]
       /\ table' = [table EXCEPT ![a.entry].first = Stored(a)]
       /\ stale' = IF GoesBack(a) THEN stale \cup {a.entry}
                   ELSE IF a.version = SetExt!Max(delivered[a.entry]) THEN stale \ {a.entry}
                   ELSE stale
  /\ UNCHANGED <<exchangeVars, link, request, answer, todo, delivered>>

(* Mutated: what else the message names is not stored.                     *)
StoreSecondOnly(t) ==
  /\ storing[t] # NoAsset
  /\ LET a == storing[t]
     IN  /\ table' = [table EXCEPT ![a.entry].second = a.version]
         /\ lock' = [e \in Currencies |-> IF e = a.entry THEN NoThread ELSE lock[e]]
  /\ todo' = [todo EXCEPT ![t] = {}]
  /\ storing' = [storing EXCEPT ![t] = NoAsset]
  /\ UNCHANGED <<exchangeVars, link, request, answer, delivered, stale>>

(* Mutated: the lock of the currency is kept.                              *)
StoreSecondLocked(t) ==
  /\ storing[t] # NoAsset
  /\ LET a == storing[t]
     IN  /\ table' = [table EXCEPT ![a.entry].second = a.version]
         /\ todo' = [todo EXCEPT ![t] = @ \ {a}]
  /\ storing' = [storing EXCEPT ![t] = NoAsset]
  /\ UNCHANGED <<exchangeVars, link, request, answer, lock, delivered, stale>>

StoreSecond(t) ==
  /\ storing[t] # NoAsset
  /\ LET a == storing[t]
     IN  /\ table' = [table EXCEPT ![a.entry].second = a.version]
         /\ lock' = [e \in Currencies |-> IF e = a.entry THEN NoThread ELSE lock[e]]
         /\ todo' = [todo EXCEPT ![t] = @ \ {a}]
  /\ storing' = [storing EXCEPT ![t] = NoAsset]
  /\ UNCHANGED <<exchangeVars, link, request, answer, delivered, stale>>

-----------------------------------------------------------------------------
Stores(t) == StoreFirst(t) \/ StoreSecond(t)
Snapshot == AskForSnapshot \/ SendSnapshot \/ AnswerSnapshot \/ SnapshotFails \/ ParseSnapshot

FeedsNext ==
  \/ \E c \in Clients :
       \/ Established(c) \/ Subscribe(c) \/ Receive(c)
       \/ \E S \in SUBSET Of(c) \ {{}} : Change(c, S)
  \/ Snapshot
  \/ \E t \in Threads : Stores(t)

FeedsSpec == FeedsInit /\ [][FeedsNext]_feedsVars

(* Threads are scheduled.  Nothing is assumed of the exchange, nor that    *)
(* the request is answered: with the timeouts of its handle it may fail.   *)
FeedsFairSpec ==
  /\ FeedsSpec
  /\ \A c \in Clients : WF_feedsVars(Receive(c))
  /\ \A t \in Threads : WF_feedsVars(Stores(t))

-----------------------------------------------------------------------------
(* PROPERTIES                                                              *)

Versions == 0..MaxChanges
Assets == [entry : Entries, version : Versions, integer : BOOLEAN]

(* Every variable has its type.                                            *)
FeedsTypeOK ==
  /\ real \in [Entries -> Versions]
  /\ changes \in 0..MaxChanges
  /\ link \in [Clients -> {"connecting", "writeable", "subscribed", "silent"}]
  /\ \A c \in Clients : \A i \in DOMAIN stream[c] : stream[c][i] \subseteq Assets
  /\ request \in {"none", "queued", "sent", "answered", "over"}
  /\ DOMAIN answer \subseteq Currencies
  /\ \A t \in Threads : todo[t] \subseteq Assets /\ storing[t] \in todo[t] \cup {NoAsset}
  /\ lock \in [Currencies -> Threads \cup {NoThread}]
  /\ table \in [Entries -> [first : Versions \cup {Garbage, Misread}, second : Versions \cup {Garbage}]]
  /\ delivered \in [Entries -> SUBSET Versions]
  /\ stale \subseteq Entries

Whole(value) == value.first = value.second \/ (value.first = Misread /\ value.second # Garbage)

(* Unless it is being stored an entry holds two numbers of one message:    *)
(* the answer a worker stores and the event the websocket thread stores at *)
(* the same time do not get mixed.                                         *)
EntriesWhole ==
  \A e \in Entries :
    Whole(table[e]) \/ \E t \in Threads : storing[t] # NoAsset /\ storing[t].entry = e

(* A currency is locked exactly by the thread between its two stores, so   *)
(* no entry is written by two threads at once, and the variables have      *)
(* their types.                                                            *)
FeedsInv ==
  /\ FeedsTypeOK
  /\ EntriesWhole
  /\ \A e \in Currencies, t \in Threads :
       lock[e] = t <=> storing[t] # NoAsset /\ storing[t].entry = e

Settled ==
  /\ \A t \in Threads : Idle(t)
  /\ \A c \in Clients : stream[c] = << >>
  /\ request \in {"none", "over"}

(* When everything on its way has been stored, an entry has the newest     *)
(* version that a whole message brought, but for the one cause named by    *)
(* `stale`; an entry of which no message spoke has what malloc left in it. *)
NewestStored ==
  Settled => \A e \in Entries :
    IF delivered[e] = {} THEN table[e] = Nothing
    ELSE e \in stale \/ table[e].second = SetExt!Max(delivered[e])

(* An entry goes back to an older version only where the snapshot and the  *)
(* events meet: the snapshot names the currency, and either it was         *)
(* answered before an event that was stored first, or it is newer than     *)
(* events still on their way.  Events alone never go back.                 *)
BackOnlyBySnapshot ==
  [][\A t \in Threads :
       storing[t] # NoAsset /\ storing'[t] = NoAsset /\ GoesBack(storing[t]) =>
         LET e == storing[t].entry
         IN  request = "over" /\ e \in DOMAIN answer
               /\ (t = Worker \/ table[e].second = answer[e])]_feedsVars

(* What is on its way to a client is stored in the end, and so are the     *)
(* balances of the snapshot once a worker has parsed it, whatever the      *)
(* other threads store: no lock is left behind that the next one waits     *)
(* for.                                                                    *)
MessagesStored ==
  /\ \A c \in Clients :
       (stream[c] # << >> \/ ~Idle(c)) ~> (stream[c] = << >> /\ Idle(c))
  /\ ~Idle(Worker) ~> Idle(Worker)
=============================================================================
