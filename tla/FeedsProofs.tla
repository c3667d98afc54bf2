----------------------------- MODULE FeedsProofs -----------------------------
(* Proofs about the tables the user interface draws, for any currencies    *)
(* and quotes and any number of changes: what is stored is whole, newest   *)
(* and, but for the snapshot, never older than what it replaces.           *)
EXTENDS Feeds, Integers, WellFoundedInduction, TLAPS

FeedTypes ==
  /\ real \in [Entries -> Versions]
  /\ changes \in 0..MaxChanges
  /\ \A e \in Entries : real[e] <= changes
  /\ link \in [Clients -> {"connecting", "writeable", "subscribed", "silent"}]
  /\ stream \in [Clients -> Seq(SUBSET Assets)]
  /\ request \in {"none", "queued", "sent", "answered", "over"}
  /\ DOMAIN answer \subseteq Currencies
  /\ \A e \in DOMAIN answer : answer[e] \in Versions
  /\ todo \in [Threads -> SUBSET Assets]
  /\ storing \in [Threads -> Assets \cup {NoAsset}]
  /\ lock \in [Currencies -> Threads \cup {NoThread}]
  /\ table \in [Entries -> [first : Versions \cup {Garbage, Misread},
                            second : Versions \cup {Garbage}]]
  /\ delivered \in [Entries -> SUBSET Versions]
  /\ stale \subseteq Entries

(* Who stores what: a client the entries it has subscribed to, the worker  *)
(* the balances of the answer.                                             *)
SourcesInv ==
  /\ \A c \in Clients : \A i \in DOMAIN stream[c] : \A a \in stream[c][i] : a.entry \in Of(c)
  /\ \A c \in Clients : \A a \in todo[c] : a.entry \in Of(c)
  /\ \A a \in todo[Worker] :
       request = "over" /\ a.entry \in DOMAIN answer /\ a.version = answer[a.entry]

(* An entry is in the middle of being stored by one thread at most.        *)
StoringInv ==
  /\ \A t \in Threads : storing[t] = NoAsset \/ storing[t] \in todo[t]
  /\ \A e \in Currencies, t \in Threads :
       lock[e] = t <=> storing[t] # NoAsset /\ storing[t].entry = e
  /\ \A t \in Threads :
       storing[t] # NoAsset => table[storing[t].entry].first = Stored(storing[t])

Newest(e) == SetExt!Max(delivered[e])

(* The newest version of an entry is stored or will be.                    *)
PendingInv ==
  /\ \A t \in Threads : \A a \in todo[t] : a.version \in delivered[a.entry]
  /\ \A e \in Entries : delivered[e] = {} => table[e] = Nothing
  /\ \A e \in Entries : delivered[e] # {} =>
       \/ e \in stale
       \/ \E t \in Threads : \E a \in todo[t] : a.entry = e /\ a.version = Newest(e)
       \/ /\ table[e].second = Newest(e)
          /\ \A t \in Threads :
               storing[t] # NoAsset /\ storing[t].entry = e => storing[t].version = Newest(e)

(* Events arrive in the order in which the exchange changed its values.    *)
OrderInv ==
  \A c \in Clients :
    /\ \A i \in DOMAIN stream[c] : \A a \in stream[c][i] : a.version <= real[a.entry]
    /\ \A a \in todo[c] : a.version <= real[a.entry]
    /\ \A i \in DOMAIN stream[c] : \A a, b \in stream[c][i] :
         a.entry = b.entry => a.version = b.version
    /\ \A i, j \in DOMAIN stream[c] : \A a \in stream[c][i], b \in stream[c][j] :
         i < j /\ a.entry = b.entry => a.version <= b.version
    /\ \A a, b \in todo[c] : a.entry = b.entry => a.version = b.version
    /\ \A i \in DOMAIN stream[c] : \A a \in todo[c], b \in stream[c][i] :
         a.entry = b.entry => a.version <= b.version

(* What is in the table is either the balance of the snapshot or not newer *)
(* than any event still to be stored.                                      *)
AgeInv ==
  \A c \in Clients : \A e \in Of(c) :
    \/ table[e].second = Garbage
    \/ request = "over" /\ e \in DOMAIN answer /\ table[e].second = answer[e]
    \/ /\ table[e].second <= real[e]
       /\ \A a \in todo[c] : a.entry = e => table[e].second <= a.version
       /\ \A i \in DOMAIN stream[c] : \A a \in stream[c][i] :
            a.entry = e => table[e].second <= a.version

FeedsIInv ==
  /\ FeedTypes
  /\ SourcesInv
  /\ StoringInv
  /\ EntriesWhole
  /\ PendingInv
  /\ OrderInv
  /\ AgeInv

-----------------------------------------------------------------------------
(* A set of versions has a newest one.                                     *)
LEMMA MaxKnown ==
  ASSUME NEW S \in SUBSET Versions, S # {}
  PROVE  SetExt!Max(S) \in S /\ \A v \in S : v <= SetExt!Max(S)
  <1> USE FeedsAssumption DEF Versions
  <1> DEFINE T == {MaxChanges - v : v \in S}
             less == OpToRel(<, Nat)
  <1>1. T \subseteq Nat /\ T # {}
    <2>1. \A v \in S : MaxChanges - v \in Nat
      OBVIOUS
    <2>2. PICK v \in S : TRUE
      OBVIOUS
    <2>3. MaxChanges - v \in T
      OBVIOUS
    <2> QED
      BY <2>1, <2>3
  <1>2. PICK x \in T : \A y \in T : <<y, x>> \notin less
    <2> HIDE DEF T
    <2> QED
      BY <1>1, WFMin, NatLessThanWellFounded
  <1>3. \A y \in T : ~(y < x)
    BY <1>1, <1>2 DEF OpToRel
  <1>4. PICK m \in S : x = MaxChanges - m
    OBVIOUS
  <1>5. \A v \in S : m >= v
    <2> TAKE v \in S
    <2>1. ~(MaxChanges - v < MaxChanges - m)
      BY <1>3, <1>4
    <2> QED
      BY <2>1
  <1>6. \E w \in S : \A v \in S : w >= v
    BY <1>5
  <1>7. SetExt!Max(S) \in S /\ \A v \in S : SetExt!Max(S) >= v
    BY <1>6 DEF SetExt!Max
  <1> QED
    BY <1>7

(* A message leaves the front of a stream.                                 *)
LEMMA StreamPopped ==
  ASSUME NEW S, NEW s \in Seq(S), s # << >>
  PROVE  /\ Tail(s) \in Seq(S) /\ Head(s) = s[1] /\ 1 \in DOMAIN s
         /\ \A k \in DOMAIN Tail(s) : k + 1 \in DOMAIN s /\ Tail(s)[k] = s[k + 1] /\ 1 < k + 1
         /\ DOMAIN s \subseteq Nat /\ DOMAIN Tail(s) \subseteq Nat
  OBVIOUS

(* A message is put at its end.                                            *)
LEMMA StreamPushed ==
  ASSUME NEW S, NEW s \in Seq(S), NEW x \in S
  PROVE  /\ Append(s, x) \in Seq(S)
         /\ \A k \in DOMAIN Append(s, x) :
              (k \in DOMAIN s /\ Append(s, x)[k] = s[k]) \/ (k = Len(s) + 1 /\ Append(s, x)[k] = x)
         /\ \A k \in DOMAIN s : k < Len(s) + 1
         /\ \A k \in DOMAIN Append(s, x) : ~(Len(s) + 1 < k)
  OBVIOUS

LEMMA ReceiveStep ==
  ASSUME FeedTypes, NEW c \in Clients, Receive(c)
  PROVE  /\ stream' \in [Clients -> Seq(SUBSET Assets)]
         /\ \A d \in Clients \ {c} : stream'[d] = stream[d]
         /\ 1 \in DOMAIN stream[c]
         /\ \A k \in DOMAIN stream'[c] :
              k + 1 \in DOMAIN stream[c] /\ stream'[c][k] = stream[c][k + 1] /\ 1 < k + 1
         /\ todo[c] = {} /\ storing[c] = NoAsset
         /\ \A t \in Threads \ {c} : todo'[t] = todo[t]
         /\ todo'[c] \in SUBSET Assets
         /\ todo'[c] = {} \/ todo'[c] = stream[c][1]
         /\ Take(c, todo'[c])
         /\ DOMAIN stream[c] \subseteq Nat /\ DOMAIN stream'[c] \subseteq Nat
  <1>1. stream[c] \in Seq(SUBSET Assets) /\ stream[c] # << >> /\ c \in Threads
    BY DEF Receive, FeedTypes, Clients, Threads
  <1>2. stream' = [stream EXCEPT ![c] = Tail(@)]
    BY DEF Receive
  <1>3. /\ Tail(stream[c]) \in Seq(SUBSET Assets) /\ Head(stream[c]) = stream[c][1]
        /\ 1 \in DOMAIN stream[c]
        /\ \A k \in DOMAIN Tail(stream[c]) :
             k + 1 \in DOMAIN stream[c] /\ Tail(stream[c])[k] = stream[c][k + 1] /\ 1 < k + 1
        /\ DOMAIN stream[c] \subseteq Nat /\ DOMAIN Tail(stream[c]) \subseteq Nat
    BY <1>1, StreamPopped
  <1>4. stream'[c] = Tail(stream[c]) /\ \A d \in Clients \ {c} : stream'[d] = stream[d]
    BY <1>2 DEF FeedTypes
  <1>5. stream' \in [Clients -> Seq(SUBSET Assets)]
    BY <1>2, <1>3 DEF FeedTypes
  <1>6. PICK assets \in {Head(stream[c]), {}} : Take(c, assets)
    BY DEF Receive
  <1>7. todo' = [todo EXCEPT ![c] = assets]
    BY <1>6 DEF Take
  <1>8. todo'[c] = assets /\ \A t \in Threads \ {c} : todo'[t] = todo[t]
    BY <1>1, <1>7 DEF FeedTypes
  <1>9. todo[c] = {} /\ storing[c] = NoAsset
    BY DEF Receive, Idle
  <1>10. stream[c][1] \in SUBSET Assets
    BY <1>1, <1>3
  <1> QED
    BY <1>3, <1>4, <1>5, <1>6, <1>8, <1>9, <1>10

LEMMA ChangeStep ==
  ASSUME FeedTypes, NEW c \in Clients, NEW S \in SUBSET Of(c), Change(c, S)
  PROVE  /\ stream' \in [Clients -> Seq(SUBSET Assets)]
         /\ \A d \in Clients \ {c} : stream'[d] = stream[d]
         /\ real' \in [Entries -> Versions] /\ changes' \in 0..MaxChanges
         /\ \A e \in Entries : real[e] <= real'[e] /\ real'[e] <= changes'
         /\ \A k \in DOMAIN stream'[c] :
              \/ k \in DOMAIN stream[c] /\ stream'[c][k] = stream[c][k]
              \/ /\ k = Len(stream[c]) + 1
                 /\ \A a \in stream'[c][k] : a.entry \in S /\ a.version = real'[a.entry]
         /\ \A k \in DOMAIN stream[c] : k < Len(stream[c]) + 1
         /\ \A k \in DOMAIN stream'[c] : ~(Len(stream[c]) + 1 < k)
  <1> USE FeedsAssumption
  <1>1. S \subseteq Entries /\ stream[c] \in Seq(SUBSET Assets)
    BY DEF Of, Entries, FeedTypes
  <1>2. real' \in [Entries -> Versions] /\ changes' \in 0..MaxChanges
    BY DEF Change, FeedTypes, Versions
  <1>3. ASSUME NEW e \in Entries
        PROVE  real[e] <= real'[e] /\ real'[e] <= changes'
    BY DEF Change, FeedTypes, Versions
  <1>4. CASE UNCHANGED stream
    <2>1. \A k \in DOMAIN stream[c] : k < Len(stream[c]) + 1
      BY <1>1
    <2>2. \A k \in DOMAIN stream[c] : ~(Len(stream[c]) + 1 < k)
      BY <1>1
    <2> QED
      BY <1>2, <1>3, <1>4, <2>1, <2>2 DEF FeedTypes
  <1>5. CASE \E integer \in {FALSE, c = Public} :
               stream' = [stream EXCEPT ![c] = Append(@, {Asset(e, integer) : e \in S})]
    <2>0. {FALSE, c = Public} \subseteq BOOLEAN
      OBVIOUS
    <2>1. PICK integer \in BOOLEAN :
            stream' = [stream EXCEPT ![c] = Append(@, {Asset(e, integer) : e \in S})]
      BY <1>5, <2>0, Zenon
    <2> DEFINE x == {Asset(e, integer) : e \in S}
    <2>2. x \in SUBSET Assets
      BY <1>1, <1>2 DEF Asset, Assets
    <2>3. \A a \in x : a.entry \in S /\ a.version = real'[a.entry]
      BY DEF Asset
    <2>4. stream'[c] = Append(stream[c], x) /\ \A d \in Clients \ {c} : stream'[d] = stream[d]
      BY <2>1 DEF FeedTypes
    <2> HIDE DEF x
    <2>5. /\ Append(stream[c], x) \in Seq(SUBSET Assets)
          /\ \A k \in DOMAIN Append(stream[c], x) :
               \/ k \in DOMAIN stream[c] /\ Append(stream[c], x)[k] = stream[c][k]
               \/ k = Len(stream[c]) + 1 /\ Append(stream[c], x)[k] = x
          /\ \A k \in DOMAIN stream[c] : k < Len(stream[c]) + 1
          /\ \A k \in DOMAIN Append(stream[c], x) : ~(Len(stream[c]) + 1 < k)
      BY <1>1, <2>2, StreamPushed
    <2>6. stream' \in [Clients -> Seq(SUBSET Assets)]
      BY <2>1, <2>5 DEF FeedTypes, x
    <2> QED
      BY <1>2, <1>3, <2>3, <2>4, <2>5, <2>6
  <1> QED
    BY <1>4, <1>5 DEF Change

LEMMA DeliveredStep ==
  ASSUME FeedTypes, NEW t \in Threads, NEW assets \in SUBSET Assets, Take(t, assets)
  PROVE  /\ delivered' \in [Entries -> SUBSET Versions]
         /\ todo' \in [Threads -> SUBSET Assets]
         /\ \A e \in Entries : delivered[e] \subseteq delivered'[e]
         /\ \A e \in Entries : \A v \in delivered'[e] \ delivered[e] :
              \E a \in assets : a.entry = e /\ a.version = v
         /\ \A a \in assets : a.version \in delivered'[a.entry]
  <1>1. todo' \in [Threads -> SUBSET Assets]
    BY DEF FeedTypes, Take
  <1>2. ASSUME NEW e \in Entries
        PROVE  delivered'[e] = delivered[e] \cup {a.version : a \in {b \in assets : b.entry = e}}
    BY DEF Take
  <1>3. \A a \in assets : a.entry \in Entries /\ a.version \in Versions
    BY DEF Assets
  <1>4. delivered' \in [Entries -> SUBSET Versions]
    BY <1>3 DEF FeedTypes, Take
  <1> QED
    BY <1>1, <1>2, <1>3, <1>4

(* What the two stores of an asset change.                                 *)
LEMMA FirstStep ==
  ASSUME FeedTypes, NEW t \in Threads, NEW a \in todo[t],
         table' = [table EXCEPT ![a.entry].first = Stored(a)]
  PROVE  /\ a \in Assets /\ a.entry \in Entries /\ a.version \in Versions
         /\ table' \in [Entries -> [first : Versions \cup {Garbage, Misread},
                                    second : Versions \cup {Garbage}]]
         /\ table'[a.entry].first = Stored(a)
         /\ \A e \in Entries : table'[e].second = table[e].second
         /\ \A e \in Entries \ {a.entry} : table'[e] = table[e]
  <1>1. a \in Assets /\ a.entry \in Entries /\ a.version \in Versions
    BY DEF FeedTypes, Assets
  <1>2. Stored(a) \in Versions \cup {Garbage, Misread}
    BY <1>1 DEF Stored
  <1>3. table' = [table EXCEPT ![a.entry] = [table[a.entry] EXCEPT !.first = Stored(a)]]
    OBVIOUS
  <1>4. /\ [table[a.entry] EXCEPT !.first = Stored(a)]
             \in [first : Versions \cup {Garbage, Misread}, second : Versions \cup {Garbage}]
        /\ [table[a.entry] EXCEPT !.first = Stored(a)].first = Stored(a)
        /\ [table[a.entry] EXCEPT !.first = Stored(a)].second = table[a.entry].second
    BY <1>1, <1>2 DEF FeedTypes
  <1> QED
    BY <1>1, <1>3, <1>4 DEF FeedTypes

LEMMA SecondStep ==
  ASSUME FeedTypes, NEW a \in Assets, table' = [table EXCEPT ![a.entry].second = a.version]
  PROVE  /\ a.entry \in Entries /\ a.version \in Versions
         /\ table' \in [Entries -> [first : Versions \cup {Garbage, Misread},
                                    second : Versions \cup {Garbage}]]
         /\ table'[a.entry].second = a.version
         /\ \A e \in Entries : table'[e].first = table[e].first
         /\ \A e \in Entries \ {a.entry} : table'[e] = table[e]
  <1>1. a.entry \in Entries /\ a.version \in Versions
    BY DEF Assets
  <1>2. table' = [table EXCEPT ![a.entry] = [table[a.entry] EXCEPT !.second = a.version]]
    OBVIOUS
  <1>3. /\ [table[a.entry] EXCEPT !.second = a.version]
             \in [first : Versions \cup {Garbage, Misread}, second : Versions \cup {Garbage}]
        /\ [table[a.entry] EXCEPT !.second = a.version].second = a.version
        /\ [table[a.entry] EXCEPT !.second = a.version].first = table[a.entry].first
    BY <1>1 DEF FeedTypes
  <1> QED
    BY <1>1, <1>2, <1>3 DEF FeedTypes

LEMMA StoreFirstStep ==
  ASSUME FeedTypes, NEW t \in Threads, StoreFirst(t)
  PROVE  \E a \in todo[t] :
           /\ a \in Assets /\ a.entry \in Entries /\ a.version \in Versions
           /\ a.entry \in Currencies => lock[a.entry] = NoThread
           /\ lock' = [e \in Currencies |-> IF e = a.entry THEN t ELSE lock[e]]
           /\ storing' = [storing EXCEPT ![t] = a] /\ storing[t] = NoAsset
           /\ table' \in [Entries -> [first : Versions \cup {Garbage, Misread},
                                      second : Versions \cup {Garbage}]]
           /\ table'[a.entry].first = Stored(a)
           /\ \A e \in Entries : table'[e].second = table[e].second
           /\ \A e \in Entries \ {a.entry} : table'[e] = table[e]
           /\ stale' = IF GoesBack(a) THEN stale \cup {a.entry}
                       ELSE IF a.version = Newest(a.entry) THEN stale \ {a.entry}
                       ELSE stale
           /\ UNCHANGED <<exchangeVars, link, request, answer, todo, delivered>>
  BY FirstStep DEF StoreFirst, Newest

LEMMA StoreSecondStep ==
  ASSUME FeedTypes, NEW t \in Threads, StoreSecond(t)
  PROVE  \E a \in Assets :
           /\ a = storing[t] /\ a # NoAsset /\ a.entry \in Entries /\ a.version \in Versions
           /\ lock' = [e \in Currencies |-> IF e = a.entry THEN NoThread ELSE lock[e]]
           /\ storing' = [storing EXCEPT ![t] = NoAsset]
           /\ todo' = [todo EXCEPT ![t] = @ \ {a}]
           /\ table' \in [Entries -> [first : Versions \cup {Garbage, Misread},
                                      second : Versions \cup {Garbage}]]
           /\ table'[a.entry].second = a.version
           /\ \A e \in Entries : table'[e].first = table[e].first
           /\ \A e \in Entries \ {a.entry} : table'[e] = table[e]
           /\ UNCHANGED <<exchangeVars, link, request, answer, delivered, stale>>
  <1>1. storing[t] \in Assets
    BY DEF FeedTypes, StoreSecond
  <1> QED
    BY <1>1, SecondStep DEF StoreSecond

LEMMA ParseStep ==
  ASSUME FeedTypes, SourcesInv, ParseSnapshot
  PROVE  \E assets \in SUBSET Assets :
           /\ Take(Worker, assets)
           /\ \A a \in assets : a.entry \in DOMAIN answer /\ a.version = answer[a.entry]
           /\ request = "answered" /\ request' = "over" /\ todo[Worker] = {}
           /\ UNCHANGED <<exchangeVars, link, answer, storing, lock, table, stale>>
  <1> DEFINE assets == {[entry |-> e, version |-> answer[e], integer |-> FALSE] :
                          e \in DOMAIN answer}
  <1>1. assets \in SUBSET Assets
    <2>1. \A e \in DOMAIN answer : e \in Entries /\ answer[e] \in Versions
      BY DEF FeedTypes, Entries
    <2>2. \A e \in DOMAIN answer :
            [entry |-> e, version |-> answer[e], integer |-> FALSE] \in Assets
      BY <2>1 DEF Assets
    <2> QED
      BY <2>2
  <1>2. \A a \in assets : a.entry \in DOMAIN answer /\ a.version = answer[a.entry]
    OBVIOUS
  <1>3. todo[Worker] = {}
    BY DEF SourcesInv, ParseSnapshot
  <1>4. Take(Worker, assets)
    BY DEF ParseSnapshot
  <1> HIDE DEF assets
  <1> QED
    BY <1>1, <1>2, <1>3, <1>4 DEF ParseSnapshot

-----------------------------------------------------------------------------
LEMMA TypesNext ==
  ASSUME FeedTypes, SourcesInv, [FeedsNext]_feedsVars
  PROVE  FeedTypes'
  <1>1. ASSUME NEW c \in Clients, Established(c)
        PROVE  FeedTypes'
    BY <1>1 DEF Established, exchangeVars, tableVars, FeedTypes, Entries
  <1>2. ASSUME NEW c \in Clients, Subscribe(c)
        PROVE  FeedTypes'
    BY <1>2 DEF Subscribe, exchangeVars, tableVars, FeedTypes, Entries
  <1>3. ASSUME NEW c \in Clients, Receive(c)
        PROVE  FeedTypes'
    <2>1. stream' \in [Clients -> Seq(SUBSET Assets)] /\ Take(c, todo'[c]) /\ c \in Threads
      BY <1>3, ReceiveStep DEF Clients, Threads
    <2>2. todo'[c] \in SUBSET Assets
      BY <1>3, ReceiveStep
    <2>3. delivered' \in [Entries -> SUBSET Versions] /\ todo' \in [Threads -> SUBSET Assets]
      BY <2>1, <2>2, DeliveredStep
    <2> QED
      BY <1>3, <2>1, <2>3 DEF Receive, FeedTypes
  <1>4. ASSUME NEW c \in Clients, NEW S \in SUBSET Of(c), Change(c, S)
        PROVE  FeedTypes'
    <2>1. /\ stream' \in [Clients -> Seq(SUBSET Assets)]
          /\ real' \in [Entries -> Versions] /\ changes' \in 0..MaxChanges
          /\ \A e \in Entries : real'[e] <= changes'
      BY <1>4, ChangeStep
    <2> QED
      BY <1>4, <2>1 DEF Change, FeedTypes, tableVars
  <1>5. CASE AskForSnapshot
    BY <1>5 DEF AskForSnapshot, exchangeVars, tableVars, FeedTypes, Entries
  <1>6. CASE SendSnapshot
    BY <1>6 DEF SendSnapshot, exchangeVars, tableVars, FeedTypes, Entries
  <1>7. CASE AnswerSnapshot
    BY <1>7 DEF AnswerSnapshot, exchangeVars, tableVars, FeedTypes, Entries
  <1>8. CASE SnapshotFails
    BY <1>8 DEF SnapshotFails, exchangeVars, tableVars, FeedTypes, Entries
  <1>9. CASE ParseSnapshot
    <2>1. PICK assets \in SUBSET Assets :
            /\ Take(Worker, assets) /\ request' = "over"
            /\ UNCHANGED <<exchangeVars, link, answer, storing, lock, table, stale>>
      BY <1>9, ParseStep
    <2>2. delivered' \in [Entries -> SUBSET Versions] /\ todo' \in [Threads -> SUBSET Assets]
      BY <2>1, DeliveredStep DEF Threads
    <2> QED
      BY <2>1, <2>2 DEF FeedTypes, exchangeVars
  <1>10. ASSUME NEW t \in Threads, StoreFirst(t)
        PROVE  FeedTypes'
    <2>1. PICK a \in todo[t] :
            /\ a \in Assets /\ a.entry \in Entries
            /\ lock' = [e \in Currencies |-> IF e = a.entry THEN t ELSE lock[e]]
            /\ storing' = [storing EXCEPT ![t] = a]
            /\ table' \in [Entries -> [first : Versions \cup {Garbage, Misread},
                                       second : Versions \cup {Garbage}]]
            /\ stale' \subseteq stale \cup {a.entry}
            /\ UNCHANGED <<exchangeVars, link, request, answer, todo, delivered>>
      BY <1>10, StoreFirstStep
    <2> QED
      BY <2>1 DEF FeedTypes, exchangeVars
  <1>11. ASSUME NEW t \in Threads, StoreSecond(t)
        PROVE  FeedTypes'
    <2>1. PICK a \in Assets :
            /\ lock' = [e \in Currencies |-> IF e = a.entry THEN NoThread ELSE lock[e]]
            /\ storing' = [storing EXCEPT ![t] = NoAsset]
            /\ todo' = [todo EXCEPT ![t] = @ \ {a}]
            /\ table' \in [Entries -> [first : Versions \cup {Garbage, Misread},
                                       second : Versions \cup {Garbage}]]
            /\ UNCHANGED <<exchangeVars, link, request, answer, delivered, stale>>
      BY <1>11, StoreSecondStep
    <2>2. todo' \in [Threads -> SUBSET Assets]
      BY <2>1 DEF FeedTypes
    <2> QED
      BY <2>1, <2>2 DEF FeedTypes, exchangeVars
  <1>12. CASE UNCHANGED feedsVars
    BY <1>12 DEF feedsVars, FeedTypes
  <1> QED
    BY <1>1, <1>2, <1>3, <1>4, <1>5, <1>6, <1>7, <1>8, <1>9, <1>10, <1>11, <1>12
       DEF FeedsNext, Snapshot, Stores

LEMMA SourcesNext ==
  ASSUME FeedTypes, SourcesInv, [FeedsNext]_feedsVars
  PROVE  SourcesInv'
  <1>1. ASSUME NEW c \in Clients, Established(c)
        PROVE  SourcesInv'
    BY <1>1 DEF Established, exchangeVars, tableVars, SourcesInv
  <1>2. ASSUME NEW c \in Clients, Subscribe(c)
        PROVE  SourcesInv'
    BY <1>2 DEF Subscribe, exchangeVars, tableVars, SourcesInv
  <1>3. ASSUME NEW c \in Clients, Receive(c)
        PROVE  SourcesInv'
    <2>1. /\ \A d \in Clients \ {c} : stream'[d] = stream[d] /\ todo'[d] = todo[d]
          /\ todo'[Worker] = todo[Worker]
          /\ \A k \in DOMAIN stream'[c] :
               k + 1 \in DOMAIN stream[c] /\ stream'[c][k] = stream[c][k + 1]
          /\ todo'[c] = {} \/ (1 \in DOMAIN stream[c] /\ todo'[c] = stream[c][1])
      BY <1>3, ReceiveStep, FeedsAssumption DEF Clients, Threads
    <2>2. \A k \in DOMAIN stream'[c] : \A a \in stream'[c][k] : a.entry \in Of(c)
      BY <2>1 DEF SourcesInv
    <2>3. \A a \in todo'[c] : a.entry \in Of(c)
      BY <2>1 DEF SourcesInv
    <2> QED
      BY <1>3, <2>1, <2>2, <2>3 DEF SourcesInv, Receive
  <1>4. ASSUME NEW c \in Clients, NEW S \in SUBSET Of(c), Change(c, S)
        PROVE  SourcesInv'
    <2>1. /\ \A d \in Clients \ {c} : stream'[d] = stream[d]
          /\ \A k \in DOMAIN stream'[c] :
               \/ k \in DOMAIN stream[c] /\ stream'[c][k] = stream[c][k]
               \/ \A a \in stream'[c][k] : a.entry \in S
      BY <1>4, ChangeStep
    <2>2. \A k \in DOMAIN stream'[c] : \A a \in stream'[c][k] : a.entry \in Of(c)
      BY <2>1 DEF SourcesInv
    <2> QED
      BY <1>4, <2>1, <2>2 DEF SourcesInv, Change, tableVars
  <1>5. CASE AskForSnapshot
    BY <1>5 DEF AskForSnapshot, exchangeVars, tableVars, SourcesInv
  <1>6. CASE SendSnapshot
    BY <1>6 DEF SendSnapshot, exchangeVars, tableVars, SourcesInv
  <1>7. CASE AnswerSnapshot
    BY <1>7 DEF AnswerSnapshot, exchangeVars, tableVars, SourcesInv
  <1>8. CASE SnapshotFails
    BY <1>8 DEF SnapshotFails, exchangeVars, tableVars, SourcesInv
  <1>9. CASE ParseSnapshot
    <2>1. PICK assets \in SUBSET Assets :
            /\ Take(Worker, assets) /\ request' = "over"
            /\ \A a \in assets : a.entry \in DOMAIN answer /\ a.version = answer[a.entry]
            /\ UNCHANGED <<exchangeVars, link, answer, storing, lock, table, stale>>
      BY <1>9, ParseStep
    <2>2. todo' = [todo EXCEPT ![Worker] = assets]
      BY <2>1 DEF Take
    <2>3. todo'[Worker] = assets /\ \A c \in Clients : todo'[c] = todo[c]
      BY <2>2, FeedsAssumption DEF FeedTypes, Threads, Clients
    <2> QED
      BY <2>1, <2>3 DEF SourcesInv, exchangeVars
  <1>10. ASSUME NEW t \in Threads, StoreFirst(t)
        PROVE  SourcesInv'
    <2>1. UNCHANGED <<stream, todo, request, answer>>
      BY <1>10 DEF StoreFirst, exchangeVars
    <2> QED
      BY <2>1 DEF SourcesInv
  <1>11. ASSUME NEW t \in Threads, StoreSecond(t)
        PROVE  SourcesInv'
    <2>1. UNCHANGED <<stream, request, answer>>
      BY <1>11 DEF StoreSecond, exchangeVars
    <2>2. \A u \in Threads : todo'[u] \subseteq todo[u]
      BY <1>11, StoreSecondStep DEF FeedTypes
    <2> QED
      BY <2>1, <2>2 DEF SourcesInv, Threads, Clients
  <1>12. CASE UNCHANGED feedsVars
    BY <1>12 DEF feedsVars, SourcesInv
  <1> QED
    BY <1>1, <1>2, <1>3, <1>4, <1>5, <1>6, <1>7, <1>8, <1>9, <1>10, <1>11, <1>12
       DEF FeedsNext, Snapshot, Stores

-----------------------------------------------------------------------------
(* Quotes are stored by the public client alone.                           *)
LEMMA QuotesArePublic ==
  ASSUME FeedTypes, SourcesInv, NEW t \in Threads, NEW a \in todo[t], a.entry \in Quotes
  PROVE  t = Public
  <1>1. t = Worker => a.entry \in Currencies
    BY DEF SourcesInv, FeedTypes
  <1>2. t = Private => a.entry \in Currencies
    BY DEF SourcesInv, Of, Clients
  <1> QED
    BY <1>1, <1>2, FeedsAssumption DEF Threads, Clients

(* No two threads are storing the same entry.                              *)
LEMMA Alone ==
  ASSUME FeedTypes, SourcesInv, StoringInv, NEW t \in Threads, NEW u \in Threads,
         storing[t] # NoAsset, storing[u] # NoAsset, storing[t].entry = storing[u].entry
  PROVE  t = u
  <1>1. storing[t] \in todo[t] /\ storing[u] \in todo[u]
    BY DEF StoringInv
  <1>2. CASE storing[t].entry \in Currencies
    BY <1>2 DEF StoringInv
  <1>3. CASE storing[t].entry \in Quotes
    BY <1>1, <1>3, QuotesArePublic
  <1> QED
    BY <1>1, <1>2, <1>3 DEF FeedTypes, Assets, Entries

(* The thread that begins to store an asset finds nobody storing the same  *)
(* entry.                                                                  *)
LEMMA FreeToStore ==
  ASSUME FeedTypes, SourcesInv, StoringInv, NEW t \in Threads, NEW a \in todo[t],
         storing[t] = NoAsset, a.entry \in Currencies => lock[a.entry] = NoThread,
         NEW u \in Threads, storing[u] # NoAsset
  PROVE  storing[u].entry # a.entry /\ u # t
  <1> SUFFICES ASSUME storing[u].entry = a.entry
               PROVE  FALSE
    OBVIOUS
  <1>1. storing[u] \in todo[u]
    BY DEF StoringInv
  <1>2. CASE a.entry \in Currencies
    BY <1>2, FeedsAssumption DEF StoringInv
  <1>3. CASE a.entry \in Quotes
    BY <1>1, <1>3, QuotesArePublic
  <1> QED
    BY <1>2, <1>3 DEF FeedTypes, Assets, Entries

LEMMA StoringNext ==
  ASSUME FeedTypes, SourcesInv, StoringInv, [FeedsNext]_feedsVars
  PROVE  StoringInv'
  <1>1. ASSUME NEW c \in Clients, Established(c)
        PROVE  StoringInv'
    BY <1>1 DEF Established, exchangeVars, tableVars, StoringInv, Stored
  <1>2. ASSUME NEW c \in Clients, Subscribe(c)
        PROVE  StoringInv'
    BY <1>2 DEF Subscribe, exchangeVars, tableVars, StoringInv, Stored
  <1>3. ASSUME NEW c \in Clients, Receive(c)
        PROVE  StoringInv'
    <2>1. storing[c] = NoAsset /\ \A t \in Threads \ {c} : todo'[t] = todo[t]
      BY <1>3, ReceiveStep
    <2>2. UNCHANGED <<storing, lock, table>>
      BY <1>3 DEF Receive
    <2> QED
      BY <2>1, <2>2 DEF StoringInv, Stored
  <1>4. ASSUME NEW c \in Clients, NEW S \in SUBSET Of(c), Change(c, S)
        PROVE  StoringInv'
    BY <1>4 DEF Change, exchangeVars, tableVars, StoringInv, Stored
  <1>5. CASE AskForSnapshot
    BY <1>5 DEF AskForSnapshot, exchangeVars, tableVars, StoringInv, Stored
  <1>6. CASE SendSnapshot
    BY <1>6 DEF SendSnapshot, exchangeVars, tableVars, StoringInv, Stored
  <1>7. CASE AnswerSnapshot
    BY <1>7 DEF AnswerSnapshot, exchangeVars, tableVars, StoringInv, Stored
  <1>8. CASE SnapshotFails
    BY <1>8 DEF SnapshotFails, exchangeVars, tableVars, StoringInv, Stored
  <1>9. CASE ParseSnapshot
    <2>1. /\ todo[Worker] = {} /\ \A t \in Threads \ {Worker} : todo'[t] = todo[t]
          /\ UNCHANGED <<storing, lock, table>>
      BY <1>9, ParseStep DEF Take, FeedTypes
    <2> QED
      BY <2>1 DEF StoringInv, Stored
  <1>10. ASSUME NEW t \in Threads, StoreFirst(t)
        PROVE  StoringInv'
    <2>1. PICK a \in todo[t] :
            /\ a \in Assets /\ a.entry \in Entries
            /\ a.entry \in Currencies => lock[a.entry] = NoThread
            /\ lock' = [e \in Currencies |-> IF e = a.entry THEN t ELSE lock[e]]
            /\ storing' = [storing EXCEPT ![t] = a] /\ storing[t] = NoAsset
            /\ table'[a.entry].first = Stored(a)
            /\ \A e \in Entries \ {a.entry} : table'[e] = table[e]
            /\ UNCHANGED todo
      BY <1>10, StoreFirstStep
    <2>2. a # NoAsset
      BY <2>1, FeedsAssumption DEF Assets, Versions
    <2>3. storing'[t] = a /\ \A u \in Threads \ {t} : storing'[u] = storing[u]
      BY <2>1 DEF FeedTypes
    <2>4. \A u \in Threads : storing[u] # NoAsset => storing[u].entry # a.entry /\ u # t
      BY <2>1, FreeToStore
    <2>5. \A u \in Threads : storing'[u] = NoAsset \/ storing'[u] \in todo'[u]
      BY <2>1, <2>3 DEF StoringInv
    <2>6. ASSUME NEW e \in Currencies, NEW u \in Threads
          PROVE  lock'[e] = u <=> storing'[u] # NoAsset /\ storing'[u].entry = e
      BY <2>1, <2>2, <2>3, <2>4 DEF StoringInv
    <2>7. ASSUME NEW u \in Threads, storing'[u] # NoAsset
          PROVE  table'[storing'[u].entry].first = Stored(storing'[u])
      <3>1. CASE u = t
        BY <2>1, <2>3, <3>1
      <3>2. CASE u # t
        <4>1. storing'[u] = storing[u] /\ storing[u] # NoAsset /\ storing[u].entry # a.entry
          BY <2>3, <2>4, <2>7, <3>2
        <4>2. storing[u].entry \in Entries
          BY <4>1 DEF FeedTypes, Assets
        <4> QED
          BY <2>1, <4>1, <4>2 DEF StoringInv
      <3> QED
        BY <3>1, <3>2
    <2> QED
      BY <2>5, <2>6, <2>7 DEF StoringInv, Stored
  <1>11. ASSUME NEW t \in Threads, StoreSecond(t)
        PROVE  StoringInv'
    <2>1. PICK a \in Assets :
            /\ a = storing[t] /\ a # NoAsset /\ a.entry \in Entries
            /\ lock' = [e \in Currencies |-> IF e = a.entry THEN NoThread ELSE lock[e]]
            /\ storing' = [storing EXCEPT ![t] = NoAsset]
            /\ todo' = [todo EXCEPT ![t] = @ \ {a}]
            /\ \A e \in Entries : table'[e].first = table[e].first
      BY <1>11, StoreSecondStep
    <2>2. /\ storing'[t] = NoAsset
          /\ \A u \in Threads \ {t} : storing'[u] = storing[u] /\ todo'[u] = todo[u]
      BY <2>1 DEF FeedTypes
    <2>3. \A u \in Threads \ {t} : storing[u] # NoAsset => storing[u].entry # a.entry
      BY <2>1, Alone
    <2>4. \A u \in Threads : storing'[u] = NoAsset \/ storing'[u] \in todo'[u]
      BY <2>2 DEF StoringInv
    <2>5. ASSUME NEW e \in Currencies, NEW u \in Threads
          PROVE  lock'[e] = u <=> storing'[u] # NoAsset /\ storing'[u].entry = e
      BY <2>1, <2>2, <2>3, FeedsAssumption DEF StoringInv
    <2>6. ASSUME NEW u \in Threads, storing'[u] # NoAsset
          PROVE  table'[storing'[u].entry].first = Stored(storing'[u])
      <3>1. storing'[u] = storing[u] /\ storing[u] # NoAsset
        BY <2>2, <2>6
      <3>2. storing[u].entry \in Entries
        BY <3>1 DEF FeedTypes, Assets
      <3> QED
        BY <2>1, <3>1, <3>2 DEF StoringInv
    <2> QED
      BY <2>4, <2>5, <2>6 DEF StoringInv, Stored
  <1>12. CASE UNCHANGED feedsVars
    BY <1>12 DEF feedsVars, StoringInv, Stored
  <1> QED
    BY <1>1, <1>2, <1>3, <1>4, <1>5, <1>6, <1>7, <1>8, <1>9, <1>10, <1>11, <1>12
       DEF FeedsNext, Snapshot, Stores

LEMMA WholeNext ==
  ASSUME FeedTypes, StoringInv, EntriesWhole, [FeedsNext]_feedsVars
  PROVE  EntriesWhole'
  <1>1. ASSUME NEW c \in Clients, Established(c)
        PROVE  EntriesWhole'
    <2>1. UNCHANGED <<table, storing>>
      BY <1>1 DEF Established, tableVars
    <2> QED
      BY <2>1 DEF EntriesWhole, Whole
  <1>2. ASSUME NEW c \in Clients, Subscribe(c)
        PROVE  EntriesWhole'
    <2>1. UNCHANGED <<table, storing>>
      BY <1>2 DEF Subscribe, tableVars
    <2> QED
      BY <2>1 DEF EntriesWhole, Whole
  <1>3. ASSUME NEW c \in Clients, Receive(c)
        PROVE  EntriesWhole'
    <2>1. UNCHANGED <<table, storing>>
      BY <1>3 DEF Receive, tableVars
    <2> QED
      BY <2>1 DEF EntriesWhole, Whole
  <1>4. ASSUME NEW c \in Clients, NEW S \in SUBSET Of(c), Change(c, S)
        PROVE  EntriesWhole'
    <2>1. UNCHANGED <<table, storing>>
      BY <1>4 DEF Change, tableVars
    <2> QED
      BY <2>1 DEF EntriesWhole, Whole
  <1>5. CASE AskForSnapshot
    <2>1. UNCHANGED <<table, storing>>
      BY <1>5 DEF AskForSnapshot, tableVars
    <2> QED
      BY <2>1 DEF EntriesWhole, Whole
  <1>6. CASE SendSnapshot
    <2>1. UNCHANGED <<table, storing>>
      BY <1>6 DEF SendSnapshot, tableVars
    <2> QED
      BY <2>1 DEF EntriesWhole, Whole
  <1>7. CASE AnswerSnapshot
    <2>1. UNCHANGED <<table, storing>>
      BY <1>7 DEF AnswerSnapshot, tableVars
    <2> QED
      BY <2>1 DEF EntriesWhole, Whole
  <1>8. CASE SnapshotFails
    <2>1. UNCHANGED <<table, storing>>
      BY <1>8 DEF SnapshotFails, tableVars
    <2> QED
      BY <2>1 DEF EntriesWhole, Whole
  <1>9. CASE ParseSnapshot
    <2>1. UNCHANGED <<table, storing>>
      BY <1>9 DEF ParseSnapshot, tableVars
    <2> QED
      BY <2>1 DEF EntriesWhole, Whole
  <1>10. ASSUME NEW t \in Threads, StoreFirst(t)
        PROVE  EntriesWhole'
    <2>1. PICK a \in todo[t] :
            /\ a \in Assets
            /\ storing' = [storing EXCEPT ![t] = a] /\ storing[t] = NoAsset
            /\ \A e \in Entries \ {a.entry} : table'[e] = table[e]
      BY <1>10, StoreFirstStep
    <2>2. a # NoAsset
      BY <2>1, FeedsAssumption DEF Assets, Versions
    <2>3. storing'[t] = a /\ \A u \in Threads \ {t} : storing'[u] = storing[u]
      BY <2>1 DEF FeedTypes
    <2> SUFFICES ASSUME NEW e \in Entries
                 PROVE  Whole(table'[e])
                          \/ \E u \in Threads : storing'[u] # NoAsset /\ storing'[u].entry = e
      BY DEF EntriesWhole, Whole
    <2>4. CASE e = a.entry
      BY <2>2, <2>3, <2>4
    <2>5. CASE e # a.entry
      <3>1. table'[e] = table[e]
        BY <2>1, <2>5
      <3>2. CASE Whole(table[e])
        BY <3>1, <3>2
      <3>3. CASE \E u \in Threads : storing[u] # NoAsset /\ storing[u].entry = e
        <4>1. PICK u \in Threads : storing[u] # NoAsset /\ storing[u].entry = e
          BY <3>3
        <4>2. storing'[u] = storing[u]
          BY <2>1, <2>3, <4>1
        <4> QED
          BY <4>1, <4>2
      <3> QED
        BY <3>2, <3>3 DEF EntriesWhole
    <2> QED
      BY <2>4, <2>5
  <1>11. ASSUME NEW t \in Threads, StoreSecond(t)
        PROVE  EntriesWhole'
    <2>1. PICK a \in Assets :
            /\ a = storing[t] /\ a # NoAsset /\ a.entry \in Entries /\ a.version \in Versions
            /\ storing' = [storing EXCEPT ![t] = NoAsset]
            /\ table'[a.entry].second = a.version
            /\ \A e \in Entries : table'[e].first = table[e].first
            /\ \A e \in Entries \ {a.entry} : table'[e] = table[e]
      BY <1>11, StoreSecondStep
    <2>2. \A u \in Threads \ {t} : storing'[u] = storing[u]
      BY <2>1 DEF FeedTypes
    <2> SUFFICES ASSUME NEW e \in Entries
                 PROVE  Whole(table'[e])
                          \/ \E u \in Threads : storing'[u] # NoAsset /\ storing'[u].entry = e
      BY DEF EntriesWhole, Whole
    <2>3. CASE e = a.entry
      <3>1. table'[e].first = Stored(a) /\ table'[e].second = a.version
        BY <2>1, <2>3 DEF StoringInv
      <3>2. a.version # Garbage
        BY <2>1, FeedsAssumption DEF Versions
      <3>3. Stored(a) = a.version \/ Stored(a) = Misread
        BY DEF Stored
      <3> QED
        BY <3>1, <3>2, <3>3 DEF Whole
    <2>4. CASE e # a.entry
      <3>1. table'[e] = table[e]
        BY <2>1, <2>4
      <3>2. CASE Whole(table[e])
        BY <3>1, <3>2
      <3>3. CASE \E u \in Threads : storing[u] # NoAsset /\ storing[u].entry = e
        <4>1. PICK u \in Threads : storing[u] # NoAsset /\ storing[u].entry = e
          BY <3>3
        <4>2. storing'[u] = storing[u]
          BY <2>1, <2>2, <2>4, <4>1
        <4> QED
          BY <4>1, <4>2
      <3> QED
        BY <3>2, <3>3 DEF EntriesWhole
    <2> QED
      BY <2>3, <2>4
  <1>12. CASE UNCHANGED feedsVars
    BY <1>12 DEF feedsVars, EntriesWhole, Whole
  <1> QED
    BY <1>1, <1>2, <1>3, <1>4, <1>5, <1>6, <1>7, <1>8, <1>9, <1>10, <1>11, <1>12
       DEF FeedsNext, Snapshot, Stores

-----------------------------------------------------------------------------
(* A thread with nothing to do takes a message: the newest version of an   *)
(* entry is the old one, or the message brings it.                         *)
LEMMA TakeKeeps ==
  ASSUME FeedTypes, PendingInv, NEW t \in Threads, NEW assets \in SUBSET Assets,
         Take(t, assets), todo[t] = {}, UNCHANGED <<storing, table, stale>>
  PROVE  PendingInv'
  <1>1. /\ delivered' \in [Entries -> SUBSET Versions]
        /\ \A e \in Entries : delivered[e] \subseteq delivered'[e]
        /\ \A e \in Entries : \A v \in delivered'[e] \ delivered[e] :
             \E a \in assets : a.entry = e /\ a.version = v
        /\ \A a \in assets : a.version \in delivered'[a.entry]
    BY DeliveredStep
  <1>2. todo'[t] = assets /\ \A u \in Threads \ {t} : todo'[u] = todo[u]
    BY DEF Take, FeedTypes
  <1>3. ASSUME NEW u \in Threads, NEW a \in todo'[u]
        PROVE  a.version \in delivered'[a.entry]
    <2>1. CASE u = t
      BY <1>1, <1>2, <1>3, <2>1
    <2>2. CASE u # t
      <3>1. a \in todo[u] /\ a.entry \in Entries
        BY <1>2, <1>3, <2>2 DEF FeedTypes, Assets
      <3> QED
        BY <1>1, <3>1 DEF PendingInv
    <2> QED
      BY <2>1, <2>2
  <1>4. ASSUME NEW e \in Entries, delivered'[e] = {}
        PROVE  table'[e] = Nothing
    BY <1>1, <1>4 DEF PendingInv
  <1>5. ASSUME NEW e \in Entries, delivered'[e] # {}
        PROVE  \/ e \in stale'
               \/ \E u \in Threads : \E a \in todo'[u] :
                    a.entry = e /\ a.version = SetExt!Max(delivered'[e])
               \/ /\ table'[e].second = SetExt!Max(delivered'[e])
                  /\ \A u \in Threads : storing'[u] # NoAsset /\ storing'[u].entry = e =>
                       storing'[u].version = SetExt!Max(delivered'[e])
    <2> DEFINE m == SetExt!Max(delivered'[e])
    <2>1. m \in delivered'[e] /\ \A v \in delivered'[e] : v <= m
      BY <1>1, <1>5, MaxKnown
    <2> HIDE DEF m
    <2>2. CASE m \notin delivered[e]
      <3>1. \E a \in assets : a.entry = e /\ a.version = m
        BY <1>1, <2>1, <2>2
      <3> QED
        BY <1>2, <3>1 DEF m
    <2>3. CASE m \in delivered[e]
      <3>1. Newest(e) \in delivered[e] /\ \A v \in delivered[e] : v <= Newest(e)
        BY <2>3, MaxKnown DEF FeedTypes, Newest
      <3>2. Newest(e) <= m /\ m <= Newest(e)
        BY <1>1, <2>1, <2>3, <3>1
      <3>3. Newest(e) \in Nat /\ m \in Nat
        BY <1>1, <2>1, <3>1, FeedsAssumption DEF FeedTypes, Versions
      <3>4. Newest(e) = m
        BY <3>2, <3>3
      <3>5. \/ e \in stale
            \/ \E u \in Threads : \E a \in todo[u] : a.entry = e /\ a.version = m
            \/ /\ table[e].second = m
               /\ \A u \in Threads :
                    storing[u] # NoAsset /\ storing[u].entry = e => storing[u].version = m
        BY <2>3, <3>4 DEF PendingInv
      <3>6. ASSUME NEW u \in Threads, NEW a \in todo[u], a.entry = e, a.version = m
            PROVE  \E w \in Threads : \E b \in todo'[w] : b.entry = e /\ b.version = m
        BY <1>2, <3>6
      <3> QED
        BY <3>5, <3>6 DEF m
    <2> QED
      BY <2>2, <2>3
  <1> QED
    BY <1>3, <1>4, <1>5 DEF PendingInv, Newest, Nothing

LEMMA PendingNext ==
  ASSUME FeedTypes, SourcesInv, StoringInv, PendingInv, [FeedsNext]_feedsVars
  PROVE  PendingInv'
  <1>1. ASSUME NEW c \in Clients, Established(c)
        PROVE  PendingInv'
    <2>1. UNCHANGED <<todo, storing, table, delivered, stale>>
      BY <1>1 DEF Established, tableVars
    <2> QED
      BY <2>1 DEF PendingInv, Newest, Nothing
  <1>2. ASSUME NEW c \in Clients, Subscribe(c)
        PROVE  PendingInv'
    <2>1. UNCHANGED <<todo, storing, table, delivered, stale>>
      BY <1>2 DEF Subscribe, tableVars
    <2> QED
      BY <2>1 DEF PendingInv, Newest, Nothing
  <1>3. ASSUME NEW c \in Clients, Receive(c)
        PROVE  PendingInv'
    <2>1. Take(c, todo'[c]) /\ todo'[c] \in SUBSET Assets /\ todo[c] = {} /\ c \in Threads
      BY <1>3, ReceiveStep DEF Clients, Threads
    <2>2. UNCHANGED <<storing, table, stale>>
      BY <1>3 DEF Receive
    <2> QED
      BY <2>1, <2>2, TakeKeeps
  <1>4. ASSUME NEW c \in Clients, NEW S \in SUBSET Of(c), Change(c, S)
        PROVE  PendingInv'
    <2>1. UNCHANGED <<todo, storing, table, delivered, stale>>
      BY <1>4 DEF Change, tableVars
    <2> QED
      BY <2>1 DEF PendingInv, Newest, Nothing
  <1>5. CASE AskForSnapshot
    <2>1. UNCHANGED <<todo, storing, table, delivered, stale>>
      BY <1>5 DEF AskForSnapshot, tableVars
    <2> QED
      BY <2>1 DEF PendingInv, Newest, Nothing
  <1>6. CASE SendSnapshot
    <2>1. UNCHANGED <<todo, storing, table, delivered, stale>>
      BY <1>6 DEF SendSnapshot, tableVars
    <2> QED
      BY <2>1 DEF PendingInv, Newest, Nothing
  <1>7. CASE AnswerSnapshot
    <2>1. UNCHANGED <<todo, storing, table, delivered, stale>>
      BY <1>7 DEF AnswerSnapshot, tableVars
    <2> QED
      BY <2>1 DEF PendingInv, Newest, Nothing
  <1>8. CASE SnapshotFails
    <2>1. UNCHANGED <<todo, storing, table, delivered, stale>>
      BY <1>8 DEF SnapshotFails, tableVars
    <2> QED
      BY <2>1 DEF PendingInv, Newest, Nothing
  <1>9. CASE ParseSnapshot
    <2>1. PICK assets \in SUBSET Assets :
            Take(Worker, assets) /\ todo[Worker] = {} /\ UNCHANGED <<storing, table, stale>>
      BY <1>9, ParseStep
    <2> QED
      BY <2>1, TakeKeeps DEF Threads
  <1>10. ASSUME NEW t \in Threads, StoreFirst(t)
        PROVE  PendingInv'
    <2>1. PICK a \in todo[t] :
            /\ a \in Assets /\ a.entry \in Entries /\ a.version \in Versions
            /\ storing' = [storing EXCEPT ![t] = a] /\ storing[t] = NoAsset
            /\ \A e \in Entries : table'[e].second = table[e].second
            /\ \A e \in Entries \ {a.entry} : table'[e] = table[e]
            /\ stale' = IF GoesBack(a) THEN stale \cup {a.entry}
                        ELSE IF a.version = Newest(a.entry) THEN stale \ {a.entry}
                        ELSE stale
            /\ UNCHANGED <<todo, delivered>>
      BY <1>10, StoreFirstStep
    <2>2. a.version \in delivered[a.entry]
      BY <2>1 DEF PendingInv
    <2>3. storing'[t] = a /\ \A u \in Threads \ {t} : storing'[u] = storing[u]
      BY <2>1 DEF FeedTypes
    <2>4. \A u \in Threads : \A b \in todo'[u] : b.version \in delivered'[b.entry]
      BY <2>1 DEF PendingInv
    <2>5. ASSUME NEW e \in Entries, delivered'[e] = {}
          PROVE  table'[e] = Nothing
      BY <2>1, <2>2, <2>5 DEF PendingInv
    <2>6. ASSUME NEW e \in Entries, delivered[e] # {}
          PROVE  \/ e \in stale'
                 \/ \E u \in Threads : \E b \in todo[u] : b.entry = e /\ b.version = Newest(e)
                 \/ /\ table'[e].second = Newest(e)
                    /\ \A u \in Threads : storing'[u] # NoAsset /\ storing'[u].entry = e =>
                         storing'[u].version = Newest(e)
      <3>1. \/ e \in stale
            \/ \E u \in Threads : \E b \in todo[u] : b.entry = e /\ b.version = Newest(e)
            \/ /\ table[e].second = Newest(e)
               /\ \A u \in Threads : storing[u] # NoAsset /\ storing[u].entry = e =>
                    storing[u].version = Newest(e)
        BY <2>6 DEF PendingInv
      <3>2. CASE e # a.entry
        <4>1. e \in stale => e \in stale'
          BY <2>1, <3>2
        <4>2. ASSUME NEW u \in Threads, storing'[u] # NoAsset, storing'[u].entry = e
              PROVE  storing[u] = storing'[u]
          BY <2>3, <3>2, <4>2
        <4> QED
          BY <2>1, <3>1, <4>1, <4>2
      <3>3. CASE e = a.entry /\ a.version # Newest(e)
        <4>1. table[e].second = Newest(e) => GoesBack(a)
          <5>1. Newest(e) \in delivered[e] /\ \A v \in delivered[e] : v <= Newest(e)
            BY <2>6, MaxKnown DEF FeedTypes, Newest
          <5>2. Newest(e) \in Nat /\ a.version \in Nat /\ a.version <= Newest(e)
            BY <2>1, <2>2, <3>3, <5>1, FeedsAssumption DEF FeedTypes, Versions
          <5> QED
            BY <3>3, <5>2, FeedsAssumption DEF GoesBack
        <4> QED
          BY <2>1, <3>1, <3>3, <4>1
      <3>4. CASE e = a.entry /\ a.version = Newest(e)
        BY <3>4
      <3> QED
        BY <3>2, <3>3, <3>4
    <2> QED
      BY <2>1, <2>4, <2>5, <2>6 DEF PendingInv, Newest, Nothing
  <1>11. ASSUME NEW t \in Threads, StoreSecond(t)
        PROVE  PendingInv'
    <2>1. PICK a \in Assets :
            /\ a = storing[t] /\ a # NoAsset /\ a.entry \in Entries
            /\ storing' = [storing EXCEPT ![t] = NoAsset]
            /\ todo' = [todo EXCEPT ![t] = @ \ {a}]
            /\ table'[a.entry].second = a.version
            /\ \A e \in Entries \ {a.entry} : table'[e] = table[e]
            /\ UNCHANGED <<delivered, stale>>
      BY <1>11, StoreSecondStep
    <2>2. a \in todo[t] /\ a.version \in delivered[a.entry]
      BY <2>1 DEF PendingInv, StoringInv
    <2>3. /\ storing'[t] = NoAsset /\ todo'[t] = todo[t] \ {a}
          /\ \A u \in Threads \ {t} : storing'[u] = storing[u] /\ todo'[u] = todo[u]
      BY <2>1 DEF FeedTypes
    <2>4. \A u \in Threads : \A b \in todo'[u] : b.version \in delivered'[b.entry]
      BY <2>1, <2>3 DEF PendingInv
    <2>5. ASSUME NEW e \in Entries, delivered'[e] = {}
          PROVE  table'[e] = Nothing
      BY <2>1, <2>2, <2>5 DEF PendingInv
    <2>6. ASSUME NEW e \in Entries, delivered[e] # {}
          PROVE  \/ e \in stale
                 \/ \E u \in Threads : \E b \in todo'[u] : b.entry = e /\ b.version = Newest(e)
                 \/ /\ table'[e].second = Newest(e)
                    /\ \A u \in Threads : storing'[u] # NoAsset /\ storing'[u].entry = e =>
                         storing'[u].version = Newest(e)
      <3>1. \/ e \in stale
            \/ \E u \in Threads : \E b \in todo[u] : b.entry = e /\ b.version = Newest(e)
            \/ /\ table[e].second = Newest(e)
               /\ \A u \in Threads : storing[u] # NoAsset /\ storing[u].entry = e =>
                    storing[u].version = Newest(e)
        BY <2>6 DEF PendingInv
      <3>2. ASSUME NEW u \in Threads, NEW b \in todo[u], b # a
            PROVE  b \in todo'[u]
        BY <2>3, <3>2
      <3>3. CASE e = a.entry /\ a.version = Newest(e)
        <4>1. \A u \in Threads : ~(storing'[u] # NoAsset /\ storing'[u].entry = e)
          BY <2>1, <2>3, <3>3, Alone
        <4> QED
          BY <2>1, <3>3, <4>1
      <3>4. CASE e = a.entry /\ a.version # Newest(e)
        <4>1. ASSUME NEW u \in Threads, NEW b \in todo[u], b.version = Newest(e)
              PROVE  b \in todo'[u]
          BY <3>2, <3>4, <4>1
        <4>2. ~(\A u \in Threads : storing[u] # NoAsset /\ storing[u].entry = e =>
                  storing[u].version = Newest(e))
          BY <2>1, <3>4
        <4> QED
          BY <3>1, <4>1, <4>2
      <3>5. CASE e # a.entry
        <4>1. ASSUME NEW u \in Threads, NEW b \in todo[u], b.entry = e
              PROVE  b \in todo'[u]
          BY <3>2, <3>5, <4>1
        <4>2. table'[e] = table[e]
          BY <2>1, <3>5
        <4>3. \A u \in Threads : storing'[u] # NoAsset => storing'[u] = storing[u]
          BY <2>3
        <4> QED
          BY <3>1, <4>1, <4>2, <4>3
      <3> QED
        BY <3>3, <3>4, <3>5
    <2> QED
      BY <2>1, <2>4, <2>5, <2>6 DEF PendingInv, Newest, Nothing
  <1>12. CASE UNCHANGED feedsVars
    BY <1>12 DEF feedsVars, PendingInv, Newest, Nothing
  <1> QED
    BY <1>1, <1>2, <1>3, <1>4, <1>5, <1>6, <1>7, <1>8, <1>9, <1>10, <1>11, <1>12
       DEF FeedsNext, Snapshot, Stores

LEMMA OrderNext ==
  ASSUME FeedTypes, SourcesInv, OrderInv, [FeedsNext]_feedsVars
  PROVE  OrderInv'
  <1>1. ASSUME NEW c \in Clients, Established(c)
        PROVE  OrderInv'
    <2>1. UNCHANGED <<real, stream, todo>>
      BY <1>1 DEF Established, exchangeVars, tableVars
    <2> QED
      BY <2>1 DEF OrderInv
  <1>2. ASSUME NEW c \in Clients, Subscribe(c)
        PROVE  OrderInv'
    <2>1. UNCHANGED <<real, stream, todo>>
      BY <1>2 DEF Subscribe, exchangeVars, tableVars
    <2> QED
      BY <2>1 DEF OrderInv
  <1>3. ASSUME NEW c \in Clients, Receive(c)
        PROVE  OrderInv'
    <2>1. /\ \A d \in Clients \ {c} : stream'[d] = stream[d] /\ todo'[d] = todo[d]
          /\ 1 \in DOMAIN stream[c]
          /\ \A k \in DOMAIN stream'[c] :
               k + 1 \in DOMAIN stream[c] /\ stream'[c][k] = stream[c][k + 1] /\ 1 < k + 1
          /\ todo'[c] = {} \/ todo'[c] = stream[c][1]
          /\ DOMAIN stream'[c] \subseteq Nat
          /\ UNCHANGED real
      BY <1>3, ReceiveStep, ZenonT(30) DEF Receive, Clients, Threads
    <2>2. \A i, j \in DOMAIN stream'[c] : i < j => i + 1 < j + 1
      BY <2>1
    <2>3. /\ \A i \in DOMAIN stream'[c] : \A a \in stream'[c][i] : a.version <= real[a.entry]
          /\ \A a \in todo'[c] : a.version <= real[a.entry]
          /\ \A i \in DOMAIN stream'[c] : \A a, b \in stream'[c][i] :
               a.entry = b.entry => a.version = b.version
          /\ \A a, b \in todo'[c] : a.entry = b.entry => a.version = b.version
      BY <2>1 DEF OrderInv
    <2>4. \A i, j \in DOMAIN stream'[c] : \A a \in stream'[c][i], b \in stream'[c][j] :
            i < j /\ a.entry = b.entry => a.version <= b.version
      BY <2>1, <2>2 DEF OrderInv
    <2>5. \A i \in DOMAIN stream'[c] : \A a \in todo'[c], b \in stream'[c][i] :
            a.entry = b.entry => a.version <= b.version
      BY <2>1 DEF OrderInv
    <2> QED
      BY <2>1, <2>3, <2>4, <2>5 DEF OrderInv
  <1>4. ASSUME NEW c \in Clients, NEW S \in SUBSET Of(c), Change(c, S)
        PROVE  OrderInv'
    <2>1. /\ \A d \in Clients \ {c} : stream'[d] = stream[d]
          /\ \A e \in Entries : real[e] <= real'[e]
          /\ \A k \in DOMAIN stream'[c] :
               \/ k \in DOMAIN stream[c] /\ stream'[c][k] = stream[c][k]
               \/ /\ k = Len(stream[c]) + 1
                  /\ \A a \in stream'[c][k] : a.version = real'[a.entry]
          /\ \A k \in DOMAIN stream[c] : k < Len(stream[c]) + 1
          /\ \A k \in DOMAIN stream'[c] : ~(Len(stream[c]) + 1 < k)
          /\ stream' \in [Clients -> Seq(SUBSET Assets)]
          /\ real' \in [Entries -> Versions]
      BY <1>4, ChangeStep
    <2>2. UNCHANGED todo
      BY <1>4 DEF Change, tableVars
    <2>3. \A e \in Entries : real[e] \in Nat /\ real'[e] \in Nat
      BY <2>1, FeedsAssumption DEF FeedTypes, Versions
    <2>4. ASSUME NEW a \in Assets, a.version <= real[a.entry]
          PROVE  a.version <= real'[a.entry]
      <3>1. a.entry \in Entries /\ a.version \in Nat
        BY FeedsAssumption DEF Assets, Versions
      <3> QED
        BY <2>1, <2>3, <2>4, <3>1
    <2>5. /\ \A d \in Clients : \A i \in DOMAIN stream[d] : stream[d][i] \subseteq Assets
          /\ \A d \in Clients : \A i \in DOMAIN stream'[d] : stream'[d][i] \subseteq Assets
          /\ \A d \in Clients : todo[d] \subseteq Assets
      BY <2>1 DEF FeedTypes, Clients, Threads
    <2>6. \A e \in Entries : real'[e] <= real'[e]
      BY <2>3
    <2>7. /\ \A i \in DOMAIN stream'[c] : \A a \in stream'[c][i] : a.version <= real'[a.entry]
          /\ \A d \in Clients : \A a \in todo[d] : a.version <= real'[a.entry]
          /\ \A d \in Clients : \A i \in DOMAIN stream[d] : \A a \in stream[d][i] :
               a.version <= real'[a.entry]
      <3>1. \A a \in Assets : a.entry \in Entries
        BY DEF Assets
      <3> QED
        BY <2>1, <2>4, <2>5, <2>6, <3>1 DEF OrderInv
    <2>8. \A i \in DOMAIN stream'[c] : \A a, b \in stream'[c][i] :
            a.entry = b.entry => a.version = b.version
      BY <2>1 DEF OrderInv
    <2>9. ASSUME NEW i \in DOMAIN stream'[c], NEW j \in DOMAIN stream'[c],
                 NEW a \in stream'[c][i], NEW b \in stream'[c][j], i < j, a.entry = b.entry
          PROVE  a.version <= b.version
      <3>1. i \in DOMAIN stream[c] /\ stream'[c][i] = stream[c][i]
        BY <2>1, <2>9
      <3>2. CASE j \in DOMAIN stream[c] /\ stream'[c][j] = stream[c][j]
        BY <2>9, <3>1, <3>2 DEF OrderInv
      <3>3. CASE b.version = real'[b.entry]
        BY <2>7, <2>9, <3>3
      <3> QED
        BY <2>1, <3>2, <3>3
    <2>10. ASSUME NEW i \in DOMAIN stream'[c], NEW a \in todo[c], NEW b \in stream'[c][i],
                  a.entry = b.entry
           PROVE  a.version <= b.version
      <3>1. CASE i \in DOMAIN stream[c] /\ stream'[c][i] = stream[c][i]
        BY <2>10, <3>1 DEF OrderInv
      <3>2. CASE b.version = real'[b.entry]
        BY <2>7, <2>10, <3>2
      <3> QED
        BY <2>1, <3>1, <3>2
    <2>11. ASSUME NEW d \in Clients, d # c
           PROVE  stream'[d] = stream[d]
      BY <2>1, <2>11
    <2> QED
      BY <2>2, <2>7, <2>8, <2>9, <2>10, <2>11 DEF OrderInv
  <1>5. CASE AskForSnapshot
    <2>1. UNCHANGED <<real, stream, todo>>
      BY <1>5 DEF AskForSnapshot, exchangeVars, tableVars
    <2> QED
      BY <2>1 DEF OrderInv
  <1>6. CASE SendSnapshot
    <2>1. UNCHANGED <<real, stream, todo>>
      BY <1>6 DEF SendSnapshot, exchangeVars, tableVars
    <2> QED
      BY <2>1 DEF OrderInv
  <1>7. CASE AnswerSnapshot
    <2>1. UNCHANGED <<real, stream, todo>>
      BY <1>7 DEF AnswerSnapshot, exchangeVars, tableVars
    <2> QED
      BY <2>1 DEF OrderInv
  <1>8. CASE SnapshotFails
    <2>1. UNCHANGED <<real, stream, todo>>
      BY <1>8 DEF SnapshotFails, exchangeVars, tableVars
    <2> QED
      BY <2>1 DEF OrderInv
  <1>9. CASE ParseSnapshot
    <2>1. UNCHANGED <<real, stream>> /\ \A d \in Clients : todo'[d] = todo[d]
      BY <1>9, ParseStep, FeedsAssumption DEF Take, FeedTypes, exchangeVars, Threads, Clients
    <2> QED
      BY <2>1 DEF OrderInv
  <1>10. ASSUME NEW t \in Threads, StoreFirst(t)
        PROVE  OrderInv'
    <2>1. UNCHANGED <<real, stream, todo>>
      BY <1>10 DEF StoreFirst, exchangeVars, tableVars
    <2> QED
      BY <2>1 DEF OrderInv
  <1>11. ASSUME NEW t \in Threads, StoreSecond(t)
        PROVE  OrderInv'
    <2>1. UNCHANGED <<real, stream>> /\ \A d \in Clients : todo'[d] \subseteq todo[d]
      BY <1>11, StoreSecondStep DEF FeedTypes, exchangeVars, Threads, Clients
    <2> QED
      BY <2>1 DEF OrderInv
  <1>12. CASE UNCHANGED feedsVars
    BY <1>12 DEF feedsVars, OrderInv
  <1> QED
    BY <1>1, <1>2, <1>3, <1>4, <1>5, <1>6, <1>7, <1>8, <1>9, <1>10, <1>11, <1>12
       DEF FeedsNext, Snapshot, Stores

LEMMA OfEntries == \A c \in Clients : Of(c) \subseteq Entries
  BY DEF Of, Entries

LEMMA AgeNext ==
  ASSUME FeedTypes, SourcesInv, StoringInv, OrderInv, AgeInv, [FeedsNext]_feedsVars
  PROVE  AgeInv'
  <1>1. ASSUME NEW c \in Clients, Established(c)
        PROVE  AgeInv'
    <2>1. /\ UNCHANGED <<real, stream, todo>>
          /\ request = "over" => UNCHANGED <<request, answer>>
      BY <1>1 DEF Established, exchangeVars, tableVars
    <2>2. \A e \in Entries : table'[e].second = table[e].second
      BY <1>1 DEF Established, tableVars
    <2> QED
      BY <2>1, <2>2, OfEntries DEF AgeInv
  <1>2. ASSUME NEW c \in Clients, Subscribe(c)
        PROVE  AgeInv'
    <2>1. /\ UNCHANGED <<real, stream, todo>>
          /\ request = "over" => UNCHANGED <<request, answer>>
      BY <1>2 DEF Subscribe, exchangeVars, tableVars
    <2>2. \A e \in Entries : table'[e].second = table[e].second
      BY <1>2 DEF Subscribe, tableVars
    <2> QED
      BY <2>1, <2>2, OfEntries DEF AgeInv
  <1>3. ASSUME NEW c \in Clients, Receive(c)
        PROVE  AgeInv'
    <2>1. /\ \A d \in Clients \ {c} : stream'[d] = stream[d] /\ todo'[d] = todo[d]
          /\ 1 \in DOMAIN stream[c]
          /\ \A k \in DOMAIN stream'[c] :
               k + 1 \in DOMAIN stream[c] /\ stream'[c][k] = stream[c][k + 1]
          /\ todo'[c] = {} \/ todo'[c] = stream[c][1]
          /\ UNCHANGED <<real, request, answer, table>>
      BY <1>3, ReceiveStep, ZenonT(30) DEF Receive, Clients, Threads
    <2>2. ASSUME NEW e \in Of(c), \A i \in DOMAIN stream[c] : \A a \in stream[c][i] :
                                    a.entry = e => table[e].second <= a.version
          PROVE  /\ \A a \in todo'[c] : a.entry = e => table[e].second <= a.version
                 /\ \A i \in DOMAIN stream'[c] : \A a \in stream'[c][i] :
                      a.entry = e => table[e].second <= a.version
      BY <2>1, <2>2
    <2> QED
      BY <2>1, <2>2 DEF AgeInv
  <1>4. ASSUME NEW c \in Clients, NEW S \in SUBSET Of(c), Change(c, S)
        PROVE  AgeInv'
    <2>1. /\ \A d \in Clients \ {c} : stream'[d] = stream[d]
          /\ \A e \in Entries : real[e] <= real'[e]
          /\ \A k \in DOMAIN stream'[c] :
               \/ k \in DOMAIN stream[c] /\ stream'[c][k] = stream[c][k]
               \/ \A a \in stream'[c][k] : a.version = real'[a.entry]
          /\ real' \in [Entries -> Versions]
      BY <1>4, ChangeStep
    <2>2. UNCHANGED <<todo, table, request, answer>>
      BY <1>4 DEF Change, tableVars
    <2> SUFFICES ASSUME NEW d \in Clients, NEW e \in Of(d), table[e].second # Garbage,
                        ~(request = "over" /\ e \in DOMAIN answer /\ table[e].second = answer[e])
                 PROVE  /\ table[e].second <= real'[e]
                        /\ \A a \in todo[d] : a.entry = e => table[e].second <= a.version
                        /\ \A i \in DOMAIN stream'[d] : \A a \in stream'[d][i] :
                             a.entry = e => table[e].second <= a.version
      BY <2>2 DEF AgeInv
    <2>3. /\ table[e].second <= real[e]
          /\ \A a \in todo[d] : a.entry = e => table[e].second <= a.version
          /\ \A i \in DOMAIN stream[d] : \A a \in stream[d][i] :
               a.entry = e => table[e].second <= a.version
      BY DEF AgeInv
    <2>4. table[e].second \in Nat /\ real[e] \in Nat /\ real'[e] \in Nat /\ e \in Entries
      BY <2>1, OfEntries, FeedsAssumption DEF FeedTypes, Versions
    <2>5. table[e].second <= real'[e]
      BY <2>1, <2>3, <2>4
    <2> QED
      BY <2>1, <2>3, <2>5
  <1>5. CASE AskForSnapshot
    <2>1. /\ UNCHANGED <<real, stream, todo>>
          /\ request = "over" => UNCHANGED <<request, answer>>
      BY <1>5 DEF AskForSnapshot, exchangeVars, tableVars
    <2>2. \A e \in Entries : table'[e].second = table[e].second
      BY <1>5 DEF AskForSnapshot, tableVars
    <2> QED
      BY <2>1, <2>2, OfEntries DEF AgeInv
  <1>6. CASE SendSnapshot
    <2>1. /\ UNCHANGED <<real, stream, todo>>
          /\ request = "over" => UNCHANGED <<request, answer>>
      BY <1>6 DEF SendSnapshot, exchangeVars, tableVars
    <2>2. \A e \in Entries : table'[e].second = table[e].second
      BY <1>6 DEF SendSnapshot, tableVars
    <2> QED
      BY <2>1, <2>2, OfEntries DEF AgeInv
  <1>7. CASE AnswerSnapshot
    <2>1. /\ UNCHANGED <<real, stream, todo>>
          /\ request = "over" => UNCHANGED <<request, answer>>
      BY <1>7 DEF AnswerSnapshot, exchangeVars, tableVars
    <2>2. \A e \in Entries : table'[e].second = table[e].second
      BY <1>7 DEF AnswerSnapshot, tableVars
    <2> QED
      BY <2>1, <2>2, OfEntries DEF AgeInv
  <1>8. CASE SnapshotFails
    <2>1. /\ UNCHANGED <<real, stream, todo>>
          /\ request = "over" => UNCHANGED <<request, answer>>
      BY <1>8 DEF SnapshotFails, exchangeVars, tableVars
    <2>2. \A e \in Entries : table'[e].second = table[e].second
      BY <1>8 DEF SnapshotFails, tableVars
    <2> QED
      BY <2>1, <2>2, OfEntries DEF AgeInv
  <1>9. CASE ParseSnapshot
    <2>1. /\ \A d \in Clients : todo'[d] = todo[d]
          /\ request # "over" /\ UNCHANGED <<real, stream, answer, table>>
      BY <1>9, ParseStep, FeedsAssumption DEF Take, FeedTypes, exchangeVars, Threads, Clients
    <2> QED
      BY <2>1 DEF AgeInv
  <1>10. ASSUME NEW t \in Threads, StoreFirst(t)
        PROVE  AgeInv'
    <2>1. /\ UNCHANGED <<real, stream, todo>>
          /\ request = "over" => UNCHANGED <<request, answer>>
      BY <1>10 DEF StoreFirst, exchangeVars, tableVars
    <2>2. \A e \in Entries : table'[e].second = table[e].second
      BY <1>10, StoreFirstStep
    <2> QED
      BY <2>1, <2>2, OfEntries DEF AgeInv
  <1>11. ASSUME NEW t \in Threads, StoreSecond(t)
        PROVE  AgeInv'
    <2>1. PICK a \in Assets :
            /\ a = storing[t] /\ a # NoAsset /\ a.entry \in Entries
            /\ todo' = [todo EXCEPT ![t] = @ \ {a}]
            /\ table'[a.entry].second = a.version
            /\ \A e \in Entries \ {a.entry} : table'[e] = table[e]
            /\ UNCHANGED <<exchangeVars, request, answer>>
      BY <1>11, StoreSecondStep
    <2>2. /\ UNCHANGED <<real, stream, request, answer>>
          /\ \A d \in Clients : todo'[d] \subseteq todo[d]
          /\ a \in todo[t]
      BY <2>1 DEF FeedTypes, exchangeVars, Threads, Clients, StoringInv
    <2> SUFFICES ASSUME NEW d \in Clients, NEW e \in Of(d),
                        ~(request = "over" /\ e \in DOMAIN answer /\ table'[e].second = answer[e]),
                        table'[e].second # Garbage
                 PROVE  /\ table'[e].second <= real[e]
                        /\ \A b \in todo'[d] : b.entry = e => table'[e].second <= b.version
                        /\ \A i \in DOMAIN stream[d] : \A b \in stream[d][i] :
                             b.entry = e => table'[e].second <= b.version
      BY <2>2 DEF AgeInv
    <2>3. CASE e # a.entry
      <3>1. table'[e] = table[e]
        BY <2>1, <2>3, OfEntries
      <3> QED
        BY <2>2, <3>1 DEF AgeInv
    <2>4. CASE e = a.entry
      <3>1. t # Worker
        BY <2>1, <2>2, <2>4 DEF SourcesInv
      <3>2. t \in Clients /\ a.entry \in Of(t)
        BY <2>2, <3>1 DEF SourcesInv, Threads, Clients
      <3>3. t = d
        BY <2>4, <3>2, FeedsAssumption DEF Of, Clients
      <3>4. table'[e].second = a.version /\ a \in todo[d]
        BY <2>1, <2>2, <2>4, <3>3
      <3>5. a.version <= real[a.entry]
        BY <3>4 DEF OrderInv
      <3>6. \A b \in todo[d] : b.entry = e => a.version <= b.version
        <4>1. a.version <= a.version
          BY FeedsAssumption DEF Assets, Versions
        <4> QED
          BY <2>4, <3>4, <4>1 DEF OrderInv
      <3>7. \A i \in DOMAIN stream[d] : \A b \in stream[d][i] :
              b.entry = e => a.version <= b.version
        BY <2>4, <3>4 DEF OrderInv
      <3> QED
        BY <2>2, <2>4, <3>4, <3>5, <3>6, <3>7
    <2> QED
      BY <2>3, <2>4
  <1>12. CASE UNCHANGED feedsVars
    BY <1>12 DEF feedsVars, AgeInv
  <1> QED
    BY <1>1, <1>2, <1>3, <1>4, <1>5, <1>6, <1>7, <1>8, <1>9, <1>10, <1>11, <1>12
       DEF FeedsNext, Snapshot, Stores

-----------------------------------------------------------------------------
LEMMA FeedsIInvInit == FeedsInit => FeedsIInv
  <1> SUFFICES ASSUME FeedsInit
               PROVE  FeedsIInv
    OBVIOUS
  <1> USE FeedsAssumption DEF FeedsInit
  <1>1. FeedTypes
    <2>1. stream \in [Clients -> Seq(SUBSET Assets)]
      OBVIOUS
    <2>2. DOMAIN answer = {}
      OBVIOUS
    <2>3. 0 \in Versions
      BY DEF Versions
    <2>4. table \in [Entries -> [first : Versions \cup {Garbage, Misread},
                                 second : Versions \cup {Garbage}]]
      BY DEF Nothing
    <2> QED
      BY <2>1, <2>2, <2>3, <2>4 DEF FeedTypes
  <1>2. \A c \in Clients : DOMAIN stream[c] = {} /\ todo[c] = {}
    BY DEF Clients, Threads
  <1>3. SourcesInv
    BY <1>2 DEF SourcesInv, Threads
  <1>4. StoringInv
    BY DEF StoringInv
  <1>5. EntriesWhole
    BY DEF EntriesWhole, Whole, Nothing
  <1>6. PendingInv
    BY DEF PendingInv
  <1>7. OrderInv
    BY <1>2, ZenonT(30) DEF OrderInv
  <1>8. AgeInv
    BY OfEntries DEF AgeInv, Nothing
  <1> QED
    BY <1>1, <1>3, <1>4, <1>5, <1>6, <1>7, <1>8 DEF FeedsIInv

LEMMA FeedsIInvNext == FeedsIInv /\ [FeedsNext]_feedsVars => FeedsIInv'
  <1> SUFFICES ASSUME FeedsIInv, [FeedsNext]_feedsVars
               PROVE  FeedsIInv'
    OBVIOUS
  <1>1. /\ FeedTypes /\ SourcesInv /\ StoringInv /\ EntriesWhole
        /\ PendingInv /\ OrderInv /\ AgeInv
    BY DEF FeedsIInv
  <1>2. FeedTypes' /\ SourcesInv' /\ StoringInv' /\ EntriesWhole'
    BY <1>1, TypesNext, SourcesNext, StoringNext, WholeNext
  <1>3. PendingInv' /\ OrderInv' /\ AgeInv'
    BY <1>1, PendingNext, OrderNext, AgeNext
  <1> QED
    BY <1>2, <1>3 DEF FeedsIInv

(* Types, sources, locks, pending versions and the order of events, taken  *)
(* together, are an inductive invariant of the program and the exchange.   *)
THEOREM FeedsIInvariant == FeedsSpec => []FeedsIInv
  BY FeedsIInvInit, FeedsIInvNext, PTL DEF FeedsSpec

(* No entry is a mixture of two messages, and a currency is locked exactly *)
(* while one thread is between its two stores.                             *)
THEOREM StoredWhole == FeedsSpec => []FeedsInv
  <1>1. ASSUME FeedsIInv
        PROVE  FeedsInv
    <2>1. FeedTypes /\ StoringInv /\ EntriesWhole
      BY <1>1 DEF FeedsIInv
    <2>2. \A c \in Clients : \A i \in DOMAIN stream[c] : stream[c][i] \subseteq Assets
      BY <2>1 DEF FeedTypes
    <2>3. \A t \in Threads : todo[t] \subseteq Assets /\ storing[t] \in todo[t] \cup {NoAsset}
      BY <2>1 DEF FeedTypes, StoringInv
    <2>4. FeedsTypeOK
      BY <2>1, <2>2, <2>3 DEF FeedTypes, FeedsTypeOK
    <2> QED
      BY <2>1, <2>4 DEF FeedsInv, StoringInv
  <1> QED
    BY <1>1, FeedsIInvariant, PTL

(* When nothing is left to store, the newest whole message of each entry   *)
(* is in the table, unless a late answer or a late event replaced it.      *)
THEOREM NewestIsStored == FeedsSpec => []NewestStored
  <1>1. ASSUME FeedsIInv
        PROVE  NewestStored
    <2> SUFFICES ASSUME Settled, NEW e \in Entries
                 PROVE  IF delivered[e] = {} THEN table[e] = Nothing
                        ELSE e \in stale \/ table[e].second = SetExt!Max(delivered[e])
      BY DEF NewestStored
    <2>1. PendingInv
      BY <1>1 DEF FeedsIInv
    <2>2. \A t \in Threads : todo[t] = {}
      BY DEF Settled, Idle
    <2> QED
      BY <2>1, <2>2 DEF PendingInv, Newest
  <1> QED
    BY <1>1, FeedsIInvariant, PTL

(* What replaces a newer version, or the newer version that is replaced,   *)
(* comes from the answer to the snapshot: the events of one client are     *)
(* stored in the order in which the exchange changed the value.            *)
THEOREM EventsNeverGoBack == FeedsSpec => BackOnlyBySnapshot
  <1>1. ASSUME FeedsIInv, NEW t \in Threads, storing[t] # NoAsset, GoesBack(storing[t])
        PROVE  LET e == storing[t].entry
               IN  request = "over" /\ e \in DOMAIN answer
                     /\ (t = Worker \/ table[e].second = answer[e])
    <2>1. FeedTypes /\ SourcesInv /\ StoringInv /\ AgeInv
      BY <1>1 DEF FeedsIInv
    <2> DEFINE a == storing[t]
    <2>2. a \in todo[t] /\ a \in Assets /\ a.entry \in Entries /\ a.version \in Nat
      BY <1>1, <2>1, FeedsAssumption DEF StoringInv, FeedTypes, Assets, Versions
    <2>3. CASE t = Worker
      BY <2>1, <2>2, <2>3 DEF SourcesInv
    <2>4. CASE t \in Clients
      <3>1. a.entry \in Of(t)
        BY <2>1, <2>2, <2>4 DEF SourcesInv
      <3>2. table[a.entry].second \in Nat /\ a.version < table[a.entry].second
        BY <1>1, <2>1, <2>2, FeedsAssumption DEF GoesBack, FeedTypes, Versions
      <3>3. ~(table[a.entry].second <= a.version)
        BY <2>2, <3>2
      <3>4. table[a.entry].second # Garbage
        BY <1>1 DEF GoesBack
      <3> QED
        BY <2>1, <2>2, <2>4, <3>1, <3>3, <3>4 DEF AgeInv
    <2> QED
      BY <2>3, <2>4 DEF Threads, Clients
  <1>2. ASSUME FeedsIInv
        PROVE  [\A t \in Threads :
                  storing[t] # NoAsset /\ storing'[t] = NoAsset /\ GoesBack(storing[t]) =>
                    LET e == storing[t].entry
                    IN  request = "over" /\ e \in DOMAIN answer
                          /\ (t = Worker \/ table[e].second = answer[e])]_feedsVars
    BY <1>1, <1>2
  <1> QED
    BY <1>2, FeedsIInvariant, PTL DEF BackOnlyBySnapshot

=============================================================================
