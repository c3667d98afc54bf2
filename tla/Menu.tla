-------------------------------- MODULE Menu --------------------------------
(***************************************************************************)
(* The order form of the user interface, menu_ui in src/ui.c: a machine    *)
(* with eleven input steps that is called for every key.  The texts the    *)
(* user types, the numbers read from them and the choices made live in     *)
(* static variables, so every path through the form must leave them as the *)
(* next form needs them.                                                   *)
(*                                                                         *)
(* The keys typed before Enter are one action, Type; Enter is one action   *)
(* for every step.  What the rest of the program does meanwhile shows in   *)
(* the flags of the table of orders, which are read and not kept.          *)
(***************************************************************************)
EXTENDS Naturals

CONSTANTS Numbers,  \* what strtod returns for a text it reads whole: any number,
                    \* 0, the negative ones, nan and inf included
          Blank,    \* the empty text
          Junk,     \* a text that strtod reads in part or not at all
          NoOrder   \* no order has been sent

(* Blank and Junk are no numbers, nor are they a command of the form.      *)
ASSUME MenuAssumption ==
  /\ Numbers # {}
  /\ Blank # Junk
  /\ {Blank, Junk} \cap Numbers = {}
  /\ {Blank, Junk} \cap {"m", "c", "q", "1", "2", "3", "ask", "bid", "limit", "market",
                         "price", "y", "0"} = {}

VARIABLES input_step,
          text,          \* the static buffers
          market_idx,
          price, volume,
          sent,          \* the order passed to enqueue_task last
          typed          \* history: buffers typed into since the form was opened

menuVars == <<input_step, text, market_idx, price, volume, sent, typed>>

Buffers == {"menu_cmd", "market_cmd", "order_cmd", "limit_cmd", "price_str",
            "volume_str", "ok", "cancel_num"}
NoMarket == 3   \* -1

(* The buffer a step reads, and what can be typed there.                   *)
Buffer(step) ==
  CASE step = 0 -> "menu_cmd"
    [] step = 1 -> "market_cmd"
    [] step = 2 -> "order_cmd"
    [] step = 3 -> "limit_cmd"
    [] step \in {4, 8} -> "volume_str"
    [] step \in {5, 7} -> "price_str"
    [] step \in {6, 9} -> "ok"
    [] step = 10 -> "cancel_num"

Texts(buffer) ==
  CASE buffer = "menu_cmd" -> {Blank, "m", "c", "q", Junk}
    [] buffer = "market_cmd" -> {Blank, "1", "2", "3", Junk}
    [] buffer = "order_cmd" -> {Blank, "ask", "bid", Junk}
    [] buffer = "limit_cmd" -> {Blank, "limit", "market", Junk}
    [] buffer \in {"price_str", "volume_str"} -> {Blank, Junk} \cup Numbers
    [] buffer = "ok" -> {Blank, "y", Junk}
    [] buffer = "cancel_num" -> {Blank, "0", Junk}

MenuInit ==
  /\ input_step = 0
  /\ text = [b \in Buffers |-> Blank]
  /\ market_idx = NoMarket
  /\ price = 0
  /\ volume = 0
  /\ sent = NoOrder
  /\ typed = {}

(* get_user_input, any key but Enter.                                      *)
Type ==
  /\ input_step \in 0..10
  /\ LET b == Buffer(input_step)
     IN  /\ \E t \in Texts(b) : text' = [text EXCEPT ![b] = t]
         /\ typed' = typed \cup {b}
  /\ UNCHANGED <<input_step, market_idx, price, volume, sent>>

Entered(step, t) == input_step = step /\ text[Buffer(step)] = t
Clear(buffers) == text' = [b \in Buffers |-> IF b \in buffers THEN Blank ELSE text[b]]

(* strtod: 0 for an empty text, and what is read of a text that is refused *)
(* is stored all the same.                                                 *)
strtod(t) == IF t = Blank THEN {0} ELSE IF t = Junk THEN {0} \cup Numbers ELSE {t}

-----------------------------------------------------------------------------
EnterMake ==
  /\ Entered(0, "m")
  /\ \E is_full \in BOOLEAN : input_step' = IF is_full THEN 0 ELSE 1
  /\ typed' = {}
  /\ Clear({"menu_cmd"})
  /\ UNCHANGED <<market_idx, price, volume, sent>>

EnterCancel ==
  /\ Entered(0, "c")
  /\ \E is_empty \in BOOLEAN : input_step' = IF is_empty THEN 0 ELSE 10
  /\ typed' = {}
  /\ Clear({"menu_cmd"})
  /\ UNCHANGED <<market_idx, price, volume, sent>>

EnterQuit ==
  /\ Entered(0, "q")
  /\ input_step' = 11
  /\ UNCHANGED <<text, market_idx, price, volume, sent, typed>>

EnterMarket ==
  /\ input_step = 1
  /\ IF text["market_cmd"] \in {"1", "2", "3"}
     THEN /\ market_idx' = CASE text["market_cmd"] = "1" -> 0
                             [] text["market_cmd"] = "2" -> 1
                             [] text["market_cmd"] = "3" -> 2
          /\ input_step' = 2
          /\ UNCHANGED text
     ELSE Clear({"market_cmd"}) /\ UNCHANGED <<market_idx, input_step>>
  /\ UNCHANGED <<price, volume, sent, typed>>

EnterSide ==
  /\ input_step = 2
  /\ IF text["order_cmd"] \in {"ask", "bid"}
     THEN input_step' = 3 /\ UNCHANGED text
     ELSE Clear({"order_cmd"}) /\ UNCHANGED input_step
  /\ UNCHANGED <<market_idx, price, volume, sent, typed>>

(* Mutated: [m] is "market" for a bid as well.                             *)
EnterTypeMarketOnly ==
  /\ input_step = 3
  /\ \/ text["limit_cmd"] = "limit" /\ input_step' = 7 /\ UNCHANGED text
     \/ text["limit_cmd"] = "market" /\ input_step' = 4 /\ UNCHANGED text
     \/ /\ text["limit_cmd"] \in {Blank, Junk}
        /\ Clear({"limit_cmd"})
        /\ UNCHANGED input_step
  /\ UNCHANGED <<market_idx, price, volume, sent, typed>>

(* A market order states an amount if it is an ask and a price if it is a  *)
(* bid.                                                                    *)
EnterType ==
  /\ input_step = 3
  /\ \/ text["limit_cmd"] = "limit" /\ input_step' = 7 /\ UNCHANGED text
     \/ /\ text["limit_cmd"] = "market"
        /\ text["order_cmd"] = "ask"
        /\ input_step' = 4
        /\ UNCHANGED text
     \/ /\ text["limit_cmd"] = "market"
        /\ text["order_cmd"] # "ask"
        /\ input_step' = 5
        /\ text' = [text EXCEPT !["limit_cmd"] = "price"]
     \/ /\ text["limit_cmd"] \in {Blank, Junk}
        /\ Clear({"limit_cmd"})
        /\ UNCHANGED input_step
  /\ UNCHANGED <<market_idx, price, volume, sent, typed>>

(* Steps 4 and 8.                                                          *)
EnterVolume ==
  /\ input_step \in {4, 8}
  /\ volume' \in strtod(text["volume_str"])
  /\ IF text["volume_str"] \in Numbers
     THEN input_step' = (IF input_step = 4 THEN 6 ELSE 9) /\ UNCHANGED text
     ELSE Clear({"volume_str"}) /\ UNCHANGED input_step
  /\ UNCHANGED <<market_idx, price, sent, typed>>

EnterPrice ==
  /\ input_step = 5
  /\ price' \in strtod(text["price_str"])
  /\ IF text["price_str"] \in Numbers
     THEN input_step' = 6 /\ UNCHANGED text
     ELSE Clear({"price_str"}) /\ UNCHANGED input_step
  /\ UNCHANGED <<market_idx, volume, sent, typed>>

(* Mutated: a text that is refused is cleared, and the form goes on.       *)
EnterLimitPriceGoesOn ==
  /\ input_step = 7
  /\ price' \in strtod(text["price_str"])
  /\ IF text["price_str"] = Junk THEN Clear({"price_str"}) ELSE UNCHANGED text
  /\ input_step' = 8
  /\ UNCHANGED <<market_idx, volume, sent, typed>>

(* The test compares endptr with volume_str, so an empty text passes.      *)
EnterLimitPrice ==
  /\ input_step = 7
  /\ price' \in strtod(text["price_str"])
  /\ IF text["price_str"] = Junk
     THEN Clear({"price_str"}) /\ UNCHANGED input_step
     ELSE input_step' = 8 /\ UNCHANGED text
  /\ UNCHANGED <<market_idx, volume, sent, typed>>

Order(p, v) ==
  [market |-> market_idx, side |-> text["order_cmd"], ord_type |-> text["limit_cmd"],
   price |-> p, volume |-> v,
   price_str |-> text["price_str"], volume_str |-> text["volume_str"]]

(* Mutated: price_str is not reset.                                        *)
CloseFormKeepingPrice ==
  /\ Clear(Buffers \ {"cancel_num", "price_str"})
  /\ price' = 0
  /\ volume' = 0
  /\ market_idx' = NoMarket
  /\ input_step' = 0

CloseForm ==
  /\ Clear(Buffers \ {"cancel_num"})
  /\ price' = 0
  /\ volume' = 0
  /\ market_idx' = NoMarket
  /\ input_step' = 0

ConfirmMarketOrder ==
  /\ input_step = 6
  /\ sent' = CASE text["ok"] # "y" -> sent
               [] text["order_cmd"] = "ask" -> Order(0, volume)
               [] text["order_cmd"] = "bid" -> Order(price, 0)
  /\ CloseForm
  /\ UNCHANGED typed

ConfirmLimitOrder ==
  /\ input_step = 9
  /\ sent' = IF text["ok"] = "y" THEN Order(price, volume) ELSE sent
  /\ CloseForm
  /\ UNCHANGED typed

(* What get_uuid_from_orders finds is the subject of Trading.              *)
EnterNumber ==
  /\ input_step = 10
  /\ Clear({"menu_cmd", "order_cmd", "cancel_num", "ok"})
  /\ input_step' = 0
  /\ UNCHANGED <<market_idx, price, volume, sent, typed>>

MenuNext ==
  \/ Type
  \/ EnterMake \/ EnterCancel \/ EnterQuit \/ EnterMarket \/ EnterSide \/ EnterType
  \/ EnterVolume \/ EnterPrice \/ EnterLimitPrice
  \/ ConfirmMarketOrder \/ ConfirmLimitOrder \/ EnterNumber

MenuSpec == MenuInit /\ [][MenuNext]_menuVars

-----------------------------------------------------------------------------
(* PROPERTIES                                                              *)

(* Every variable has its type, and the market that indexes g_codes when   *)
(* an order is made has been chosen.                                       *)
MenuTypeOK ==
  /\ input_step \in 0..11
  /\ DOMAIN text = Buffers
  /\ \A b \in Buffers \ {"limit_cmd"} : text[b] \in Texts(b)
  /\ text["limit_cmd"] \in Texts("limit_cmd") \cup {"price"}
  /\ market_idx \in 0..NoMarket
  /\ input_step \in 2..9 => market_idx # NoMarket
  /\ price \in {0} \cup Numbers /\ volume \in {0} \cup Numbers
  /\ typed \subseteq Buffers

(* A form starts from nothing: whatever stands in a buffer of the form was *)
(* typed since that form was opened, not left by an earlier one that was   *)
(* sent, cancelled or refused.                                             *)
NothingStale ==
  input_step \in 1..10 => \A b \in Buffers : text[b] # Blank => b \in typed

(* Every form starts from nothing, and no field has an impossible value,   *)
(* whatever forms came before and however they ended.                      *)
MenuInv == MenuTypeOK /\ NothingStale

(* An order has what place_order writes into the request for its type, a   *)
(* bid with a price, an ask with a volume, or a limit with both, each read *)
(* from a whole number on the screen; what its type does not need is 0.    *)
(* There is one exception: an empty text is taken for the price of a limit *)
(* order, though for no other number, and stands for 0.  The form has no   *)
(* bounds for the numbers: 0, -1 and nan are sent as they are.             *)
SentWellFormed ==
  sent # NoOrder =>
    \/ /\ sent.ord_type = "limit" /\ sent.side \in {"ask", "bid"}
       /\ sent.volume_str \in Numbers
       /\ sent.price_str \in Numbers \/ (sent.price_str = Blank /\ sent.price = 0)
    \/ sent.ord_type = "price" /\ sent.side = "bid" /\ sent.price_str \in Numbers
       /\ sent.volume = 0
    \/ sent.ord_type = "market" /\ sent.side = "ask" /\ sent.volume_str \in Numbers
       /\ sent.price = 0

(* The numbers of an order are the ones the form showed when the user sent *)
(* it, also after entries that were refused.                               *)
SentAsShown ==
  sent # NoOrder =>
    /\ sent.ord_type \in {"limit", "price"} => strtod(sent.price_str) = {sent.price}
    /\ sent.ord_type \in {"limit", "market"} => strtod(sent.volume_str) = {sent.volume}
=============================================================================
