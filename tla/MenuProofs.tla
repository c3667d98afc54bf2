----------------------------- MODULE MenuProofs -----------------------------
(* Proofs about the order form of menu_ui, for every set of numbers that   *)
(* may be typed and every sequence of keys.                                *)
EXTENDS Menu, TLAPS

(* What the form has been told when it is at a step, and that the numbers  *)
(* read are still those of the texts on the screen.                        *)
FormFilled ==
  /\ input_step \in 3..9 => text["order_cmd"] \in {"ask", "bid"}
  /\ input_step = 4 => text["order_cmd"] = "ask" /\ text["limit_cmd"] = "market"
  /\ input_step = 5 => text["order_cmd"] = "bid" /\ text["limit_cmd"] = "price"
  /\ input_step = 6 =>
       \/ /\ text["order_cmd"] = "ask" /\ text["limit_cmd"] = "market"
          /\ text["volume_str"] \in Numbers /\ volume = text["volume_str"]
       \/ /\ text["order_cmd"] = "bid" /\ text["limit_cmd"] = "price"
          /\ text["price_str"] \in Numbers /\ price = text["price_str"]
  /\ input_step \in 7..9 => text["limit_cmd"] = "limit"
  /\ input_step \in 8..9 =>
       \/ text["price_str"] \in Numbers /\ price = text["price_str"]
       \/ text["price_str"] = Blank /\ price = 0
  /\ input_step = 9 => text["volume_str"] \in Numbers /\ volume = text["volume_str"]

(* Which buffers are empty: between two forms all but that of the menu, in *)
(* an order form those of the other steps, and the other way round.        *)
FormFresh ==
  /\ input_step = 0 => \A b \in Buffers \ {"menu_cmd"} : text[b] = Blank
  /\ input_step \in 1..9 => text["menu_cmd"] = Blank /\ text["cancel_num"] = Blank
  /\ input_step = 10 => \A b \in Buffers \ {"cancel_num"} : text[b] = Blank

(* The inductive invariant: an order is right when it is sent because the  *)
(* form is right at every step before, and a form starts from nothing      *)
(* because the one before has left nothing.                                *)
MenuIInv ==
  /\ MenuInv
  /\ FormFilled
  /\ FormFresh
  /\ SentWellFormed
  /\ SentAsShown

-----------------------------------------------------------------------------
LEMMA MenuIInvInit == MenuInit => MenuIInv
  BY MenuAssumption
     DEF MenuInit, MenuIInv, MenuInv, MenuTypeOK, NothingStale, FormFilled, FormFresh,
         SentWellFormed, SentAsShown, Buffers, Texts, NoMarket

LEMMA MenuIInvNext == MenuIInv /\ [MenuNext]_menuVars => MenuIInv'
  <1> SUFFICES ASSUME MenuIInv, [MenuNext]_menuVars
               PROVE  MenuIInv'
    OBVIOUS
  <1> USE MenuAssumption DEF MenuIInv, MenuInv, MenuTypeOK, Buffers
  <1>1. CASE Type
    <2>1. MenuTypeOK'
      BY <1>1 DEF Type, Buffer, Texts
    <2>2. NothingStale'
      BY <1>1 DEF Type, Buffer, NothingStale, FormFresh
    <2>3. FormFilled'
      BY <1>1 DEF Type, Buffer, FormFilled
    <2>4. FormFresh'
      BY <1>1 DEF Type, Buffer, FormFresh
    <2>5. SentWellFormed' /\ SentAsShown'
      BY <1>1 DEF Type, SentWellFormed, SentAsShown
    <2>6. QED
      BY <2>1, <2>2, <2>3, <2>4, <2>5
  <1>2. CASE EnterMake
    <2>1. MenuTypeOK'
      BY <1>2 DEF EnterMake, Entered, Buffer, Clear, Texts
    <2>2. NothingStale'
      BY <1>2 DEF EnterMake, Entered, Buffer, Clear, NothingStale, FormFresh
    <2>3. FormFilled'
      BY <1>2 DEF EnterMake, Entered, Buffer, Clear, FormFilled
    <2>4. FormFresh'
      BY <1>2 DEF EnterMake, Entered, Buffer, Clear, FormFresh
    <2>5. SentWellFormed' /\ SentAsShown'
      BY <1>2 DEF EnterMake, SentWellFormed, SentAsShown
    <2>6. QED
      BY <2>1, <2>2, <2>3, <2>4, <2>5
  <1>3. CASE EnterCancel
    <2>1. MenuTypeOK'
      BY <1>3 DEF EnterCancel, Entered, Buffer, Clear, Texts
    <2>2. NothingStale'
      BY <1>3 DEF EnterCancel, Entered, Buffer, Clear, NothingStale, FormFresh
    <2>3. FormFilled'
      BY <1>3 DEF EnterCancel, Entered, Buffer, Clear, FormFilled
    <2>4. FormFresh'
      BY <1>3 DEF EnterCancel, Entered, Buffer, Clear, FormFresh
    <2>5. SentWellFormed' /\ SentAsShown'
      BY <1>3 DEF EnterCancel, SentWellFormed, SentAsShown
    <2>6. QED
      BY <2>1, <2>2, <2>3, <2>4, <2>5
  <1>4. CASE EnterQuit
    <2>1. MenuTypeOK'
      BY <1>4 DEF EnterQuit, Entered, Buffer, Texts
    <2>2. NothingStale'
      BY <1>4 DEF EnterQuit, Entered, Buffer, NothingStale, FormFresh
    <2>3. FormFilled'
      BY <1>4 DEF EnterQuit, Entered, Buffer, FormFilled
    <2>4. FormFresh'
      BY <1>4 DEF EnterQuit, Entered, Buffer, FormFresh
    <2>5. SentWellFormed' /\ SentAsShown'
      BY <1>4 DEF EnterQuit, SentWellFormed, SentAsShown
    <2>6. QED
      BY <2>1, <2>2, <2>3, <2>4, <2>5
  <1>5. CASE EnterMarket
    <2>1. MenuTypeOK'
      BY <1>5 DEF EnterMarket, Clear, Texts, NoMarket
    <2>2. NothingStale'
      BY <1>5 DEF EnterMarket, Clear, NothingStale, FormFresh
    <2>3. FormFilled'
      BY <1>5 DEF EnterMarket, Clear, FormFilled
    <2>4. FormFresh'
      BY <1>5 DEF EnterMarket, Clear, FormFresh
    <2>5. SentWellFormed' /\ SentAsShown'
      BY <1>5 DEF EnterMarket, SentWellFormed, SentAsShown
    <2>6. QED
      BY <2>1, <2>2, <2>3, <2>4, <2>5
  <1>6. CASE EnterSide
    <2>1. MenuTypeOK'
      BY <1>6 DEF EnterSide, Clear, Texts
    <2>2. NothingStale'
      BY <1>6 DEF EnterSide, Clear, NothingStale, FormFresh
    <2>3. FormFilled'
      BY <1>6 DEF EnterSide, Clear, FormFilled, Texts
    <2>4. FormFresh'
      BY <1>6 DEF EnterSide, Clear, FormFresh
    <2>5. SentWellFormed' /\ SentAsShown'
      BY <1>6 DEF EnterSide, SentWellFormed, SentAsShown
    <2>6. QED
      BY <2>1, <2>2, <2>3, <2>4, <2>5
  <1>7. CASE EnterType
    <2>1. MenuTypeOK'
      BY <1>7 DEF EnterType, Clear, Texts
    <2>2. NothingStale'
      <3>1. \A b \in Buffers : text'[b] # Blank => text[b] # Blank
        BY <1>7 DEF EnterType, Clear
      <3>2. input_step = 3 /\ typed' = typed
        BY <1>7 DEF EnterType
      <3>3. QED
        BY <3>1, <3>2 DEF NothingStale
    <2>3. FormFilled'
      BY <1>7 DEF EnterType, Clear, FormFilled, Texts
    <2>4. FormFresh'
      BY <1>7 DEF EnterType, Clear, FormFresh
    <2>5. SentWellFormed' /\ SentAsShown'
      BY <1>7 DEF EnterType, SentWellFormed, SentAsShown
    <2>6. QED
      BY <2>1, <2>2, <2>3, <2>4, <2>5
  <1>8. CASE EnterVolume
    <2>1. MenuTypeOK'
      BY <1>8 DEF EnterVolume, Clear, strtod, Texts
    <2>2. NothingStale'
      BY <1>8 DEF EnterVolume, Clear, strtod, NothingStale, FormFresh
    <2>3. FormFilled'
      BY <1>8 DEF EnterVolume, Clear, strtod, FormFilled
    <2>4. FormFresh'
      BY <1>8 DEF EnterVolume, Clear, strtod, FormFresh
    <2>5. SentWellFormed' /\ SentAsShown'
      BY <1>8 DEF EnterVolume, SentWellFormed, SentAsShown
    <2>6. QED
      BY <2>1, <2>2, <2>3, <2>4, <2>5
  <1>9. CASE EnterPrice
    <2>1. MenuTypeOK'
      BY <1>9 DEF EnterPrice, Clear, strtod, Texts
    <2>2. NothingStale'
      BY <1>9 DEF EnterPrice, Clear, strtod, NothingStale, FormFresh
    <2>3. FormFilled'
      BY <1>9 DEF EnterPrice, Clear, strtod, FormFilled
    <2>4. FormFresh'
      BY <1>9 DEF EnterPrice, Clear, strtod, FormFresh
    <2>5. SentWellFormed' /\ SentAsShown'
      BY <1>9 DEF EnterPrice, SentWellFormed, SentAsShown
    <2>6. QED
      BY <2>1, <2>2, <2>3, <2>4, <2>5
  <1>10. CASE EnterLimitPrice
    <2>1. MenuTypeOK'
      BY <1>10 DEF EnterLimitPrice, Clear, strtod, Texts
    <2>2. NothingStale'
      BY <1>10 DEF EnterLimitPrice, Clear, strtod, NothingStale, FormFresh
    <2>3. FormFilled'
      BY <1>10 DEF EnterLimitPrice, Clear, strtod, FormFilled, Texts
    <2>4. FormFresh'
      BY <1>10 DEF EnterLimitPrice, Clear, strtod, FormFresh
    <2>5. SentWellFormed' /\ SentAsShown'
      BY <1>10 DEF EnterLimitPrice, SentWellFormed, SentAsShown
    <2>6. QED
      BY <2>1, <2>2, <2>3, <2>4, <2>5
  <1>11. CASE ConfirmMarketOrder
    <2>1. MenuTypeOK'
      BY <1>11 DEF ConfirmMarketOrder, CloseForm, Clear, Order, Texts, NoMarket
    <2>2. NothingStale'
      BY <1>11 DEF ConfirmMarketOrder, CloseForm, Clear, Order, NothingStale, FormFresh
    <2>3. FormFilled'
      BY <1>11 DEF ConfirmMarketOrder, CloseForm, Clear, Order, FormFilled
    <2>4. FormFresh'
      BY <1>11 DEF ConfirmMarketOrder, CloseForm, Clear, Order, FormFresh
    <2>5. SentWellFormed' /\ SentAsShown'
      BY <1>11 DEF ConfirmMarketOrder, FormFilled, CloseForm, Clear, Order, Texts, strtod, SentWellFormed, SentAsShown
    <2>6. QED
      BY <2>1, <2>2, <2>3, <2>4, <2>5
  <1>12. CASE ConfirmLimitOrder
    <2>1. MenuTypeOK'
      BY <1>12 DEF ConfirmLimitOrder, CloseForm, Clear, Order, Texts, NoMarket
    <2>2. NothingStale'
      BY <1>12 DEF ConfirmLimitOrder, CloseForm, Clear, Order, NothingStale, FormFresh
    <2>3. FormFilled'
      BY <1>12 DEF ConfirmLimitOrder, CloseForm, Clear, Order, FormFilled
    <2>4. FormFresh'
      BY <1>12 DEF ConfirmLimitOrder, CloseForm, Clear, Order, FormFresh
    <2>5. SentWellFormed' /\ SentAsShown'
      BY <1>12 DEF ConfirmLimitOrder, FormFilled, CloseForm, Clear, Order, Texts, strtod, SentWellFormed, SentAsShown
    <2>6. QED
      BY <2>1, <2>2, <2>3, <2>4, <2>5
  <1>13. CASE EnterNumber
    <2>1. MenuTypeOK'
      BY <1>13 DEF EnterNumber, Clear, Texts
    <2>2. NothingStale'
      BY <1>13 DEF EnterNumber, Clear, NothingStale, FormFresh
    <2>3. FormFilled'
      BY <1>13 DEF EnterNumber, Clear, FormFilled
    <2>4. FormFresh'
      BY <1>13 DEF EnterNumber, Clear, FormFresh
    <2>5. SentWellFormed' /\ SentAsShown'
      BY <1>13 DEF EnterNumber, SentWellFormed, SentAsShown
    <2>6. QED
      BY <2>1, <2>2, <2>3, <2>4, <2>5
  <1>14. CASE UNCHANGED menuVars
    BY <1>14 DEF menuVars, NothingStale, FormFilled, FormFresh, SentWellFormed, SentAsShown
  <1>15. QED
    BY <1>1, <1>2, <1>3, <1>4, <1>5, <1>6, <1>7, <1>8, <1>9, <1>10, <1>11, <1>12, <1>13, <1>14 DEF MenuNext

(* The whole invariant of the form, in every reachable state.              *)
THEOREM MenuIInvariant == MenuSpec => []MenuIInv
  BY MenuIInvInit, MenuIInvNext, PTL DEF MenuSpec

(* Every form of menu_ui starts from nothing, and its market, prices and   *)
(* volumes are possible ones at every step.                                *)
THEOREM FormsStartEmpty == MenuSpec => []MenuInv
  <1>1. MenuIInv => MenuInv
    BY DEF MenuIInv
  <1>2. QED
    BY <1>1, MenuIInvariant, PTL

(* Every order the form sends has the fields its type needs, with the one  *)
(* exception that SentWellFormed names.                                    *)
THEOREM OrdersWellFormed == MenuSpec => []SentWellFormed
  <1>1. MenuIInv => SentWellFormed
    BY DEF MenuIInv
  <1>2. QED
    BY <1>1, MenuIInvariant, PTL

(* An order is sent with the numbers that stood in the form's texts.       *)
THEOREM OrdersAsShown == MenuSpec => []SentAsShown
  <1>1. MenuIInv => SentAsShown
    BY DEF MenuIInv
  <1>2. QED
    BY <1>1, MenuIInvariant, PTL
=============================================================================
