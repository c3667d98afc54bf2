SPECIFICATION FeedsFairSpec
CONSTANTS
  Currencies = {krw, xrp}
  Quotes = {ticker}
  Public = public
  Private = private
  Worker = worker
  NoThread = nobody
  NoAsset = none
  Garbage = garbage
  Misread = misread
  MaxChanges = 3
CHECK_DEADLOCK FALSE
INVARIANTS
  FeedsInv
  NewestStored
PROPERTIES
  BackOnlyBySnapshot
  MessagesStored
