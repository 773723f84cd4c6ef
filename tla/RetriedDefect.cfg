SPECIFICATION Spec
CONSTANTS
  MaxAttempts = 2
  btc = btc  usd = usd  doge = doge
  main = main  side = side
  Malformed = Malformed
  Empty = Empty
  NoChain = NoChain
  Digits = {0, 1}
  Places <- MCPlaces
  MaxPrecision = 3
  MaxScale = 1
  Registry <- MCRegistry
  Tickers = {btc, usd, doge}
  Slugs = {main, side}
  Payloads <- MCSlips
  BatchSize = 2
  Capacity = 2
CHECK_DEADLOCK FALSE
INVARIANT
  DefectsAreNotRetried
