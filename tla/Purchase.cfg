CONSTANTS
  Products = {pro, coins}
  Consumables = {coins}
  Tasks = {t1, t2}
  Observer = observer
  MaxDeaths = 2
  MaxEvents = 3
SPECIFICATION FairSpec
INVARIANTS
  HasProFollowsPurchases
  LoadedMeansShown
PROPERTIES
  BuyerGetsPro
\* all is bought
CHECK_DEADLOCK FALSE
