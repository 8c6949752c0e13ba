SPECIFICATION SubscriptSpec
CONSTANTS
  Cap = 4
  Keys = {2, 3, 6, 10}
  Vals = {v0, v1}
  DefaultVal = v0
PROPERTIES SubscriptStores
