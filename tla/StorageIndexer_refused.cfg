SPECIFICATION FairSpec
CONSTANTS
  prod1 = prod1
  prod2 = prod2
  reco = reco
  products = products
  recommendations = recommendations
  Claims = {prod1, reco}
  Groups = {products, recommendations}
  GroupOf <- MCGroupOf
  Keys = {k1}
  NoKey = NoKey
  k1 = k1
  Storable <- Prod1MayRefuse
  MaxAttempts = 2
  MaxLog = 2
  MaxFaults = 0
PROPERTIES
  StorableRecordsAreStored
