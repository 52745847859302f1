SPECIFICATION FairSpec
CONSTANTS
  r1 = r1
  r2 = r2
  r3 = r3
  l1 = l1
  ann = ann
  bob = bob
  cara = cara
  k1 = k1
  i1 = i1
  NoKey = NoKey
  Nobody = Nobody
  Buyer <- MCBuyer
  Key <- MCKey
  Price <- MCPrice
  Listing <- MCListing
  Creator <- MCCreator
  Request = {r3}
  Invoice = {}
  InvoiceAmount = 175
  TakeRate = {20}
  RefundStep = {175}
  MaxFailures = 0
  RowSecurity = TRUE
CHECK_DEADLOCK FALSE
PROPERTIES
  CapturedIsCompleted
