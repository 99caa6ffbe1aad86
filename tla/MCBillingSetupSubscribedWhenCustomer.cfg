CONSTANTS
  Creator = c
  Reqs = {r1, r2}
  MaxStripe = 3
  MaxGrants = 2
SPECIFICATION Spec
INVARIANTS
  SubscribedWhenCustomer
CHECK_DEADLOCK FALSE
