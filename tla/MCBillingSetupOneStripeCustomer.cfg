CONSTANTS
  Creator = c
  Reqs = {r1, r2}
  MaxStripe = 3
  MaxGrants = 2
SPECIFICATION Spec
INVARIANTS
  OneStripeCustomer
CHECK_DEADLOCK FALSE
