------------------------- MODULE BillingSetupProofs -------------------------
(***************************************************************************)
(* Proofs about BillingSetup, for every set of requests and every bound:   *)
(* a success answer of either handler leaves the project row holding a     *)
(* Stripe customer, and a Lago customer is always created linked to one,  *)
(* whatever the interleaving of the create request and the                 *)
(* CheckPaymentEnabled requests and whichever calls fail.                  *)
(***************************************************************************)
EXTENDS BillingSetup, TLAPS

\* the places where an actor has not yet got past its Stripe step
Early == {"idle", "admin1", "stripe", "cproject", "conboard", "cstripe", "err", "panic"}

\* the places where an actor's handler has saved (or read) a BillingID
Saved(a) ==
  IF a = Creator THEN {"cusage", "ok"}
  ELSE {"admin2", "lcheck", "lcust", "lcloud", "ltrial", "lstd", "lgrant", "paycheck", "ok"}

(* With Stripe on, an actor past its Stripe step holds a Stripe customer:  *)
(* the creator made one, a request read a saved one or made one.           *)
HoldsCustomer ==
  stripeOn => \A a \in Actors : pc[a] \notin Early => bid[a] # 0

(* With Stripe on, an actor past its save holds the row's BillingID set:   *)
(* the column is only ever written with a held customer, never cleared.    *)
RowHasCustomer ==
  stripeOn => \A a \in Actors : pc[a] \in Saved(a) => billingId # 0

(* A request only reaches its Stripe step having read BillingID empty.     *)
StripeStepFresh ==
  \A r \in Reqs : pc[r] \in {"admin1", "stripe"} => bid[r] = 0

(* The inductive invariant: the two properties, what they rest on, and    *)
(* the shape of the state the steps rely on.                               *)
IInv ==
  /\ stripe \in Nat
  /\ DOMAIN pc = Actors /\ DOMAIN bid = Actors
  /\ StripeStepFresh
  /\ HoldsCustomer
  /\ RowHasCustomer
  /\ LagoLinkedToStripe

-----------------------------------------------------------------------------
USE BillingAssumption

LEMMA IInvInit == Init => IInv
  <1> SUFFICES ASSUME Init PROVE IInv
    OBVIOUS
  <1>1. stripe \in Nat /\ DOMAIN pc = Actors /\ DOMAIN bid = Actors
    BY DEF Init, Actors
  <1>2. StripeStepFresh
    BY DEF Init, StripeStepFresh, Actors
  <1>3. HoldsCustomer
    BY DEF Init, HoldsCustomer, Actors, Early
  <1>4. RowHasCustomer
    BY DEF Init, RowHasCustomer, Actors, Saved
  <1>5. LagoLinkedToStripe
    BY DEF Init, LagoLinkedToStripe
  <1>. QED
    BY <1>1, <1>2, <1>3, <1>4, <1>5 DEF IInv

LEMMA IInvNext == IInv /\ [Next]_vars => IInv'
  <1> SUFFICES ASSUME IInv, [Next]_vars PROVE IInv'
    OBVIOUS
  <1> USE DEF IInv, StripeStepFresh, HoldsCustomer, RowHasCustomer, LagoLinkedToStripe,
              Goto, Actors, lagoVars
  <1>1. CASE CreateProjectWithUser
    BY <1>1 DEF CreateProjectWithUser, Early, Saved
  <1>2. CASE CreateOnboarding
    BY <1>2 DEF CreateOnboarding, Early, Saved
  <1>3. CASE CreateStripeCustomer
    BY <1>3 DEF CreateStripeCustomer, Early, Saved
  <1>4. CASE CreateSaveProject
    BY <1>4 DEF CreateSaveProject, Early, Saved
  <1>5. CASE CreateProjectUsage
    BY <1>5 DEF CreateProjectUsage, Early, Saved
  <1>6. ASSUME NEW a \in Actors, LagoCreateCustomer(a) PROVE IInv'
    BY <1>6 DEF LagoCreateCustomer, Early, Saved
  <1>7. ASSUME NEW a \in Actors, LagoAddPlan(a) PROVE IInv'
    BY <1>7 DEF LagoAddPlan, AfterLago, Early, Saved, Plans
  <1>8. ASSUME NEW a \in Actors, LagoGrantCredits(a) PROVE IInv'
    BY <1>8 DEF LagoGrantCredits, AfterLago, Early, Saved
  <1>9. ASSUME NEW r \in Reqs, RequestStart(r) PROVE IInv'
    BY <1>9 DEF RequestStart, Early, Saved
  <1>10. ASSUME NEW r \in Reqs, GetAdminForStripe(r) PROVE IInv'
    BY <1>10 DEF GetAdminForStripe, Early, Saved
  <1>11. ASSUME NEW r \in Reqs, EnsureStripeCustomer(r) PROVE IInv'
    <2>. USE <1>11 DEF EnsureStripeCustomer, Early, Saved
    <2>1. CASE (~stripeOn \/ bid[r] # 0) /\ Goto(r, "admin2") /\ UNCHANGED <<stripe, bid>>
      BY <2>1
    <2>2. CASE stripeOn /\ bid[r] = 0 /\ Goto(r, "err") /\ UNCHANGED <<stripe, bid>>
      BY <2>2
    <2>3. CASE /\ stripeOn /\ bid[r] = 0 /\ stripe < MaxStripe
               /\ stripe' = stripe + 1 /\ bid' = [bid EXCEPT ![r] = stripe + 1]
               /\ Goto(r, "save")
      BY <2>3
    <2>. QED
      BY <2>1, <2>2, <2>3
  <1>12. ASSUME NEW r \in Reqs, SaveBillingId(r) PROVE IInv'
    BY <1>12 DEF SaveBillingId, Early, Saved
  <1>13. ASSUME NEW r \in Reqs, GetAdminForLago(r) PROVE IInv'
    BY <1>13 DEF GetAdminForLago, Early, Saved
  <1>14. ASSUME NEW r \in Reqs, CheckLagoCustomer(r) PROVE IInv'
    BY <1>14 DEF CheckLagoCustomer, Early, Saved
  <1>15. ASSUME NEW r \in Reqs, CheckPayment(r) PROVE IInv'
    BY <1>15 DEF CheckPayment, Early, Saved
  <1>16. CASE UNCHANGED vars
    BY <1>16 DEF vars, Early, Saved
  <1>. QED
    BY <1>1, <1>2, <1>3, <1>4, <1>5, <1>6, <1>7, <1>8, <1>9, <1>10, <1>11,
       <1>12, <1>13, <1>14, <1>15, <1>16 DEF Next

(* The answer of either handler, a 200 with Stripe billing on, comes after *)
(* the project row holds a Stripe customer (ProjectCreateHandler.ServeHTTP *)
(* and CheckPaymentEnabledHandler.ensureStripeCustomerExists).            *)
THEOREM OkAnswerHolds == Spec => []OkAnswerHasStripeCustomer
  <1>1. IInv => OkAnswerHasStripeCustomer
    BY DEF IInv, RowHasCustomer, OkAnswerHasStripeCustomer, Saved
  <1>. QED
    BY <1>1, IInvInit, IInvNext, PTL DEF Spec

(* createCustomer of LagoClient is only reached, with Stripe billing on,   *)
(* by an actor holding a Stripe customer, so the Lago customer is always   *)
(* linked to one.                                                          *)
THEOREM LagoLinkHolds == Spec => []LagoLinkedToStripe
  BY IInvInit, IInvNext, PTL DEF Spec, IInv
=============================================================================
