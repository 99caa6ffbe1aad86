----------------------------- MODULE BillingSetup -----------------------------
(***************************************************************************)
(* How a project gets its billing accounts.  Two handlers set them up:     *)
(*  - ProjectCreateHandler.ServeHTTP (src/api/server/handlers/project/     *)
(*    create.go), which creates the project, its admin role, the Stripe    *)
(*    customer and the Lago customer with its plan, then saves BillingID;  *)
(*  - CheckPaymentEnabledHandler (src/api/server/handlers/billing/list.go),*)
(*    whose ensureBillingSetup creates whatever of the two is missing,     *)
(*    called by any number of concurrent requests.                         *)
(* Both reach Lago through LagoClient.CreateCustomerWithPlan               *)
(* (src/internal/billing/usage.go): create the customer, subscribe it,     *)
(* and in the sandbox grant the starter credits.                           *)
(*                                                                         *)
(* Every database, Stripe and Lago call may fail; a handler returns at the *)
(* first error, as the code does.  A Stripe customer is its number: the    *)
(* customers created are 1..stripe, and 0 stands for BillingID = "".       *)
(* The project row is read by the middleware when a request starts, so a  *)
(* request works on the BillingID it read then (bid[a]).                   *)
(***************************************************************************)
EXTENDS Naturals

CONSTANTS
  Creator,      \* the one request that creates the project
  Reqs,         \* the CheckPaymentEnabled requests
  MaxStripe,    \* bound on Stripe customers created
  MaxGrants     \* bound on credit grants

ASSUME BillingAssumption ==
  /\ Creator \notin Reqs
  /\ MaxStripe \in Nat /\ MaxGrants \in Nat

VARIABLES
  stripeOn,     \* StripeConfigLoaded and the BillingEnabled flag
  lagoOn,       \* LagoConfigLoaded and the LagoEnabled flag
  sandbox,      \* EnableSandbox
  projExists,   \* the project row exists
  adminExists,  \* the project has an admin role of a readable user
  billingId,    \* the BillingID column of the project row
  stripe,       \* Stripe customers created for the project
  lagoCustomer, \* Lago holds the customer cus_<id>
  lagoLink,     \* the Stripe customer the Lago customer was created with
  plans,        \* plan codes the Lago customer is subscribed to
  grants,       \* starter credit grants made (0: no wallet)
  pc,           \* pc[a]: where actor a is
  bid           \* bid[a]: proj.BillingID as actor a holds it

vars == <<stripeOn, lagoOn, sandbox, projExists, adminExists, billingId,
          stripe, lagoCustomer, lagoLink, plans, grants, pc, bid>>

Actors == {Creator} \cup Reqs

Done == {"idle", "ok", "err", "panic"}

Plans == {"trial", "standard", "cloud"}

lagoVars == <<lagoCustomer, lagoLink, plans, grants>>

\* pc'[a] = s, every other actor where it was
Goto(a, s) == pc' = [pc EXCEPT ![a] = s]

\* where an actor goes when CreateCustomerWithPlan has returned nil
AfterLago(a) == IF a = Creator THEN "cupdate" ELSE "paycheck"

-----------------------------------------------------------------------------
Init ==
  /\ stripeOn \in BOOLEAN /\ lagoOn \in BOOLEAN /\ sandbox \in BOOLEAN
  /\ projExists = FALSE /\ adminExists = FALSE
  /\ billingId = 0 /\ stripe = 0
  /\ lagoCustomer = FALSE /\ lagoLink = 0 /\ plans = {} /\ grants = 0
  /\ pc = [a \in Actors |-> IF a = Creator THEN "cproject" ELSE "idle"]
  /\ bid = [a \in Actors |-> 0]

(* CreateProjectWithUser: CreateProject, CreateProjectRole(admin) and      *)
(* ReadProject, each returning at its error: k is how many succeeded.      *)
CreateProjectWithUser ==
  /\ pc[Creator] = "cproject"
  /\ \E k \in 0..3 :
       /\ projExists' = (k >= 1)
       /\ adminExists' = (k >= 2)
       /\ Goto(Creator, IF k = 3 THEN "conboard" ELSE "err")
  /\ UNCHANGED <<stripeOn, lagoOn, sandbox, billingId, stripe, lagoVars, bid>>

(* CreateProjectOnboarding, returning at its error. *)
CreateOnboarding ==
  /\ pc[Creator] = "conboard"
  /\ \E s \in {"cstripe", "err"} : Goto(Creator, s)
  /\ UNCHANGED <<stripeOn, lagoOn, sandbox, projExists, adminExists, billingId,
                 stripe, lagoVars, bid>>

(* Stripe CreateCustomer when Stripe is on, returning at its error; then   *)
(* CreateCustomerWithPlan when Lago is on.  BillingID is only in memory.   *)
CreateStripeCustomer ==
  /\ pc[Creator] = "cstripe"
  /\ \/ /\ stripeOn
        /\ Goto(Creator, "err")
        /\ UNCHANGED <<stripe, bid>>
     \/ /\ stripeOn
        /\ stripe < MaxStripe
        /\ stripe' = stripe + 1
        /\ bid' = [bid EXCEPT ![Creator] = stripe + 1]
        /\ Goto(Creator, IF lagoOn THEN "lcust" ELSE "cupdate")
     \/ /\ ~stripeOn
        /\ Goto(Creator, IF lagoOn THEN "lcust" ELSE "cupdate")
        /\ UNCHANGED <<stripe, bid>>
  /\ UNCHANGED <<stripeOn, lagoOn, sandbox, projExists, adminExists, billingId,
                 lagoVars>>

(* UpdateProject when BillingID is set, then CreateProjectUsage; each     *)
(* returns at its error.                                                   *)
CreateSaveProject ==
  /\ pc[Creator] = "cupdate"
  /\ \/ /\ bid[Creator] # 0
        /\ \/ Goto(Creator, "err") /\ UNCHANGED billingId
           \/ Goto(Creator, "cusage") /\ billingId' = bid[Creator]
     \/ bid[Creator] = 0 /\ Goto(Creator, "cusage") /\ UNCHANGED billingId
  /\ UNCHANGED <<stripeOn, lagoOn, sandbox, projExists, adminExists, stripe,
                 lagoVars, bid>>

CreateProjectUsage ==
  /\ pc[Creator] = "cusage"
  /\ \E s \in {"ok", "err"} : Goto(Creator, s)
  /\ UNCHANGED <<stripeOn, lagoOn, sandbox, projExists, adminExists, billingId,
                 stripe, lagoVars, bid>>

-----------------------------------------------------------------------------
(* LagoClient.CreateCustomerWithPlan, one Lago call per step, for actor a. *)
(* createCustomer: Customer().Create of cus_<id>, linked to bid[a].        *)
LagoCreateCustomer(a) ==
  /\ pc[a] = "lcust"
  /\ \/ Goto(a, "err") /\ UNCHANGED <<lagoCustomer, lagoLink>>
     \/ /\ lagoCustomer' = TRUE
        /\ lagoLink' = bid[a]
        /\ Goto(a, IF sandbox THEN "lcloud" ELSE "ltrial")
  /\ UNCHANGED <<stripeOn, lagoOn, sandbox, projExists, adminExists, billingId,
                 stripe, plans, grants, bid>>

(* addCustomerPlan: the cloud plan in the sandbox, else the trial and then *)
(* the standard plan; each returns at its error.                           *)
LagoAddPlan(a) ==
  /\ pc[a] \in {"lcloud", "ltrial", "lstd"}
  /\ LET code == CASE pc[a] = "lcloud" -> "cloud"
                   [] pc[a] = "ltrial" -> "trial"
                   [] pc[a] = "lstd"   -> "standard"
         next == CASE pc[a] = "lcloud" -> "lgrant"
                   [] pc[a] = "ltrial" -> "lstd"
                   [] pc[a] = "lstd"   -> AfterLago(a)
     IN \/ Goto(a, "err") /\ UNCHANGED plans
        \/ Goto(a, next) /\ plans' = plans \cup {code}
  /\ UNCHANGED <<stripeOn, lagoOn, sandbox, projExists, adminExists, billingId,
                 stripe, lagoCustomer, lagoLink, grants, bid>>

(* CreateCreditsGrant: a wallet with the credits when the customer has     *)
(* none, else a wallet transaction adding them; either may fail.           *)
LagoGrantCredits(a) ==
  /\ pc[a] = "lgrant"
  /\ \/ Goto(a, "err") /\ UNCHANGED grants
     \/ grants < MaxGrants /\ grants' = grants + 1 /\ Goto(a, AfterLago(a))
  /\ UNCHANGED <<stripeOn, lagoOn, sandbox, projExists, adminExists, billingId,
                 stripe, lagoCustomer, lagoLink, plans, bid>>

-----------------------------------------------------------------------------
(* CheckPaymentEnabledHandler, for request r. *)

\* the proj.BillingID == "" test of ensureBillingSetup dropped
RequestStartSkippingStripe(r) ==
  /\ pc[r] = "idle"
  /\ pc[Creator] \in {"ok", "err"} /\ projExists
  /\ bid' = [bid EXCEPT ![r] = billingId]
  /\ Goto(r, "admin2")
  /\ UNCHANGED <<stripeOn, lagoOn, sandbox, projExists, adminExists, billingId,
                 stripe, lagoVars>>

(* A request for the project, once its creation has returned; the         *)
(* middleware reads the row; ensureBillingSetup tests its BillingID.      *)
RequestStart(r) ==
  /\ pc[r] = "idle"
  /\ pc[Creator] \in {"ok", "err"} /\ projExists
  /\ bid' = [bid EXCEPT ![r] = billingId]
  /\ Goto(r, IF billingId = 0 THEN "admin1" ELSE "admin2")
  /\ UNCHANGED <<stripeOn, lagoOn, sandbox, projExists, adminExists, billingId,
                 stripe, lagoVars>>

(* The first getAdminUser (lines 139-169): ListProjectRolesOrdered may     *)
(* fail; when no admin role has a readable user the loop leaves adminUser  *)
(* nil and line 164 reads adminUser.ID, a panic, so the nil-to-user        *)
(* fallback of lines 110-113 is never reached.                             *)
GetAdminForStripe(r) ==
  /\ pc[r] = "admin1"
  /\ \/ Goto(r, "err")
     \/ ~adminExists /\ Goto(r, "panic")
     \/ adminExists /\ Goto(r, "stripe")
  /\ UNCHANGED <<stripeOn, lagoOn, sandbox, projExists, adminExists, billingId,
                 stripe, lagoVars, bid>>

(* ensureStripeCustomerExists: nothing when Stripe is off or BillingID is  *)
(* set, else CreateCustomer, returning at its error.                       *)
EnsureStripeCustomer(r) ==
  /\ pc[r] = "stripe"
  /\ \/ (~stripeOn \/ bid[r] # 0) /\ Goto(r, "admin2") /\ UNCHANGED <<stripe, bid>>
     \/ /\ stripeOn /\ bid[r] = 0
        /\ Goto(r, "err")
        /\ UNCHANGED <<stripe, bid>>
     \/ /\ stripeOn /\ bid[r] = 0
        /\ stripe < MaxStripe
        /\ stripe' = stripe + 1
        /\ bid' = [bid EXCEPT ![r] = stripe + 1]
        /\ Goto(r, "save")
  /\ UNCHANGED <<stripeOn, lagoOn, sandbox, projExists, adminExists, billingId,
                 lagoVars>>

\* the UpdateProject call lost: the new customer is never saved
SaveBillingIdSkipped(r) ==
  /\ pc[r] = "save"
  /\ Goto(r, "admin2")
  /\ UNCHANGED <<stripeOn, lagoOn, sandbox, projExists, adminExists, billingId,
                 stripe, lagoVars, bid>>

(* ensureStripeCustomerExists: UpdateProject with the new BillingID.       *)
SaveBillingId(r) ==
  /\ pc[r] = "save"
  /\ \/ Goto(r, "err") /\ UNCHANGED billingId
     \/ Goto(r, "admin2") /\ billingId' = bid[r]
  /\ UNCHANGED <<stripeOn, lagoOn, sandbox, projExists, adminExists, stripe,
                 lagoVars, bid>>

(* The second getAdminUser, which panics at line 164 as the first one      *)
(* does when no admin role has a readable user; then                       *)
(* ensureLagoCustomerExists, which returns at once when Lago is off.       *)
GetAdminForLago(r) ==
  /\ pc[r] = "admin2"
  /\ \/ Goto(r, "err")
     \/ ~adminExists /\ Goto(r, "panic")
     \/ adminExists /\ Goto(r, IF lagoOn THEN "lcheck" ELSE "paycheck")
  /\ UNCHANGED <<stripeOn, lagoOn, sandbox, projExists, adminExists, billingId,
                 stripe, lagoVars, bid>>

(* CheckIfCustomerExists, returning at its error; an existing customer     *)
(* ends the setup, a missing one is created with CreateCustomerWithPlan.   *)
CheckLagoCustomer(r) ==
  /\ pc[r] = "lcheck"
  /\ \/ Goto(r, "err")
     \/ Goto(r, IF lagoCustomer THEN "paycheck" ELSE "lcust")
  /\ UNCHANGED <<stripeOn, lagoOn, sandbox, projExists, adminExists, billingId,
                 stripe, lagoVars, bid>>

(* StripeClient.CheckPaymentEnabled, then the answer. *)
CheckPayment(r) ==
  /\ pc[r] = "paycheck"
  /\ \E s \in {"ok", "err"} : Goto(r, s)
  /\ UNCHANGED <<stripeOn, lagoOn, sandbox, projExists, adminExists, billingId,
                 stripe, lagoVars, bid>>

-----------------------------------------------------------------------------
Next ==
  \/ CreateProjectWithUser \/ CreateOnboarding \/ CreateStripeCustomer
  \/ CreateSaveProject \/ CreateProjectUsage
  \/ \E a \in Actors : LagoCreateCustomer(a) \/ LagoAddPlan(a) \/ LagoGrantCredits(a)
  \/ \E r \in Reqs :
       \/ RequestStart(r) \/ GetAdminForStripe(r) \/ EnsureStripeCustomer(r)
       \/ SaveBillingId(r) \/ GetAdminForLago(r) \/ CheckLagoCustomer(r)
       \/ CheckPayment(r)

Spec == Init /\ [][Next]_vars

-----------------------------------------------------------------------------
(* Type invariant. *)
TypeOK ==
  /\ {stripeOn, lagoOn, sandbox, projExists, adminExists, lagoCustomer} \subseteq BOOLEAN
  /\ stripe \in 0..MaxStripe /\ billingId \in 0..stripe /\ lagoLink \in 0..stripe
  /\ plans \subseteq Plans /\ grants \in 0..MaxGrants
  /\ bid \in [Actors -> 0..stripe]

(* A successful answer of either handler, with Stripe billing on, leaves  *)
(* the project row holding a Stripe customer: BillingID is saved before   *)
(* the create handler and CheckPaymentEnabled report success.             *)
OkAnswerHasStripeCustomer ==
  stripeOn => \A a \in Actors : pc[a] = "ok" => billingId # 0

(* With Stripe billing on, the Lago customer is always created linked to a *)
(* Stripe customer: both handlers make sure of the Stripe customer before  *)
(* they call CreateCustomerWithPlan.                                       *)
LagoLinkedToStripe ==
  (stripeOn /\ lagoCustomer) => lagoLink # 0

(* A project has at most one Stripe customer: neither a failure after      *)
(* CreateCustomer nor two requests at once make a second one.              *)
OneStripeCustomer == stripe <= 1

(* ensureBillingSetup makes sure of the usage customer "if it doesn't      *)
(* exist": a CheckPaymentEnabled request that answers success leaves the  *)
(* Lago customer with the subscription usage is ingested against (the      *)
(* standard plan, or the cloud plan in the sandbox), whatever an earlier   *)
(* CreateCustomerWithPlan left half done.                                  *)
SubscribedWhenCustomer ==
  \A r \in Reqs :
    (pc[r] = "ok" /\ lagoOn /\ lagoCustomer) => plans \cap {"standard", "cloud"} # {}

(* CheckPaymentEnabled never panics: a project with no readable admin      *)
(* falls back to the current user, as the comment of ensureBillingSetup    *)
(* (line 110) says; getAdminUser dereferences the nil user at line 164.    *)
NoPanic == \A r \in Reqs : pc[r] # "panic"
=============================================================================
