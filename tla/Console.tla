------------------------------ MODULE Console -------------------------------
(***************************************************************************)
(* The client's forms: which ones a page shows for the campaign it has     *)
(* read, and what their validation lets through.  The contract decides in  *)
(* the end; the forms repeat its rules in another language, and the        *)
(* properties compare the two on every state the contract can be in.       *)
(***************************************************************************)
EXTENDS Views

CONSTANT MaxSafe      \* 2^53: above it Number() keeps even integers only

ASSUME ConsoleConstants == MaxSafe \in Nat /\ I64Max <= 2 * MaxSafe

-----------------------------------------------------------------------------
(* The funding form of the campaign page. *)

\* Number(bigint), up to twice MaxSafe: ties go to the even neighbour.
ToNumber(n) ==
  IF n <= MaxSafe \/ n % 2 = 0 THEN n
  ELSE IF n % 4 = 1 THEN n - 1 ELSE n + 1

\* people type fractions: an amount is a number of quarters here
TypedAmounts == 0 .. 4 * (I64Max + 1)

\* Math.round
Rounded(typed) == (typed + 2) \div 4

RemainingWhole(c) == ToNumber(c.target_amount)                    \* mutant

RemainingTarget(c) == Max({0, ToNumber(c.target_amount) - ToNumber(c.total_funded)})

\* the page's button
FundButton(c) ==
  ToNumber(c.total_funded) < ToNumber(c.target_amount) /\ c.status \in {"Funding", "Active"}

\* min and max of the input, which the browser enforces
InputAccepts(typed, remaining) == 4 <= typed /\ typed <= 4 * remaining

ValidateContribution(typed, remaining) == typed > 0 /\ typed <= 4 * remaining

-----------------------------------------------------------------------------
(* The dispute forms. *)

DISPUTABLE_STATUSES == {"Active", "Funding", "Funded"}

HasStake(id, wallet) == wallet \in Investors /\ contribution[id][wallet] > 0

MayDispute(id, wallet) ==
  wallet = campaign[id].farmer \/ HasStake(id, wallet) \/ wallet = admin

\* evaluateDisputeEligibility: who and when
DisputeEligible(id, wallet) ==
  campaign[id].status \in DISPUTABLE_STATUSES /\ MayDispute(id, wallet)

\* The page passes campaign.id to its form, and the contract's record has no such field.
FormHasId(id) == "id" \in DOMAIN campaign[id]

\* canOpenDispute of the form on the page: without an id useContribution never reads,
\* and no contribution counts as none.
DisputeForm(id, wallet) ==
  \/ wallet = campaign[id].farmer
  \/ FormHasId(id) /\ HasStake(id, wallet)
  \/ wallet = admin

-----------------------------------------------------------------------------
(* The administrator's panel. *)

ACTIONABLE_STATUSES ==
  {"Active", "Funding", "Funded", "InProduction", "Harvested", "Disputed"}

\* useAdminCampaigns: the campaigns met in the events it loads
AdminCampaigns ==
  {id \in {e.id : e \in Range(RecentEvents)} : campaign[id].status \in ACTIONABLE_STATUSES}

\* the forms CampaignAdminPanel shows
Panel(status) ==
  CASE status \in {"Active", "Funding"} -> {"MarkFailed"}
    [] status = "Funded"       -> {"ConfigureTranches", "ReleaseTranche", "MarkFailed"}
    [] status = "InProduction" -> {"ReleaseTranche", "MarkFailed"}
    [] status = "Harvested"    -> {"SettleCampaign", "MarkFailed"}
    [] status = "Disputed"     -> {"ResolveDispute"}
    [] OTHER                   -> {}

HeldInForm(c) == c.total_funded - c.released - c.refundable - c.returnable

\* parseWholeAmount
WholeAmounts == {a \in Amounts : a >= 0}

ValidSchedule(list, funded) ==
  /\ list # <<>>
  /\ \A i \in DOMAIN list : list[i].amount \in WholeAmounts \ {0}
  /\ TrancheSum(list) <= funded

ValidRelease(amount, held) == 0 < amount /\ amount <= held

PartialUpToHeld(resolution, typed, held) ==                       \* mutant
  resolution = "PartialSettlement" => 0 < typed /\ typed <= held

\* only a partial settlement reads the amount typed
ValidVerdict(resolution, typed, held) ==
  resolution = "PartialSettlement" => 0 < typed /\ typed < held

PayoutSent(resolution, typed) == IF resolution = "PartialSettlement" THEN typed ELSE 0

ValidPayout(payout, held) == payout <= held

PanelForms ==
  {"ConfigureTranches", "ReleaseTranche", "ResolveDispute", "SettleCampaign", "MarkFailed"}

\* The panel's schedules come with no tranche released.
FreshSchedules == {list \in TrancheLists : \A i \in DOMAIN list : ~list[i].released}

-----------------------------------------------------------------------------
(* What the mutation hooks refresh: for the event by which each method is known, *)
(* the queries its onSuccess invalidates.                                        *)

DisputeRefreshesDispute ==                                        \* mutant
  [CampaignCreated |-> {"campaign"},
   ContribReceived |-> {"campaign", "contribution"},
   HarvestReported |-> {"campaign", "harvestRecord"},
   DisputeOpened   |-> {"dispute"}]

FarmerAndInvestorHooks ==
  [CampaignCreated |-> {"campaign"},
   ContribReceived |-> {"campaign", "contribution"},
   HarvestReported |-> {"campaign", "harvestRecord"},
   DisputeOpened   |-> {"campaign", "dispute"}]

AdminHooks ==
  [TranchesConfigured |-> {"tranches", "adminCampaignsOverview"},
   TrancheReleased    |-> {"campaign", "tranches", "adminCampaignsOverview"},
   DisputeResolved    |-> {"campaign", "dispute", "adminCampaignsOverview"},
   CampaignSettled    |-> {"campaign", "adminCampaignsOverview"},
   CampaignFailed     |-> {"campaign", "adminCampaignsOverview"}]

ClaimHooks ==
  [RefundClaimed |-> {"campaign", "contribution"},
   ReturnClaimed |-> {"campaign", "contribution"}]

Invalidated(name) ==
  CASE name \in DOMAIN FarmerAndInvestorHooks -> FarmerAndInvestorHooks[name]
    [] name \in DOMAIN AdminHooks             -> AdminHooks[name]
    [] name \in DOMAIN ClaimHooks             -> ClaimHooks[name]

\* the queries that read one campaign
OfOneCampaign == {"campaign", "contribution", "tranches", "dispute", "harvestRecord"}

\* The queries whose answer the step changes for the campaign, or for a list it is in:
\* the administrator's overview and the market's list read the records of all
\* campaigns, and the portfolio reads the investor's stakes as well.
Outdated(id) ==
  (IF campaign'[id] # campaign[id]
   THEN {"campaign", "adminCampaignsOverview", "allCampaigns", "investorPortfolio"} ELSE {})
  \cup (IF contribution'[id] # contribution[id]
        THEN {"contribution", "investorPortfolio"} ELSE {})
  \cup (IF tranches'[id] # tranches[id] THEN {"tranches"} ELSE {})
  \cup (IF dispute'[id] # dispute[id] THEN {"dispute"} ELSE {})
  \cup (IF harvest'[id] # harvest[id] THEN {"harvestRecord"} ELSE {})

\* What the page shows from which the method is sent: AdminDashboardPage,
\* InvestorDashboardPage and CampaignDetailPage; the page that creates a campaign shows
\* none, and no page reports a harvest.
ShownBySender(name) ==
  CASE name \in DOMAIN AdminHooks                      -> {"adminCampaignsOverview", "escrowAdmin"}
    [] name \in DOMAIN ClaimHooks                      -> {"investorPortfolio"}
    [] name \in {"ContribReceived", "DisputeOpened"}   -> {"campaign", "escrowAdmin"}
    [] OTHER                                           -> {}

-----------------------------------------------------------------------------
(* Properties. *)

\* A write refreshes whatever it changes of the one campaign it is about, whichever page
\* shows it; and all that the page that sent it shows, but for the portfolio, which the
\* claims leave as it was.
MutationsRefresh ==
  [][\A i \in DOMAIN tx'.events :
       LET e == tx'.events[i] IN
       e.name \in DOMAIN FarmerAndInvestorHooks \cup DOMAIN AdminHooks \cup DOMAIN ClaimHooks =>
         /\ Outdated(e.id) \cap OfOneCampaign \subseteq Invalidated(e.name)
         /\ e.name \notin DOMAIN ClaimHooks =>
              Outdated(e.id) \cap ShownBySender(e.name) \subseteq Invalidated(e.name)
    ]_viewVars

AloneOnToken(id) ==
  \A o \in CampaignIds \ {id} : campaign[o].token_address # campaign[id].token_address

\* On the state it was read from, a contribution that the form lets through is accepted
\* by the contract unless the deadline has passed, which the form does not look at.
\* The amounts of the campaign are those that Number() keeps.
FundingFormAccepted ==
  \A id \in CampaignIds :
    /\ FundButton(campaign[id])
    /\ campaign[id].target_amount <= MaxSafe
    /\ AloneOnToken(id)
    => LET remaining == RemainingTarget(campaign[id]) IN
       \A typed \in TypedAmounts, i \in Investors :
         InputAccepts(typed, remaining) /\ ValidateContribution(typed, remaining) =>
           (ENABLED FundCampaign(id, i, Rounded(typed)) <=> timestamp <= campaign[id].deadline)

\* Whoever the eligibility rule admits, the contract admits; and in every status in
\* which the contract accepts a dispute at all, the form on the page is shown to nobody
\* the contract would refuse.
DisputeFormsAccepted ==
  \A id \in CampaignIds, wallet \in Accounts :
    /\ DisputeEligible(id, wallet) => ENABLED OpenDispute(id, wallet)
    /\ InFlight(campaign[id].status) =>
         (DisputeForm(id, wallet) => ENABLED OpenDispute(id, wallet))

\* What the forms of investors and farmers let through, on the state they were shown
\* with, the contract accepts; and they are shown to nobody it would refuse.
FormsMatchContract == FundingFormAccepted /\ DisputeFormsAccepted

\* The contract would accept this action for campaign id, with some argument.
Acceptable(id, form) ==
  CASE form = "ConfigureTranches" ->
         \E list \in TrancheLists : ENABLED ConfigureTranches(id, list)
    [] form = "ReleaseTranche" ->
         \E to \in Farmers, amount \in Amounts : ENABLED ReleaseTranche(id, to, amount)
    [] form = "ResolveDispute" ->
         \E resolution \in DisputeResolution, payout \in Amounts :
           ENABLED ResolveDispute(id, resolution, payout)
    [] form = "SettleCampaign" ->
         \E to \in Farmers, payout \in Amounts : ENABLED SettleCampaign(id, to, payout)
    [] form = "MarkFailed" -> ENABLED MarkFailed(id)

\* Of the campaigns its event window meets, the dashboard lists exactly those for which
\* the contract would accept one of the five actions with any argument at all, and the
\* panel has a form for each that it would accept.
PanelOffersWhatContractTakes ==
  \A id \in CampaignIds :
    AloneOnToken(id) =>
      /\ (\E e \in Range(RecentEvents) : e.id = id) =>
           (id \in AdminCampaigns <=> \E form \in PanelForms : Acceptable(id, form))
      /\ \A form \in PanelForms : Acceptable(id, form) => form \in Panel(campaign[id].status)

\* The contract accepts every submission the panel's validation lets through, but for a
\* release that matches no tranche and for marking a harvested campaign as failed.
ValidSubmissionsAccepted ==
  \A id \in CampaignIds :
    LET c     == campaign[id]
        held  == HeldInForm(c)
        forms == Panel(c.status)
    IN
    /\ "ConfigureTranches" \in forms =>
         \A list \in FreshSchedules :
           ValidSchedule(list, c.total_funded) => ENABLED ConfigureTranches(id, list)
    /\ "ReleaseTranche" \in forms =>
         \A amount \in WholeAmounts :
           ValidRelease(amount, held) =>
             (ENABLED ReleaseTranche(id, c.farmer, amount)
                <=> tranches[id] = <<>> \/ Releasable(tranches[id], amount) # {})
    /\ "ResolveDispute" \in forms =>
         \A resolution \in DisputeResolution \ {"Pending"}, typed \in WholeAmounts :
           ValidVerdict(resolution, typed, held) =>
             ENABLED ResolveDispute(id, resolution, PayoutSent(resolution, typed))
    /\ "SettleCampaign" \in forms /\ AloneOnToken(id) =>
         \A payout \in WholeAmounts :
           ValidPayout(payout, held) => ENABLED SettleCampaign(id, c.farmer, payout)
    /\ "MarkFailed" \in forms => (ENABLED MarkFailed(id) <=> c.status # "Harvested")

\* The administrator's panel offers what the contract takes, and sends what it accepts.
AdminPanelMatchesContract ==
  admin # NoOne => PanelOffersWhatContractTakes /\ ValidSubmissionsAccepted

\* Through any number of invocations the stepper moves backwards only when a campaign in
\* production is disputed or fails.
StepperMovesForward ==
  [][\A id \in CampaignIds :
       Exists(id) /\ StepShown(campaign'[id]) < StepShown(campaign[id])
         => campaign[id].status = "InProduction" /\ campaign'[id].status \in {"Disputed", "Failed"}
    ]_viewVars
=============================================================================
