-------------------------- MODULE ProductionEscrow --------------------------
(***************************************************************************)
(* The ProductionEscrow contract: the campaign lifecycle, the contribution *)
(* ledger, and the split of the escrowed funds.                            *)
(*                                                                         *)
(* One action is one contract invocation.  The host executes invocations   *)
(* one at a time and atomically: a panic anywhere, in the contract, in the *)
(* token or in the registry it calls, rolls the whole invocation back, so  *)
(* a failing invocation is a stuttering step and every guard below is one  *)
(* of the code's panics.                                                   *)
(***************************************************************************)
EXTENDS Integers, SequencesExt

CONSTANTS
  CampaignIds,      \* campaign identifiers (u64)
  Admins,           \* addresses that may become the escrow administrator
  Farmers,          \* addresses that create campaigns
  Investors,        \* addresses that contribute
  Tokens,           \* token contracts
  Registries,       \* registry contracts the escrow may be pointed at
  NoOne,            \* an address that is not set
  Amounts,          \* the i128 arguments callers pass, legal or not
  I64Max,           \* i64::MAX, the cap on a campaign's target
  I128Max,          \* i128::MAX, the width the pro-rata product is held in
  MaxTranches,      \* bound: length of a tranche schedule
  MaxTime,          \* bound: last ledger timestamp considered
  MaxVault          \* bound: balance up to which outside deposits are made

Accounts == Admins \cup Farmers \cup Investors

ASSUME EscrowConstants ==
  /\ NoOne \notin Accounts \cup Registries \cup Tokens
  /\ Amounts \subseteq Int
  /\ I64Max \in Nat /\ I128Max \in Nat
  /\ MaxTranches \in Nat /\ MaxTime \in Nat /\ MaxVault \in Nat

\* there are finitely many u64 identifiers, and finitely many addresses
ASSUME FiniteScope == IsFiniteSet(CampaignIds) /\ IsFiniteSet(Investors)

\* (2^63 - 1)^2 < 2^127 - 1
ASSUME WidthsFit == I64Max * I64Max <= I128Max

VARIABLES
  timestamp,     \* env.ledger().timestamp()
  admin,         \* DataKey::Admin
  registry,      \* DataKey::Registry
  campaign,      \* DataKey::Campaign(id); status "Absent" when there is none
  contribution,  \* DataKey::Contribution(id, investor)
  dispute,       \* DataKey::Dispute(id)
  tranches,      \* DataKey::Tranches(id)
  harvest,       \* whether DataKey::HarvestRecord(id) exists
  vault,         \* balance of the contract's address in each token contract
  tx,            \* what the last invocation sent out: registry calls, events
  audit          \* history: contributions redeemed, tokens claimed, reconciled

vars == <<timestamp, admin, registry, campaign, contribution, dispute,
          tranches, harvest, vault, tx, audit>>

-----------------------------------------------------------------------------
(* The data types of escrow_types. *)

CampaignStatus ==
  {"Active", "Funding", "Funded", "InProduction", "Harvested",
   "Disputed", "Resolved", "Settled", "Failed"}

DisputeResolution == {"Pending", "FullRefund", "PartialSettlement", "FullPayout"}

Campaign ==
  [farmer        : Farmers \cup {NoOne},
   target_amount : Nat,
   token_address : Tokens \cup {NoOne},
   deadline      : Nat,
   total_funded  : Nat,
   released      : Nat,
   refundable    : Nat,
   returnable    : Nat,
   status        : CampaignStatus \cup {"Absent"}]

Dispute == [status : {"None", "Open", "Resolved"}, resolution : DisputeResolution]

Tranche == [amount : Nat, released : BOOLEAN]

ActivityAction ==
  {"CampaignCreated", "CampaignFunded", "FundsReleased", "HarvestReported",
   "DisputeInitiated", "DisputeResolved", "CampaignSettled",
   "CampaignStatusChanged"}

EventName ==
  {"CampaignCreated", "ContribReceived", "ContribReconciled", "CampaignFunded",
   "TranchesConfigured", "TrancheReleased", "HarvestReported", "CampaignFailed",
   "DisputeOpened", "DisputeResolved", "RefundClaimed", "ReturnClaimed",
   "CampaignSettled"}

Call ==
  [fn  : {"link_campaign_escrow", "record_activity", "update_campaign_status"},
   id  : CampaignIds,
   arg : CampaignStatus \cup ActivityAction \cup Farmers]

Event == [name : EventName, id : CampaignIds, who : Accounts \cup {NoOne},
          amount : Int]

NoCampaign ==
  [farmer |-> NoOne, target_amount |-> 0, token_address |-> NoOne, deadline |-> 0,
   total_funded |-> 0, released |-> 0, refundable |-> 0, returnable |-> 0,
   status |-> "Absent"]

NoTx == [calls |-> <<>>, events |-> <<>>]

-----------------------------------------------------------------------------
(* Helpers of the contract. *)

Exists(id) == campaign[id].status # "Absent"

HeldIgnoringReleases(c) == c.total_funded - c.refundable - c.returnable  \* mutant

EscrowHeld(c) == c.total_funded - c.released - c.refundable - c.returnable

IsTerminal(status) == status \in {"Disputed", "Resolved", "Settled", "Failed"}

SolvencyUnchecked(c, balance) == TRUE                             \* mutant

\* assert_solvent compares ONE campaign with the whole balance of its token
AssertSolvent(c, balance) == EscrowHeld(c) <= balance

\* The next two give the calls one notify_registry makes: always the activity,
\* and the status when the caller passes one.
Record(id, action) ==
  IF registry = NoOne THEN <<>>
  ELSE <<[fn |-> "record_activity", id |-> id, arg |-> action]>>

RecordWithoutStatus(id, action, status) ==                        \* mutant
  IF registry = NoOne THEN <<>>
  ELSE <<[fn |-> "record_activity", id |-> id, arg |-> action]>>

RecordAndSync(id, action, status) ==
  IF registry = NoOne THEN <<>>
  ELSE <<[fn |-> "record_activity", id |-> id, arg |-> action],
         [fn |-> "update_campaign_status", id |-> id, arg |-> status]>>

LinkCampaignEscrow(id, farmer) ==
  IF registry = NoOne THEN <<>>
  ELSE <<[fn |-> "link_campaign_escrow", id |-> id, arg |-> farmer]>>

Emit(name, id, who, amount) ==
  <<[name |-> name, id |-> id, who |-> who, amount |-> amount]>>

Sends(calls, events) == tx' = [calls |-> calls, events |-> events]

Accepting(status) == status \in {"Active", "Funding"}

InFlightOrHarvested(status) ==                                    \* mutant
  status \in {"Active", "Funding", "Funded", "InProduction", "Harvested"}

InFlightOrResolved(status) ==                                     \* mutant
  status \in {"Active", "Funding", "Funded", "InProduction", "Resolved"}

\* the statuses open_dispute and mark_failed start from
InFlight(status) == status \in {"Active", "Funding", "Funded", "InProduction"}

ProRataRoundedUp(contributed, pool, total) ==                     \* mutant
  (contributed * pool + total - 1) \div total

\* integer division truncates; both operands are nonnegative here
ProRata(contributed, pool, total) == (contributed * pool) \div total

-----------------------------------------------------------------------------
(* Administration. *)

Initialize(a) ==
  /\ admin = NoOne
  /\ admin' = a
  /\ tx' = NoTx
  /\ UNCHANGED <<timestamp, registry, campaign, contribution, dispute,
                 tranches, harvest, vault, audit>>

SetRegistry(r) ==
  /\ admin # NoOne
  /\ registry' = r
  /\ tx' = NoTx
  /\ UNCHANGED <<timestamp, admin, campaign, contribution, dispute,
                 tranches, harvest, vault, audit>>

-----------------------------------------------------------------------------
(* Creation and funding. *)

ValidTarget(target) == target > 0 /\ target <= I64Max

NewCampaign(farmer, target, token, deadline) ==
  [farmer |-> farmer, target_amount |-> target, token_address |-> token,
   deadline |-> deadline, total_funded |-> 0, released |-> 0, refundable |-> 0,
   returnable |-> 0, status |-> "Active"]

CreateCampaign(id, farmer, target, token, deadline) ==
  /\ ~Exists(id)
  /\ ValidTarget(target)
  /\ deadline > timestamp
  /\ campaign' = [campaign EXCEPT ![id] =
       NewCampaign(farmer, target, token, deadline)]
  /\ Sends(LinkCampaignEscrow(id, farmer) \o Record(id, "CampaignCreated"),
           Emit("CampaignCreated", id, farmer, target))
  /\ UNCHANGED <<timestamp, admin, registry, contribution, dispute, tranches,
                 harvest, vault, audit>>

CanContributeNothing(id, amount) ==                               \* mutant
  /\ Accepting(campaign[id].status)
  /\ timestamp <= campaign[id].deadline
  /\ amount <= campaign[id].target_amount - campaign[id].total_funded

CanContributeLate(id, amount) ==                                  \* mutant
  /\ amount > 0
  /\ Accepting(campaign[id].status)
  /\ amount <= campaign[id].target_amount - campaign[id].total_funded

\* What fund_campaign and receive_contribution check of the campaign.
CanContribute(id, amount) ==
  /\ amount > 0
  /\ Accepting(campaign[id].status)
  /\ timestamp <= campaign[id].deadline
  /\ amount <= campaign[id].target_amount - campaign[id].total_funded

FundCampaign(id, investor, amount) ==
  LET c     == campaign[id]
      total == c.total_funded + amount
      full  == total >= c.target_amount
      next  == [c EXCEPT !.total_funded = total,
                         !.status = IF full THEN "Funded" ELSE "Funding"]
  IN
  /\ CanContribute(id, amount)
  /\ vault' = [vault EXCEPT ![c.token_address] = @ + amount]
  /\ AssertSolvent(next, vault'[c.token_address])
  /\ campaign' = [campaign EXCEPT ![id] = next]
  /\ contribution' = [contribution EXCEPT ![id][investor] = @ + amount]
  /\ IF full
     THEN Sends(RecordAndSync(id, "CampaignFunded", "Funded"),
                Emit("CampaignFunded", id, NoOne, total)
                  \o Emit("ContribReceived", id, investor, amount))
     ELSE Sends(Record(id, "CampaignFunded"),
                Emit("ContribReceived", id, investor, amount))
  /\ UNCHANGED <<timestamp, admin, registry, dispute, tranches, harvest, audit>>

\* Bookkeeping of a contribution that arrived by another rail: no transfer, no
\* registry call, and the status stays Funding even when the target is reached.
ReceiveContribution(id, investor, amount) ==
  LET c    == campaign[id]
      next == [c EXCEPT !.total_funded = @ + amount, !.status = "Funding"]
  IN
  /\ CanContribute(id, amount)
  /\ admin # NoOne
  /\ AssertSolvent(next, vault[c.token_address])
  /\ campaign' = [campaign EXCEPT ![id] = next]
  /\ contribution' = [contribution EXCEPT ![id][investor] = @ + amount]
  /\ Sends(<<>>, Emit("ContribReconciled", id, investor, amount))
  /\ audit' = [audit EXCEPT ![id].reconciled = @ + amount]
  /\ UNCHANGED <<timestamp, admin, registry, dispute, tranches, harvest, vault>>

CompleteFunding(id, total) ==
  /\ admin # NoOne
  /\ Accepting(campaign[id].status)
  /\ total = campaign[id].total_funded
  /\ campaign[id].total_funded >= campaign[id].target_amount
  /\ campaign' = [campaign EXCEPT ![id].status = "Funded"]
  /\ Sends(<<>>, Emit("CampaignFunded", id, NoOne, total))
  /\ UNCHANGED <<timestamp, admin, registry, contribution, dispute, tranches,
                 harvest, vault, audit>>

-----------------------------------------------------------------------------
(* Production. *)

AmountsOf(list) == [i \in DOMAIN list |-> list[i].amount]

TrancheSum(list) == SumFunction(AmountsOf(list))

\* The released flags of the submitted entries are stored as they come.
ConfigureTranches(id, list) ==
  /\ admin # NoOne
  /\ campaign[id].status = "Funded"
  /\ list # <<>>
  /\ \A i \in DOMAIN list : list[i].amount > 0
  /\ TrancheSum(list) <= campaign[id].total_funded
  /\ tranches' = [tranches EXCEPT ![id] = list]
  /\ Sends(<<>>, Emit("TranchesConfigured", id, NoOne, Len(list)))
  /\ UNCHANGED <<timestamp, admin, registry, campaign, contribution, dispute,
                 harvest, vault, audit>>

ReleasableAgain(list, amount) ==                                  \* mutant
  {i \in DOMAIN list : list[i].amount = amount}

\* The indices of the schedule that release_tranche may mark: the first entry
\* that is unreleased and has exactly this amount.
Releasable(list, amount) ==
  {i \in DOMAIN list : ~list[i].released /\ list[i].amount = amount}

FirstReleasable(list, amount) ==
  {i \in Releasable(list, amount) : \A j \in Releasable(list, amount) : i <= j}

\* No token moves here: the release is recorded, and paid outside the contract.
ReleaseTranche(id, recipient, amount) ==
  /\ amount > 0
  /\ admin # NoOne
  /\ ~IsTerminal(campaign[id].status)
  /\ campaign[id].status \in {"Funded", "InProduction"}
  /\ amount <= EscrowHeld(campaign[id])
  /\ \/ /\ tranches[id] = <<>>
        /\ UNCHANGED tranches
     \/ \E i \in FirstReleasable(tranches[id], amount) :
          tranches' = [tranches EXCEPT ![id][i].released = TRUE]
  /\ campaign' = [campaign EXCEPT ![id].status = "InProduction",
                                  ![id].released = @ + amount]
  /\ Sends(RecordAndSync(id, "FundsReleased", "InProduction"),
           Emit("TrancheReleased", id, recipient, amount))
  /\ UNCHANGED <<timestamp, admin, registry, contribution, dispute, harvest,
                 vault, audit>>

ReportHarvest(id, reporter) ==
  /\ reporter \in {campaign[id].farmer, admin} \ {NoOne}
  /\ campaign[id].status \in {"Funded", "InProduction"}
  /\ harvest' = [harvest EXCEPT ![id] = TRUE]
  /\ campaign' = [campaign EXCEPT ![id].status = "Harvested"]
  /\ Sends(RecordAndSync(id, "HarvestReported", "Harvested"),
           Emit("HarvestReported", id, reporter, 0))
  /\ UNCHANGED <<timestamp, admin, registry, contribution, dispute, tranches,
                 vault, audit>>

SettleCampaign(id, payee, payout) ==
  LET c == campaign[id] IN
  /\ payout >= 0
  /\ admin # NoOne
  /\ c.status = "Harvested"
  /\ payout <= EscrowHeld(c)
  /\ payout <= vault[c.token_address]          \* the token's own check
  /\ vault' = [vault EXCEPT ![c.token_address] = @ - payout]
  /\ campaign' = [campaign EXCEPT ![id].released = @ + payout,
                                  ![id].returnable = @ + (EscrowHeld(c) - payout),
                                  ![id].status = "Settled"]
  /\ Sends(RecordAndSync(id, "CampaignSettled", "Settled"),
           Emit("CampaignSettled", id, payee, EscrowHeld(c) - payout))
  /\ UNCHANGED <<timestamp, admin, registry, contribution, dispute, tranches,
                 harvest, audit>>

-----------------------------------------------------------------------------
(* Disputes. *)

OpenDispute(id, opener) ==
  /\ InFlight(campaign[id].status)
  /\ \/ opener = campaign[id].farmer
     \/ opener \in Investors /\ contribution[id][opener] > 0
     \/ opener = admin
  /\ dispute' = [dispute EXCEPT ![id] = [status |-> "Open", resolution |-> "Pending"]]
  /\ campaign' = [campaign EXCEPT ![id].status = "Disputed"]
  /\ Sends(RecordAndSync(id, "DisputeInitiated", "Disputed"),
           Emit("DisputeOpened", id, opener, 0))
  /\ UNCHANGED <<timestamp, admin, registry, contribution, tranches, harvest,
                 vault, audit>>

\* The arguments resolve_dispute accepts, and what they give the farmer.
ValidResolution(resolution, payout, held) ==
  \/ resolution \in {"FullRefund", "FullPayout"} /\ payout = 0
  \/ resolution = "PartialSettlement" /\ 0 < payout /\ payout < held

FarmerShare(resolution, payout, held) ==
  IF resolution = "FullPayout" THEN held ELSE payout

ResolveDispute(id, resolution, payout) ==
  LET held     == EscrowHeld(campaign[id])
      toFarmer == FarmerShare(resolution, payout, held)
  IN
  /\ admin # NoOne
  /\ campaign[id].status = "Disputed"
  /\ dispute[id].status = "Open"
  /\ ValidResolution(resolution, payout, held)
  /\ campaign' = [campaign EXCEPT ![id].released = @ + toFarmer,
                                  ![id].refundable = @ + (held - toFarmer),
                                  ![id].status = "Resolved"]
  /\ dispute' = [dispute EXCEPT ![id] = [status |-> "Resolved",
                                         resolution |-> resolution]]
  /\ Sends(RecordAndSync(id, "DisputeResolved", "Resolved"),
           Emit("DisputeResolved", id, admin, held - toFarmer))
  /\ UNCHANGED <<timestamp, admin, registry, contribution, tranches, harvest,
                 vault, audit>>

-----------------------------------------------------------------------------
(* Failure and claims. *)

MarkFailed(id) ==
  /\ admin # NoOne
  /\ InFlight(campaign[id].status)
  /\ campaign' = [campaign EXCEPT ![id].refundable = @ + EscrowHeld(campaign[id]),
                                  ![id].status = "Failed"]
  /\ Sends(RecordAndSync(id, "CampaignStatusChanged", "Failed"),
           Emit("CampaignFailed", id, NoOne, campaign'[id].refundable))
  /\ UNCHANGED <<timestamp, admin, registry, contribution, dispute, tranches,
                 harvest, vault, audit>>

\* Anyone may call it; it tells the registry nothing.
ExpireCampaign(id) ==
  /\ Accepting(campaign[id].status)
  /\ timestamp > campaign[id].deadline
  /\ campaign[id].total_funded < campaign[id].target_amount
  /\ campaign' = [campaign EXCEPT ![id].refundable = @ + EscrowHeld(campaign[id]),
                                  ![id].status = "Failed"]
  /\ Sends(<<>>, Emit("CampaignFailed", id, NoOne, campaign'[id].refundable))
  /\ UNCHANGED <<timestamp, admin, registry, contribution, dispute, tranches,
                 harvest, vault, audit>>

PayShareKeepingStake(id, investor, pool, event) ==                \* mutant
  LET contributed == contribution[id][investor]
      share       == ProRata(contributed, pool, campaign[id].total_funded)
      token       == campaign[id].token_address
  IN
  /\ contributed > 0 /\ share > 0 /\ share <= vault[token]
  /\ vault' = [vault EXCEPT ![token] = @ - share]
  /\ Sends(<<>>, Emit(event, id, investor, share))
  /\ audit' = [audit EXCEPT ![id].redeemed = @ + contributed,
                            ![id].claimed = @ + share]
  /\ UNCHANGED <<timestamp, admin, registry, campaign, contribution, dispute,
                 tranches, harvest>>

\* The part claim_refund and claim_return share: the whole contribution is
\* redeemed for its share of the pool, paid by a token transfer.
PayShare(id, investor, pool, event) ==
  LET contributed == contribution[id][investor]
      share       == ProRata(contributed, pool, campaign[id].total_funded)
      token       == campaign[id].token_address
  IN
  /\ contributed > 0
  /\ share > 0
  /\ share <= vault[token]                      \* the token's own check
  /\ contribution' = [contribution EXCEPT ![id][investor] = 0]
  /\ vault' = [vault EXCEPT ![token] = @ - share]
  /\ Sends(<<>>, Emit(event, id, investor, share))
  /\ audit' = [audit EXCEPT ![id].redeemed = @ + contributed,
                            ![id].claimed = @ + share]
  /\ UNCHANGED <<timestamp, admin, registry, campaign, dispute, tranches, harvest>>

ClaimRefund(id, investor) ==
  /\ campaign[id].status \in {"Resolved", "Failed"}
  /\ PayShare(id, investor, campaign[id].refundable, "RefundClaimed")

ClaimReturn(id, investor) ==
  /\ campaign[id].status = "Settled"
  /\ PayShare(id, investor, campaign[id].returnable, "ReturnClaimed")

-----------------------------------------------------------------------------
(* The environment: ledger time, and transfers straight to the contract's  *)
(* address (the other rail that receive_contribution reconciles).          *)

Tick ==
  /\ timestamp < MaxTime
  /\ timestamp' = timestamp + 1
  /\ tx' = NoTx
  /\ UNCHANGED <<admin, registry, campaign, contribution, dispute, tranches,
                 harvest, vault, audit>>

Deposit(token, amount) ==
  /\ amount > 0
  /\ vault[token] + amount <= MaxVault
  /\ vault' = [vault EXCEPT ![token] = @ + amount]
  /\ tx' = NoTx
  /\ UNCHANGED <<timestamp, admin, registry, campaign, contribution, dispute,
                 tranches, harvest, audit>>

-----------------------------------------------------------------------------

Init ==
  /\ timestamp = 0
  /\ admin = NoOne
  /\ registry = NoOne
  /\ campaign = [id \in CampaignIds |-> NoCampaign]
  /\ contribution = [id \in CampaignIds |-> [i \in Investors |-> 0]]
  /\ dispute = [id \in CampaignIds |-> [status |-> "None", resolution |-> "Pending"]]
  /\ tranches = [id \in CampaignIds |-> <<>>]
  /\ harvest = [id \in CampaignIds |-> FALSE]
  /\ vault = [t \in Tokens |-> 0]
  /\ tx = NoTx
  /\ audit = [id \in CampaignIds |-> [redeemed |-> 0, claimed |-> 0, reconciled |-> 0]]

TrancheLists ==
  BoundedSeq([amount : Amounts \cap Nat, released : BOOLEAN], MaxTranches)

Contribute(id) ==
  \E investor \in Investors, amount \in Amounts :
    FundCampaign(id, investor, amount) \/ ReceiveContribution(id, investor, amount)

Manage(id) ==
  \/ \E f \in Farmers, target \in Amounts, t \in Tokens, d \in 0 .. MaxTime :
       CreateCampaign(id, f, target, t, d)
  \/ \E total \in Amounts : CompleteFunding(id, total)
  \/ \E list \in TrancheLists : ConfigureTranches(id, list)
  \/ \E recipient \in Farmers, amount \in Amounts : ReleaseTranche(id, recipient, amount)
  \/ \E reporter \in Accounts : ReportHarvest(id, reporter)
  \/ \E payee \in Farmers, payout \in Amounts : SettleCampaign(id, payee, payout)

Unwind(id) ==
  \/ \E opener \in Accounts : OpenDispute(id, opener)
  \/ \E resolution \in DisputeResolution, payout \in Amounts :
       ResolveDispute(id, resolution, payout)
  \/ MarkFailed(id)
  \/ ExpireCampaign(id)
  \/ \E investor \in Investors : ClaimRefund(id, investor) \/ ClaimReturn(id, investor)

Next ==
  \/ \E a \in Admins : Initialize(a)
  \/ \E r \in Registries : SetRegistry(r)
  \/ \E id \in CampaignIds : Contribute(id) \/ Manage(id) \/ Unwind(id)
  \/ Tick
  \/ \E t \in Tokens, amount \in Amounts : Deposit(t, amount)

Spec == Init /\ [][Next]_vars
-----------------------------------------------------------------------------
(* Properties. *)

Owed(id) ==
  EscrowHeld(campaign[id]) + campaign[id].refundable + campaign[id].returnable
    - audit[id].claimed

Pool(id) == campaign[id].refundable + campaign[id].returnable

\* Every variable holds a value of its type; no stored amount is ever negative.
TypeOK ==
  /\ timestamp \in Nat
  /\ admin \in Admins \cup {NoOne}
  /\ registry \in Registries \cup {NoOne}
  /\ campaign \in [CampaignIds -> Campaign]
  /\ contribution \in [CampaignIds -> [Investors -> Nat]]
  /\ dispute \in [CampaignIds -> Dispute]
  /\ tranches \in [CampaignIds -> Seq(Tranche)]
  /\ harvest \in [CampaignIds -> BOOLEAN]
  /\ vault \in [Tokens -> Nat]
  /\ tx \in [calls : Seq(Call), events : Seq(Event)]
  /\ audit \in [CampaignIds -> [redeemed : Nat, claimed : Nat, reconciled : Nat]]

\* The four amounts of a campaign agree with its status: the parts never exceed
\* what was funded nor that the target, nothing is released before Funded, the
\* investor pools exist only once the campaign is divided, and then nothing is
\* left undivided.
PoolsAgree(c) ==
  LET parts == c.released + c.refundable + c.returnable IN
  /\ parts <= c.total_funded
  /\ c.total_funded <= c.target_amount
  /\ c.status \in {"Absent", "Active"} => c.total_funded = 0
  /\ c.status \in {"Funded", "InProduction", "Harvested", "Settled"}
       => c.total_funded = c.target_amount
  /\ c.status \in {"Absent", "Active", "Funding", "Funded"} => c.released = 0
  /\ c.refundable > 0 => c.status \in {"Resolved", "Failed"}
  /\ c.returnable > 0 => c.status = "Settled"
  /\ c.status \in {"Resolved", "Settled", "Failed"} => parts = c.total_funded

PoolsMatchStatus == \A id \in CampaignIds : PoolsAgree(campaign[id])

\* The side records follow the campaign: a dispute is open exactly while the
\* campaign is Disputed and resolved, with a verdict, exactly once it is Resolved;
\* a harvest record exists exactly from Harvested on.
RecordsMatchStatus ==
  \A id \in CampaignIds :
    /\ campaign[id].status = "Disputed" <=> dispute[id].status = "Open"
    /\ campaign[id].status = "Resolved" <=> dispute[id].status = "Resolved"
    /\ dispute[id].status = "Resolved" <=> dispute[id].resolution # "Pending"
    /\ campaign[id].status \in {"Harvested", "Settled"} <=> harvest[id]

\* total_funded, the denominator of every claim, is the sum of the contributions
\* not yet redeemed and of those redeemed, across both funding paths and any
\* interleaving of claims; nothing is redeemed before the campaign is divided.
ContributionsBackTotal ==
  \A id \in CampaignIds :
    /\ SumFunction(contribution[id]) + audit[id].redeemed = campaign[id].total_funded
    /\ audit[id].redeemed > 0 => campaign[id].status \in {"Resolved", "Settled", "Failed"}

\* Truncating division never pays out more than the pool's part for the
\* contributions redeemed, and loses no more than one unit per investor.
ClaimsWithinPool ==
  \A id \in CampaignIds :
    LET total == campaign[id].total_funded
        part  == Pool(id) * audit[id].redeemed
        paid  == total * audit[id].claimed
    IN  /\ paid <= part
        /\ part - paid <= total * Cardinality(Investors)

\* A campaign that is alone on its token can always pay everybody: the balance
\* covers the funds held and the unclaimed part of its pools.  receive_contribution
\* moves no tokens, so this is what assert_solvent has to ensure.
SolventWhenTokenExclusive ==
  \A id \in CampaignIds :
    LET token == campaign[id].token_address IN
    (Exists(id) /\ \A o \in CampaignIds \ {id} : campaign[o].token_address # token)
      => Owed(id) <= vault[token]

\* Campaigns that share a token are short of tokens by no more than what was
\* reconciled without a transfer: every other path keeps the sum covered.
ShortfallBoundedByReconciliation ==
  \A t \in Tokens :
    LET on         == {id \in CampaignIds : campaign[id].token_address = t}
        owed       == [id \in CampaignIds |-> Owed(id)]
        reconciled == [id \in CampaignIds |-> audit[id].reconciled]
    IN  SumFunctionOnSet(owed, on) <= vault[t] + SumFunctionOnSet(reconciled, on)

\* While tranches can be released, a configured schedule accounts for all that was
\* released: no release goes without an entry marked for it, though an entry may have
\* been submitted as released already.  And the funds held cover every entry that is
\* still to be released, so that none is refused for want of funds.
TrancheScheduleCovered ==
  \A id \in CampaignIds :
    (campaign[id].status \in {"Funded", "InProduction"} /\ tranches[id] # <<>>) =>
      LET list     == tranches[id]
          released == {i \in DOMAIN list : list[i].released}
          pending  == DOMAIN list \ released
      IN  /\ campaign[id].released <= SumFunctionOnSet(AmountsOf(list), released)
          /\ SumFunctionOnSet(AmountsOf(list), pending) <= EscrowHeld(campaign[id])

\* Funds enter a campaign only up to its deadline, on both funding paths.
NoLateFunding ==
  [][\A id \in CampaignIds :
       campaign'[id].total_funded # campaign[id].total_funded
         => timestamp <= campaign[id].deadline]_vars

\* The intermediate product of every possible claim fits an i128.
ProRataFits ==
  \A id \in CampaignIds, i \in Investors : contribution[id][i] * Pool(id) <= I128Max

-----------------------------------------------------------------------------
(* What the documentation says and the code does not do. *)

\* "The escrow must never claim to hold more than it really does" (assert_solvent):
\* over all campaigns of a token, the funds held are covered by the balance.
NeverClaimsMoreThanHeld ==
  \A t \in Tokens :
    MapThenSumSet(LAMBDA id : EscrowHeld(campaign[id]),
                  {id \in CampaignIds : campaign[id].token_address = t}) <= vault[t]

-----------------------------------------------------------------------------
(* The contract implements the abstract ledger. *)

Phase(c) ==
  CASE c.status = "Absent" -> "none"
    [] c.status \in {"Active", "Funding"} -> "raising"
    [] c.status \in {"Funded", "InProduction", "Harvested"} -> "committed"
    [] c.status = "Disputed" ->
         IF c.total_funded = c.target_amount THEN "committed" ELSE "raising"
    [] OTHER -> "divided"

Ledger == INSTANCE CampaignLedger WITH
  Campaigns <- CampaignIds,
  Holders   <- Investors,
  Money     <- 0 .. I64Max,
  phase     <- [id \in CampaignIds |-> Phase(campaign[id])],
  target    <- [id \in CampaignIds |-> campaign[id].target_amount],
  raised    <- [id \in CampaignIds |-> campaign[id].total_funded],
  farmer    <- [id \in CampaignIds |-> campaign[id].released],
  pool      <- [id \in CampaignIds |-> Pool(id)],
  stake     <- contribution,
  paid      <- [id \in CampaignIds |-> audit[id].claimed]

\* Every invocation is a step of the abstract ledger or leaves it unchanged: one
\* division per campaign, conserving its funds, and one pro-rata payment per stake.
ImplementsLedger == Ledger!Spec
=============================================================================
