----------------------- MODULE ProductionEscrowProofs -----------------------
(***************************************************************************)
(* Proofs about ProductionEscrow, for every value of its constants.        *)
(***************************************************************************)
EXTENDS ProductionEscrow, TLAPS, SequenceTheorems, SumLemmas

\* What is true of each campaign record on its own.
GoodCampaign(c) ==
  /\ c \in Campaign
  /\ PoolsAgree(c)
  /\ c.target_amount <= I64Max
  /\ c.status = "Absent" => c.target_amount = 0 /\ c.token_address = NoOne
  /\ c.status # "Absent" => c.farmer \in Farmers /\ c.token_address \in Tokens

\* No stake exceeds the total it is a share of.
StakesWithinTotal ==
  \A id \in CampaignIds, i \in Investors :
    contribution[id][i] <= campaign[id].total_funded

\* The inductive invariant: types hold only because the amounts agree with the
\* status, and that is why the guards find what they need.
IInv ==
  /\ TypeOK
  /\ \A id \in CampaignIds : GoodCampaign(campaign[id])
  /\ RecordsMatchStatus
  /\ StakesWithinTotal

-----------------------------------------------------------------------------
(* What the helpers that describe a transaction's output return. *)

\* One notification is a well-typed list of calls, whatever it reports.
LEMMA CallsType ==
  ASSUME NEW id \in CampaignIds, NEW action \in ActivityAction, NEW status \in CampaignStatus
  PROVE  /\ <<>> \in Seq(Call)
         /\ Record(id, action) \in Seq(Call)
         /\ RecordAndSync(id, action, status) \in Seq(Call)
<1> DEFINE r == [fn |-> "record_activity", id |-> id, arg |-> action]
           s == [fn |-> "update_campaign_status", id |-> id, arg |-> status]
<1>1. r \in Call /\ s \in Call
  BY DEF Call
<1> HIDE DEF r, s
<1>2. <<>> \in Seq(Call) /\ <<r>> \in Seq(Call) /\ <<r, s>> \in Seq(Call)
  BY <1>1
<1>3. QED
  BY <1>2 DEF Record, RecordAndSync, r, s

\* So is what create_campaign sends: the link, then the activity.
LEMMA LinkType ==
  ASSUME NEW id \in CampaignIds, NEW action \in ActivityAction, NEW farmer \in Farmers
  PROVE  LinkCampaignEscrow(id, farmer) \o Record(id, action) \in Seq(Call)
<1> DEFINE l == [fn |-> "link_campaign_escrow", id |-> id, arg |-> farmer]
<1>1. l \in Call
  BY DEF Call
<1> HIDE DEF l
<1>2. <<>> \in Seq(Call) /\ <<l>> \in Seq(Call)
  BY <1>1
<1>3. LinkCampaignEscrow(id, farmer) \in Seq(Call)
  BY <1>2 DEF LinkCampaignEscrow, l
<1>4. Record(id, action) \in Seq(Call)
  BY CallsType DEF CampaignStatus
<1>5. QED
  BY <1>3, <1>4, ConcatProperties

\* An emitted event is a well-typed list of one.
LEMMA EmitType ==
  ASSUME NEW name \in EventName, NEW id \in CampaignIds,
         NEW who \in Accounts \cup {NoOne}, NEW amount \in Int
  PROVE  Emit(name, id, who, amount) \in Seq(Event)
  BY DEF Emit, Event

\* The freshly deployed contract satisfies the inductive invariant.
THEOREM InitIInv == Init => IInv
<1> SUFFICES ASSUME Init PROVE IInv
  OBVIOUS
<1> USE DEF Init, NoCampaign
<1>1. TypeOK
  <2>1. NoTx \in [calls : Seq(Call), events : Seq(Event)]
    BY DEF NoTx
  <2>2. NoCampaign \in Campaign
    BY DEF Campaign, CampaignStatus
  <2>3. QED
    BY <2>1, <2>2 DEF TypeOK, Dispute, DisputeResolution
<1>2. \A id \in CampaignIds : GoodCampaign(campaign[id])
  BY EscrowConstants DEF GoodCampaign, PoolsAgree, Campaign, CampaignStatus
<1>3. RecordsMatchStatus
  BY DEF RecordsMatchStatus
<1>4. StakesWithinTotal
  BY DEF StakesWithinTotal
<1>5. QED
  BY <1>1, <1>2, <1>3, <1>4 DEF IInv

-----------------------------------------------------------------------------
(* The three ways in which an action rewrites a campaign record, on a record *)
(* of its own: the contribution, the status change and the final split.      *)

\* The rewrites the handlers apply to a campaign record keep its type.
LEMMA CampaignUpdate ==
  ASSUME NEW c \in Campaign, NEW s \in CampaignStatus,
         NEW t \in Nat, NEW r \in Nat, NEW f \in Nat, NEW n \in Nat
  PROVE  /\ [c EXCEPT !.total_funded = t, !.status = s] \in Campaign
         /\ [c EXCEPT !.status = s] \in Campaign
         /\ [c EXCEPT !.status = s, !.released = r] \in Campaign
         /\ [c EXCEPT !.released = r, !.refundable = f, !.status = s] \in Campaign
         /\ [c EXCEPT !.released = r, !.returnable = n, !.status = s] \in Campaign
         /\ [c EXCEPT !.refundable = f, !.status = s] \in Campaign
  BY DEF Campaign, CampaignStatus

\* A contribution that fits keeps a campaign record good.
LEMMA GoodContribution ==
  ASSUME NEW c, GoodCampaign(c), Accepting(c.status), NEW amount \in Int, amount > 0,
         amount <= c.target_amount - c.total_funded, NEW s \in {"Funding", "Funded"},
         s = "Funded" => c.total_funded + amount = c.target_amount
  PROVE  GoodCampaign([c EXCEPT !.total_funded = c.total_funded + amount, !.status = s])
<1> DEFINE d == [c EXCEPT !.total_funded = c.total_funded + amount, !.status = s]
<1>1. c \in Campaign /\ c.total_funded \in Nat
  BY DEF GoodCampaign, Campaign
<1>2. c.total_funded + amount \in Nat
  BY <1>1
<1>3. d \in Campaign
  BY <1>1, <1>2, CampaignUpdate DEF CampaignStatus
<1>4. /\ d.total_funded = c.total_funded + amount /\ d.status = s
      /\ d.target_amount = c.target_amount /\ d.farmer = c.farmer
      /\ d.token_address = c.token_address /\ d.released = c.released
      /\ d.refundable = c.refundable /\ d.returnable = c.returnable
  BY <1>1 DEF Campaign
<1> HIDE DEF d
<1>5. GoodCampaign(d)
  BY <1>1, <1>3, <1>4 DEF GoodCampaign, PoolsAgree, Accepting, Campaign
<1>6. QED
  BY <1>5 DEF d

\* Dividing what is held between the farmer and the refunds keeps it good.
LEMMA GoodSplit ==
  ASSUME NEW c, GoodCampaign(c), c.status \notin {"Absent", "Resolved", "Failed"},
         NEW share \in 0 .. EscrowHeld(c), NEW s \in {"Resolved", "Failed"},
         c.returnable = 0
  PROVE  GoodCampaign([c EXCEPT !.released = c.released + share,
                                !.refundable = c.refundable + (EscrowHeld(c) - share),
                                !.status = s])
<1> DEFINE r == c.released + share
           f == c.refundable + (EscrowHeld(c) - share)
           d == [c EXCEPT !.released = r, !.refundable = f, !.status = s]
<1>1. c \in Campaign /\ c.total_funded \in Nat /\ c.released \in Nat
      /\ c.refundable \in Nat /\ c.returnable \in Nat
  BY DEF GoodCampaign, Campaign
<1>2. r \in Nat /\ f \in Nat /\ r + f + c.returnable = c.total_funded
  BY <1>1 DEF EscrowHeld
<1> HIDE DEF r, f
<1>3. d \in Campaign
  BY <1>1, <1>2, CampaignUpdate DEF CampaignStatus
<1>4. /\ d.total_funded = c.total_funded /\ d.status = s
      /\ d.target_amount = c.target_amount /\ d.farmer = c.farmer
      /\ d.token_address = c.token_address /\ d.released = r
      /\ d.refundable = f /\ d.returnable = c.returnable
  BY <1>1 DEF Campaign
<1> HIDE DEF d
<1>5. GoodCampaign(d)
  BY <1>1, <1>2, <1>3, <1>4 DEF GoodCampaign, PoolsAgree, Campaign
<1>6. QED
  BY <1>5 DEF d, r, f

\* A status change that the amounts already agree with keeps it good.
LEMMA GoodStatus ==
  ASSUME NEW c, GoodCampaign(c), c.status # "Absent",
         NEW s \in {"Funded", "Harvested", "Disputed"},
         c.refundable = 0, c.returnable = 0,
         s = "Funded" => c.released = 0 /\ c.total_funded = c.target_amount,
         s = "Harvested" => c.total_funded = c.target_amount
  PROVE  GoodCampaign([c EXCEPT !.status = s])
<1> DEFINE d == [c EXCEPT !.status = s]
<1>1. c \in Campaign /\ d \in Campaign
  BY CampaignUpdate DEF GoodCampaign, CampaignStatus
<1>2. /\ d.total_funded = c.total_funded /\ d.status = s
      /\ d.target_amount = c.target_amount /\ d.farmer = c.farmer
      /\ d.token_address = c.token_address /\ d.released = c.released
      /\ d.refundable = c.refundable /\ d.returnable = c.returnable
  BY <1>1 DEF Campaign
<1> HIDE DEF d
<1>3. GoodCampaign(d)
  BY <1>1, <1>2 DEF GoodCampaign, PoolsAgree, Campaign
<1>4. QED
  BY <1>3 DEF d

\* A release of held funds keeps it good.
LEMMA GoodRelease ==
  ASSUME NEW c, GoodCampaign(c), c.status \in {"Funded", "InProduction"},
         NEW amount \in 0 .. EscrowHeld(c)
  PROVE  GoodCampaign([c EXCEPT !.status = "InProduction", !.released = c.released + amount])
<1> DEFINE r == c.released + amount
           d == [c EXCEPT !.status = "InProduction", !.released = r]
<1>1. c \in Campaign /\ c.total_funded \in Nat /\ c.released \in Nat
      /\ c.refundable = 0 /\ c.returnable = 0
  BY DEF GoodCampaign, Campaign, PoolsAgree
<1>2. r \in Nat /\ r <= c.total_funded
  BY <1>1 DEF EscrowHeld
<1> HIDE DEF r
<1>3. d \in Campaign
  BY <1>1, <1>2, CampaignUpdate DEF CampaignStatus
<1>4. /\ d.total_funded = c.total_funded /\ d.status = "InProduction"
      /\ d.target_amount = c.target_amount /\ d.farmer = c.farmer
      /\ d.token_address = c.token_address /\ d.released = r
      /\ d.refundable = 0 /\ d.returnable = 0
  BY <1>1 DEF Campaign
<1> HIDE DEF d
<1>5. GoodCampaign(d)
  BY <1>1, <1>2, <1>3, <1>4 DEF GoodCampaign, PoolsAgree, Campaign
<1>6. QED
  BY <1>5 DEF d, r

\* Settlement divides what is held between the farmer and the returns.
LEMMA GoodSettlement ==
  ASSUME NEW c, GoodCampaign(c), c.status = "Harvested", NEW payout \in 0 .. EscrowHeld(c)
  PROVE  GoodCampaign([c EXCEPT !.released = c.released + payout,
                                !.returnable = c.returnable + (EscrowHeld(c) - payout),
                                !.status = "Settled"])
<1> DEFINE r == c.released + payout
           n == c.returnable + (EscrowHeld(c) - payout)
           d == [c EXCEPT !.released = r, !.returnable = n, !.status = "Settled"]
<1>1. c \in Campaign /\ c.total_funded \in Nat /\ c.released \in Nat
      /\ c.refundable = 0 /\ c.returnable \in Nat
  BY DEF GoodCampaign, Campaign, PoolsAgree
<1>2. r \in Nat /\ n \in Nat /\ r + n = c.total_funded
  BY <1>1 DEF EscrowHeld
<1> HIDE DEF r, n
<1>3. d \in Campaign
  BY <1>1, <1>2, CampaignUpdate DEF CampaignStatus
<1>4. /\ d.total_funded = c.total_funded /\ d.status = "Settled"
      /\ d.target_amount = c.target_amount /\ d.farmer = c.farmer
      /\ d.token_address = c.token_address /\ d.released = r
      /\ d.refundable = 0 /\ d.returnable = n
  BY <1>1 DEF Campaign
<1> HIDE DEF d
<1>5. GoodCampaign(d)
  BY <1>1, <1>2, <1>3, <1>4 DEF GoodCampaign, PoolsAgree, Campaign
<1>6. QED
  BY <1>5 DEF d, r, n

\* Failing a campaign makes everything held refundable.
LEMMA GoodFailure ==
  ASSUME NEW c, GoodCampaign(c), InFlight(c.status)
  PROVE  GoodCampaign([c EXCEPT !.refundable = c.refundable + EscrowHeld(c),
                                !.status = "Failed"])
<1> DEFINE f == c.refundable + EscrowHeld(c)
           d == [c EXCEPT !.refundable = f, !.status = "Failed"]
<1>1. c \in Campaign /\ c.total_funded \in Nat /\ c.released \in Nat
      /\ c.refundable = 0 /\ c.returnable = 0 /\ c.status # "Absent"
  BY DEF GoodCampaign, Campaign, PoolsAgree, InFlight
<1>2. f \in Nat /\ c.released + f = c.total_funded
  BY <1>1 DEF EscrowHeld, GoodCampaign, PoolsAgree
<1> HIDE DEF f
<1>3. d \in Campaign
  BY <1>1, <1>2, CampaignUpdate DEF CampaignStatus
<1>4. /\ d.total_funded = c.total_funded /\ d.status = "Failed"
      /\ d.target_amount = c.target_amount /\ d.farmer = c.farmer
      /\ d.token_address = c.token_address /\ d.released = c.released
      /\ d.refundable = f /\ d.returnable = 0
  BY <1>1 DEF Campaign
<1> HIDE DEF d
<1>5. GoodCampaign(d)
  BY <1>1, <1>2, <1>3, <1>4 DEF GoodCampaign, PoolsAgree, Campaign
<1>6. QED
  BY <1>5 DEF d, f

\* A new campaign is good.
LEMMA GoodCreation ==
  ASSUME NEW f \in Farmers, NEW t \in Tokens, NEW target \in Int, ValidTarget(target),
         NEW dl \in Nat
  PROVE  GoodCampaign(NewCampaign(f, target, t, dl))
<1>1. target \in Nat /\ target <= I64Max
  BY EscrowConstants DEF ValidTarget
<1>2. QED
  BY <1>1 DEF NewCampaign, GoodCampaign, PoolsAgree, Campaign, CampaignStatus

-----------------------------------------------------------------------------
(* Every action writes at most one campaign record, and writes a good one. *)

StoresGood(id, d) == GoodCampaign(d) /\ campaign' = [campaign EXCEPT ![id] = d]

\* Every invocation writes at most one campaign record, and writes a good one.
LEMMA CampaignStep ==
  ASSUME IInv, [Next]_vars
  PROVE  \/ UNCHANGED campaign
         \/ \E id \in CampaignIds, d \in Campaign : StoresGood(id, d)
<1> DEFINE c(id) == campaign[id]
           Goal == \/ UNCHANGED campaign
                   \/ \E id \in CampaignIds, d \in Campaign : StoresGood(id, d)
<1>0. \A id \in CampaignIds : \A d : StoresGood(id, d) => Goal
  BY DEF StoresGood, GoodCampaign
<1>a. /\ campaign \in [CampaignIds -> Campaign]
      /\ \A id \in CampaignIds : GoodCampaign(c(id))
  BY DEF IInv, TypeOK
<1>b. \A id \in CampaignIds : EscrowHeld(c(id)) \in Nat
  BY <1>a DEF EscrowHeld, GoodCampaign, PoolsAgree, Campaign
<1>c. Amounts \subseteq Int /\ MaxTime \in Nat
  BY EscrowConstants
<1> HIDE DEF Goal
<1>1. ASSUME NEW id \in CampaignIds, NEW f \in Farmers, NEW target \in Amounts,
             NEW t \in Tokens, NEW dl \in 0 .. MaxTime, CreateCampaign(id, f, target, t, dl)
      PROVE  Goal
  <2>1. GoodCampaign(NewCampaign(f, target, t, dl))
    BY <1>1, <1>c, GoodCreation DEF CreateCampaign
  <2>2. QED
    BY <1>1, <1>0, <2>1 DEF CreateCampaign, StoresGood
<1>2. ASSUME NEW id \in CampaignIds, NEW i \in Investors, NEW amount \in Amounts,
             FundCampaign(id, i, amount)
      PROVE  Goal
  <2> DEFINE s == IF c(id).total_funded + amount >= c(id).target_amount
                  THEN "Funded" ELSE "Funding"
             d == [c(id) EXCEPT !.total_funded = c(id).total_funded + amount, !.status = s]
  <2>1. GoodCampaign(d)
    <3>1. /\ Accepting(c(id).status) /\ amount \in Int /\ amount > 0
          /\ amount <= c(id).target_amount - c(id).total_funded
      BY <1>2, <1>c DEF FundCampaign, CanContribute
    <3>2. /\ s \in {"Funding", "Funded"}
          /\ s = "Funded" => c(id).total_funded + amount = c(id).target_amount
      BY <3>1, <1>a DEF Campaign
    <3> HIDE DEF s
    <3>3. QED
      BY <3>1, <3>2, <1>a, GoodContribution
  <2>2. campaign' = [campaign EXCEPT ![id] = d]
    BY <1>2 DEF FundCampaign
  <2>3. QED
    BY <1>0, <2>1, <2>2 DEF StoresGood
<1>3. ASSUME NEW id \in CampaignIds, NEW i \in Investors, NEW amount \in Amounts,
             ReceiveContribution(id, i, amount)
      PROVE  Goal
  <2> DEFINE d == [c(id) EXCEPT !.total_funded = c(id).total_funded + amount,
                                !.status = "Funding"]
  <2>1. GoodCampaign(d)
    BY <1>3, <1>a, <1>c, GoodContribution DEF ReceiveContribution, CanContribute
  <2>2. campaign' = [campaign EXCEPT ![id] = d]
    BY <1>3 DEF ReceiveContribution
  <2>3. QED
    BY <1>0, <2>1, <2>2 DEF StoresGood
<1>4. ASSUME NEW id \in CampaignIds, NEW total \in Amounts, CompleteFunding(id, total)
      PROVE  Goal
  <2>1. GoodCampaign([c(id) EXCEPT !.status = "Funded"])
    <3>1. /\ c(id).status \in {"Active", "Funding"}
          /\ c(id).total_funded = c(id).target_amount
      BY <1>4, <1>a DEF CompleteFunding, Accepting, GoodCampaign, PoolsAgree, Campaign
    <3>2. c(id).released = 0 /\ c(id).refundable = 0 /\ c(id).returnable = 0
      BY <3>1, <1>a DEF GoodCampaign, PoolsAgree, Campaign
    <3>3. QED
      BY <3>1, <3>2, <1>a, GoodStatus
  <2>2. QED
    BY <1>4, <1>0, <2>1 DEF CompleteFunding, StoresGood
<1>5. ASSUME NEW id \in CampaignIds, NEW rcp \in Farmers, NEW amount \in Amounts,
             ReleaseTranche(id, rcp, amount)
      PROVE  Goal
  <2>1. amount \in 0 .. EscrowHeld(c(id)) /\ c(id).status \in {"Funded", "InProduction"}
    BY <1>5, <1>b, <1>c DEF ReleaseTranche
  <2>2. GoodCampaign([c(id) EXCEPT !.status = "InProduction",
                                   !.released = c(id).released + amount])
    BY <2>1, <1>a, GoodRelease
  <2>3. campaign' = [campaign EXCEPT ![id] = [c(id) EXCEPT !.status = "InProduction",
                                   !.released = c(id).released + amount]]
    BY <1>5 DEF ReleaseTranche
  <2>4. QED
    BY <1>0, <2>2, <2>3 DEF StoresGood
<1>6. ASSUME NEW id \in CampaignIds, NEW who \in Accounts, ReportHarvest(id, who)
      PROVE  Goal
  <2>1. GoodCampaign([c(id) EXCEPT !.status = "Harvested"])
    <3>1. c(id).status \in {"Funded", "InProduction"}
      BY <1>6 DEF ReportHarvest
    <3>2. /\ c(id).refundable = 0 /\ c(id).returnable = 0
          /\ c(id).total_funded = c(id).target_amount
      BY <3>1, <1>a DEF GoodCampaign, PoolsAgree, Campaign
    <3>3. QED
      BY <3>1, <3>2, <1>a, GoodStatus
  <2>2. QED
    BY <1>6, <1>0, <2>1 DEF ReportHarvest, StoresGood
<1>7. ASSUME NEW id \in CampaignIds, NEW payee \in Farmers, NEW payout \in Amounts,
             SettleCampaign(id, payee, payout)
      PROVE  Goal
  <2> DEFINE d == [c(id) EXCEPT !.released = c(id).released + payout,
                      !.returnable = c(id).returnable + (EscrowHeld(c(id)) - payout),
                      !.status = "Settled"]
  <2>1. payout \in 0 .. EscrowHeld(c(id)) /\ c(id).status = "Harvested"
    BY <1>7, <1>b, <1>c DEF SettleCampaign
  <2>2. GoodCampaign(d)
    BY <2>1, <1>a, GoodSettlement
  <2>3. campaign' = [campaign EXCEPT ![id] = d]
    BY <1>7 DEF SettleCampaign
  <2>4. QED
    BY <1>0, <2>2, <2>3 DEF StoresGood
<1>8. ASSUME NEW id \in CampaignIds, NEW who \in Accounts, OpenDispute(id, who)
      PROVE  Goal
  <2>1. GoodCampaign([c(id) EXCEPT !.status = "Disputed"])
    <3>1. c(id).status \in {"Active", "Funding", "Funded", "InProduction"}
      BY <1>8 DEF OpenDispute, InFlight
    <3>2. c(id).refundable = 0 /\ c(id).returnable = 0
      BY <3>1, <1>a DEF GoodCampaign, PoolsAgree, Campaign
    <3>3. QED
      BY <3>1, <3>2, <1>a, GoodStatus
  <2>2. QED
    BY <1>8, <1>0, <2>1 DEF OpenDispute, StoresGood
<1>9. ASSUME NEW id \in CampaignIds, NEW r \in DisputeResolution, NEW p \in Amounts,
             ResolveDispute(id, r, p)
      PROVE  Goal
  <2> DEFINE share == FarmerShare(r, p, EscrowHeld(c(id)))
             d == [c(id) EXCEPT !.released = c(id).released + share,
                      !.refundable = c(id).refundable + (EscrowHeld(c(id)) - share),
                      !.status = "Resolved"]
  <2>1. share \in 0 .. EscrowHeld(c(id))
    BY <1>9, <1>b, <1>c DEF ResolveDispute, ValidResolution, FarmerShare
  <2>2. c(id).status = "Disputed" /\ c(id).returnable = 0
    BY <1>9, <1>a DEF ResolveDispute, GoodCampaign, PoolsAgree, Campaign
  <2>3. GoodCampaign(d)
    <3> HIDE DEF share
    <3>1. QED
      BY <2>1, <2>2, <1>a, GoodSplit
  <2>4. campaign' = [campaign EXCEPT ![id] = d]
    BY <1>9 DEF ResolveDispute
  <2>5. QED
    BY <1>0, <2>3, <2>4 DEF StoresGood
<1>10. ASSUME NEW id \in CampaignIds, MarkFailed(id) \/ ExpireCampaign(id)
       PROVE  Goal
  <2> DEFINE d == [c(id) EXCEPT !.refundable = c(id).refundable + EscrowHeld(c(id)),
                                !.status = "Failed"]
  <2>1. InFlight(c(id).status)
    BY <1>10 DEF MarkFailed, ExpireCampaign, InFlight, Accepting
  <2>2. GoodCampaign(d)
    BY <2>1, <1>a, GoodFailure
  <2>3. campaign' = [campaign EXCEPT ![id] = d]
    BY <1>10 DEF MarkFailed, ExpireCampaign
  <2>4. QED
    BY <1>0, <2>2, <2>3 DEF StoresGood
<1>11. ASSUME \/ \E a \in Admins : Initialize(a)
              \/ \E r \in Registries : SetRegistry(r)
              \/ \E id \in CampaignIds, list \in TrancheLists : ConfigureTranches(id, list)
              \/ \E id \in CampaignIds, i \in Investors : ClaimRefund(id, i) \/ ClaimReturn(id, i)
              \/ Tick
              \/ \E t \in Tokens, amount \in Amounts : Deposit(t, amount)
              \/ UNCHANGED vars
       PROVE  Goal
  BY <1>11, ZenonT(60)
     DEF Goal, Initialize, SetRegistry, ConfigureTranches, ClaimRefund, ClaimReturn, PayShare,
         Tick, Deposit, vars
<1>12. QED
  BY <1>1, <1>2, <1>3, <1>4, <1>5, <1>6, <1>7, <1>8, <1>9, <1>10, <1>11
     DEF Next, Contribute, Manage, Unwind, Goal

\* Hence all campaign records stay good.
LEMMA CampaignsStayGood ==
  ASSUME IInv, [Next]_vars
  PROVE  /\ campaign' \in [CampaignIds -> Campaign]
         /\ \A id \in CampaignIds : GoodCampaign(campaign'[id])
  BY CampaignStep DEF StoresGood, IInv, TypeOK

-----------------------------------------------------------------------------
(* Types of the other variables. *)

OtherTypes ==
  /\ timestamp \in Nat
  /\ admin \in Admins \cup {NoOne}
  /\ registry \in Registries \cup {NoOne}
  /\ contribution \in [CampaignIds -> [Investors -> Nat]]
  /\ dispute \in [CampaignIds -> Dispute]
  /\ tranches \in [CampaignIds -> Seq(Tranche)]
  /\ harvest \in [CampaignIds -> BOOLEAN]
  /\ vault \in [Tokens -> Nat]
  /\ tx \in [calls : Seq(Call), events : Seq(Event)]
  /\ audit \in [CampaignIds -> [redeemed : Nat, claimed : Nat, reconciled : Nat]]

\* What an invocation sends out is well typed when its two lists are.
LEMMA TxType ==
  /\ NoTx \in [calls : Seq(Call), events : Seq(Event)]
  /\ \A calls \in Seq(Call), events \in Seq(Event) :
       Sends(calls, events) => tx' \in [calls : Seq(Call), events : Seq(Event)]
  /\ <<>> \in Seq(Call)
  BY DEF NoTx, Sends

\* The history record keeps its type.
LEMMA AuditUpdate ==
  ASSUME NEW a \in [redeemed : Nat, claimed : Nat, reconciled : Nat], NEW x \in Nat, NEW y \in Nat
  PROVE  /\ [a EXCEPT !.redeemed = x, !.claimed = y]
              \in [redeemed : Nat, claimed : Nat, reconciled : Nat]
         /\ [a EXCEPT !.reconciled = x]
              \in [redeemed : Nat, claimed : Nat, reconciled : Nat]
  OBVIOUS

\* A claim finds the share it pays in the vault, so it leaves a natural number.
LEMMA PayShareTypes ==
  ASSUME IInv, NEW id \in CampaignIds, NEW i \in Investors, Exists(id),
         NEW pool \in Nat, NEW event \in EventName, PayShare(id, i, pool, event)
  PROVE  OtherTypes'
<1> DEFINE c == campaign[id]
           contributed == contribution[id][i]
           share == ProRata(contributed, pool, c.total_funded)
<1>1. /\ c \in Campaign /\ GoodCampaign(c) /\ contributed \in Nat /\ OtherTypes
      /\ contributed <= c.total_funded /\ c.total_funded \in Nat
  BY DEF IInv, TypeOK, StakesWithinTotal, OtherTypes, Campaign
<1>2. c.token_address \in Tokens
  BY <1>1 DEF Exists, GoodCampaign
<1>3. contributed > 0 /\ share > 0 /\ share <= vault[c.token_address]
  BY DEF PayShare
<1>4. share \in Nat
  <2>1. contributed * pool \in Nat /\ c.total_funded \in Nat \ {0}
    BY <1>1, <1>3
  <2>2. QED
    BY <1>3, <2>1 DEF ProRata
<1> HIDE DEF share, contributed
<1>5. /\ vault' = [vault EXCEPT ![c.token_address] = vault[c.token_address] - share]
      /\ contribution' = [contribution EXCEPT ![id][i] = 0]
      /\ audit' = [audit EXCEPT ![id].redeemed = @ + contributed, ![id].claimed = @ + share]
      /\ Sends(<<>>, Emit(event, id, i, share))
      /\ UNCHANGED <<timestamp, admin, registry, dispute, tranches, harvest>>
  BY DEF PayShare, share, contributed
<1>6. vault' \in [Tokens -> Nat]
  BY <1>1, <1>2, <1>3, <1>4, <1>5, SMTT(30) DEF OtherTypes
<1>7. tx' \in [calls : Seq(Call), events : Seq(Event)]
  <2>1. Emit(event, id, i, share) \in Seq(Event)
    BY <1>4, EmitType DEF Accounts
  <2>2. QED
    BY <1>5, <2>1, TxType
<1>8. audit' \in [CampaignIds -> [redeemed : Nat, claimed : Nat, reconciled : Nat]]
  <2> DEFINE a == audit[id]
             b == [a EXCEPT !.redeemed = a.redeemed + contributed, !.claimed = a.claimed + share]
  <2>1. b \in [redeemed : Nat, claimed : Nat, reconciled : Nat]
    <3>1. a \in [redeemed : Nat, claimed : Nat, reconciled : Nat]
      BY <1>1 DEF OtherTypes
    <3>2. a.redeemed + contributed \in Nat /\ a.claimed + share \in Nat
      BY <1>1, <1>4, <3>1
    <3>3. QED
      BY <3>1, <3>2, AuditUpdate
  <2>2. audit' = [audit EXCEPT ![id] = b]
    BY <1>5
  <2> HIDE DEF b
  <2>3. QED
    BY <1>1, <2>1, <2>2 DEF OtherTypes
<1>9. QED
  BY <1>1, <1>5, <1>6, <1>7, <1>8 DEF OtherTypes

\* Every schedule that may be submitted is a sequence of tranches.
LEMMA TrancheListsType == TrancheLists \subseteq Seq(Tranche)
<1> SUFFICES ASSUME NEW list \in TrancheLists PROVE list \in Seq(Tranche)
  OBVIOUS
<1>1. PICK n \in 0 .. MaxTranches :
        list \in [1 .. n -> [amount : Amounts \cap Nat, released : BOOLEAN]]
  BY EscrowConstants DEF TrancheLists, BoundedSeq, SeqOf
<1>2. list \in [1 .. n -> Tranche]
  BY <1>1 DEF Tranche
<1>3. n \in Nat
  BY EscrowConstants
<1>4. QED
  BY <1>2, <1>3

\* Marking a tranche released leaves a sequence of tranches.
LEMMA ReleaseKeepsType ==
  ASSUME NEW list \in Seq(Tranche), NEW i \in DOMAIN list
  PROVE  [list EXCEPT ![i].released = TRUE] \in Seq(Tranche)
<1>1. i \in 1 .. Len(list) /\ list[i] \in Tranche
  BY SMT
<1>2. [list[i] EXCEPT !.released = TRUE] \in Tranche
  BY <1>1 DEF Tranche
<1>3. [list EXCEPT ![i] = [list[i] EXCEPT !.released = TRUE]] \in Seq(Tranche)
  BY <1>1, <1>2, ExceptSeq
<1>4. QED
  BY <1>3

\* The other variables keep their types: a step for each action.
LEMMA TypeStep ==
  ASSUME IInv, [Next]_vars
  PROVE  OtherTypes'
<1>a. /\ OtherTypes
      /\ campaign \in [CampaignIds -> Campaign]
      /\ \A id \in CampaignIds : GoodCampaign(campaign[id])
  BY DEF IInv, TypeOK, OtherTypes
<1>b. \A id \in CampaignIds : EscrowHeld(campaign[id]) \in Nat
  BY <1>a DEF EscrowHeld, GoodCampaign, PoolsAgree, Campaign
<1>c. Amounts \subseteq Int /\ MaxTime \in Nat
  BY EscrowConstants
<1>d. /\ admin \in Accounts \cup {NoOne} /\ NoOne \in Accounts \cup {NoOne}
      /\ Farmers \subseteq Accounts /\ Investors \subseteq Accounts
  BY <1>a DEF OtherTypes, Accounts
<1>1. ASSUME NEW id \in CampaignIds, NEW f \in Farmers, NEW target \in Amounts,
             NEW t \in Tokens, NEW dl \in 0 .. MaxTime, CreateCampaign(id, f, target, t, dl)
      PROVE  OtherTypes'
  <2>1. Emit("CampaignCreated", id, f, target) \in Seq(Event)
    BY <1>c, <1>d, EmitType DEF EventName
  <2>2. LinkCampaignEscrow(id, f) \o Record(id, "CampaignCreated") \in Seq(Call)
    BY LinkType DEF ActivityAction
  <2>3. tx' \in [calls : Seq(Call), events : Seq(Event)]
    BY <1>1, <2>1, <2>2, TxType DEF CreateCampaign
  <2>4. QED
    BY <1>1, <1>a, <2>3 DEF CreateCampaign, OtherTypes
<1>2. ASSUME NEW id \in CampaignIds, NEW i \in Investors, NEW amount \in Amounts,
             FundCampaign(id, i, amount)
      PROVE  OtherTypes'
  <2> DEFINE c == campaign[id]
             total == c.total_funded + amount
             e == Emit("ContribReceived", id, i, amount)
  <2>1. /\ amount \in Nat /\ c.total_funded \in Nat /\ c.token_address \in Tokens
    BY <1>2, <1>a, <1>c DEF FundCampaign, CanContribute, Accepting, GoodCampaign, Campaign
  <2>2. e \in Seq(Event) /\ Emit("CampaignFunded", id, NoOne, total) \in Seq(Event)
    <3>1. total \in Int /\ amount \in Int
      BY <2>1
    <3> HIDE DEF total
    <3>2. e \in Seq(Event)
      BY <1>d, <3>1, EmitType DEF EventName
    <3>3. Emit("CampaignFunded", id, NoOne, total) \in Seq(Event)
      BY <1>d, <3>1, EmitType DEF EventName
    <3>4. QED
      BY <3>2, <3>3
  <2>3. Emit("CampaignFunded", id, NoOne, total) \o e \in Seq(Event)
    BY <2>2, ConcatProperties
  <2>4. /\ Record(id, "CampaignFunded") \in Seq(Call)
        /\ RecordAndSync(id, "CampaignFunded", "Funded") \in Seq(Call)
    BY CallsType DEF ActivityAction, CampaignStatus
  <2>5. tx' \in [calls : Seq(Call), events : Seq(Event)]
    BY <1>2, <2>2, <2>3, <2>4, TxType DEF FundCampaign
  <2>6. vault' = [vault EXCEPT ![c.token_address] = vault[c.token_address] + amount]
    BY <1>2 DEF FundCampaign
  <2>7. contribution' = [contribution EXCEPT ![id][i] = contribution[id][i] + amount]
    BY <1>2 DEF FundCampaign
  <2>8. vault' \in [Tokens -> Nat] /\ contribution' \in [CampaignIds -> [Investors -> Nat]]
    BY <1>a, <2>1, <2>6, <2>7 DEF OtherTypes
  <2>9. QED
    BY <1>2, <1>a, <2>5, <2>8 DEF FundCampaign, OtherTypes
<1>3. ASSUME NEW id \in CampaignIds, NEW i \in Investors, NEW amount \in Amounts,
             ReceiveContribution(id, i, amount)
      PROVE  OtherTypes'
  <2>1. amount \in Nat
    BY <1>3, <1>c DEF ReceiveContribution, CanContribute
  <2>2. Emit("ContribReconciled", id, i, amount) \in Seq(Event)
    BY <1>d, <2>1, EmitType DEF EventName
  <2>3. tx' \in [calls : Seq(Call), events : Seq(Event)]
    BY <1>3, <2>2, TxType DEF ReceiveContribution
  <2>4. contribution' = [contribution EXCEPT ![id][i] = contribution[id][i] + amount]
    BY <1>3 DEF ReceiveContribution
  <2>5. contribution' \in [CampaignIds -> [Investors -> Nat]]
    BY <1>a, <2>1, <2>4 DEF OtherTypes
  <2>6. audit' \in [CampaignIds -> [redeemed : Nat, claimed : Nat, reconciled : Nat]]
    <3> DEFINE a == audit[id]
               b == [a EXCEPT !.reconciled = a.reconciled + amount]
    <3>1. a \in [redeemed : Nat, claimed : Nat, reconciled : Nat]
      BY <1>a DEF OtherTypes
    <3>2. b \in [redeemed : Nat, claimed : Nat, reconciled : Nat]
      <4>1. a.reconciled + amount \in Nat
        BY <3>1, <2>1
      <4>2. QED
        BY <3>1, <4>1, AuditUpdate
    <3>3. audit' = [audit EXCEPT ![id] = b]
      BY <1>3 DEF ReceiveContribution
    <3> HIDE DEF b
    <3>4. QED
      BY <1>a, <3>2, <3>3 DEF OtherTypes
  <2>7. QED
    BY <1>3, <1>a, <2>3, <2>5, <2>6 DEF ReceiveContribution, OtherTypes
<1>4. ASSUME NEW id \in CampaignIds, NEW total \in Amounts, CompleteFunding(id, total)
      PROVE  OtherTypes'
  <2>1. Emit("CampaignFunded", id, NoOne, total) \in Seq(Event)
    BY <1>c, <1>d, EmitType DEF EventName
  <2>2. tx' \in [calls : Seq(Call), events : Seq(Event)]
    BY <1>4, <2>1, TxType DEF CompleteFunding
  <2>3. QED
    BY <1>4, <1>a, <2>2 DEF CompleteFunding, OtherTypes
<1>5. ASSUME NEW id \in CampaignIds, NEW list \in TrancheLists, ConfigureTranches(id, list)
      PROVE  OtherTypes'
  <2>1. list \in Seq(Tranche) /\ Len(list) \in Int
    BY TrancheListsType, LenProperties
  <2>2. Emit("TranchesConfigured", id, NoOne, Len(list)) \in Seq(Event)
    BY <2>1, <1>d, EmitType DEF EventName
  <2>3. tx' \in [calls : Seq(Call), events : Seq(Event)]
    BY <1>5, <2>2, TxType DEF ConfigureTranches
  <2>4. QED
    BY <1>5, <1>a, <2>1, <2>3 DEF ConfigureTranches, OtherTypes
<1>6. ASSUME NEW id \in CampaignIds, NEW rcp \in Farmers, NEW amount \in Amounts,
             ReleaseTranche(id, rcp, amount)
      PROVE  OtherTypes'
  <2>1. Emit("TrancheReleased", id, rcp, amount) \in Seq(Event)
    BY <1>c, <1>d, EmitType DEF EventName
  <2>2. RecordAndSync(id, "FundsReleased", "InProduction") \in Seq(Call)
    BY CallsType DEF ActivityAction, CampaignStatus
  <2>3. tx' \in [calls : Seq(Call), events : Seq(Event)]
    BY <1>6, <2>1, <2>2, TxType DEF ReleaseTranche
  <2>4. tranches' \in [CampaignIds -> Seq(Tranche)]
    <3>1. CASE UNCHANGED tranches
      BY <3>1, <1>a DEF OtherTypes
    <3>2. CASE \E j \in FirstReleasable(tranches[id], amount) :
                 tranches' = [tranches EXCEPT ![id][j].released = TRUE]
      <4>1. PICK j \in DOMAIN tranches[id] :
                 tranches' = [tranches EXCEPT ![id][j].released = TRUE]
        BY <3>2 DEF FirstReleasable, Releasable
      <4>2. tranches[id] \in Seq(Tranche)
        BY <1>a DEF OtherTypes
      <4>3. [tranches[id] EXCEPT ![j].released = TRUE] \in Seq(Tranche)
        BY <4>2, ReleaseKeepsType
      <4>4. QED
        BY <1>a, <4>1, <4>3 DEF OtherTypes
    <3>3. QED
      BY <1>6, <3>1, <3>2 DEF ReleaseTranche
  <2>5. QED
    BY <1>6, <1>a, <2>3, <2>4 DEF ReleaseTranche, OtherTypes
<1>7. ASSUME NEW id \in CampaignIds, NEW who \in Accounts, ReportHarvest(id, who)
      PROVE  OtherTypes'
  <2>1. Emit("HarvestReported", id, who, 0) \in Seq(Event)
    BY EmitType DEF EventName
  <2>2. RecordAndSync(id, "HarvestReported", "Harvested") \in Seq(Call)
    BY CallsType DEF ActivityAction, CampaignStatus
  <2>3. tx' \in [calls : Seq(Call), events : Seq(Event)]
    BY <1>7, <2>1, <2>2, TxType DEF ReportHarvest
  <2>4. QED
    BY <1>7, <1>a, <2>3 DEF ReportHarvest, OtherTypes
<1>8. ASSUME NEW id \in CampaignIds, NEW payee \in Farmers, NEW payout \in Amounts,
             SettleCampaign(id, payee, payout)
      PROVE  OtherTypes'
  <2> DEFINE c == campaign[id]
             rest == EscrowHeld(c) - payout
  <2>1. /\ payout \in Nat /\ payout <= vault[c.token_address]
        /\ c.token_address \in Tokens /\ rest \in Int
    BY <1>8, <1>a, <1>b, <1>c DEF SettleCampaign, GoodCampaign
  <2>2. Emit("CampaignSettled", id, payee, rest) \in Seq(Event)
    BY <2>1, <1>d, EmitType DEF EventName
  <2>3. RecordAndSync(id, "CampaignSettled", "Settled") \in Seq(Call)
    BY CallsType DEF ActivityAction, CampaignStatus
  <2>4. tx' \in [calls : Seq(Call), events : Seq(Event)]
    BY <1>8, <2>2, <2>3, TxType DEF SettleCampaign
  <2>5. vault' = [vault EXCEPT ![c.token_address] = vault[c.token_address] - payout]
    BY <1>8 DEF SettleCampaign
  <2>6. vault' \in [Tokens -> Nat]
    BY <1>a, <2>1, <2>5 DEF OtherTypes
  <2>7. QED
    BY <1>8, <1>a, <2>4, <2>6 DEF SettleCampaign, OtherTypes
<1>9. ASSUME NEW id \in CampaignIds, NEW who \in Accounts, OpenDispute(id, who)
      PROVE  OtherTypes'
  <2>1. Emit("DisputeOpened", id, who, 0) \in Seq(Event)
    BY EmitType DEF EventName
  <2>2. RecordAndSync(id, "DisputeInitiated", "Disputed") \in Seq(Call)
    BY CallsType DEF ActivityAction, CampaignStatus
  <2>3. tx' \in [calls : Seq(Call), events : Seq(Event)]
    BY <1>9, <2>1, <2>2, TxType DEF OpenDispute
  <2>4. [status |-> "Open", resolution |-> "Pending"] \in Dispute
    BY DEF Dispute, DisputeResolution
  <2>5. QED
    BY <1>9, <1>a, <2>3, <2>4 DEF OpenDispute, OtherTypes
<1>10. ASSUME NEW id \in CampaignIds, NEW r \in DisputeResolution, NEW p \in Amounts,
              ResolveDispute(id, r, p)
       PROVE  OtherTypes'
  <2> DEFINE rest == EscrowHeld(campaign[id]) - FarmerShare(r, p, EscrowHeld(campaign[id]))
  <2>1. rest \in Int
    BY <1>b, <1>c DEF FarmerShare
  <2>2. Emit("DisputeResolved", id, admin, rest) \in Seq(Event)
    BY <2>1, <1>d, EmitType DEF EventName
  <2>3. RecordAndSync(id, "DisputeResolved", "Resolved") \in Seq(Call)
    BY CallsType DEF ActivityAction, CampaignStatus
  <2>4. tx' \in [calls : Seq(Call), events : Seq(Event)]
    BY <1>10, <2>2, <2>3, TxType DEF ResolveDispute
  <2>5. [status |-> "Resolved", resolution |-> r] \in Dispute
    BY DEF Dispute
  <2>6. QED
    BY <1>10, <1>a, <2>4, <2>5 DEF ResolveDispute, OtherTypes
<1>11. ASSUME NEW id \in CampaignIds, MarkFailed(id) \/ ExpireCampaign(id)
       PROVE  OtherTypes'
  <2>1. campaign'[id].refundable \in Int
    BY CampaignsStayGood DEF Campaign
  <2>2. Emit("CampaignFailed", id, NoOne, campaign'[id].refundable) \in Seq(Event)
    BY <2>1, <1>d, EmitType DEF EventName
  <2>3. RecordAndSync(id, "CampaignStatusChanged", "Failed") \in Seq(Call)
    BY CallsType DEF ActivityAction, CampaignStatus
  <2>4. tx' \in [calls : Seq(Call), events : Seq(Event)]
    BY <1>11, <2>2, <2>3, TxType DEF MarkFailed, ExpireCampaign
  <2>5. QED
    BY <1>11, <1>a, <2>4 DEF MarkFailed, ExpireCampaign, OtherTypes
<1>12. ASSUME NEW id \in CampaignIds, NEW i \in Investors, ClaimRefund(id, i) \/ ClaimReturn(id, i)
       PROVE  OtherTypes'
  <2>1. /\ Exists(id) /\ campaign[id].refundable \in Nat /\ campaign[id].returnable \in Nat
    BY <1>12, <1>a DEF ClaimRefund, ClaimReturn, Exists, Campaign
  <2>2. QED
    BY <1>12, <2>1, PayShareTypes DEF ClaimRefund, ClaimReturn, EventName
<1>13. ASSUME \/ \E a \in Admins : Initialize(a)
              \/ \E r \in Registries : SetRegistry(r)
              \/ Tick
              \/ UNCHANGED vars
       PROVE  OtherTypes'
  BY <1>13, <1>a, TxType DEF Initialize, SetRegistry, Tick, vars, OtherTypes
<1>14. ASSUME NEW t \in Tokens, NEW amount \in Amounts, Deposit(t, amount)
       PROVE  OtherTypes'
  <2>1. amount \in Nat
    BY <1>14, <1>c DEF Deposit
  <2>2. QED
    BY <1>14, <1>a, <2>1, TxType DEF Deposit, OtherTypes
<1>15. QED
  BY <1>1, <1>2, <1>3, <1>4, <1>5, <1>6, <1>7, <1>8, <1>9, <1>10, <1>11, <1>12, <1>13, <1>14
     DEF Next, Contribute, Manage, Unwind

-----------------------------------------------------------------------------
(* The side records and the stakes follow the campaign. *)

\* A campaign's status and records after an action that sets its status to s.
LEMMA SetsStatus ==
  ASSUME NEW c \in Campaign, NEW s \in CampaignStatus,
         NEW t, NEW r, NEW f, NEW n
  PROVE  /\ [c EXCEPT !.total_funded = t, !.status = s].status = s
         /\ [c EXCEPT !.status = s].status = s
         /\ [c EXCEPT !.status = s, !.released = r].status = s
         /\ [c EXCEPT !.released = r, !.refundable = f, !.status = s].status = s
         /\ [c EXCEPT !.released = r, !.returnable = n, !.status = s].status = s
         /\ [c EXCEPT !.refundable = f, !.status = s].status = s
  BY DEF Campaign

MovesTo(id, s) ==
  \A o \in CampaignIds : campaign'[o].status = IF o = id THEN s ELSE campaign[o].status

\* The dispute and harvest records keep following the status.
LEMMA RecordsStep ==
  ASSUME IInv, [Next]_vars
  PROVE  RecordsMatchStatus'
<1>a. /\ campaign \in [CampaignIds -> Campaign] /\ dispute \in [CampaignIds -> Dispute]
      /\ harvest \in [CampaignIds -> BOOLEAN]
      /\ RecordsMatchStatus
  BY DEF IInv, TypeOK
<1> USE DEF RecordsMatchStatus
<1>1. ASSUME NEW id \in CampaignIds, NEW f \in Farmers, NEW target \in Amounts,
             NEW t \in Tokens, NEW dl \in 0 .. MaxTime, CreateCampaign(id, f, target, t, dl)
      PROVE  RecordsMatchStatus'
  <2>1. MovesTo(id, "Active")
    BY <1>1, <1>a DEF CreateCampaign, NewCampaign, MovesTo
  <2>2. QED
    BY <1>1, <1>a, <2>1 DEF CreateCampaign, MovesTo, Exists
<1>2. ASSUME NEW id \in CampaignIds, NEW i \in Investors, NEW amount \in Amounts,
             FundCampaign(id, i, amount) \/ ReceiveContribution(id, i, amount)
      PROVE  RecordsMatchStatus'
  <2>1. MovesTo(id, "Funded") \/ MovesTo(id, "Funding")
    <3>1. PICK s \in {"Funded", "Funding"} :
            campaign' = [campaign EXCEPT ![id] =
              [campaign[id] EXCEPT !.total_funded = campaign[id].total_funded + amount,
                                   !.status = s]]
      BY <1>2 DEF FundCampaign, ReceiveContribution
    <3>2. QED
      BY <3>1, <1>a, SetsStatus DEF MovesTo, CampaignStatus
  <2>2. QED
    BY <1>2, <1>a, <2>1 DEF FundCampaign, ReceiveContribution, CanContribute, Accepting, MovesTo
<1>3. ASSUME NEW id \in CampaignIds, NEW total \in Amounts, CompleteFunding(id, total)
      PROVE  RecordsMatchStatus'
  <2>1. MovesTo(id, "Funded")
    BY <1>3, <1>a, SetsStatus DEF CompleteFunding, MovesTo, CampaignStatus
  <2>2. QED
    BY <1>3, <1>a, <2>1 DEF CompleteFunding, Accepting, MovesTo
<1>4. ASSUME NEW id \in CampaignIds, NEW rcp \in Farmers, NEW amount \in Amounts,
             ReleaseTranche(id, rcp, amount)
      PROVE  RecordsMatchStatus'
  <2>1. MovesTo(id, "InProduction")
    BY <1>4, <1>a, SetsStatus DEF ReleaseTranche, MovesTo, CampaignStatus
  <2>2. QED
    BY <1>4, <1>a, <2>1 DEF ReleaseTranche, MovesTo
<1>5. ASSUME NEW id \in CampaignIds, NEW who \in Accounts, ReportHarvest(id, who)
      PROVE  RecordsMatchStatus'
  <2>1. MovesTo(id, "Harvested")
    BY <1>5, <1>a, SetsStatus DEF ReportHarvest, MovesTo, CampaignStatus
  <2>2. QED
    BY <1>5, <1>a, <2>1 DEF ReportHarvest, MovesTo
<1>6. ASSUME NEW id \in CampaignIds, NEW payee \in Farmers, NEW payout \in Amounts,
             SettleCampaign(id, payee, payout)
      PROVE  RecordsMatchStatus'
  <2>1. MovesTo(id, "Settled")
    BY <1>6, <1>a, SetsStatus DEF SettleCampaign, MovesTo, CampaignStatus
  <2>2. QED
    BY <1>6, <1>a, <2>1 DEF SettleCampaign, MovesTo
<1>7. ASSUME NEW id \in CampaignIds, NEW who \in Accounts, OpenDispute(id, who)
      PROVE  RecordsMatchStatus'
  <2>1. MovesTo(id, "Disputed")
    BY <1>7, <1>a, SetsStatus DEF OpenDispute, MovesTo, CampaignStatus
  <2>2. dispute' = [dispute EXCEPT ![id] = [status |-> "Open", resolution |-> "Pending"]]
        /\ harvest' = harvest /\ InFlight(campaign[id].status)
    BY <1>7 DEF OpenDispute
  <2>3. QED
    BY <1>a, <2>1, <2>2 DEF InFlight, MovesTo
<1>8. ASSUME NEW id \in CampaignIds, NEW r \in DisputeResolution, NEW p \in Amounts,
             ResolveDispute(id, r, p)
      PROVE  RecordsMatchStatus'
  <2>1. MovesTo(id, "Resolved")
    BY <1>8, <1>a, SetsStatus DEF ResolveDispute, MovesTo, CampaignStatus
  <2>2. dispute' = [dispute EXCEPT ![id] = [status |-> "Resolved", resolution |-> r]]
        /\ harvest' = harvest /\ campaign[id].status = "Disputed" /\ r # "Pending"
    BY <1>8 DEF ResolveDispute, ValidResolution
  <2>3. QED
    BY <1>a, <2>1, <2>2 DEF MovesTo
<1>9. ASSUME NEW id \in CampaignIds, MarkFailed(id) \/ ExpireCampaign(id)
      PROVE  RecordsMatchStatus'
  <2>1. MovesTo(id, "Failed")
    <3>1. campaign' = [campaign EXCEPT ![id] =
            [campaign[id] EXCEPT !.refundable = campaign[id].refundable + EscrowHeld(campaign[id]),
                                 !.status = "Failed"]]
      BY <1>9 DEF MarkFailed, ExpireCampaign
    <3>2. QED
      BY <3>1, <1>a, SetsStatus DEF MovesTo, CampaignStatus
  <2>2. QED
    BY <1>9, <1>a, <2>1 DEF MarkFailed, ExpireCampaign, Accepting, InFlight, MovesTo
<1>10. ASSUME UNCHANGED <<campaign, dispute, harvest>>
       PROVE  RecordsMatchStatus'
  BY <1>10, <1>a
<1>11. QED
  BY <1>1, <1>2, <1>3, <1>4, <1>5, <1>6, <1>7, <1>8, <1>9, <1>10, ZenonT(60)
     DEF Next, Contribute, Manage, Unwind, Initialize, SetRegistry, Tick, Deposit, vars,
         ConfigureTranches, ClaimRefund, ClaimReturn, PayShare

\* The moves between statuses that the contract makes.
Follows(s, t) ==
  \/ s = "Absent" /\ t = "Active"
  \/ Accepting(s) /\ t \in {"Funding", "Funded"}
  \/ s \in {"Funded", "InProduction"} /\ t \in {"InProduction", "Harvested"}
  \/ InFlight(s) /\ t \in {"Disputed", "Failed"}
  \/ s = "Disputed" /\ t = "Resolved"
  \/ s = "Harvested" /\ t = "Settled"

LifecycleFollowed ==
  \A id \in CampaignIds :
    campaign'[id].status = campaign[id].status \/ Follows(campaign[id].status, campaign'[id].status)

\* A campaign's status moves along the lifecycle, one move per invocation.
LEMMA LifecycleStep ==
  ASSUME IInv, [Next]_vars
  PROVE  LifecycleFollowed
<1>a. campaign \in [CampaignIds -> Campaign]
  BY DEF IInv, TypeOK
<1>b. ASSUME NEW id \in CampaignIds, NEW s, MovesTo(id, s), Follows(campaign[id].status, s)
      PROVE  LifecycleFollowed
  BY <1>b DEF LifecycleFollowed, MovesTo
<1>1. ASSUME NEW id \in CampaignIds, NEW f \in Farmers, NEW target \in Amounts,
             NEW t \in Tokens, NEW dl \in 0 .. MaxTime, CreateCampaign(id, f, target, t, dl)
      PROVE  LifecycleFollowed
  <2>1. MovesTo(id, "Active")
    BY <1>1, <1>a DEF CreateCampaign, NewCampaign, MovesTo
  <2>2. QED
    BY <1>1, <1>b, <2>1 DEF CreateCampaign, Exists, Follows
<1>2. ASSUME NEW id \in CampaignIds, NEW i \in Investors, NEW amount \in Amounts,
             FundCampaign(id, i, amount) \/ ReceiveContribution(id, i, amount)
      PROVE  LifecycleFollowed
  <2>1. PICK s \in {"Funded", "Funding"} :
          campaign' = [campaign EXCEPT ![id] =
            [campaign[id] EXCEPT !.total_funded = campaign[id].total_funded + amount,
                                 !.status = s]]
    BY <1>2 DEF FundCampaign, ReceiveContribution
  <2>2. MovesTo(id, s)
    BY <2>1, <1>a, SetsStatus DEF MovesTo, CampaignStatus
  <2>3. Accepting(campaign[id].status)
    BY <1>2 DEF FundCampaign, ReceiveContribution, CanContribute
  <2>4. QED
    BY <1>b, <2>2, <2>3 DEF Follows
<1>3. ASSUME NEW id \in CampaignIds, NEW total \in Amounts, CompleteFunding(id, total)
      PROVE  LifecycleFollowed
  <2>1. MovesTo(id, "Funded")
    BY <1>3, <1>a, SetsStatus DEF CompleteFunding, MovesTo, CampaignStatus
  <2>2. QED
    BY <1>3, <1>b, <2>1 DEF CompleteFunding, Follows
<1>4. ASSUME NEW id \in CampaignIds, NEW rcp \in Farmers, NEW amount \in Amounts,
             ReleaseTranche(id, rcp, amount)
      PROVE  LifecycleFollowed
  <2>1. MovesTo(id, "InProduction")
    BY <1>4, <1>a, SetsStatus DEF ReleaseTranche, MovesTo, CampaignStatus
  <2>2. QED
    BY <1>4, <1>b, <2>1 DEF ReleaseTranche, Follows
<1>5. ASSUME NEW id \in CampaignIds, NEW who \in Accounts, ReportHarvest(id, who)
      PROVE  LifecycleFollowed
  <2>1. MovesTo(id, "Harvested")
    BY <1>5, <1>a, SetsStatus DEF ReportHarvest, MovesTo, CampaignStatus
  <2>2. QED
    BY <1>5, <1>b, <2>1 DEF ReportHarvest, Follows
<1>6. ASSUME NEW id \in CampaignIds, NEW payee \in Farmers, NEW payout \in Amounts,
             SettleCampaign(id, payee, payout)
      PROVE  LifecycleFollowed
  <2>1. MovesTo(id, "Settled")
    BY <1>6, <1>a, SetsStatus DEF SettleCampaign, MovesTo, CampaignStatus
  <2>2. QED
    BY <1>6, <1>b, <2>1 DEF SettleCampaign, Follows
<1>7. ASSUME NEW id \in CampaignIds, NEW who \in Accounts, OpenDispute(id, who)
      PROVE  LifecycleFollowed
  <2>1. MovesTo(id, "Disputed")
    BY <1>7, <1>a, SetsStatus DEF OpenDispute, MovesTo, CampaignStatus
  <2>2. QED
    BY <1>7, <1>b, <2>1 DEF OpenDispute, Follows
<1>8. ASSUME NEW id \in CampaignIds, NEW r \in DisputeResolution, NEW p \in Amounts,
             ResolveDispute(id, r, p)
      PROVE  LifecycleFollowed
  <2>1. MovesTo(id, "Resolved")
    BY <1>8, <1>a, SetsStatus DEF ResolveDispute, MovesTo, CampaignStatus
  <2>2. QED
    BY <1>8, <1>b, <2>1 DEF ResolveDispute, Follows
<1>9. ASSUME NEW id \in CampaignIds, MarkFailed(id) \/ ExpireCampaign(id)
      PROVE  LifecycleFollowed
  <2>1. campaign' = [campaign EXCEPT ![id] =
          [campaign[id] EXCEPT !.refundable = campaign[id].refundable + EscrowHeld(campaign[id]),
                               !.status = "Failed"]]
    BY <1>9 DEF MarkFailed, ExpireCampaign
  <2>2. MovesTo(id, "Failed")
    BY <2>1, <1>a, SetsStatus DEF MovesTo, CampaignStatus
  <2>3. InFlight(campaign[id].status)
    BY <1>9 DEF MarkFailed, ExpireCampaign, Accepting, InFlight
  <2>4. QED
    BY <1>b, <2>2, <2>3 DEF Follows
<1>10. ASSUME UNCHANGED campaign
       PROVE  LifecycleFollowed
  BY <1>10 DEF LifecycleFollowed
<1>11. QED
  BY <1>1, <1>2, <1>3, <1>4, <1>5, <1>6, <1>7, <1>8, <1>9, <1>10, ZenonT(60)
     DEF Next, Contribute, Manage, Unwind, Initialize, SetRegistry, Tick, Deposit, vars,
         ConfigureTranches, ClaimRefund, ClaimReturn, PayShare

\* Outside a contribution the total stays what it is; a new campaign starts at zero.
LEMMA KeepsTotal ==
  ASSUME NEW c \in Campaign, NEW s, NEW r, NEW f, NEW n
  PROVE  /\ [c EXCEPT !.status = s].total_funded = c.total_funded
         /\ [c EXCEPT !.status = s, !.released = r].total_funded = c.total_funded
         /\ [c EXCEPT !.released = r, !.refundable = f, !.status = s].total_funded = c.total_funded
         /\ [c EXCEPT !.released = r, !.returnable = n, !.status = s].total_funded = c.total_funded
         /\ [c EXCEPT !.refundable = f, !.status = s].total_funded = c.total_funded
  BY DEF Campaign

TotalsKept == \A o \in CampaignIds : campaign'[o].total_funded = campaign[o].total_funded

\* A step leaves all totals alone, redeems one stake, or adds one amount to a stake and
\* to its campaign's total.
LEMMA TotalsStep ==
  ASSUME IInv, [Next]_vars
  PROVE  \/ TotalsKept /\ UNCHANGED contribution
         \/ TotalsKept /\ \E id \in CampaignIds, i \in Investors :
                            contribution' = [contribution EXCEPT ![id][i] = 0]
         \/ \E id \in CampaignIds, i \in Investors, amount \in Nat :
              /\ CanContribute(id, amount)
              /\ \A o \in CampaignIds :
                   campaign'[o].total_funded =
                     campaign[o].total_funded + (IF o = id THEN amount ELSE 0)
              /\ contribution' = [contribution EXCEPT ![id][i] = contribution[id][i] + amount]
<1>a. /\ campaign \in [CampaignIds -> Campaign]
      /\ \A id \in CampaignIds : GoodCampaign(campaign[id])
  BY DEF IInv, TypeOK
<1>b. Amounts \subseteq Int
  BY EscrowConstants
<1>1. ASSUME NEW id \in CampaignIds, NEW i \in Investors, NEW amount \in Amounts,
             FundCampaign(id, i, amount) \/ ReceiveContribution(id, i, amount)
      PROVE  /\ amount \in Nat
             /\ CanContribute(id, amount)
             /\ \A o \in CampaignIds :
                  campaign'[o].total_funded =
                    campaign[o].total_funded + (IF o = id THEN amount ELSE 0)
             /\ contribution' = [contribution EXCEPT ![id][i] = contribution[id][i] + amount]
  <2>1. CanContribute(id, amount) /\ amount \in Nat
    BY <1>1, <1>b DEF FundCampaign, ReceiveContribution, CanContribute
  <2>2. PICK s \in {"Funded", "Funding"} :
          campaign' = [campaign EXCEPT ![id] =
            [campaign[id] EXCEPT !.total_funded = campaign[id].total_funded + amount, !.status = s]]
    BY <1>1 DEF FundCampaign, ReceiveContribution
  <2>3. [campaign[id] EXCEPT !.total_funded = campaign[id].total_funded + amount,
                             !.status = s].total_funded = campaign[id].total_funded + amount
    BY <1>a DEF Campaign
  <2>4. \A o \in CampaignIds : campaign[o].total_funded \in Nat
    BY <1>a DEF Campaign
  <2>5. \A o \in CampaignIds :
          campaign'[o].total_funded = campaign[o].total_funded + (IF o = id THEN amount ELSE 0)
    BY <1>a, <2>2, <2>3, <2>4
  <2>6. contribution' = [contribution EXCEPT ![id][i] = contribution[id][i] + amount]
    BY <1>1 DEF FundCampaign, ReceiveContribution
  <2>7. QED
    BY <2>1, <2>5, <2>6
<1>2. ASSUME NEW id \in CampaignIds, NEW f \in Farmers, NEW target \in Amounts,
             NEW t \in Tokens, NEW dl \in 0 .. MaxTime, CreateCampaign(id, f, target, t, dl)
      PROVE  TotalsKept /\ UNCHANGED contribution
  BY <1>2, <1>a DEF CreateCampaign, NewCampaign, TotalsKept, Exists, GoodCampaign, PoolsAgree
<1>3. ASSUME NEW id \in CampaignIds,
             \/ \E total \in Amounts : CompleteFunding(id, total)
             \/ \E rcp \in Farmers, amount \in Amounts : ReleaseTranche(id, rcp, amount)
             \/ \E who \in Accounts : ReportHarvest(id, who) \/ OpenDispute(id, who)
             \/ \E payee \in Farmers, payout \in Amounts : SettleCampaign(id, payee, payout)
             \/ \E r \in DisputeResolution, p \in Amounts : ResolveDispute(id, r, p)
             \/ MarkFailed(id) \/ ExpireCampaign(id)
      PROVE  TotalsKept /\ UNCHANGED contribution
  <2> DEFINE c == campaign[id]
             held == EscrowHeld(c)
  <2>1. ASSUME NEW d, d.total_funded = c.total_funded, campaign' = [campaign EXCEPT ![id] = d]
        PROVE  TotalsKept
    BY <1>a, <2>1 DEF TotalsKept
  <2>2. TotalsKept
    <3>0. c \in Campaign
      BY <1>a
    <3>1. ASSUME \/ \E total \in Amounts : CompleteFunding(id, total)
                 \/ \E who \in Accounts : ReportHarvest(id, who) \/ OpenDispute(id, who)
          PROVE  TotalsKept
      <4>1. PICK s : campaign' = [campaign EXCEPT ![id] = [c EXCEPT !.status = s]]
        BY <3>1 DEF CompleteFunding, ReportHarvest, OpenDispute
      <4>2. [c EXCEPT !.status = s].total_funded = c.total_funded
        BY <3>0, KeepsTotal
      <4>3. QED
        BY <2>1, <4>1, <4>2
    <3>2. ASSUME NEW rcp \in Farmers, NEW amount \in Amounts, ReleaseTranche(id, rcp, amount)
          PROVE  TotalsKept
      <4> DEFINE d == [c EXCEPT !.status = "InProduction", !.released = c.released + amount]
      <4>1. campaign' = [campaign EXCEPT ![id] = d]
        BY <3>2 DEF ReleaseTranche
      <4>2. d.total_funded = c.total_funded
        BY <3>0, KeepsTotal
      <4>3. QED
        BY <2>1, <4>1, <4>2
    <3>3. ASSUME NEW payee \in Farmers, NEW payout \in Amounts, SettleCampaign(id, payee, payout)
          PROVE  TotalsKept
      <4> DEFINE d == [c EXCEPT !.released = c.released + payout,
                                !.returnable = c.returnable + (held - payout),
                                !.status = "Settled"]
      <4>1. campaign' = [campaign EXCEPT ![id] = d]
        BY <3>3 DEF SettleCampaign
      <4>2. d.total_funded = c.total_funded
        BY <3>0, KeepsTotal
      <4>3. QED
        BY <2>1, <4>1, <4>2
    <3>4. ASSUME NEW r \in DisputeResolution, NEW p \in Amounts, ResolveDispute(id, r, p)
          PROVE  TotalsKept
      <4> DEFINE d == [c EXCEPT !.released = c.released + FarmerShare(r, p, held),
                                !.refundable = c.refundable + (held - FarmerShare(r, p, held)),
                                !.status = "Resolved"]
      <4>1. campaign' = [campaign EXCEPT ![id] = d]
        BY <3>4 DEF ResolveDispute
      <4>2. d.total_funded = c.total_funded
        BY <3>0, KeepsTotal
      <4>3. QED
        BY <2>1, <4>1, <4>2
    <3>5. ASSUME MarkFailed(id) \/ ExpireCampaign(id)
          PROVE  TotalsKept
      <4> DEFINE d == [c EXCEPT !.refundable = c.refundable + held, !.status = "Failed"]
      <4>1. campaign' = [campaign EXCEPT ![id] = d]
        BY <3>5 DEF MarkFailed, ExpireCampaign
      <4>2. d.total_funded = c.total_funded
        BY <3>0, KeepsTotal
      <4>3. QED
        BY <2>1, <4>1, <4>2
    <3>6. QED
      BY <1>3, <3>1, <3>2, <3>3, <3>4, <3>5
  <2>3. UNCHANGED contribution
    BY <1>3 DEF CompleteFunding, ReleaseTranche, ReportHarvest, OpenDispute, SettleCampaign,
                ResolveDispute, MarkFailed, ExpireCampaign
  <2>4. QED
    BY <2>2, <2>3
<1>4. ASSUME NEW id \in CampaignIds, NEW i \in Investors, ClaimRefund(id, i) \/ ClaimReturn(id, i)
      PROVE  TotalsKept /\ contribution' = [contribution EXCEPT ![id][i] = 0]
  BY <1>4 DEF ClaimRefund, ClaimReturn, PayShare, TotalsKept
<1>5. ASSUME UNCHANGED <<campaign, contribution>>
      PROVE  TotalsKept /\ UNCHANGED contribution
  BY <1>5 DEF TotalsKept
<1>6. QED
  <2>1. CASE \E id \in CampaignIds, i \in Investors, amount \in Amounts :
               FundCampaign(id, i, amount) \/ ReceiveContribution(id, i, amount)
    BY <2>1, <1>1
  <2>2. CASE \E id \in CampaignIds, i \in Investors : ClaimRefund(id, i) \/ ClaimReturn(id, i)
    BY <2>2, <1>4
  <2>3. CASE UNCHANGED <<campaign, contribution>>
    BY <2>3, <1>5
  <2>4. CASE \E id \in CampaignIds, f \in Farmers, target \in Amounts, t \in Tokens,
                dl \in 0 .. MaxTime : CreateCampaign(id, f, target, t, dl)
    BY <2>4, <1>2
  <2>5. QED
    BY <2>1, <2>2, <2>3, <2>4, <1>3
       DEF Next, Contribute, Manage, Unwind, Initialize, SetRegistry, Tick, Deposit, vars,
           ConfigureTranches

\* So no stake ever outgrows its campaign's total.
LEMMA StakesStep ==
  ASSUME IInv, [Next]_vars
  PROVE  StakesWithinTotal'
<1>1. /\ contribution \in [CampaignIds -> [Investors -> Nat]] /\ StakesWithinTotal
      /\ \A id \in CampaignIds : campaign[id].total_funded \in Nat
  BY DEF IInv, TypeOK, Campaign
<1>2. QED
  BY <1>1, TotalsStep DEF StakesWithinTotal, TotalsKept

-----------------------------------------------------------------------------

\* Every invocation preserves the inductive invariant.
LEMMA StepIInv == IInv /\ [Next]_vars => IInv'
<1> SUFFICES ASSUME IInv, [Next]_vars PROVE IInv'
  OBVIOUS
<1>1. TypeOK'
  BY CampaignsStayGood, TypeStep DEF TypeOK, OtherTypes
<1>2. QED
  BY <1>1, CampaignsStayGood, RecordsStep, StakesStep DEF IInv

\* The inductive invariant holds in every reachable state of the contract.
THEOREM Invariant == Spec => []IInv
  BY InitIInv, StepIInv, PTL DEF Spec

\* Type correctness: in particular no stored amount and no vault is ever negative.
THEOREM TypeCorrect == Spec => []TypeOK
<1>1. IInv => TypeOK
  BY DEF IInv
<1>2. QED
  BY Invariant, <1>1, PTL

\* The amounts of every campaign agree with its status, in every reachable state.
THEOREM PoolsAlwaysMatch == Spec => []PoolsMatchStatus
<1>1. IInv => PoolsMatchStatus
  BY DEF IInv, PoolsMatchStatus, GoodCampaign
<1>2. QED
  BY Invariant, <1>1, PTL

\* The dispute and harvest records always follow the campaign's status.
THEOREM RecordsAlwaysMatch == Spec => []RecordsMatchStatus
<1>1. IInv => RecordsMatchStatus
  BY DEF IInv
<1>2. QED
  BY Invariant, <1>1, PTL

\* No invocation, on either funding path, adds funds after the deadline.
THEOREM FundingEndsAtDeadline == Spec => NoLateFunding
<1>1. IInv /\ [Next]_vars =>
        [\A id \in CampaignIds :
           campaign'[id].total_funded # campaign[id].total_funded
             => timestamp <= campaign[id].deadline]_vars
  <2> SUFFICES ASSUME IInv, [Next]_vars, NEW id \in CampaignIds,
                      campaign'[id].total_funded # campaign[id].total_funded
               PROVE  timestamp <= campaign[id].deadline
    OBVIOUS
  <2>1. campaign[id].total_funded \in Nat
    BY DEF IInv, TypeOK, Campaign
  <2>2. QED
    BY <2>1, TotalsStep DEF TotalsKept, CanContribute
<1>2. QED
  BY Invariant, <1>1, PTL DEF Spec, NoLateFunding

-----------------------------------------------------------------------------
(* The width of the pro-rata product. *)

\* Two naturals bounded by m have a product bounded by m squared.
LEMMA ProductBound ==
  ASSUME NEW a \in Nat, NEW b \in Nat, NEW m \in Nat, a <= m, b <= m
  PROVE  a * b <= m * m
<1>1. a * b <= a * m
  BY SMT
<1>2. a * m <= m * m
  BY SMT
<1>3. a * b \in Nat /\ a * m \in Nat /\ m * m \in Nat
  BY SMT
<1>4. QED
  BY <1>1, <1>2, <1>3

\* No claim can overflow: a stake and a pool are both bounded by the target, the
\* target by i64::MAX, and the product of two such amounts fits an i128.
THEOREM ClaimsNeverOverflow == Spec => []ProRataFits
<1>1. IInv => ProRataFits
  <2> SUFFICES ASSUME IInv, NEW id \in CampaignIds, NEW i \in Investors
               PROVE  contribution[id][i] * Pool(id) <= I128Max
    BY DEF ProRataFits
  <2> DEFINE c == campaign[id]
  <2>1. /\ c \in Campaign /\ PoolsAgree(c) /\ c.target_amount <= I64Max
        /\ contribution[id][i] \in Nat /\ contribution[id][i] <= c.total_funded
    BY DEF IInv, GoodCampaign, TypeOK, StakesWithinTotal
  <2>2. Pool(id) \in Nat /\ Pool(id) <= I64Max
    BY <2>1, EscrowConstants DEF Pool, PoolsAgree, Campaign
  <2>3. contribution[id][i] <= I64Max
    BY <2>1, EscrowConstants DEF PoolsAgree, Campaign
  <2>4. contribution[id][i] * Pool(id) <= I64Max * I64Max
    BY <2>1, <2>2, <2>3, EscrowConstants, ProductBound
  <2>5. contribution[id][i] * Pool(id) \in Nat /\ I64Max * I64Max \in Nat
    BY <2>1, <2>2, EscrowConstants
  <2>6. QED
    BY <2>4, <2>5, WidthsFit, EscrowConstants
<1>2. QED
  BY Invariant, <1>1, PTL

-----------------------------------------------------------------------------
(* Solvency.  What a campaign still owes is what it raised less what was     *)
(* released and claimed, so only those amounts and its token matter.         *)

Out(c, claimed) == c.total_funded - c.released - claimed

\* What a campaign owes is what came in and has neither been released nor claimed.
LEMMA OwedIsOut ==
  ASSUME IInv, NEW id \in CampaignIds
  PROVE  Owed(id) = Out(campaign[id], audit[id].claimed)
<1>1. /\ campaign[id] \in Campaign /\ audit[id].claimed \in Nat
  BY DEF IInv, TypeOK
<1>2. QED
  BY <1>1 DEF Owed, Out, EscrowHeld, Campaign

\* The rewrites of a campaign record, seen from its token and its released part.
LEMMA MoneyFields ==
  ASSUME NEW c \in Campaign, NEW s, NEW t, NEW r, NEW f, NEW n
  PROVE  /\ LET d == [c EXCEPT !.total_funded = t, !.status = s] IN
              /\ d.token_address = c.token_address /\ d.released = c.released
              /\ d.total_funded = t /\ d.refundable = c.refundable
              /\ d.returnable = c.returnable
         /\ LET d == [c EXCEPT !.status = s] IN
              d.token_address = c.token_address /\ d.released = c.released
         /\ LET d == [c EXCEPT !.status = s, !.released = r] IN
              d.token_address = c.token_address /\ d.released = r
         /\ LET d == [c EXCEPT !.released = r, !.refundable = f, !.status = s] IN
              d.token_address = c.token_address /\ d.released = r
         /\ LET d == [c EXCEPT !.released = r, !.returnable = n, !.status = s] IN
              d.token_address = c.token_address /\ d.released = r
         /\ LET d == [c EXCEPT !.refundable = f, !.status = s] IN
              d.token_address = c.token_address /\ d.released = c.released
  BY DEF Campaign

\* What a step does to the money of one campaign and to the balance of its token.
Rewrites(id, d) == campaign' = [campaign EXCEPT ![id] = d]

Drains(t, amount) ==
  \A u \in Tokens : vault'[u] = vault[u] - (IF u = t THEN amount ELSE 0)

NothingReconciled == \A o \in CampaignIds : audit'[o].reconciled = audit[o].reconciled

\* A contribution either brings its tokens along or is reconciled.
Backed(id, t, amount) ==
  \/ /\ \A u \in Tokens : vault'[u] = vault[u] + (IF u = t THEN amount ELSE 0)
     /\ NothingReconciled
  \/ /\ \A u \in Tokens : vault'[u] = vault[u]
     /\ \A o \in CampaignIds :
          audit'[o].reconciled = audit[o].reconciled + (IF o = id THEN amount ELSE 0)

\* The campaign contributed to passed assert_solvent on its new record.
Funds(id) ==
  LET c == campaign[id]
      d == campaign'[id]
  IN
  /\ Rewrites(id, d) /\ d.token_address = c.token_address
  /\ \E amount \in Nat :
       /\ d.total_funded = c.total_funded + amount /\ d.released = c.released
       /\ Backed(id, c.token_address, amount)
  /\ EscrowHeld(d) <= vault'[d.token_address]
  /\ d.refundable = 0 /\ d.returnable = 0
  /\ \A o \in CampaignIds : audit'[o].claimed = audit[o].claimed
  /\ \A u \in Tokens : vault'[u] >= vault[u]

\* Money leaves the vault only with the campaign owing as much less.
Pays(id) ==
  LET c == campaign[id]
      d == campaign'[id]
  IN
  \E amount \in Nat :
    /\ Rewrites(id, d) /\ d.token_address = c.token_address
    /\ c.token_address \in Tokens
    /\ d.total_funded = c.total_funded
    /\ Drains(c.token_address, amount)
    /\ d.released + audit'[id].claimed = c.released + audit[id].claimed + amount
    /\ \A o \in CampaignIds \ {id} : audit'[o].claimed = audit[o].claimed
    /\ NothingReconciled

\* No money leaves the vault, and nobody is owed more.
Holds ==
  /\ \A o \in CampaignIds :
       /\ campaign'[o].token_address = campaign[o].token_address
       /\ campaign'[o].total_funded = campaign[o].total_funded
       /\ campaign'[o].released >= campaign[o].released
       /\ audit'[o].claimed = audit[o].claimed
  /\ NothingReconciled
  /\ \A u \in Tokens : vault'[u] >= vault[u]

\* A campaign is created; it owes nothing yet.
Creates(id) ==
  LET d == campaign'[id] IN
    /\ Rewrites(id, d) /\ ~Exists(id)
    /\ d.total_funded = 0 /\ d.released = 0 /\ d.token_address \in Tokens
    /\ UNCHANGED <<vault, audit>>

\* A step lowers no vault and leaves every debt or less, or it funds, pays or creates.
LEMMA MoneyStep ==
  ASSUME IInv, [Next]_vars
  PROVE  \/ Holds
         \/ \E id \in CampaignIds : Funds(id) \/ Pays(id) \/ Creates(id)
<1> DEFINE Goal == Holds \/ \E id \in CampaignIds : Funds(id) \/ Pays(id) \/ Creates(id)
<1>a. /\ campaign \in [CampaignIds -> Campaign]
      /\ \A id \in CampaignIds : GoodCampaign(campaign[id])
      /\ vault \in [Tokens -> Nat]
      /\ audit \in [CampaignIds -> [redeemed : Nat, claimed : Nat, reconciled : Nat]]
      /\ \A o \in CampaignIds : /\ audit[o].claimed \in Nat /\ audit[o].reconciled \in Nat
                                /\ campaign[o].released \in Nat
      /\ \A u \in Tokens : vault[u] \in Nat
  BY DEF IInv, TypeOK, Campaign
<1>b. \A id \in CampaignIds : EscrowHeld(campaign[id]) \in Nat
  BY <1>a DEF EscrowHeld, GoodCampaign, PoolsAgree, Campaign
<1>c. Amounts \subseteq Int
  BY EscrowConstants
<1>d. vault' \in [Tokens -> Nat]
  BY TypeStep DEF OtherTypes
<1> HIDE DEF Goal
<1>h. ASSUME NEW id \in CampaignIds, NEW d, Rewrites(id, d), UNCHANGED <<vault, audit>>,
             d.token_address = campaign[id].token_address,
             d.total_funded = campaign[id].total_funded,
             d.released >= campaign[id].released
      PROVE  Goal
  <2>1. Holds
    BY <1>h, <1>a DEF Holds, Rewrites, NothingReconciled
  <2>2. QED
    BY <2>1 DEF Goal
<1>1. ASSUME NEW id \in CampaignIds, NEW f \in Farmers, NEW target \in Amounts,
             NEW t \in Tokens, NEW dl \in 0 .. MaxTime, CreateCampaign(id, f, target, t, dl)
      PROVE  Goal
  <2> DEFINE d == NewCampaign(f, target, t, dl)
  <2>2. d.total_funded = 0 /\ d.released = 0 /\ d.token_address \in Tokens
    BY DEF NewCampaign
  <2>3. Rewrites(id, d) /\ ~Exists(id) /\ UNCHANGED <<vault, audit>>
    BY <1>1 DEF CreateCampaign, Rewrites
  <2> HIDE DEF d
  <2>4. campaign'[id] = d
    BY <2>3, <1>a DEF Rewrites
  <2>5. QED
    BY <2>2, <2>3, <2>4 DEF Creates, Goal
<1>2. ASSUME NEW id \in CampaignIds, NEW i \in Investors, NEW amount \in Amounts,
             FundCampaign(id, i, amount) \/ ReceiveContribution(id, i, amount)
      PROVE  Goal
  <2> DEFINE c == campaign[id]
  <2>0. c \in Campaign /\ c.refundable = 0 /\ c.returnable = 0 /\ c.token_address \in Tokens
        /\ amount \in Nat
    <3>1. CanContribute(id, amount)
      BY <1>2 DEF FundCampaign, ReceiveContribution
    <3>2. c.status \in {"Active", "Funding"} /\ amount \in Nat
      BY <3>1, <1>c DEF CanContribute, Accepting
    <3>3. c \in Campaign /\ GoodCampaign(c)
      BY <1>a
    <3>4. QED
      BY <3>2, <3>3 DEF GoodCampaign, PoolsAgree, Campaign
  <2>1. PICK s \in {"Funded", "Funding"} :
          LET d == [c EXCEPT !.total_funded = c.total_funded + amount, !.status = s]
          IN  Rewrites(id, d) /\ AssertSolvent(d, vault'[c.token_address])
    BY <1>2 DEF FundCampaign, ReceiveContribution, Rewrites
  <2> DEFINE d == [c EXCEPT !.total_funded = c.total_funded + amount, !.status = s]
  <2>2. d.token_address = c.token_address /\ d.refundable = 0 /\ d.returnable = 0
    BY <2>0, MoneyFields
  <2>3. Rewrites(id, d) /\ EscrowHeld(d) <= vault'[d.token_address]
    BY <2>1, <2>2 DEF AssertSolvent
  <2>4. \A o \in CampaignIds : audit'[o].claimed = audit[o].claimed
    <3>1. \/ UNCHANGED audit
          \/ \E x : audit' = [audit EXCEPT ![id] = [audit[id] EXCEPT !.reconciled = x]]
      BY <1>2 DEF FundCampaign, ReceiveContribution
    <3>2. \A x : [audit[id] EXCEPT !.reconciled = x].claimed = audit[id].claimed
      BY <1>a
    <3>3. QED
      BY <3>1, <3>2, <1>a
  <2>5. \A u \in Tokens : vault'[u] >= vault[u]
    <3>1. \/ UNCHANGED vault
          \/ vault' = [vault EXCEPT ![c.token_address] = vault[c.token_address] + amount]
      BY <1>2 DEF FundCampaign, ReceiveContribution
    <3>2. QED
      BY <3>1, <1>a, <2>0
  <2>6. Backed(id, c.token_address, amount)
    <3>1. \/ /\ UNCHANGED audit
             /\ vault' = [vault EXCEPT ![c.token_address] = vault[c.token_address] + amount]
          \/ /\ UNCHANGED vault
             /\ audit' = [audit EXCEPT ![id] =
                            [audit[id] EXCEPT !.reconciled = audit[id].reconciled + amount]]
      BY <1>2 DEF FundCampaign, ReceiveContribution
    <3>2. \A x : [audit[id] EXCEPT !.reconciled = x].reconciled = x
      BY <1>a
    <3> HIDE DEF c
    <3>3. QED
      BY <3>1, <3>2, <1>a, <2>0 DEF Backed, NothingReconciled
  <2>7. d.total_funded = c.total_funded + amount /\ d.released = c.released
    BY <2>0, MoneyFields
  <2> HIDE DEF d
  <2>8. campaign'[id] = d
    BY <2>3, <1>a DEF Rewrites
  <2>9. Funds(id)
    BY <2>0, <2>2, <2>3, <2>4, <2>5, <2>6, <2>7, <2>8 DEF Funds
  <2>10. QED
    BY <2>9 DEF Goal
<1>3. ASSUME NEW id \in CampaignIds,
             \/ \E total \in Amounts : CompleteFunding(id, total)
             \/ \E who \in Accounts : ReportHarvest(id, who) \/ OpenDispute(id, who)
      PROVE  Goal
  <2>1. PICK s : Rewrites(id, [campaign[id] EXCEPT !.status = s])
    BY <1>3 DEF CompleteFunding, ReportHarvest, OpenDispute, Rewrites
  <2>2. UNCHANGED <<vault, audit>>
    BY <1>3 DEF CompleteFunding, ReportHarvest, OpenDispute
  <2> DEFINE d == [campaign[id] EXCEPT !.status = s]
  <2>3. /\ d.token_address = campaign[id].token_address
        /\ d.total_funded = campaign[id].total_funded
        /\ d.released = campaign[id].released
    BY <1>a, MoneyFields, KeepsTotal
  <2> HIDE DEF d
  <2>4. d.released >= campaign[id].released
    BY <1>a, <2>3
  <2>5. QED
    BY <1>h, <2>1, <2>2, <2>3, <2>4 DEF d
<1>4. ASSUME NEW id \in CampaignIds, NEW rcp \in Farmers, NEW amount \in Amounts,
             ReleaseTranche(id, rcp, amount)
      PROVE  Goal
  <2> DEFINE c == campaign[id]
             r == c.released + amount
             d == [c EXCEPT !.status = "InProduction", !.released = r]
  <2>1. Rewrites(id, d) /\ UNCHANGED <<vault, audit>> /\ amount > 0
    BY <1>4 DEF ReleaseTranche, Rewrites
  <2>2. d.token_address = c.token_address /\ d.total_funded = c.total_funded /\ d.released = r
    BY <1>a, MoneyFields, KeepsTotal
  <2>3. r >= c.released
    BY <1>a, <1>c, <2>1
  <2> HIDE DEF d, r
  <2>4. QED
    BY <1>h, <2>1, <2>2, <2>3
<1>5. ASSUME NEW id \in CampaignIds, NEW q \in DisputeResolution, NEW p \in Amounts,
             ResolveDispute(id, q, p)
      PROVE  Goal
  <2> DEFINE c == campaign[id]
             share == FarmerShare(q, p, EscrowHeld(c))
             r == c.released + share
             f == c.refundable + (EscrowHeld(c) - share)
             d == [c EXCEPT !.released = r, !.refundable = f, !.status = "Resolved"]
  <2>0. share \in Nat
    BY <1>5, <1>b, <1>c DEF ResolveDispute, ValidResolution, FarmerShare
  <2>1. Rewrites(id, d) /\ UNCHANGED <<vault, audit>>
    BY <1>5 DEF ResolveDispute, Rewrites
  <2>2. d.token_address = c.token_address /\ d.total_funded = c.total_funded /\ d.released = r
    BY <1>a, MoneyFields, KeepsTotal
  <2> HIDE DEF share
  <2>3. r >= c.released
    BY <1>a, <2>0
  <2> HIDE DEF d, r, f
  <2>4. QED
    BY <1>h, <2>1, <2>2, <2>3
<1>6. ASSUME NEW id \in CampaignIds, MarkFailed(id) \/ ExpireCampaign(id)
      PROVE  Goal
  <2> DEFINE c == campaign[id]
             f == c.refundable + EscrowHeld(c)
             d == [c EXCEPT !.refundable = f, !.status = "Failed"]
  <2>1. Rewrites(id, d) /\ UNCHANGED <<vault, audit>>
    BY <1>6 DEF MarkFailed, ExpireCampaign, Rewrites
  <2>2. d.token_address = c.token_address /\ d.total_funded = c.total_funded
        /\ d.released = c.released
    BY <1>a, MoneyFields, KeepsTotal
  <2>3. c.released >= c.released
    BY <1>a
  <2> HIDE DEF d, f
  <2>4. QED
    BY <1>h, <2>1, <2>2, <2>3
<1>7. ASSUME NEW id \in CampaignIds, NEW payee \in Farmers, NEW payout \in Amounts,
             SettleCampaign(id, payee, payout)
      PROVE  Goal
  <2> DEFINE c == campaign[id]
             r == c.released + payout
             n == c.returnable + (EscrowHeld(c) - payout)
             d == [c EXCEPT !.released = r, !.returnable = n, !.status = "Settled"]
  <2>0. payout \in Nat /\ c.token_address \in Tokens
    BY <1>7, <1>a, <1>c DEF SettleCampaign, GoodCampaign
  <2>1. Rewrites(id, d) /\ UNCHANGED audit
    BY <1>7 DEF SettleCampaign, Rewrites
  <2>2. d.token_address = c.token_address /\ d.total_funded = c.total_funded /\ d.released = r
    BY <1>a, MoneyFields, KeepsTotal
  <2>3. Drains(c.token_address, payout)
    <3>1. vault' = [vault EXCEPT ![c.token_address] = vault[c.token_address] - payout]
      BY <1>7 DEF SettleCampaign
    <3>2. QED
      BY <3>1, <1>a, <2>0 DEF Drains
  <2> HIDE DEF d, n
  <2>4. d.released + audit'[id].claimed = c.released + audit[id].claimed + payout
    BY <1>a, <2>0, <2>1, <2>2
  <2>5. Pays(id)
    <3>1. campaign'[id] = d
      BY <2>1, <1>a DEF Rewrites
    <3>2. QED
      BY <2>0, <2>1, <2>2, <2>3, <2>4, <3>1 DEF Pays, NothingReconciled
  <2>6. QED
    BY <2>5 DEF Goal
<1>8. ASSUME NEW id \in CampaignIds, NEW i \in Investors, ClaimRefund(id, i) \/ ClaimReturn(id, i)
      PROVE  Goal
  <2> DEFINE c == campaign[id]
  <2>1. PICK pool \in {c.refundable, c.returnable}, event \in EventName :
          PayShare(id, i, pool, event)
    BY <1>8 DEF ClaimRefund, ClaimReturn, EventName
  <2> DEFINE share == ProRata(contribution[id][i], pool, c.total_funded)
             x == contribution[id][i]
  <2>2. c \in Campaign /\ c.token_address \in Tokens
    BY <1>8, <1>a DEF ClaimRefund, ClaimReturn, GoodCampaign
  <2>3. share \in Nat
    <3>1. pool \in Nat /\ x \in Nat /\ x <= c.total_funded /\ x > 0 /\ c.total_funded \in Nat
      BY <2>1, <2>2 DEF IInv, TypeOK, StakesWithinTotal, PayShare, Campaign
    <3>2. x * pool \in Nat /\ c.total_funded \in Nat \ {0}
      BY <3>1
    <3>3. share > 0
      BY <2>1 DEF PayShare
    <3>4. QED
      BY <3>2, <3>3 DEF ProRata
  <2> HIDE DEF share
  <2>4. /\ vault' = [vault EXCEPT ![c.token_address] = vault[c.token_address] - share]
        /\ audit' = [audit EXCEPT ![id] = [audit[id] EXCEPT !.redeemed = audit[id].redeemed + x,
                                              !.claimed = audit[id].claimed + share]]
        /\ UNCHANGED campaign
    BY <2>1 DEF PayShare, share
  <2> HIDE DEF x
  <2>5. Drains(c.token_address, share)
    BY <2>2, <2>3, <2>4, <1>a DEF Drains
  <2>6. /\ audit'[id].claimed = audit[id].claimed + share
        /\ \A o \in CampaignIds \ {id} : audit'[o].claimed = audit[o].claimed
        /\ NothingReconciled
    <3> DEFINE b == [audit[id] EXCEPT !.redeemed = audit[id].redeemed + x,
                                      !.claimed = audit[id].claimed + share]
    <3>1. b.claimed = audit[id].claimed + share /\ b.reconciled = audit[id].reconciled
      BY <1>a
    <3> HIDE DEF b
    <3>2. audit' = [audit EXCEPT ![id] = b]
      BY <2>4 DEF b
    <3>3. QED
      BY <3>1, <3>2, <1>a DEF NothingReconciled
  <2>7. Pays(id)
    <3>1. campaign'[id] = c /\ Rewrites(id, campaign'[id])
      BY <2>4, <1>a DEF Rewrites
    <3>2. c.released + (audit[id].claimed + share) = c.released + audit[id].claimed + share
      BY <1>a, <2>3
    <3>3. QED
      BY <2>2, <2>3, <2>5, <2>6, <3>1, <3>2 DEF Pays
  <2>8. QED
    BY <2>7 DEF Goal
<1>9. ASSUME \/ \E a \in Admins : Initialize(a)
             \/ \E r \in Registries : SetRegistry(r)
             \/ \E id \in CampaignIds, list \in TrancheLists : ConfigureTranches(id, list)
             \/ Tick
             \/ \E t \in Tokens, amount \in Amounts : Deposit(t, amount)
             \/ UNCHANGED vars
      PROVE  Goal
  <2>1. UNCHANGED <<campaign, audit>>
    BY <1>9 DEF Initialize, SetRegistry, ConfigureTranches, Tick, Deposit, vars
  <2>2. \A u \in Tokens : vault'[u] >= vault[u]
    <3>1. CASE UNCHANGED vault
      BY <3>1, <1>a
    <3>2. CASE \E t \in Tokens, amount \in Amounts : Deposit(t, amount)
      BY <3>2, <1>a, <1>c DEF Deposit
    <3>3. QED
      BY <1>9, <3>1, <3>2 DEF Initialize, SetRegistry, ConfigureTranches, Tick, vars
  <2>3. Holds
    BY <2>1, <2>2, <1>a DEF Holds, NothingReconciled
  <2>4. QED
    BY <2>3 DEF Goal
<1>10. QED
  BY <1>1, <1>2, <1>3, <1>4, <1>5, <1>6, <1>7, <1>8, <1>9
     DEF Next, Contribute, Manage, Unwind, Goal

Alone(id) == \A o \in CampaignIds \ {id} : campaign[o].token_address # campaign[id].token_address

\* Exclusivity is only ever lost: a campaign alone on its token after a step was
\* alone before it, because a campaign never changes token.
LEMMA SolventStep ==
  ASSUME IInv, SolventWhenTokenExclusive, [Next]_vars
  PROVE  SolventWhenTokenExclusive'
<1>a. /\ campaign \in [CampaignIds -> Campaign] /\ vault \in [Tokens -> Nat]
      /\ \A id \in CampaignIds : GoodCampaign(campaign[id])
      /\ \A o \in CampaignIds :
           /\ audit[o].claimed \in Nat /\ campaign[o].released \in Nat
           /\ campaign[o].total_funded \in Nat /\ audit'[o].claimed \in Nat
           /\ campaign'[o] \in Campaign
           /\ campaign'[o].released \in Nat /\ campaign'[o].total_funded \in Nat
      /\ \A u \in Tokens : vault[u] \in Nat /\ vault'[u] \in Nat
      /\ \A o \in CampaignIds :
           campaign'[o].status # "Absent" => campaign'[o].token_address \in Tokens
      /\ NoOne \notin Tokens
  <2>1. \A o \in CampaignIds : campaign'[o] \in Campaign /\ GoodCampaign(campaign'[o])
    BY CampaignsStayGood
  <2>2. OtherTypes'
    BY TypeStep
  <2>3. QED
    BY <2>1, <2>2, EscrowConstants DEF IInv, TypeOK, OtherTypes, Campaign, GoodCampaign
<1>b. \A o \in CampaignIds :
        /\ Exists(o) <=> campaign[o].token_address \in Tokens
        /\ campaign'[o].status # "Absent" <=> campaign'[o].token_address \in Tokens
  <2>1. \A c : GoodCampaign(c) => (c.status # "Absent" <=> c.token_address \in Tokens)
    BY <1>a DEF GoodCampaign
  <2>2. QED
    BY <1>a, <2>1, CampaignsStayGood DEF Exists
<1>c. \A o \in CampaignIds : Exists(o) /\ Alone(o) =>
        Out(campaign[o], audit[o].claimed) <= vault[campaign[o].token_address]
  BY OwedIsOut DEF SolventWhenTokenExclusive, Alone
<1>d. ASSUME \A o \in CampaignIds : Exists(o)' /\ Alone(o)' =>
        Out(campaign'[o], audit'[o].claimed) <= vault'[campaign'[o].token_address]
      PROVE  SolventWhenTokenExclusive'
  <2>1. \A o \in CampaignIds : Owed(o)' = Out(campaign'[o], audit'[o].claimed)
    <3>1. \A o \in CampaignIds : campaign'[o].refundable \in Nat /\ campaign'[o].returnable \in Nat
      BY <1>a DEF Campaign
    <3>2. QED
      BY <1>a, <3>1 DEF Owed, Out, EscrowHeld
  <2>2. QED
    BY <1>d, <2>1 DEF SolventWhenTokenExclusive, Alone
<1>e. SUFFICES ASSUME NEW id \in CampaignIds, Exists(id)', Alone(id)'
               PROVE  Out(campaign'[id], audit'[id].claimed) <= vault'[campaign'[id].token_address]
  BY <1>d
<1> DEFINE Goal == Out(campaign'[id], audit'[id].claimed) <= vault'[campaign'[id].token_address]
<1>f. campaign'[id].token_address \in Tokens
  BY <1>b, <1>e DEF Exists
<1>1. CASE Holds
  <2>1. Exists(id) /\ Alone(id)
    BY <1>1, <1>b, <1>e, <1>f DEF Holds, Alone
  <2>2. QED
    BY <1>1, <1>a, <1>c, <1>f, <2>1 DEF Holds, Out
<1>2. ASSUME NEW o \in CampaignIds, Funds(o) PROVE Goal
  <2>1. CASE o = id
    <3>1. /\ EscrowHeld(campaign'[id]) <= vault'[campaign'[id].token_address]
          /\ campaign'[id].refundable = 0 /\ campaign'[id].returnable = 0
      BY <1>2, <2>1 DEF Funds
    <3>2. EscrowHeld(campaign'[id]) = campaign'[id].total_funded - campaign'[id].released
      BY <1>a, <3>1 DEF EscrowHeld
    <3>3. QED
      BY <1>a, <1>f, <3>1, <3>2 DEF Out
  <2>2. CASE o # id
    <3>1. \A q \in CampaignIds : campaign'[q].token_address = campaign[q].token_address
      BY <1>2, <1>a DEF Funds, Rewrites
    <3>2. campaign'[id] = campaign[id]
      BY <1>2, <1>a, <2>2 DEF Funds, Rewrites
    <3>3. Exists(id) /\ Alone(id)
      BY <1>b, <1>e, <1>f, <3>1 DEF Alone
    <3>4. audit'[id].claimed = audit[id].claimed
          /\ vault'[campaign[id].token_address] >= vault[campaign[id].token_address]
      BY <1>2, <1>f, <3>2 DEF Funds
    <3>5. QED
      BY <1>a, <1>c, <1>f, <3>2, <3>3, <3>4 DEF Out
  <2>3. QED
    BY <2>1, <2>2
<1>3. ASSUME NEW o \in CampaignIds, Pays(o) PROVE Goal
  <2>1. \A q \in CampaignIds : campaign'[q].token_address = campaign[q].token_address
    BY <1>3, <1>a DEF Pays, Rewrites
  <2>2. Exists(id) /\ Alone(id)
    BY <1>b, <1>e, <1>f, <2>1 DEF Alone
  <2>3. PICK amount \in Nat :
          /\ Drains(campaign[o].token_address, amount)
          /\ campaign'[o].total_funded = campaign[o].total_funded
          /\ campaign'[o].released + audit'[o].claimed
               = campaign[o].released + audit[o].claimed + amount
          /\ \A q \in CampaignIds \ {o} : audit'[q].claimed = audit[q].claimed
    BY <1>3 DEF Pays
  <2> DEFINE t == campaign[id].token_address
  <2>4. t \in Tokens /\ campaign'[id].token_address = t
    BY <1>f, <2>1
  <2>5. CASE o = id
    <3>1. vault'[t] = vault[t] - amount
      BY <2>3, <2>4, <2>5 DEF Drains
    <3> HIDE DEF t
    <3>2. QED
      BY <1>a, <1>c, <2>2, <2>3, <2>4, <2>5, <3>1 DEF Out, t
  <2>6. CASE o # id
    <3>1. campaign'[id] = campaign[id] /\ audit'[id].claimed = audit[id].claimed
      BY <1>3, <1>a, <2>3, <2>6 DEF Pays, Rewrites
    <3>2. campaign[o].token_address # t
      BY <2>2, <2>6 DEF Alone
    <3>3. vault'[t] = vault[t]
      BY <1>a, <2>3, <2>4, <3>2 DEF Drains
    <3>4. QED
      BY <1>c, <2>2, <3>1, <3>3
  <2>7. QED
    BY <2>5, <2>6
<1>4. ASSUME NEW o \in CampaignIds, Creates(o) PROVE Goal
  <2>1. CASE o = id
    BY <1>4, <1>a, <1>f, <2>1 DEF Creates, Out
  <2>2. CASE o # id
    <3>1. /\ campaign'[id] = campaign[id] /\ UNCHANGED <<vault, audit>>
          /\ \A q \in CampaignIds \ {o} : campaign'[q] = campaign[q]
      BY <1>4, <1>a, <2>2 DEF Creates, Rewrites
    <3>2. campaign[o].token_address \notin Tokens
      BY <1>4, <1>b DEF Creates
    <3>3. Exists(id) /\ Alone(id)
      BY <1>b, <1>e, <1>f, <3>1, <3>2 DEF Alone
    <3>4. QED
      BY <1>c, <3>1, <3>3
  <2>3. QED
    BY <2>1, <2>2
<1>5. QED
  BY <1>1, <1>2, <1>3, <1>4, MoneyStep

\* A campaign that is alone on its token can always pay everybody: assert_solvent,
\* checked only when funds come in, is enough for ever after.
THEOREM SolventForEver == Spec => []SolventWhenTokenExclusive
<1>1. Init => SolventWhenTokenExclusive
  BY DEF Init, NoCampaign, SolventWhenTokenExclusive, Exists
<1>2. IInv /\ SolventWhenTokenExclusive /\ [Next]_vars => SolventWhenTokenExclusive'
  BY SolventStep
<1>3. QED
  BY <1>1, <1>2, Invariant, PTL DEF Spec

-----------------------------------------------------------------------------
(***************************************************************************)
(* ProductionEscrow implements CampaignLedger, and its books balance: the  *)
(* stakes add up to what was raised, and the claims to what they may take. *)
(***************************************************************************)

\* The refinement mapping, one definition per mapped variable of the ledger.
PhaseBar  == [id \in CampaignIds |-> Phase(campaign[id])]
TargetBar == [id \in CampaignIds |-> campaign[id].target_amount]
RaisedBar == [id \in CampaignIds |-> campaign[id].total_funded]
FarmerBar == [id \in CampaignIds |-> campaign[id].released]
PoolBar   == [id \in CampaignIds |-> Pool(id)]
PaidBar   == [id \in CampaignIds |-> audit[id].claimed]

Money == 0 .. I64Max

PoolOf(c) == c.refundable + c.returnable

-----------------------------------------------------------------------------
(* How a rewrite of one record shows in the mapped variables. *)

\* The mapped variables after the record of one campaign became d: they are
\* rewritten there, and one whose entry is the same is unchanged.
Rewritten(id, d) ==
  /\ PhaseBar' = [PhaseBar EXCEPT ![id] = Phase(d)]
  /\ TargetBar' = [TargetBar EXCEPT ![id] = d.target_amount]
  /\ RaisedBar' = [RaisedBar EXCEPT ![id] = d.total_funded]
  /\ FarmerBar' = [FarmerBar EXCEPT ![id] = d.released]
  /\ PoolBar' = [PoolBar EXCEPT ![id] = PoolOf(d)]
  /\ Phase(d) = Phase(campaign[id]) => PhaseBar' = PhaseBar
  /\ d.target_amount = campaign[id].target_amount => TargetBar' = TargetBar
  /\ d.total_funded = campaign[id].total_funded => RaisedBar' = RaisedBar
  /\ d.released = campaign[id].released => FarmerBar' = FarmerBar
  /\ PoolOf(d) = PoolOf(campaign[id]) => PoolBar' = PoolBar

\* Rewriting one record rewrites the mapping.
LEMMA RewriteMaps ==
  ASSUME NEW id \in CampaignIds, NEW d, campaign \in [CampaignIds -> Campaign],
         campaign' = [campaign EXCEPT ![id] = d]
  PROVE  Rewritten(id, d)
<1>1. campaign'[id] = d /\ \A o \in CampaignIds \ {id} : campaign'[o] = campaign[o]
  OBVIOUS
<1>2. /\ PhaseBar' = [PhaseBar EXCEPT ![id] = Phase(d)]
      /\ Phase(d) = Phase(campaign[id]) => PhaseBar' = PhaseBar
  BY <1>1 DEF PhaseBar
<1>3. /\ TargetBar' = [TargetBar EXCEPT ![id] = d.target_amount]
      /\ d.target_amount = campaign[id].target_amount => TargetBar' = TargetBar
  BY <1>1 DEF TargetBar
<1>4. /\ RaisedBar' = [RaisedBar EXCEPT ![id] = d.total_funded]
      /\ d.total_funded = campaign[id].total_funded => RaisedBar' = RaisedBar
  BY <1>1 DEF RaisedBar
<1>5. /\ FarmerBar' = [FarmerBar EXCEPT ![id] = d.released]
      /\ d.released = campaign[id].released => FarmerBar' = FarmerBar
  BY <1>1 DEF FarmerBar
<1>6. /\ PoolBar' = [PoolBar EXCEPT ![id] = PoolOf(d)]
      /\ PoolOf(d) = PoolOf(campaign[id]) => PoolBar' = PoolBar
  BY <1>1 DEF PoolBar, Pool, PoolOf
<1>7. QED
  BY <1>2, <1>3, <1>4, <1>5, <1>6 DEF Rewritten

\* Reading a mapped variable at a campaign.
LEMMA MapsAt ==
  ASSUME NEW id \in CampaignIds
  PROVE  /\ PhaseBar[id] = Phase(campaign[id])
         /\ TargetBar[id] = campaign[id].target_amount
         /\ RaisedBar[id] = campaign[id].total_funded
         /\ FarmerBar[id] = campaign[id].released
         /\ PoolBar[id] = PoolOf(campaign[id])
         /\ PaidBar[id] = audit[id].claimed
  BY DEF PhaseBar, TargetBar, RaisedBar, FarmerBar, PoolBar, PaidBar, Pool, PoolOf

\* The phase of a record, read off its status.
LEMMA PhaseOf ==
  ASSUME NEW c
  PROVE  /\ c.status = "Absent" => Phase(c) = "none"
         /\ c.status \in {"Active", "Funding"} => Phase(c) = "raising"
         /\ c.status \in {"Funded", "InProduction", "Harvested"} => Phase(c) = "committed"
         /\ c.status = "Disputed" => Phase(c) =
              IF c.total_funded = c.target_amount THEN "committed" ELSE "raising"
         /\ c.status \in {"Resolved", "Settled", "Failed"} => Phase(c) = "divided"
  BY DEF Phase

-----------------------------------------------------------------------------
(* Truncating division. *)

\* The quotient's product with the divisor misses the dividend by less than the divisor.
LEMMA DivBounds ==
  ASSUME NEW x \in Nat, NEW t \in Nat \ {0}
  PROVE  /\ x \div t \in Nat
         /\ (x \div t) * t <= x
         /\ x < (x \div t) * t + t
<1>1. x = t * (x \div t) + (x % t) /\ x % t \in 0 .. t-1
  BY SMT
<1>2. QED
  BY <1>1, SMT

\* A pro-rata share is at most pro rata, by less than one unit short of it, and never
\* more than the pool when the stake is within the total.
LEMMA ShareBounds ==
  ASSUME NEW stake \in Nat, NEW pool \in Nat, NEW total \in Nat \ {0}, stake <= total
  PROVE  LET share == ProRata(stake, pool, total) IN
         /\ share \in Nat
         /\ share * total <= stake * pool
         /\ stake * pool < share * total + total
         /\ share <= pool
<1> DEFINE share == ProRata(stake, pool, total)
<1>1. stake * pool \in Nat /\ stake * pool <= total * pool
  BY SMT
<1>2. share \in Nat /\ share * total <= stake * pool /\ stake * pool < share * total + total
  BY <1>1, DivBounds DEF ProRata
<1> HIDE DEF share
<1>3. share * total <= pool * total
  BY <1>1, <1>2
<1>4. share <= pool
  BY <1>2, <1>3
<1>5. QED
  BY <1>2, <1>4 DEF share

-----------------------------------------------------------------------------
(* The initial states. *)

\* A freshly deployed contract is an empty ledger.
THEOREM InitMaps == Init => Ledger!Init
  BY DEF Init, Ledger!Init, NoCampaign, Phase, Pool

-----------------------------------------------------------------------------
(* The steps, one lemma for each step of the ledger. *)

LedgerStep == [Ledger!Next]_(Ledger!vars)

\* What a step of the contract must do to a record, and around it, to be a given
\* step of the ledger.

\* Raising: more funds and a larger stake, and perhaps the commitment.
LEMMA RaiseMaps ==
  ASSUME NEW id \in CampaignIds, NEW d, NEW i \in Investors, NEW amount \in Money \ {0},
         Rewritten(id, d),
         Phase(campaign[id]) = "raising",
         campaign[id].total_funded + amount <= campaign[id].target_amount,
         d.total_funded = campaign[id].total_funded + amount,
         \/ Phase(d) = "raising"
         \/ Phase(d) = "committed" /\ d.total_funded = campaign[id].target_amount,
         d.target_amount = campaign[id].target_amount,
         d.released = campaign[id].released, PoolOf(d) = PoolOf(campaign[id]),
         contribution' = [contribution EXCEPT ![id][i] = @ + amount],
         UNCHANGED PaidBar
  PROVE  LedgerStep
<1>1. /\ PhaseBar[id] = "raising" /\ RaisedBar[id] + amount <= TargetBar[id]
      /\ RaisedBar' = [RaisedBar EXCEPT ![id] = RaisedBar[id] + amount]
      /\ \/ UNCHANGED PhaseBar
         \/ RaisedBar'[id] = TargetBar[id] /\ PhaseBar' = [PhaseBar EXCEPT ![id] = "committed"]
      /\ UNCHANGED <<TargetBar, FarmerBar, PoolBar, PaidBar>>
  <2>1. RaisedBar'[id] = d.total_funded
    BY DEF Rewritten, RaisedBar
  <2>2. QED
    BY <2>1, MapsAt DEF Rewritten
<1>2. Ledger!Raise(id, i, amount)
  BY <1>1 DEF Ledger!Raise, PhaseBar, TargetBar, RaisedBar, FarmerBar, PoolBar, PaidBar
<1>3. QED
  BY <1>2 DEF LedgerStep, Ledger!Next, Money

\* Committing: the target is met, and only the phase changes.
LEMMA CommitMaps ==
  ASSUME NEW id \in CampaignIds, NEW d, Rewritten(id, d),
         Phase(campaign[id]) = "raising", Phase(d) = "committed",
         campaign[id].total_funded = campaign[id].target_amount,
         d.total_funded = campaign[id].total_funded,
         d.target_amount = campaign[id].target_amount,
         d.released = campaign[id].released, PoolOf(d) = PoolOf(campaign[id]),
         UNCHANGED <<contribution, PaidBar>>
  PROVE  LedgerStep
<1>1. /\ PhaseBar[id] = "raising" /\ RaisedBar[id] = TargetBar[id]
      /\ PhaseBar' = [PhaseBar EXCEPT ![id] = "committed"]
      /\ UNCHANGED <<TargetBar, RaisedBar, FarmerBar, PoolBar, PaidBar>>
  BY MapsAt DEF Rewritten
<1>2. Ledger!Commit(id)
  BY <1>1 DEF Ledger!Commit, PhaseBar, TargetBar, RaisedBar, FarmerBar, PoolBar, PaidBar
<1>3. QED
  BY <1>2 DEF LedgerStep, Ledger!Next

\* Releasing: more of a committed campaign is the farmer's, within what was raised.
LEMMA ReleaseMaps ==
  ASSUME NEW id \in CampaignIds, NEW d, NEW amount \in Money \ {0}, Rewritten(id, d),
         Phase(campaign[id]) = "committed", Phase(d) = "committed",
         campaign[id].released + amount <= campaign[id].total_funded,
         d.released = campaign[id].released + amount,
         d.total_funded = campaign[id].total_funded,
         d.target_amount = campaign[id].target_amount, PoolOf(d) = PoolOf(campaign[id]),
         UNCHANGED <<contribution, PaidBar>>
  PROVE  LedgerStep
<1>1. /\ PhaseBar[id] = "committed" /\ FarmerBar[id] + amount <= RaisedBar[id]
      /\ FarmerBar' = [FarmerBar EXCEPT ![id] = FarmerBar[id] + amount]
      /\ UNCHANGED <<PhaseBar, TargetBar, RaisedBar, PoolBar, PaidBar>>
  BY MapsAt DEF Rewritten
<1>2. Ledger!Release(id, amount)
  BY <1>1 DEF Ledger!Release, PhaseBar, TargetBar, RaisedBar, FarmerBar, PoolBar, PaidBar
<1>3. QED
  BY <1>2 DEF LedgerStep, Ledger!Next, Money

\* Dividing: the farmer gets an amount, the investors' pool everything else.
LEMMA DivideMaps ==
  ASSUME NEW id \in CampaignIds, NEW d, NEW amount \in Money, Rewritten(id, d),
         Phase(campaign[id]) \in {"raising", "committed"}, Phase(d) = "divided",
         campaign[id].released + amount <= campaign[id].total_funded,
         d.released = campaign[id].released + amount,
         PoolOf(d) = campaign[id].total_funded - d.released,
         d.total_funded = campaign[id].total_funded,
         d.target_amount = campaign[id].target_amount,
         UNCHANGED <<contribution, PaidBar>>
  PROVE  LedgerStep
<1>1. /\ PhaseBar[id] \in {"raising", "committed"} /\ FarmerBar[id] + amount <= RaisedBar[id]
      /\ PhaseBar' = [PhaseBar EXCEPT ![id] = "divided"]
      /\ FarmerBar' = [FarmerBar EXCEPT ![id] = FarmerBar[id] + amount]
      /\ PoolBar' = [PoolBar EXCEPT ![id] = RaisedBar[id] - FarmerBar'[id]]
      /\ UNCHANGED <<TargetBar, RaisedBar, PaidBar>>
  <2>1. FarmerBar'[id] = d.released
    BY DEF Rewritten, FarmerBar
  <2>2. QED
    BY <2>1, MapsAt DEF Rewritten
<1>2. Ledger!Divide(id, amount)
  BY <1>1 DEF Ledger!Divide, PhaseBar, TargetBar, RaisedBar, FarmerBar, PoolBar, PaidBar
<1>3. QED
  BY <1>2 DEF LedgerStep, Ledger!Next, Money

\* A step that leaves the mapped parts of a record alone is a stutter.
LEMMA StutterMaps ==
  ASSUME NEW id \in CampaignIds, NEW d, Rewritten(id, d),
         Phase(d) = Phase(campaign[id]), d.total_funded = campaign[id].total_funded,
         d.target_amount = campaign[id].target_amount,
         d.released = campaign[id].released, PoolOf(d) = PoolOf(campaign[id]),
         UNCHANGED <<contribution, PaidBar>>
  PROVE  LedgerStep
<1>1. UNCHANGED <<PhaseBar, TargetBar, RaisedBar, FarmerBar, PoolBar, contribution, PaidBar>>
  BY DEF Rewritten
<1>2. QED
  BY <1>1 DEF LedgerStep, Ledger!vars, PhaseBar, TargetBar, RaisedBar, FarmerBar, PoolBar,
     PaidBar

\* So is one that touches neither a record, nor a stake, nor a payment.
LEMMA UntouchedMaps ==
  ASSUME UNCHANGED <<campaign, contribution, audit>>
  PROVE  LedgerStep
  BY DEF LedgerStep, Ledger!vars, Pool

-----------------------------------------------------------------------------
(* The handlers. *)

\* create_campaign opens a ledger entry.
LEMMA CreateOpens ==
  ASSUME IInv, NEW id \in CampaignIds, NEW f \in Farmers, NEW target \in Amounts,
         NEW t \in Tokens, NEW dl \in 0 .. MaxTime, CreateCampaign(id, f, target, t, dl)
  PROVE  LedgerStep
<1> DEFINE d == NewCampaign(f, target, t, dl)
           c == campaign[id]
<1>1. campaign \in [CampaignIds -> Campaign] /\ GoodCampaign(c) /\ c \in Campaign
  BY DEF IInv, TypeOK, GoodCampaign
<1>2. GoodCampaign(d) /\ d \in Campaign
  BY EscrowConstants, GoodCreation DEF CreateCampaign, GoodCampaign
<1>3. /\ d.status = "Active" /\ d.target_amount = target /\ d.total_funded = 0
      /\ d.released = 0 /\ PoolOf(d) = 0
  BY DEF NewCampaign, PoolOf
<1>4. /\ c.status = "Absent" /\ c.total_funded = 0 /\ c.released = 0 /\ PoolOf(c) = 0
  BY <1>1 DEF CreateCampaign, Exists, GoodCampaign, PoolsAgree, Campaign, PoolOf
<1>5. /\ campaign' = [campaign EXCEPT ![id] = d] /\ UNCHANGED <<contribution, audit>>
      /\ target \in Money \ {0}
  BY EscrowConstants DEF CreateCampaign, ValidTarget, Money
<1> HIDE DEF d
<1>6. Phase(d) = "raising" /\ Phase(c) = "none"
  BY <1>3, <1>4, PhaseOf
<1>7. /\ PhaseBar[id] = "none" /\ PhaseBar' = [PhaseBar EXCEPT ![id] = "raising"]
      /\ TargetBar' = [TargetBar EXCEPT ![id] = target]
      /\ UNCHANGED <<RaisedBar, FarmerBar, PoolBar, PaidBar>>
  <2>1. PaidBar' = PaidBar
    BY <1>5 DEF PaidBar
  <2>2. Rewritten(id, d)
    BY <1>1, <1>5, RewriteMaps
  <2>3. QED
    BY <1>3, <1>4, <1>6, <2>1, <2>2, MapsAt DEF Rewritten
<1>8. Ledger!Open(id)
  BY <1>5, <1>7 DEF Ledger!Open, PhaseBar, TargetBar, RaisedBar, FarmerBar, PoolBar,
     PaidBar, Money
<1>9. QED
  BY <1>8 DEF LedgerStep, Ledger!Next

\* What the invariant says of a campaign, in the form the handlers need it.
LEMMA RecordFacts ==
  ASSUME IInv, NEW id \in CampaignIds
  PROVE  LET c == campaign[id] IN
         /\ campaign \in [CampaignIds -> Campaign] /\ c \in Campaign
         /\ c.total_funded \in Nat /\ c.target_amount \in Nat /\ c.released \in Nat
         /\ c.refundable \in Nat /\ c.returnable \in Nat /\ EscrowHeld(c) \in Nat
         /\ c.released + c.refundable + c.returnable <= c.total_funded
         /\ c.total_funded <= c.target_amount /\ c.target_amount <= I64Max
         /\ c.status \in {"Funded", "InProduction", "Harvested", "Settled"}
              => c.total_funded = c.target_amount
         /\ c.status \notin {"Resolved", "Failed", "Settled"}
              => c.refundable = 0 /\ c.returnable = 0
<1> DEFINE c == campaign[id]
<1>1. campaign \in [CampaignIds -> Campaign] /\ GoodCampaign(c)
  BY DEF IInv, TypeOK
<1>2. /\ c \in Campaign /\ c.total_funded \in Nat /\ c.target_amount \in Nat
      /\ c.released \in Nat /\ c.refundable \in Nat /\ c.returnable \in Nat
  BY <1>1 DEF GoodCampaign, Campaign
<1> HIDE DEF c
<1>3. QED
  BY <1>1, <1>2 DEF c, GoodCampaign, PoolsAgree, EscrowHeld

\* Both funding paths raise money in the ledger.
LEMMA ContributionRaises ==
  ASSUME IInv, NEW id \in CampaignIds, NEW i \in Investors, NEW amount \in Amounts,
         FundCampaign(id, i, amount) \/ ReceiveContribution(id, i, amount)
  PROVE  LedgerStep
<1> DEFINE c == campaign[id]
           t == c.total_funded + amount
<1>1. /\ c.status \in {"Active", "Funding"} /\ amount > 0 /\ amount \in Int
      /\ amount <= c.target_amount - c.total_funded
  BY EscrowConstants DEF FundCampaign, ReceiveContribution, CanContribute, Accepting
<1>2. /\ amount \in Money \ {0} /\ t <= c.target_amount
  BY <1>1, RecordFacts, EscrowConstants DEF Money
<1>3. PICK s : /\ campaign' = [campaign EXCEPT ![id] = [c EXCEPT !.total_funded = t, !.status = s]]
               /\ s = "Funding" \/ (s = "Funded" /\ t >= c.target_amount)
  BY DEF FundCampaign, ReceiveContribution
<1> DEFINE d == [c EXCEPT !.total_funded = t, !.status = s]
<1>4. /\ contribution' = [contribution EXCEPT ![id][i] = @ + amount]
      /\ \A o \in CampaignIds : audit'[o].claimed = audit[o].claimed
  <2>1. contribution' = [contribution EXCEPT ![id][i] = @ + amount]
    BY DEF FundCampaign, ReceiveContribution
  <2>2. audit' = audit \/ audit' = [audit EXCEPT ![id].reconciled = @ + amount]
    BY DEF FundCampaign, ReceiveContribution
  <2>3. QED
    BY <2>1, <2>2, ZenonT(60) DEF IInv, TypeOK
<1>5. UNCHANGED PaidBar
  BY <1>4 DEF PaidBar
<1>6. c \in Campaign /\ Rewritten(id, d)
  BY <1>3, RecordFacts, RewriteMaps
<1>7. /\ d.status = s /\ d.total_funded = t /\ d.released = c.released
      /\ d.target_amount = c.target_amount /\ PoolOf(d) = PoolOf(c)
  <2> HIDE DEF t, c
  <2>1. QED
    BY <1>6 DEF Campaign, PoolOf
<1>8. /\ Phase(c) = "raising"
      /\ \/ Phase(d) = "raising"
         \/ Phase(d) = "committed" /\ d.total_funded = c.target_amount
  <2>1. t = c.target_amount \/ s = "Funding"
    BY <1>2, <1>3, <1>1, RecordFacts
  <2> HIDE DEF d
  <2>2. QED
    BY <2>1, <1>1, <1>3, <1>7, PhaseOf
<1> HIDE DEF d, t
<1>9. QED
  BY <1>2, <1>4, <1>5, <1>6, <1>7, <1>8, RaiseMaps DEF t

\* complete_funding commits the ledger entry.
LEMMA CompletionCommits ==
  ASSUME IInv, NEW id \in CampaignIds, NEW total \in Amounts, CompleteFunding(id, total)
  PROVE  LedgerStep
<1> DEFINE c == campaign[id]
           d == [c EXCEPT !.status = "Funded"]
<1>1. /\ c.status \in {"Active", "Funding"} /\ c.total_funded >= c.target_amount
      /\ campaign' = [campaign EXCEPT ![id] = d] /\ UNCHANGED <<contribution, audit>>
  BY DEF CompleteFunding, Accepting
<1>2. c \in Campaign /\ Rewritten(id, d) /\ c.total_funded = c.target_amount
  <2>1. /\ campaign \in [CampaignIds -> Campaign] /\ c \in Campaign
        /\ c.total_funded \in Nat /\ c.target_amount \in Nat
        /\ c.total_funded <= c.target_amount
    BY RecordFacts
  <2>2. Rewritten(id, d)
    BY <1>1, <2>1, RewriteMaps
  <2>3. QED
    BY <1>1, <2>1, <2>2
<1> HIDE DEF c
<1>3. /\ d.status = "Funded" /\ d.total_funded = c.total_funded /\ d.released = c.released
      /\ d.target_amount = c.target_amount /\ PoolOf(d) = PoolOf(c)
  BY <1>2 DEF Campaign, PoolOf
<1> HIDE DEF d
<1>4. Phase(c) = "raising" /\ Phase(d) = "committed" /\ UNCHANGED PaidBar
  BY <1>1, <1>3, PhaseOf DEF PaidBar
<1>5. QED
  BY <1>1, <1>2, <1>3, <1>4, CommitMaps DEF c

\* release_tranche releases in the ledger.
LEMMA TrancheReleases ==
  ASSUME IInv, NEW id \in CampaignIds, NEW recipient \in Farmers, NEW amount \in Amounts,
         ReleaseTranche(id, recipient, amount)
  PROVE  LedgerStep
<1> DEFINE c == campaign[id]
           r == c.released + amount
           d == [c EXCEPT !.status = "InProduction", !.released = r]
<1>1. /\ c.status \in {"Funded", "InProduction"} /\ amount > 0 /\ amount <= EscrowHeld(c)
      /\ campaign' = [campaign EXCEPT ![id] = d] /\ UNCHANGED <<contribution, audit>>
      /\ amount \in Int
  BY EscrowConstants DEF ReleaseTranche
<1>2. /\ c \in Campaign /\ Rewritten(id, d) /\ amount \in Money \ {0}
      /\ r <= c.total_funded
  <2>1. /\ campaign \in [CampaignIds -> Campaign] /\ c \in Campaign
        /\ c.total_funded \in Nat /\ c.target_amount \in Nat /\ c.released \in Nat
        /\ c.refundable = 0 /\ c.returnable = 0
        /\ c.total_funded <= c.target_amount /\ c.target_amount <= I64Max
    BY <1>1, RecordFacts
  <2>2. Rewritten(id, d)
    BY <1>1, <2>1, RewriteMaps
  <2> HIDE DEF c
  <2>3. amount <= c.total_funded - c.released
    BY <1>1, <2>1 DEF EscrowHeld
  <2>4. QED
    BY <1>1, <2>1, <2>2, <2>3, EscrowConstants DEF Money
<1> HIDE DEF c, r
<1>3. /\ d.status = "InProduction" /\ d.total_funded = c.total_funded /\ d.released = r
      /\ d.target_amount = c.target_amount /\ PoolOf(d) = PoolOf(c)
  BY <1>2 DEF Campaign, PoolOf
<1> HIDE DEF d
<1>4. Phase(c) = "committed" /\ Phase(d) = "committed" /\ UNCHANGED PaidBar
  BY <1>1, <1>3, PhaseOf DEF PaidBar
<1>5. QED
  BY <1>1, <1>2, <1>3, <1>4, ReleaseMaps DEF c, r

\* report_harvest is invisible in the ledger.
LEMMA HarvestStutters ==
  ASSUME IInv, NEW id \in CampaignIds, NEW reporter \in Accounts, ReportHarvest(id, reporter)
  PROVE  LedgerStep
<1> DEFINE c == campaign[id]
           d == [c EXCEPT !.status = "Harvested"]
<1>1. /\ c.status \in {"Funded", "InProduction"}
      /\ campaign' = [campaign EXCEPT ![id] = d] /\ UNCHANGED <<contribution, audit>>
  BY DEF ReportHarvest
<1>2. c \in Campaign /\ Rewritten(id, d)
  BY <1>1, RecordFacts, RewriteMaps
<1> HIDE DEF c
<1>3. /\ d.status = "Harvested" /\ d.total_funded = c.total_funded /\ d.released = c.released
      /\ d.target_amount = c.target_amount /\ PoolOf(d) = PoolOf(c)
  BY <1>2 DEF Campaign, PoolOf
<1> HIDE DEF d
<1>4. Phase(c) = "committed" /\ Phase(d) = "committed" /\ UNCHANGED PaidBar
  BY <1>1, <1>3, PhaseOf DEF PaidBar
<1>5. QED
  BY <1>1, <1>2, <1>3, <1>4, StutterMaps DEF c

\* A dispute freezes a campaign where it is, except that one that had met its target
\* without being completed counts as committed from then on.
LEMMA DisputeCommitsOrStutters ==
  ASSUME IInv, NEW id \in CampaignIds, NEW opener \in Accounts, OpenDispute(id, opener)
  PROVE  LedgerStep
<1> DEFINE c == campaign[id]
           d == [c EXCEPT !.status = "Disputed"]
<1>1. /\ c.status \in {"Active", "Funding", "Funded", "InProduction"}
      /\ campaign' = [campaign EXCEPT ![id] = d] /\ UNCHANGED <<contribution, audit>>
  BY DEF OpenDispute, InFlight
<1>2. /\ c \in Campaign /\ Rewritten(id, d)
      /\ c.status \in {"Funded", "InProduction"} => c.total_funded = c.target_amount
  BY <1>1, RecordFacts, RewriteMaps
<1> HIDE DEF c
<1>3. /\ d.status = "Disputed" /\ d.total_funded = c.total_funded /\ d.released = c.released
      /\ d.target_amount = c.target_amount /\ PoolOf(d) = PoolOf(c)
  BY <1>2 DEF Campaign, PoolOf
<1> HIDE DEF d
<1>4. UNCHANGED PaidBar
  BY <1>1 DEF PaidBar
<1>5. CASE c.status \in {"Active", "Funding"} /\ c.total_funded = c.target_amount
  <2>1. Phase(c) = "raising" /\ Phase(d) = "committed"
    BY <1>5, <1>3, PhaseOf
  <2>2. QED
    BY <1>1, <1>2, <1>3, <1>4, <1>5, <2>1, CommitMaps DEF c
<1>6. CASE ~(c.status \in {"Active", "Funding"} /\ c.total_funded = c.target_amount)
  <2>1. Phase(c) = Phase(d)
    BY <1>1, <1>2, <1>3, <1>6, PhaseOf
  <2>2. QED
    BY <1>1, <1>2, <1>3, <1>4, <2>1, StutterMaps DEF c
<1>7. QED
  BY <1>5, <1>6

-----------------------------------------------------------------------------
(* The four handlers that divide. *)

\* Dividing what is held: a share to the farmer, everything else to one of the pools.
LEMMA SplitDivides ==
  ASSUME IInv, NEW id \in CampaignIds, NEW share \in 0 .. EscrowHeld(campaign[id]),
         NEW d \in Campaign, campaign' = [campaign EXCEPT ![id] = d],
         campaign[id].status \in {"Active", "Funding", "Funded", "InProduction", "Harvested",
                                  "Disputed"},
         d.status \in {"Resolved", "Settled", "Failed"},
         d.released = campaign[id].released + share,
         PoolOf(d) = EscrowHeld(campaign[id]) - share,
         d.total_funded = campaign[id].total_funded,
         d.target_amount = campaign[id].target_amount,
         UNCHANGED <<contribution, audit>>
  PROVE  LedgerStep
<1> DEFINE c == campaign[id]
<1>1. Rewritten(id, d)
  BY RecordFacts, RewriteMaps
<1>2. /\ share \in Money /\ c.released + share <= c.total_funded
      /\ PoolOf(d) = c.total_funded - d.released
  BY RecordFacts, EscrowConstants DEF EscrowHeld, Money
<1>3. Phase(c) \in {"raising", "committed"} /\ Phase(d) = "divided" /\ UNCHANGED PaidBar
  BY PhaseOf DEF PaidBar
<1>4. QED
  BY <1>1, <1>2, <1>3, DivideMaps

\* settle_campaign divides between the payout and the investors' returns.
LEMMA SettlementDivides ==
  ASSUME IInv, NEW id \in CampaignIds, NEW payee \in Farmers, NEW payout \in Amounts,
         SettleCampaign(id, payee, payout)
  PROVE  LedgerStep
<1> DEFINE c == campaign[id]
           r == c.released + payout
           n == c.returnable + (EscrowHeld(c) - payout)
           d == [c EXCEPT !.released = r, !.returnable = n, !.status = "Settled"]
<1>1. /\ c.status = "Harvested" /\ payout >= 0 /\ payout <= EscrowHeld(c) /\ payout \in Int
      /\ campaign' = [campaign EXCEPT ![id] = d] /\ UNCHANGED <<contribution, audit>>
  BY EscrowConstants DEF SettleCampaign
<1>2. /\ c \in Campaign /\ c.refundable = 0 /\ c.returnable = 0 /\ c.released \in Nat
      /\ EscrowHeld(c) \in Nat
  BY <1>1, RecordFacts
<1>3. /\ payout \in 0 .. EscrowHeld(c) /\ r \in Nat /\ n = EscrowHeld(c) - payout /\ n \in Nat
  BY <1>1, <1>2
<1> HIDE DEF c, r, n
<1>4. /\ d.status = "Settled" /\ d.total_funded = c.total_funded /\ d.released = r
      /\ d.target_amount = c.target_amount /\ PoolOf(d) = c.refundable + n
  BY <1>2 DEF Campaign, PoolOf
<1>5. d \in Campaign
  BY <1>2, <1>3, CampaignUpdate DEF CampaignStatus
<1>6. PoolOf(d) = EscrowHeld(c) - payout
  BY <1>2, <1>3, <1>4
<1> HIDE DEF d
<1>7. QED
  BY <1>1, <1>3, <1>4, <1>5, <1>6, SplitDivides DEF c, r

\* resolve_dispute divides between the farmer's share and the refunds.
LEMMA ResolutionDivides ==
  ASSUME IInv, NEW id \in CampaignIds, NEW resolution \in DisputeResolution,
         NEW payout \in Amounts, ResolveDispute(id, resolution, payout)
  PROVE  LedgerStep
<1> DEFINE c == campaign[id]
           share == FarmerShare(resolution, payout, EscrowHeld(c))
           r == c.released + share
           f == c.refundable + (EscrowHeld(c) - share)
           d == [c EXCEPT !.released = r, !.refundable = f, !.status = "Resolved"]
<1>1. /\ c.status = "Disputed" /\ ValidResolution(resolution, payout, EscrowHeld(c))
      /\ campaign' = [campaign EXCEPT ![id] = d] /\ UNCHANGED <<contribution, audit>>
  BY DEF ResolveDispute
<1>2. /\ c \in Campaign /\ c.refundable = 0 /\ c.returnable = 0 /\ c.released \in Nat
      /\ EscrowHeld(c) \in Nat
  BY <1>1, RecordFacts
<1>3. share \in 0 .. EscrowHeld(c)
  BY <1>1, <1>2, EscrowConstants DEF ValidResolution, FarmerShare
<1> HIDE DEF share
<1>4. r \in Nat /\ f = EscrowHeld(c) - share /\ f \in Nat
  BY <1>2, <1>3
<1> HIDE DEF c, r, f
<1>5. /\ d.status = "Resolved" /\ d.total_funded = c.total_funded /\ d.released = r
      /\ d.target_amount = c.target_amount /\ PoolOf(d) = f + c.returnable
  BY <1>2 DEF Campaign, PoolOf
<1>6. d \in Campaign
  BY <1>2, <1>4, CampaignUpdate DEF CampaignStatus
<1>7. PoolOf(d) = EscrowHeld(c) - share
  BY <1>2, <1>4, <1>5
<1> HIDE DEF d
<1>8. QED
  BY <1>1, <1>3, <1>5, <1>6, <1>7, SplitDivides DEF c, r

\* mark_failed and expire_campaign divide with nothing more for the farmer.
LEMMA FailureDivides ==
  ASSUME IInv, NEW id \in CampaignIds, MarkFailed(id) \/ ExpireCampaign(id)
  PROVE  LedgerStep
<1> DEFINE c == campaign[id]
           f == c.refundable + EscrowHeld(c)
           d == [c EXCEPT !.refundable = f, !.status = "Failed"]
<1>1. /\ c.status \in {"Active", "Funding", "Funded", "InProduction"}
      /\ campaign' = [campaign EXCEPT ![id] = d] /\ UNCHANGED <<contribution, audit>>
  BY DEF MarkFailed, ExpireCampaign, InFlight, Accepting
<1>2. /\ c \in Campaign /\ c.refundable = 0 /\ c.returnable = 0 /\ c.released \in Nat
      /\ EscrowHeld(c) \in Nat
  BY <1>1, RecordFacts
<1>3. 0 \in 0 .. EscrowHeld(c) /\ f = EscrowHeld(c) /\ f \in Nat
  BY <1>2
<1> HIDE DEF c, f
<1>4. /\ d.status = "Failed" /\ d.total_funded = c.total_funded /\ d.released = c.released
      /\ d.target_amount = c.target_amount /\ PoolOf(d) = f + c.returnable
  BY <1>2 DEF Campaign, PoolOf
<1>5. d \in Campaign
  BY <1>2, <1>3, CampaignUpdate DEF CampaignStatus
<1>6. PoolOf(d) = EscrowHeld(c) - 0 /\ d.released = c.released + 0
  BY <1>2, <1>3, <1>4
<1> HIDE DEF d
<1>7. QED
  BY <1>1, <1>3, <1>4, <1>5, <1>6, SplitDivides DEF c

-----------------------------------------------------------------------------
(* The claims. *)

\* A claim: who may make it, what it pays, and what it leaves of the records.
Claim(id, i) == ClaimRefund(id, i) \/ ClaimReturn(id, i)

Share(id, i) == ProRata(contribution[id][i], Pool(id), campaign[id].total_funded)

\* Either kind of claim pays the pro-rata share of the one pool the division filled.
LEMMA ClaimEffect ==
  ASSUME IInv, NEW id \in CampaignIds, NEW i \in Investors, Claim(id, i)
  PROVE  /\ campaign[id].status \in {"Resolved", "Failed", "Settled"}
         /\ contribution[id][i] > 0 /\ Share(id, i) > 0
         /\ contribution' = [contribution EXCEPT ![id][i] = 0]
         /\ audit' = [audit EXCEPT ![id].redeemed = @ + contribution[id][i],
                                   ![id].claimed = @ + Share(id, i)]
         /\ UNCHANGED campaign
<1> DEFINE c == campaign[id]
<1>1. GoodCampaign(c) /\ c.refundable \in Nat /\ c.returnable \in Nat
  BY DEF IInv, TypeOK, Campaign
<1>2. CASE ClaimRefund(id, i)
  <2>1. Pool(id) = c.refundable /\ c.status \in {"Resolved", "Failed"}
    BY <1>1, <1>2 DEF ClaimRefund, GoodCampaign, PoolsAgree, Pool
  <2>2. PayShare(id, i, Pool(id), "RefundClaimed")
    BY <1>2, <2>1 DEF ClaimRefund
  <2>3. QED
    BY <2>1, <2>2 DEF PayShare, Share
<1>3. CASE ClaimReturn(id, i)
  <2>1. Pool(id) = c.returnable /\ c.status = "Settled"
    BY <1>1, <1>3 DEF ClaimReturn, GoodCampaign, PoolsAgree, Pool
  <2>2. PayShare(id, i, Pool(id), "ReturnClaimed")
    BY <1>3, <2>1 DEF ClaimReturn
  <2>3. QED
    BY <2>1, <2>2 DEF PayShare, Share
<1>4. QED
  BY <1>2, <1>3 DEF Claim

\* The share of a positive stake is within pro rata, and falls short of it by less
\* than one unit.
LEMMA ShareFacts ==
  ASSUME IInv, NEW id \in CampaignIds, NEW i \in Investors, contribution[id][i] > 0
  PROVE  LET total == campaign[id].total_funded IN
         /\ total \in Nat \ {0} /\ Pool(id) \in Nat /\ Pool(id) <= I64Max
         /\ contribution[id][i] \in Nat
         /\ Share(id, i) \in Nat /\ Share(id, i) <= Pool(id)
         /\ Share(id, i) * total <= contribution[id][i] * Pool(id)
         /\ contribution[id][i] * Pool(id) < Share(id, i) * total + total
<1> DEFINE total == campaign[id].total_funded
           stake == contribution[id][i]
<1>1. total \in Nat /\ Pool(id) \in Nat /\ Pool(id) <= total /\ total <= I64Max
  BY RecordFacts, EscrowConstants DEF Pool
<1>2. stake \in Nat /\ stake <= total
  BY DEF IInv, TypeOK, StakesWithinTotal
<1>3. total \in Nat \ {0} /\ Pool(id) <= I64Max
  BY <1>1, <1>2, EscrowConstants
<1> HIDE DEF total, stake
<1>4. /\ ProRata(stake, Pool(id), total) \in Nat
      /\ ProRata(stake, Pool(id), total) * total <= stake * Pool(id)
      /\ stake * Pool(id) < ProRata(stake, Pool(id), total) * total + total
      /\ ProRata(stake, Pool(id), total) <= Pool(id)
  BY <1>1, <1>2, <1>3, ShareBounds
<1>5. QED
  BY <1>1, <1>2, <1>3, <1>4 DEF total, stake, Share

\* A claim is one payment of the ledger.
LEMMA ClaimPays ==
  ASSUME IInv, NEW id \in CampaignIds, NEW i \in Investors, Claim(id, i)
  PROVE  LedgerStep
<1>1. /\ campaign[id].status \in {"Resolved", "Failed", "Settled"}
      /\ contribution[id][i] > 0 /\ Share(id, i) > 0
      /\ contribution' = [contribution EXCEPT ![id][i] = 0]
      /\ audit' = [audit EXCEPT ![id].redeemed = @ + contribution[id][i],
                                ![id].claimed = @ + Share(id, i)]
      /\ UNCHANGED campaign
  BY ClaimEffect
<1>2. /\ Share(id, i) \in Money \ {0}
      /\ Share(id, i) * RaisedBar[id] <= contribution[id][i] * PoolBar[id]
  BY <1>1, ShareFacts, EscrowConstants DEF Money, RaisedBar, PoolBar
<1>3. PhaseBar[id] = "divided"
  BY <1>1, PhaseOf, MapsAt
<1>4. PaidBar' = [PaidBar EXCEPT ![id] = @ + Share(id, i)]
  <2>1. \A o \in CampaignIds : audit'[o].claimed =
          IF o = id THEN audit[id].claimed + Share(id, i) ELSE audit[o].claimed
    BY <1>1 DEF IInv, TypeOK
  <2>2. QED
    BY <2>1 DEF PaidBar
<1>5. UNCHANGED <<PhaseBar, TargetBar, RaisedBar, FarmerBar, PoolBar>>
  BY <1>1 DEF PhaseBar, TargetBar, RaisedBar, FarmerBar, PoolBar, Pool
<1>6. PICK amount \in Money \ {0} : amount = Share(id, i)
  BY <1>2
<1>7. Ledger!Pay(id, i, amount)
  BY <1>1, <1>2, <1>3, <1>4, <1>5, <1>6 DEF Ledger!Pay, PhaseBar, TargetBar, RaisedBar,
     FarmerBar, PoolBar, PaidBar
<1>8. QED
  BY <1>6, <1>7 DEF LedgerStep, Ledger!Next, Money

-----------------------------------------------------------------------------

\* Every invocation of the contract is a step of the ledger, or invisible in it.
THEOREM StepMaps == IInv /\ [Next]_vars => LedgerStep
<1> SUFFICES ASSUME IInv, [Next]_vars PROVE LedgerStep
  OBVIOUS
<1>1. CASE UNCHANGED vars
  BY <1>1, UntouchedMaps DEF vars
<1>2. ASSUME NEW a \in Admins, Initialize(a) PROVE LedgerStep
  BY <1>2, UntouchedMaps DEF Initialize
<1>3. ASSUME NEW r \in Registries, SetRegistry(r) PROVE LedgerStep
  BY <1>3, UntouchedMaps DEF SetRegistry
<1>4. CASE Tick
  BY <1>4, UntouchedMaps DEF Tick
<1>5. ASSUME NEW t \in Tokens, NEW amount \in Amounts, Deposit(t, amount) PROVE LedgerStep
  BY <1>5, UntouchedMaps DEF Deposit
<1>6. ASSUME NEW id \in CampaignIds, Contribute(id) PROVE LedgerStep
  BY <1>6, ContributionRaises DEF Contribute
<1>7. ASSUME NEW id \in CampaignIds, Manage(id) PROVE LedgerStep
  <2>1. ASSUME NEW f \in Farmers, NEW target \in Amounts, NEW t \in Tokens,
               NEW dl \in 0 .. MaxTime, CreateCampaign(id, f, target, t, dl)
        PROVE  LedgerStep
    BY <2>1, CreateOpens
  <2>2. ASSUME NEW total \in Amounts, CompleteFunding(id, total) PROVE LedgerStep
    BY <2>2, CompletionCommits
  <2>3. ASSUME NEW list \in TrancheLists, ConfigureTranches(id, list) PROVE LedgerStep
    BY <2>3, UntouchedMaps DEF ConfigureTranches
  <2>4. ASSUME NEW recipient \in Farmers, NEW amount \in Amounts,
               ReleaseTranche(id, recipient, amount)
        PROVE  LedgerStep
    BY <2>4, TrancheReleases
  <2>5. ASSUME NEW reporter \in Accounts, ReportHarvest(id, reporter) PROVE LedgerStep
    BY <2>5, HarvestStutters
  <2>6. ASSUME NEW payee \in Farmers, NEW payout \in Amounts,
               SettleCampaign(id, payee, payout)
        PROVE  LedgerStep
    BY <2>6, SettlementDivides
  <2>7. QED
    BY <1>7, <2>1, <2>2, <2>3, <2>4, <2>5, <2>6 DEF Manage
<1>8. ASSUME NEW id \in CampaignIds, Unwind(id) PROVE LedgerStep
  <2>1. ASSUME NEW opener \in Accounts, OpenDispute(id, opener) PROVE LedgerStep
    BY <2>1, DisputeCommitsOrStutters
  <2>2. ASSUME NEW resolution \in DisputeResolution, NEW payout \in Amounts,
               ResolveDispute(id, resolution, payout)
        PROVE  LedgerStep
    BY <2>2, ResolutionDivides
  <2>3. ASSUME MarkFailed(id) \/ ExpireCampaign(id) PROVE LedgerStep
    BY <2>3, FailureDivides
  <2>4. ASSUME NEW i \in Investors, ClaimRefund(id, i) \/ ClaimReturn(id, i)
        PROVE  LedgerStep
    BY <2>4, ClaimPays DEF Claim
  <2>5. QED
    BY <1>8, <2>1, <2>2, <2>3, <2>4 DEF Unwind
<1>9. QED
  BY <1>1, <1>2, <1>3, <1>4, <1>5, <1>6, <1>7, <1>8 DEF Next

\* The contract implements the abstract ledger, whatever the campaigns, the callers,
\* the amounts and the interleaving: stakes are raised up to the target, the division
\* is taken once and conserves the funds, and each stake is paid once and within pro rata.
THEOREM Implements == Spec => ImplementsLedger
<1>1. Init => Ledger!Init
  BY InitMaps
<1>2. IInv /\ [Next]_vars => [Ledger!Next]_(Ledger!vars)
  BY StepMaps DEF LedgerStep
<1>3. QED
  BY <1>1, <1>2, Invariant, PTL DEF Spec, ImplementsLedger, Ledger!Spec

-----------------------------------------------------------------------------
(* The books.  A step, seen from the stakes and from what was redeemed.      *)

Divided(id) == campaign[id].status \in {"Resolved", "Settled", "Failed"}

\* Only the record of an undivided campaign may change, and not its total.
BooksKept ==
  /\ UNCHANGED contribution
  /\ \A o \in CampaignIds :
       /\ audit'[o].redeemed = audit[o].redeemed /\ audit'[o].claimed = audit[o].claimed
       /\ campaign'[o].total_funded = campaign[o].total_funded
       /\ Divided(o) => campaign'[o] = campaign[o]

\* One stake grows with its campaign's total.
StakeAdded(id, i, amount) ==
  /\ amount > 0 /\ ~Divided(id)
  /\ contribution' = [contribution EXCEPT ![id][i] = @ + amount]
  /\ \A o \in CampaignIds :
       /\ audit'[o].redeemed = audit[o].redeemed /\ audit'[o].claimed = audit[o].claimed
       /\ campaign'[o].total_funded =
            campaign[o].total_funded + (IF o = id THEN amount ELSE 0)
       /\ Divided(o) => campaign'[o] = campaign[o]

\* One stake is redeemed for its share.
StakeRedeemed(id, i) ==
  /\ Divided(id) /\ contribution[id][i] > 0
  /\ contribution' = [contribution EXCEPT ![id][i] = 0]
  /\ audit' = [audit EXCEPT ![id].redeemed = @ + contribution[id][i],
                            ![id].claimed = @ + Share(id, i)]
  /\ UNCHANGED campaign

\* A rewrite of an undivided record that leaves its total alone keeps the books.
LEMMA RewriteKeepsBooks ==
  ASSUME NEW id \in CampaignIds, NEW d, campaign \in [CampaignIds -> Campaign], ~Divided(id),
         campaign' = [campaign EXCEPT ![id] = d],
         d.total_funded = campaign[id].total_funded, UNCHANGED <<contribution, audit>>
  PROVE  BooksKept
  BY DEF BooksKept, Divided

\* So does a step that touches neither records nor stakes.
LEMMA UntouchedBooks == UNCHANGED <<campaign, contribution, audit>> => BooksKept
  BY DEF BooksKept

\* Both funding paths add a stake.
LEMMA ContributionAdds ==
  ASSUME IInv, NEW id \in CampaignIds, NEW i \in Investors, NEW amount \in Amounts,
         FundCampaign(id, i, amount) \/ ReceiveContribution(id, i, amount)
  PROVE  amount \in Nat /\ StakeAdded(id, i, amount)
<1> DEFINE c == campaign[id]
           t == c.total_funded + amount
<1>1. /\ c.status \in {"Active", "Funding"} /\ amount > 0 /\ amount \in Nat
  BY EscrowConstants DEF FundCampaign, ReceiveContribution, CanContribute, Accepting
<1>2. PICK s : campaign' = [campaign EXCEPT ![id] = [c EXCEPT !.total_funded = t, !.status = s]]
  BY DEF FundCampaign, ReceiveContribution
<1> DEFINE d == [c EXCEPT !.total_funded = t, !.status = s]
<1>3. /\ contribution' = [contribution EXCEPT ![id][i] = @ + amount]
      /\ audit' = audit \/ audit' = [audit EXCEPT ![id].reconciled = @ + amount]
  BY DEF FundCampaign, ReceiveContribution
<1>4. \A o \in CampaignIds :
        audit'[o].redeemed = audit[o].redeemed /\ audit'[o].claimed = audit[o].claimed
  <2>1. audit \in [CampaignIds -> [redeemed : Nat, claimed : Nat, reconciled : Nat]]
    BY DEF IInv, TypeOK
  <2>2. CASE audit' = audit
    BY <2>2
  <2>3. CASE audit' = [audit EXCEPT ![id].reconciled = @ + amount]
    BY <2>1, <2>3
  <2>4. QED
    BY <1>3, <2>2, <2>3
<1>5. campaign \in [CampaignIds -> Campaign] /\ c \in Campaign
  BY RecordFacts
<1>6. d.total_funded = t
  <2> HIDE DEF t, c
  <2>1. QED
    BY <1>5 DEF Campaign
<1>7. campaign'[id] = d /\ \A o \in CampaignIds \ {id} : campaign'[o] = campaign[o]
  BY <1>2, <1>5
<1>8. \A o \in CampaignIds : campaign[o].total_funded \in Nat
  BY RecordFacts
<1> HIDE DEF d
<1>9. QED
  BY <1>1, <1>3, <1>4, <1>6, <1>7, <1>8 DEF StakeAdded, Divided

\* The handlers that rewrite a record without touching a stake keep the books.
LEMMA HandlersKeepBooks ==
  ASSUME IInv, NEW id \in CampaignIds,
         \/ \E f \in Farmers, target \in Amounts, t \in Tokens, dl \in 0 .. MaxTime :
              CreateCampaign(id, f, target, t, dl)
         \/ \E total \in Amounts : CompleteFunding(id, total)
         \/ \E recipient \in Farmers, amount \in Amounts : ReleaseTranche(id, recipient, amount)
         \/ \E reporter \in Accounts : ReportHarvest(id, reporter)
         \/ \E payee \in Farmers, payout \in Amounts : SettleCampaign(id, payee, payout)
         \/ \E opener \in Accounts : OpenDispute(id, opener)
         \/ \E resolution \in DisputeResolution, payout \in Amounts :
              ResolveDispute(id, resolution, payout)
         \/ MarkFailed(id) \/ ExpireCampaign(id)
  PROVE  BooksKept
<1> DEFINE c == campaign[id]
           s(st) == [c EXCEPT !.status = st]
<1>1. campaign \in [CampaignIds -> Campaign] /\ c \in Campaign /\ GoodCampaign(c)
  BY RecordFacts DEF IInv
<1>2. CASE \E f \in Farmers, target \in Amounts, t \in Tokens, dl \in 0 .. MaxTime :
             CreateCampaign(id, f, target, t, dl)
  <2>1. PICK f, target, t, dl : CreateCampaign(id, f, target, t, dl)
    BY <1>2
  <2>2. NewCampaign(f, target, t, dl).total_funded = 0
    BY DEF NewCampaign
  <2>3. c.total_funded = 0 /\ ~Divided(id)
    BY <2>1, <1>1 DEF CreateCampaign, Exists, GoodCampaign, PoolsAgree, Divided
  <2>4. /\ campaign' = [campaign EXCEPT ![id] = NewCampaign(f, target, t, dl)]
        /\ UNCHANGED <<contribution, audit>>
    BY <2>1 DEF CreateCampaign
  <2>5. QED
    BY <1>1, <2>2, <2>3, <2>4, RewriteKeepsBooks
<1>3. ASSUME NEW st, campaign' = [campaign EXCEPT ![id] = [c EXCEPT !.status = st]],
             ~Divided(id), UNCHANGED <<contribution, audit>>
      PROVE  BooksKept
  <2>1. [c EXCEPT !.status = st].total_funded = c.total_funded
    BY <1>1, KeepsTotal
  <2>2. QED
    BY <1>1, <1>3, <2>1, RewriteKeepsBooks
<1>4. ASSUME NEW r, campaign' = [campaign EXCEPT ![id] =
                                   [c EXCEPT !.status = "InProduction", !.released = r]],
             ~Divided(id), UNCHANGED <<contribution, audit>>
      PROVE  BooksKept
  <2>1. [c EXCEPT !.status = "InProduction", !.released = r].total_funded = c.total_funded
    BY <1>1, KeepsTotal
  <2>2. QED
    BY <1>1, <1>4, <2>1, RewriteKeepsBooks
<1>5. ASSUME NEW r, NEW f, campaign' = [campaign EXCEPT ![id] =
                                   [c EXCEPT !.released = r, !.refundable = f,
                                             !.status = "Resolved"]],
             ~Divided(id), UNCHANGED <<contribution, audit>>
      PROVE  BooksKept
  <2>1. [c EXCEPT !.released = r, !.refundable = f, !.status = "Resolved"].total_funded
          = c.total_funded
    BY <1>1, KeepsTotal
  <2>2. QED
    BY <1>1, <1>5, <2>1, RewriteKeepsBooks
<1>6. ASSUME NEW r, NEW n, campaign' = [campaign EXCEPT ![id] =
                                   [c EXCEPT !.released = r, !.returnable = n,
                                             !.status = "Settled"]],
             ~Divided(id), UNCHANGED <<contribution, audit>>
      PROVE  BooksKept
  <2>1. [c EXCEPT !.released = r, !.returnable = n, !.status = "Settled"].total_funded
          = c.total_funded
    BY <1>1, KeepsTotal
  <2>2. QED
    BY <1>1, <1>6, <2>1, RewriteKeepsBooks
<1>7. ASSUME NEW f, campaign' = [campaign EXCEPT ![id] =
                                   [c EXCEPT !.refundable = f, !.status = "Failed"]],
             ~Divided(id), UNCHANGED <<contribution, audit>>
      PROVE  BooksKept
  <2>1. [c EXCEPT !.refundable = f, !.status = "Failed"].total_funded = c.total_funded
    BY <1>1, KeepsTotal
  <2>2. QED
    BY <1>1, <1>7, <2>1, RewriteKeepsBooks
<1>8. CASE \/ \E total \in Amounts : CompleteFunding(id, total)
           \/ \E reporter \in Accounts : ReportHarvest(id, reporter)
           \/ \E opener \in Accounts : OpenDispute(id, opener)
  <2>1. \E st : campaign' = [campaign EXCEPT ![id] = [c EXCEPT !.status = st]]
    BY <1>8 DEF CompleteFunding, ReportHarvest, OpenDispute
  <2>2. ~Divided(id) /\ UNCHANGED <<contribution, audit>>
    BY <1>8 DEF CompleteFunding, ReportHarvest, OpenDispute, Divided, Accepting, InFlight
  <2>3. QED
    BY <2>1, <2>2, <1>3
<1>9. CASE \E recipient \in Farmers, amount \in Amounts : ReleaseTranche(id, recipient, amount)
  <2>1. PICK recipient, amount : ReleaseTranche(id, recipient, amount)
    BY <1>9
  <2>2. /\ campaign' = [campaign EXCEPT ![id] =
                          [c EXCEPT !.status = "InProduction", !.released = c.released + amount]]
        /\ ~Divided(id) /\ UNCHANGED <<contribution, audit>>
    BY <2>1 DEF ReleaseTranche, Divided
  <2>3. QED
    BY <2>2, <1>4
<1>10. CASE \E payee \in Farmers, payout \in Amounts : SettleCampaign(id, payee, payout)
  <2>1. PICK payee, payout : SettleCampaign(id, payee, payout)
    BY <1>10
  <2>2. /\ campaign' = [campaign EXCEPT ![id] =
                          [c EXCEPT !.released = c.released + payout,
                                    !.returnable = c.returnable + (EscrowHeld(c) - payout),
                                    !.status = "Settled"]]
        /\ ~Divided(id) /\ UNCHANGED <<contribution, audit>>
    BY <2>1 DEF SettleCampaign, Divided
  <2>3. QED
    BY <2>2, <1>6
<1>11. CASE \E resolution \in DisputeResolution, payout \in Amounts :
              ResolveDispute(id, resolution, payout)
  <2>1. PICK resolution, payout : ResolveDispute(id, resolution, payout)
    BY <1>11
  <2> DEFINE share == FarmerShare(resolution, payout, EscrowHeld(c))
  <2>2. /\ campaign' = [campaign EXCEPT ![id] =
                          [c EXCEPT !.released = c.released + share,
                                    !.refundable = c.refundable + (EscrowHeld(c) - share),
                                    !.status = "Resolved"]]
        /\ ~Divided(id) /\ UNCHANGED <<contribution, audit>>
    BY <2>1 DEF ResolveDispute, Divided
  <2>3. QED
    BY <2>2, <1>5
<1>12. CASE MarkFailed(id) \/ ExpireCampaign(id)
  <2>1. /\ campaign' = [campaign EXCEPT ![id] =
                          [c EXCEPT !.refundable = c.refundable + EscrowHeld(c),
                                    !.status = "Failed"]]
        /\ ~Divided(id) /\ UNCHANGED <<contribution, audit>>
    BY <1>12 DEF MarkFailed, ExpireCampaign, Divided, Accepting, InFlight
  <2>2. QED
    BY <2>1, <1>7
<1>13. QED
  BY <1>2, <1>8, <1>9, <1>10, <1>11, <1>12

\* A step keeps the books, adds a stake or redeems one.
LEMMA BooksStep ==
  ASSUME IInv, [Next]_vars
  PROVE  \/ BooksKept
         \/ \E id \in CampaignIds, i \in Investors :
              \/ \E amount \in Nat : StakeAdded(id, i, amount)
              \/ StakeRedeemed(id, i)
<1> DEFINE Goal == \/ BooksKept
                   \/ \E id \in CampaignIds, i \in Investors :
                        \/ \E amount \in Nat : StakeAdded(id, i, amount)
                        \/ StakeRedeemed(id, i)
<1>1. CASE UNCHANGED vars
  BY <1>1, UntouchedBooks DEF vars
<1>2. CASE \/ \E a \in Admins : Initialize(a)
           \/ \E r \in Registries : SetRegistry(r)
           \/ Tick
           \/ \E t \in Tokens, amount \in Amounts : Deposit(t, amount)
           \/ \E id \in CampaignIds, list \in TrancheLists : ConfigureTranches(id, list)
  BY <1>2, UntouchedBooks DEF Initialize, SetRegistry, Tick, Deposit, ConfigureTranches
<1>3. ASSUME NEW id \in CampaignIds, NEW i \in Investors, NEW amount \in Amounts,
             FundCampaign(id, i, amount) \/ ReceiveContribution(id, i, amount)
      PROVE  Goal
  BY <1>3, ContributionAdds
<1>4. ASSUME NEW id \in CampaignIds, NEW i \in Investors, Claim(id, i) PROVE Goal
  <2>1. StakeRedeemed(id, i)
    BY <1>4, ClaimEffect DEF StakeRedeemed, Divided
  <2>2. QED
    BY <2>1
<1>5. ASSUME NEW id \in CampaignIds, Contribute(id) PROVE Goal
  BY <1>3, <1>5 DEF Contribute
<1>6. ASSUME NEW id \in CampaignIds, Manage(id) PROVE Goal
  BY <1>2, <1>6, HandlersKeepBooks DEF Manage
<1>7. ASSUME NEW id \in CampaignIds, Unwind(id) PROVE Goal
  BY <1>4, <1>7, HandlersKeepBooks DEF Unwind, Claim
<1>8. QED
  BY <1>1, <1>2, <1>5, <1>6, <1>7 DEF Next

-----------------------------------------------------------------------------
(* The stakes add up to the totals. *)

\* The sum of a campaign's stakes is a sum over the investors.
LEMMA StakeSum ==
  ASSUME NEW f \in [Investors -> Nat]
  PROVE  /\ SumFunction(f) = SumFunctionOnSet(f, Investors)
         /\ SumFunctionOnSet(f, Investors) \in Nat
  BY SumType, FiniteScope DEF SumFunction

\* Changing one stake changes the sum by the difference.
LEMMA StakeSumUpdate ==
  ASSUME NEW f \in [Investors -> Nat], NEW i \in Investors, NEW v \in Nat
  PROVE  SumFunctionOnSet([f EXCEPT ![i] = v], Investors)
           = SumFunctionOnSet(f, Investors) + (v - f[i])
<1> DEFINE e == [f EXCEPT ![i] = v]
<1>1. e[i] = v /\ \A y \in Investors \ {i} : e[y] = f[y]
  OBVIOUS
<1>2. \A y \in Investors : f[y] \in Int /\ e[y] \in Int
  BY <1>1
<1> HIDE DEF e
<1>3. SumFunctionOnSet(e, Investors) = SumFunctionOnSet(f, Investors) + (e[i] - f[i])
  BY <1>1, <1>2, SumUpdate, FiniteScope
<1>4. QED
  BY <1>1, <1>3 DEF e

BookTypes ==
  /\ campaign \in [CampaignIds -> Campaign]
  /\ contribution \in [CampaignIds -> [Investors -> Nat]]
  /\ audit \in [CampaignIds -> [redeemed : Nat, claimed : Nat, reconciled : Nat]]
  /\ \A o \in CampaignIds :
       /\ contribution[o] \in [Investors -> Nat]
       /\ audit[o].redeemed \in Nat /\ audit[o].claimed \in Nat
       /\ campaign[o].total_funded \in Nat

\* The amounts on both sides of the books are naturals.
LEMMA BooksTyped == IInv => BookTypes
<1> SUFFICES ASSUME IInv PROVE BookTypes
  OBVIOUS
<1>1. \A o \in CampaignIds : campaign[o].total_funded \in Nat
  BY RecordFacts
<1>2. QED
  BY <1>1 DEF BookTypes, IInv, TypeOK

\* A contribution adds to one stake what it adds to the total; a claim moves a stake
\* from the sum to what was redeemed; nothing else touches either side.
LEMMA BackingStep ==
  ASSUME IInv, IInv', ContributionsBackTotal, [Next]_vars
  PROVE  ContributionsBackTotal'
<1> DEFINE Sum(f) == SumFunctionOnSet(f, Investors)
<1>0. BookTypes /\ BookTypes'
  <2>1. BookTypes
    BY BooksTyped
  <2>2. BookTypes'
    BY BooksTyped, PTL
  <2>3. QED
    BY <2>1, <2>2
<1>1. SUFFICES ASSUME NEW o \in CampaignIds
               PROVE  /\ Sum(contribution'[o]) + audit'[o].redeemed = campaign'[o].total_funded
                      /\ audit'[o].redeemed > 0 => Divided(o)'
  BY <1>0, StakeSum DEF ContributionsBackTotal, BookTypes, Divided
<1>2. /\ Sum(contribution[o]) + audit[o].redeemed = campaign[o].total_funded
      /\ audit[o].redeemed > 0 => Divided(o)
      /\ Sum(contribution[o]) \in Nat
  BY <1>0, StakeSum DEF ContributionsBackTotal, BookTypes, Divided
<1>3. CASE BooksKept
  BY <1>2, <1>3 DEF BooksKept, Divided
<1>4. ASSUME NEW id \in CampaignIds, NEW i \in Investors, NEW amount \in Nat,
             StakeAdded(id, i, amount)
      PROVE  /\ Sum(contribution'[o]) + audit'[o].redeemed = campaign'[o].total_funded
             /\ audit'[o].redeemed > 0 => Divided(o)'
  <2>1. /\ audit'[o].redeemed = audit[o].redeemed
        /\ campaign'[o].total_funded = campaign[o].total_funded + (IF o = id THEN amount ELSE 0)
        /\ Divided(o) => Divided(o)'
    BY <1>4 DEF StakeAdded, Divided
  <2>2. CASE o = id
    <3>1. contribution'[o] = [contribution[o] EXCEPT ![i] = contribution[o][i] + amount]
      BY <1>0, <1>4, <2>2 DEF StakeAdded, BookTypes
    <3>2. contribution[o][i] \in Nat /\ contribution[o] \in [Investors -> Nat]
      BY <1>0 DEF BookTypes
    <3>3. Sum(contribution'[o]) = Sum(contribution[o]) + amount
      <4> DEFINE f == contribution[o]
                 v == f[i] + amount
      <4>1. v \in Nat /\ v - f[i] = amount
        BY <3>2
      <4> HIDE DEF f, v
      <4>2. Sum([f EXCEPT ![i] = v]) = Sum(f) + (v - f[i])
        BY <3>2, <4>1, StakeSumUpdate DEF f
      <4>3. QED
        BY <3>1, <4>1, <4>2 DEF f, v
    <3> HIDE DEF Sum
    <3>4. audit[o].redeemed \in Nat /\ campaign[o].total_funded \in Nat
      BY <1>0 DEF BookTypes
    <3>5. QED
      BY <1>2, <2>1, <2>2, <3>3, <3>4
  <2>3. CASE o # id
    <3>1. contribution'[o] = contribution[o]
      BY <1>0, <1>4, <2>3 DEF StakeAdded, BookTypes
    <3> HIDE DEF Sum
    <3>2. campaign[o].total_funded \in Nat
      BY <1>0 DEF BookTypes
    <3>3. QED
      BY <1>2, <2>1, <2>3, <3>1, <3>2
  <2>4. QED
    BY <2>2, <2>3
<1>5. ASSUME NEW id \in CampaignIds, NEW i \in Investors, StakeRedeemed(id, i)
      PROVE  /\ Sum(contribution'[o]) + audit'[o].redeemed = campaign'[o].total_funded
             /\ audit'[o].redeemed > 0 => Divided(o)'
  <2>1. UNCHANGED campaign
    BY <1>5 DEF StakeRedeemed
  <2>2. CASE o = id
    <3>1. /\ contribution'[o] = [contribution[o] EXCEPT ![i] = 0]
          /\ audit'[o].redeemed = audit[o].redeemed + contribution[o][i]
          /\ Divided(o)
      BY <1>0, <1>5, <2>2 DEF StakeRedeemed, BookTypes
    <3>2. contribution[o][i] \in Nat /\ contribution[o] \in [Investors -> Nat]
      BY <1>0 DEF BookTypes
    <3>3. Sum(contribution'[o]) = Sum(contribution[o]) - contribution[o][i]
      BY <1>2, <3>1, <3>2, StakeSumUpdate
    <3> HIDE DEF Sum
    <3>4. audit[o].redeemed \in Nat /\ campaign[o].total_funded \in Nat
      BY <1>0 DEF BookTypes
    <3>5. Sum(contribution'[o]) + audit'[o].redeemed = campaign'[o].total_funded
      BY <1>2, <2>1, <3>1, <3>2, <3>3, <3>4
    <3>6. QED
      BY <2>1, <3>1, <3>5 DEF Divided
  <2>3. CASE o # id
    <3>1. contribution'[o] = contribution[o] /\ audit'[o] = audit[o]
      BY <1>0, <1>5, <2>3 DEF StakeRedeemed, BookTypes
    <3> HIDE DEF Sum
    <3>2. QED
      BY <1>2, <2>1, <3>1 DEF Divided
  <2>4. QED
    BY <2>2, <2>3
<1>6. QED
  BY <1>3, <1>4, <1>5, BooksStep

\* total_funded, the denominator of every claim, is at every moment the sum of the
\* contributions not yet redeemed and of those redeemed.
THEOREM StakesBackTotals == Spec => []ContributionsBackTotal
<1>1. Init => ContributionsBackTotal
  <2> SUFFICES ASSUME Init PROVE ContributionsBackTotal
    OBVIOUS
  <2>1. \A id \in CampaignIds :
          /\ contribution[id] \in [Investors -> Nat] /\ \A i \in Investors : contribution[id][i] = 0
          /\ audit[id].redeemed = 0 /\ campaign[id].total_funded = 0
    BY DEF Init, NoCampaign
  <2>2. \A id \in CampaignIds : SumFunction(contribution[id]) = 0
    BY <2>1, StakeSum, SumOfZeros, FiniteScope
  <2>3. QED
    BY <2>1, <2>2 DEF ContributionsBackTotal
<1>2. IInv /\ IInv' /\ ContributionsBackTotal /\ [Next]_vars => ContributionsBackTotal'
  BY BackingStep
<1>3. QED
  BY <1>1, <1>2, Invariant, PTL DEF Spec

-----------------------------------------------------------------------------
(* What truncation loses. *)

\* Those who have no stake, or have none any more.
Unstaked(id) == {i \in Investors : contribution[id][i] = 0}

\* Each claim truncates once, and the claimant has no stake left: what was lost is
\* less than a unit for each investor without a stake.  Before the division nothing
\* is claimed.
ClaimsExact ==
  \A id \in CampaignIds :
    LET total == campaign[id].total_funded
        part  == Pool(id) * audit[id].redeemed
        given == total * audit[id].claimed
    IN  /\ ~Divided(id) => audit[id].redeemed = 0 /\ audit[id].claimed = 0
        /\ given <= part
        /\ part - given <= total * Cardinality(Unstaked(id))

\* One more claim, in numbers.
LEMMA OneMoreClaim ==
  ASSUME NEW T \in Nat, NEW P \in Nat, NEW R \in Nat, NEW C \in Nat, NEW Z \in Nat,
         NEW stake \in Nat, NEW share \in Nat,
         T * C <= P * R, P * R - T * C <= T * Z,
         share * T <= stake * P, stake * P < share * T + T
  PROVE  /\ T * (C + share) <= P * (R + stake)
         /\ P * (R + stake) - T * (C + share) <= T * (Z + 1)
<1>1. /\ T * (C + share) = T * C + share * T
      /\ P * (R + stake) = P * R + stake * P
      /\ T * (Z + 1) = T * Z + T
  BY SMT
<1>2. /\ T * C \in Int /\ P * R \in Int /\ T * Z \in Int
      /\ share * T \in Int /\ stake * P \in Int
  BY SMT
<1>3. QED
  BY <1>1, <1>2

\* With nothing redeemed nothing can be lost.
LEMMA NothingClaimed ==
  ASSUME NEW T \in Nat, NEW P \in Nat, NEW Z \in Nat
  PROVE  T * 0 <= P * 0 /\ P * 0 - T * 0 <= T * Z
  BY SMT

ClaimTypes ==
  \A o \in CampaignIds :
    /\ campaign[o].total_funded \in Nat /\ Pool(o) \in Nat
    /\ audit[o].redeemed \in Nat /\ audit[o].claimed \in Nat
    /\ IsFiniteSet(Unstaked(o)) /\ Cardinality(Unstaked(o)) \in Nat

\* The amounts a claim is computed from are naturals, and the investors finitely many.
LEMMA ClaimsTyped == IInv => ClaimTypes
<1> SUFFICES ASSUME IInv, NEW o \in CampaignIds
             PROVE  /\ campaign[o].total_funded \in Nat /\ Pool(o) \in Nat
                    /\ audit[o].redeemed \in Nat /\ audit[o].claimed \in Nat
                    /\ IsFiniteSet(Unstaked(o)) /\ Cardinality(Unstaked(o)) \in Nat
  BY DEF ClaimTypes
<1>1. IsFiniteSet(Unstaked(o)) /\ Cardinality(Unstaked(o)) \in Nat
  BY FiniteScope, FS_Subset, FS_CardinalityType DEF Unstaked
<1>2. campaign[o].total_funded \in Nat /\ Pool(o) \in Nat
  BY RecordFacts DEF Pool
<1>3. QED
  BY <1>1, <1>2 DEF IInv, TypeOK

\* A claim pays its truncated share and takes the claimant's stake.
LEMMA ExactStep ==
  ASSUME IInv, IInv', ClaimsExact, [Next]_vars
  PROVE  ClaimsExact'
<1>0. BookTypes /\ BookTypes' /\ ClaimTypes /\ ClaimTypes'
  <2>1. BookTypes /\ ClaimTypes
    BY BooksTyped, ClaimsTyped
  <2>2. BookTypes' /\ ClaimTypes'
    BY BooksTyped, ClaimsTyped, PTL
  <2>3. QED
    BY <2>1, <2>2
<1> DEFINE Exact(o) ==
             /\ campaign[o].total_funded * audit[o].claimed <= Pool(o) * audit[o].redeemed
             /\ Pool(o) * audit[o].redeemed - campaign[o].total_funded * audit[o].claimed
                  <= campaign[o].total_funded * Cardinality(Unstaked(o))
           Idle(o) == audit[o].redeemed = 0 /\ audit[o].claimed = 0
<1>1. SUFFICES ASSUME NEW o \in CampaignIds
               PROVE  (~Divided(o)' => Idle(o)') /\ Exact(o)'
  BY DEF ClaimsExact
<1>2. (~Divided(o) => Idle(o)) /\ Exact(o)
  BY DEF ClaimsExact
<1>3. ASSUME Idle(o)' PROVE (~Divided(o)' => Idle(o)') /\ Exact(o)'
  <2>1. /\ campaign'[o].total_funded \in Nat /\ Pool(o)' \in Nat
        /\ Cardinality(Unstaked(o)') \in Nat
    BY <1>0 DEF ClaimTypes
  <2>2. QED
    BY <1>3, <2>1, NothingClaimed
<1>4. ASSUME contribution'[o] = contribution[o], campaign'[o] = campaign[o],
             audit'[o].redeemed = audit[o].redeemed, audit'[o].claimed = audit[o].claimed
      PROVE  (~Divided(o)' => Idle(o)') /\ Exact(o)'
  BY <1>2, <1>4 DEF Divided, Pool, Unstaked
<1>5. CASE BooksKept
  <2>1. CASE Divided(o)
    BY <1>4, <1>5, <2>1 DEF BooksKept
  <2>2. CASE ~Divided(o)
    BY <1>2, <1>3, <1>5, <2>2 DEF BooksKept
  <2>3. QED
    BY <2>1, <2>2
<1>6. ASSUME NEW id \in CampaignIds, NEW i \in Investors, NEW amount \in Nat,
             StakeAdded(id, i, amount)
      PROVE  (~Divided(o)' => Idle(o)') /\ Exact(o)'
  <2>1. CASE Divided(o)
    <3>1. o # id
      BY <1>6, <2>1 DEF StakeAdded
    <3>2. contribution'[o] = contribution[o]
      BY <1>0, <1>6, <3>1 DEF StakeAdded, BookTypes
    <3>3. QED
      BY <1>4, <1>6, <2>1, <3>2 DEF StakeAdded
  <2>2. CASE ~Divided(o)
    BY <1>2, <1>3, <1>6, <2>2 DEF StakeAdded
  <2>3. QED
    BY <2>1, <2>2
<1>7. ASSUME NEW id \in CampaignIds, NEW i \in Investors, StakeRedeemed(id, i)
      PROVE  (~Divided(o)' => Idle(o)') /\ Exact(o)'
  <2>1. campaign' = campaign
    BY <1>7 DEF StakeRedeemed
  <2>2. CASE o # id
    <3>1. contribution'[o] = contribution[o] /\ audit'[o] = audit[o]
      BY <1>0, <1>7, <2>2 DEF StakeRedeemed, BookTypes
    <3>2. QED
      BY <1>4, <2>1, <3>1
  <2>3. CASE o = id
    <3>1. /\ contribution'[o] = [contribution[o] EXCEPT ![i] = 0]
          /\ audit'[o].redeemed = audit[o].redeemed + contribution[o][i]
          /\ audit'[o].claimed = audit[o].claimed + Share(o, i)
          /\ Divided(o) /\ contribution[o][i] > 0
      BY <1>0, <1>7, <2>3 DEF StakeRedeemed, BookTypes
    <3>2. Unstaked(o)' = Unstaked(o) \cup {i} /\ i \notin Unstaked(o)
      BY <1>0, <3>1 DEF Unstaked, BookTypes
    <3>3. Cardinality(Unstaked(o)') = Cardinality(Unstaked(o)) + 1
      BY <1>0, <3>2, FS_AddElement DEF ClaimTypes
    <3>4. /\ contribution[o][i] \in Nat /\ Share(o, i) \in Nat
          /\ Share(o, i) * campaign[o].total_funded <= contribution[o][i] * Pool(o)
          /\ contribution[o][i] * Pool(o)
               < Share(o, i) * campaign[o].total_funded + campaign[o].total_funded
      BY <3>1, ShareFacts
    <3>5. Pool(o)' = Pool(o) /\ Divided(o)'
      BY <2>1, <3>1 DEF Pool, Divided
    <3> DEFINE T == campaign[o].total_funded
               P == Pool(o)
               R == audit[o].redeemed
               C == audit[o].claimed
               Z == Cardinality(Unstaked(o))
               stake == contribution[o][i]
               share == Share(o, i)
    <3>6. T \in Nat /\ P \in Nat /\ R \in Nat /\ C \in Nat /\ Z \in Nat
      BY <1>0 DEF ClaimTypes
    <3>7. T * C <= P * R /\ P * R - T * C <= T * Z
      BY <1>2
    <3> HIDE DEF T, P, R, C, Z, stake, share
    <3>8. /\ T * (C + share) <= P * (R + stake)
          /\ P * (R + stake) - T * (C + share) <= T * (Z + 1)
      BY <3>4, <3>6, <3>7, OneMoreClaim DEF T, P, stake, share
    <3>9. Exact(o)'
      BY <2>1, <3>1, <3>3, <3>5, <3>8 DEF T, P, R, C, Z, stake, share
    <3>10. QED
      BY <3>5, <3>9
  <2>4. QED
    BY <2>2, <2>3
<1>8. QED
  BY <1>5, <1>6, <1>7, BooksStep

\* Truncating division never pays out more than the pool's part for what was
\* redeemed, and loses less than one unit per investor, in any order of claims.
THEOREM ClaimsStayWithinPool == Spec => []ClaimsWithinPool
<1>1. Init => ClaimsExact
  <2> SUFFICES ASSUME Init, NEW id \in CampaignIds
               PROVE  /\ audit[id].redeemed = 0 /\ audit[id].claimed = 0
                      /\ campaign[id].total_funded = 0 /\ Pool(id) = 0
                      /\ 0 * Cardinality(Unstaked(id)) = 0
    BY DEF ClaimsExact
  <2>1. Cardinality(Unstaked(id)) \in Nat
    BY FiniteScope, FS_Subset, FS_CardinalityType DEF Unstaked
  <2>2. QED
    BY <2>1 DEF Init, NoCampaign, Pool
<1>2. IInv /\ IInv' /\ ClaimsExact /\ [Next]_vars => ClaimsExact'
  BY ExactStep
<1>3. IInv /\ ClaimsExact => ClaimsWithinPool
  <2> SUFFICES ASSUME IInv, ClaimsExact, NEW id \in CampaignIds
               PROVE  LET total == campaign[id].total_funded
                          part  == Pool(id) * audit[id].redeemed
                          paid  == total * audit[id].claimed
                      IN  paid <= part /\ part - paid <= total * Cardinality(Investors)
    BY DEF ClaimsWithinPool
  <2> DEFINE T == campaign[id].total_funded
             Z == Cardinality(Unstaked(id))
             N == Cardinality(Investors)
  <2>1. T \in Nat /\ Z \in Nat /\ N \in Nat /\ Z <= N
    BY ClaimsTyped, FiniteScope, FS_Subset, FS_CardinalityType DEF ClaimTypes, Unstaked
  <2>2. T * Z <= T * N /\ T * Z \in Int /\ T * N \in Int
    <3> HIDE DEF T, Z, N
    <3>1. QED
      BY <2>1, SMT
  <2>3. Pool(id) * audit[id].redeemed \in Int /\ T * audit[id].claimed \in Int
    <3>1. Pool(id) \in Nat /\ audit[id].redeemed \in Nat /\ audit[id].claimed \in Nat
      BY ClaimsTyped DEF ClaimTypes
    <3> HIDE DEF T
    <3>2. QED
      BY <2>1, <3>1
  <2>4. /\ T * audit[id].claimed <= Pool(id) * audit[id].redeemed
        /\ Pool(id) * audit[id].redeemed - T * audit[id].claimed <= T * Z
    BY DEF ClaimsExact
  <2> HIDE DEF T, Z, N
  <2>5. QED
    BY <2>2, <2>3, <2>4 DEF T, N
<1>4. QED
  BY <1>1, <1>2, <1>3, Invariant, PTL DEF Spec

-----------------------------------------------------------------------------
(* The tranche schedules. *)

Early(c) == c.status \in {"Absent", "Active", "Funding"}

Marked(list) == {i \in DOMAIN list : list[i].released}

\* One campaign's part of the invariant: a schedule is configured once the campaign
\* is funded, and while tranches can be released it accounts for the funds.
ScheduleOf(c, list) ==
  /\ Early(c) => list = <<>>
  /\ c.status \in {"Funded", "InProduction"} /\ list # <<>> =>
       /\ c.released <= SumFunctionOnSet(AmountsOf(list), Marked(list))
       /\ SumFunctionOnSet(AmountsOf(list), DOMAIN list \ Marked(list)) <= EscrowHeld(c)

Schedules == \A id \in CampaignIds : ScheduleOf(campaign[id], tranches[id])

\* A step that keeps a schedule, and rewrites the record only before there is one or
\* when no tranche can be released any more.
LeavesSchedule(o) ==
  /\ tranches'[o] = tranches[o]
  /\ \/ campaign'[o] = campaign[o]
     \/ Early(campaign[o])
     \/ campaign'[o].status \in {"Harvested", "Settled", "Disputed", "Resolved", "Failed"}

\* Such a step keeps the campaign's part of the invariant.
LEMMA LeftScheduleHolds ==
  ASSUME NEW o \in CampaignIds, LeavesSchedule(o), ScheduleOf(campaign[o], tranches[o])
  PROVE  ScheduleOf(campaign'[o], tranches'[o])
  BY DEF LeavesSchedule, ScheduleOf, Early

\* A schedule has finitely many entries, of natural amounts.
LEMMA ScheduleTypes ==
  ASSUME NEW list \in Seq(Tranche)
  PROVE  /\ DOMAIN list = 1 .. Len(list) /\ IsFiniteSet(DOMAIN list)
         /\ DOMAIN AmountsOf(list) = DOMAIN list
         /\ \A i \in DOMAIN list : /\ list[i] \in Tranche
                                   /\ AmountsOf(list)[i] = list[i].amount
                                   /\ AmountsOf(list)[i] \in Int
<1>1. DOMAIN list = 1 .. Len(list) /\ Len(list) \in Nat
  OBVIOUS
<1>2. IsFiniteSet(1 .. Len(list))
  BY <1>1, FS_Interval
<1>3. \A i \in DOMAIN list : list[i] \in Tranche
  BY <1>1
<1>4. \A i \in DOMAIN list : list[i].amount \in Int
  BY <1>3 DEF Tranche
<1>5. QED
  BY <1>1, <1>2, <1>3, <1>4 DEF AmountsOf

\* configure_tranches starts a schedule before anything was released: whatever the
\* flags it comes with, the whole of it is covered.
LEMMA ConfiguredSchedule ==
  ASSUME IInv, NEW id \in CampaignIds, NEW list \in TrancheLists, ConfigureTranches(id, list)
  PROVE  ScheduleOf(campaign'[id], tranches'[id])
<1> DEFINE c == campaign[id]
           f == AmountsOf(list)
           D == DOMAIN list
           M == Marked(list)
<1>1. /\ c.status = "Funded" /\ campaign' = campaign
      /\ tranches' = [tranches EXCEPT ![id] = list]
      /\ TrancheSum(list) <= c.total_funded
      /\ \A i \in DOMAIN list : list[i].amount > 0
  BY DEF ConfigureTranches
<1>2. tranches'[id] = list /\ campaign'[id] = c
  BY <1>1 DEF IInv, TypeOK
<1>3. c.released = 0 /\ EscrowHeld(c) = c.total_funded /\ c.total_funded \in Nat
  <2>1. /\ c.total_funded \in Nat /\ c.released \in Nat
        /\ c.refundable = 0 /\ c.returnable = 0 /\ PoolsAgree(c)
    BY <1>1, RecordFacts DEF IInv, GoodCampaign
  <2>2. QED
    BY <1>1, <2>1 DEF PoolsAgree, EscrowHeld
<1>4. list \in Seq(Tranche) /\ M \subseteq D /\ D \ M \subseteq D
  BY TrancheListsType DEF Marked
<1>5. /\ IsFiniteSet(D) /\ DOMAIN f = D
      /\ \A i \in D : f[i] \in Nat
  BY <1>1, <1>4, ScheduleTypes
<1>6. IsFiniteSet(M) /\ IsFiniteSet(D \ M)
  BY <1>4, <1>5, FS_Subset
<1>7. TrancheSum(list) = SumFunctionOnSet(f, D)
  BY <1>5 DEF TrancheSum, SumFunction
<1>8. ~Early(c)
  BY <1>1 DEF Early
<1> HIDE DEF f, D, M
<1>9. 0 <= SumFunctionOnSet(f, M) /\ SumFunctionOnSet(f, M) \in Int
  <2>1. \A i \in M : f[i] \in Nat
    BY <1>4, <1>5
  <2>2. QED
    BY <1>6, <2>1, SumType
<1>10. SumFunctionOnSet(f, D \ M) <= SumFunctionOnSet(f, D)
       /\ SumFunctionOnSet(f, D \ M) \in Int /\ SumFunctionOnSet(f, D) \in Int
  <2>1. SumFunctionOnSet(f, D \ M) <= SumFunctionOnSet(f, D)
    BY <1>4, <1>5, SumSubset
  <2>2. \A i \in D \ M : f[i] \in Int
    BY <1>4, <1>5
  <2>3. QED
    BY <1>5, <1>6, <2>1, <2>2, SumType
<1> HIDE DEF c
<1>11. /\ c.released <= SumFunctionOnSet(f, M)
       /\ SumFunctionOnSet(f, D \ M) <= EscrowHeld(c)
  BY <1>1, <1>3, <1>7, <1>9, <1>10
<1>12. QED
  BY <1>2, <1>8, <1>11 DEF ScheduleOf, f, D, M

\* release_tranche moves one entry from what is pending to what was released.
LEMMA ReleasedSchedule ==
  ASSUME IInv, NEW id \in CampaignIds, NEW recipient \in Farmers, NEW amount \in Amounts,
         ReleaseTranche(id, recipient, amount), ScheduleOf(campaign[id], tranches[id])
  PROVE  ScheduleOf(campaign'[id], tranches'[id])
<1> DEFINE c == campaign[id]
           d == campaign'[id]
           list == tranches[id]
<1>1. /\ c.status \in {"Funded", "InProduction"} /\ amount \in Int
      /\ campaign' = [campaign EXCEPT ![id] = [c EXCEPT !.status = "InProduction",
                                                        !.released = c.released + amount]]
  BY EscrowConstants DEF ReleaseTranche
<1>2. /\ d.status = "InProduction" /\ d.released = c.released + amount
      /\ EscrowHeld(d) = EscrowHeld(c) - amount
  <2>1. /\ campaign \in [CampaignIds -> Campaign] /\ c \in Campaign
        /\ c.total_funded \in Nat /\ c.released \in Nat
        /\ c.refundable \in Nat /\ c.returnable \in Nat
    BY RecordFacts
  <2>2. d = [c EXCEPT !.status = "InProduction", !.released = c.released + amount]
    BY <1>1, <2>1
  <2> HIDE DEF c, d
  <2>3. /\ d.status = "InProduction" /\ d.released = c.released + amount
        /\ d.total_funded = c.total_funded /\ d.refundable = c.refundable
        /\ d.returnable = c.returnable
    BY <2>1, <2>2 DEF Campaign
  <2>4. QED
    BY <1>1, <2>1, <2>3 DEF EscrowHeld
<1>3. tranches \in [CampaignIds -> Seq(Tranche)] /\ list \in Seq(Tranche)
  BY DEF IInv, TypeOK
<1>4. CASE list = <<>>
  <2>1. tranches'[id] = <<>>
    <3>1. FirstReleasable(list, amount) = {}
      BY <1>4 DEF FirstReleasable, Releasable
    <3>2. QED
      BY <1>4, <3>1 DEF ReleaseTranche
  <2>2. QED
    BY <2>1 DEF ScheduleOf
<1>5. CASE list # <<>>
  <2>1. PICK i \in FirstReleasable(list, amount) :
          tranches' = [tranches EXCEPT ![id][i].released = TRUE]
    BY <1>5 DEF ReleaseTranche
  <2> DEFINE next == [list EXCEPT ![i].released = TRUE]
             f == AmountsOf(list)
             M == Marked(list)
             D == DOMAIN list
  <2>2. i \in D /\ ~list[i].released /\ list[i].amount = amount
    BY <2>1 DEF FirstReleasable, Releasable
  <2>3. tranches'[id] = next
    BY <1>3, <2>1
  <2>4. /\ DOMAIN next = D
        /\ \A j \in D : next[j].amount = list[j].amount
        /\ \A j \in D : next[j].released <=> list[j].released \/ j = i
    <3>1. list[i] \in Tranche
      BY <1>3, <2>2, ScheduleTypes
    <3>2. [list[i] EXCEPT !.released = TRUE].amount = list[i].amount
          /\ [list[i] EXCEPT !.released = TRUE].released = TRUE
      BY <3>1 DEF Tranche
    <3>3. DOMAIN next = D /\ next[i] = [list[i] EXCEPT !.released = TRUE]
          /\ \A j \in D \ {i} : next[j] = list[j]
      BY <2>2
    <3>4. QED
      BY <3>2, <3>3
  <2> HIDE DEF next
  <2>5. AmountsOf(next) = f /\ Marked(next) = M \cup {i}
    BY <2>2, <2>4 DEF AmountsOf, Marked
  <2>6. i \notin M /\ M \subseteq D
    BY <2>2 DEF Marked
  <2>7. /\ IsFiniteSet(D) /\ \A j \in D : f[j] \in Int
        /\ f[i] = amount
    BY <1>3, <2>2, ScheduleTypes
  <2>8. IsFiniteSet(M \cup {i}) /\ IsFiniteSet(D \ M)
    <3>1. M \cup {i} \subseteq D /\ D \ M \subseteq D
      BY <2>2, <2>6
    <3>2. QED
      BY <2>7, <3>1, FS_Subset
  <2> HIDE DEF D, M, f
  <2>9. SumFunctionOnSet(f, M \cup {i}) = amount + SumFunctionOnSet(f, M)
    <3>1. (M \cup {i}) \ {i} = M /\ i \in M \cup {i} /\ \A j \in M \cup {i} : f[j] \in Int
      BY <2>2, <2>6, <2>7
    <3>2. SumFunctionOnSet(f, M \cup {i})
            = f[i] + SumFunctionOnSet(f, (M \cup {i}) \ {i})
      BY <2>8, <3>1, SumTakeOut
    <3>3. QED
      BY <3>1, <3>2, <2>7
  <2>10. /\ SumFunctionOnSet(f, D \ M)
              = amount + SumFunctionOnSet(f, D \ (M \cup {i}))
         /\ SumFunctionOnSet(f, D \ (M \cup {i})) \in Int
    <3>1. (D \ M) \ {i} = D \ (M \cup {i}) /\ i \in D \ M /\ \A j \in D \ M : f[j] \in Int
      BY <2>2, <2>6, <2>7
    <3>2. /\ SumFunctionOnSet(f, D \ M) = f[i] + SumFunctionOnSet(f, (D \ M) \ {i})
          /\ SumFunctionOnSet(f, (D \ M) \ {i}) \in Int
      BY <2>8, <3>1, SumTakeOut
    <3>3. QED
      BY <3>1, <3>2, <2>7
  <2>11. /\ c.released <= SumFunctionOnSet(f, M)
         /\ SumFunctionOnSet(f, D \ M) <= EscrowHeld(c)
    BY <1>1, <1>5 DEF ScheduleOf, f, M, D
  <2>12. c.released \in Int /\ EscrowHeld(c) \in Int
    BY RecordFacts
  <2> HIDE DEF c, d
  <2>13. /\ d.released <= SumFunctionOnSet(f, M \cup {i})
         /\ SumFunctionOnSet(f, D \ (M \cup {i})) <= EscrowHeld(d)
    <3>1. SumFunctionOnSet(f, M) \in Int
      BY <2>6, <2>7, SumType, FS_Subset
    <3>2. QED
      BY <1>1, <1>2, <2>9, <2>10, <2>11, <2>12, <3>1
  <2>14. QED
    BY <1>2, <2>3, <2>4, <2>5, <2>13 DEF ScheduleOf, Early, D, d
<1>6. QED
  BY <1>4, <1>5

\* Every other step leaves every schedule.
LEMMA SchedulesStep ==
  ASSUME IInv, Schedules, [Next]_vars
  PROVE  Schedules'
<1>0. campaign \in [CampaignIds -> Campaign] /\ tranches \in [CampaignIds -> Seq(Tranche)]
  BY DEF IInv, TypeOK
<1>1. SUFFICES ASSUME NEW o \in CampaignIds PROVE ScheduleOf(campaign'[o], tranches'[o])
  BY DEF Schedules
<1>2. ScheduleOf(campaign[o], tranches[o])
  BY DEF Schedules
<1>3. CASE LeavesSchedule(o)
  BY <1>2, <1>3, LeftScheduleHolds
<1>4. CASE UNCHANGED <<campaign, tranches>>
  BY <1>3, <1>4 DEF LeavesSchedule
<1>5. ASSUME NEW id \in CampaignIds, Contribute(id) PROVE LeavesSchedule(o)
  <2>1. Early(campaign[id]) /\ \E d : campaign' = [campaign EXCEPT ![id] = d]
        /\ UNCHANGED tranches
    BY <1>5 DEF Contribute, FundCampaign, ReceiveContribution, CanContribute, Accepting, Early
  <2>2. QED
    BY <1>0, <2>1 DEF LeavesSchedule
<1>6. ASSUME NEW id \in CampaignIds, NEW list \in TrancheLists, ConfigureTranches(id, list)
      PROVE  ScheduleOf(campaign'[o], tranches'[o])
  <2>1. CASE o = id
    BY <1>6, <2>1, ConfiguredSchedule
  <2>2. CASE o # id
    <3>1. LeavesSchedule(o)
      BY <1>0, <1>6, <2>2 DEF ConfigureTranches, LeavesSchedule
    <3>2. QED
      BY <3>1, <1>3
  <2>3. QED
    BY <2>1, <2>2
<1>7. ASSUME NEW id \in CampaignIds, NEW recipient \in Farmers, NEW amount \in Amounts,
             ReleaseTranche(id, recipient, amount)
      PROVE  ScheduleOf(campaign'[o], tranches'[o])
  <2>1. CASE o = id
    BY <1>2, <1>7, <2>1, ReleasedSchedule
  <2>2. CASE o # id
    <3>1. /\ campaign'[o] = campaign[o]
          /\ tranches' = tranches \/ \E t : tranches' = [tranches EXCEPT ![id] = t]
      BY <1>0, <1>7, <2>2 DEF ReleaseTranche
    <3>2. LeavesSchedule(o)
      BY <1>0, <2>2, <3>1 DEF LeavesSchedule
    <3>3. QED
      BY <3>2, <1>3
  <2>3. QED
    BY <2>1, <2>2
<1>8. ASSUME NEW id \in CampaignIds,
             \/ \E f \in Farmers, target \in Amounts, t \in Tokens, dl \in 0 .. MaxTime :
                  CreateCampaign(id, f, target, t, dl)
             \/ \E total \in Amounts : CompleteFunding(id, total)
      PROVE  LeavesSchedule(o)
  <2>1. Early(campaign[id]) /\ \E d : campaign' = [campaign EXCEPT ![id] = d]
        /\ UNCHANGED tranches
    BY <1>8 DEF CreateCampaign, Exists, CompleteFunding, Accepting, Early
  <2>2. QED
    BY <1>0, <2>1 DEF LeavesSchedule
<1>9. \A c \in Campaign : \A r, f, n, st :
        /\ [c EXCEPT !.status = st].status = st
        /\ [c EXCEPT !.released = r, !.refundable = f, !.status = st].status = st
        /\ [c EXCEPT !.released = r, !.returnable = n, !.status = st].status = st
        /\ [c EXCEPT !.refundable = f, !.status = st].status = st
  BY DEF Campaign
<1>10. ASSUME NEW id \in CampaignIds,
              \/ \E reporter \in Accounts : ReportHarvest(id, reporter)
              \/ \E opener \in Accounts : OpenDispute(id, opener)
              \/ \E payee \in Farmers, payout \in Amounts : SettleCampaign(id, payee, payout)
              \/ \E resolution \in DisputeResolution, payout \in Amounts :
                   ResolveDispute(id, resolution, payout)
              \/ MarkFailed(id) \/ ExpireCampaign(id)
       PROVE  LeavesSchedule(o)
  <2> DEFINE c == campaign[id]
             held == EscrowHeld(c)
  <2>0. c \in Campaign
    BY <1>0
  <2>1. ASSUME NEW reporter \in Accounts, ReportHarvest(id, reporter) PROVE LeavesSchedule(o)
    <3> DEFINE next == [c EXCEPT !.status = "Harvested"]
    <3>1. campaign' = [campaign EXCEPT ![id] = next] /\ UNCHANGED tranches
      BY <2>1 DEF ReportHarvest
    <3>2. next.status = "Harvested"
      BY <2>0, <1>9
    <3> HIDE DEF next
    <3>3. QED
      BY <1>0, <3>1, <3>2 DEF LeavesSchedule
  <2>2. ASSUME NEW opener \in Accounts, OpenDispute(id, opener) PROVE LeavesSchedule(o)
    <3> DEFINE next == [c EXCEPT !.status = "Disputed"]
    <3>1. campaign' = [campaign EXCEPT ![id] = next] /\ UNCHANGED tranches
      BY <2>2 DEF OpenDispute
    <3>2. next.status = "Disputed"
      BY <2>0, <1>9
    <3> HIDE DEF next
    <3>3. QED
      BY <1>0, <3>1, <3>2 DEF LeavesSchedule
  <2>3. ASSUME NEW payee \in Farmers, NEW payout \in Amounts, SettleCampaign(id, payee, payout)
        PROVE  LeavesSchedule(o)
    <3> DEFINE next == [c EXCEPT !.released = c.released + payout,
                            !.returnable = c.returnable + (held - payout),
                            !.status = "Settled"]
    <3>1. campaign' = [campaign EXCEPT ![id] = next] /\ UNCHANGED tranches
      BY <2>3 DEF SettleCampaign
    <3>2. next.status = "Settled"
      BY <2>0, <1>9
    <3> HIDE DEF next
    <3>3. QED
      BY <1>0, <3>1, <3>2 DEF LeavesSchedule
  <2>4. ASSUME NEW resolution \in DisputeResolution, NEW payout \in Amounts,
               ResolveDispute(id, resolution, payout)
        PROVE  LeavesSchedule(o)
    <3> DEFINE share == FarmerShare(resolution, payout, held)
           next  == [c EXCEPT !.released = c.released + share,
                            !.refundable = c.refundable + (held - share),
                            !.status = "Resolved"]
    <3>1. campaign' = [campaign EXCEPT ![id] = next] /\ UNCHANGED tranches
      BY <2>4 DEF ResolveDispute
    <3>2. next.status = "Resolved"
      BY <2>0, <1>9
    <3> HIDE DEF next
    <3>3. QED
      BY <1>0, <3>1, <3>2 DEF LeavesSchedule
  <2>5. CASE MarkFailed(id) \/ ExpireCampaign(id)
    <3> DEFINE next == [c EXCEPT !.refundable = c.refundable + held, !.status = "Failed"]
    <3>1. campaign' = [campaign EXCEPT ![id] = next] /\ UNCHANGED tranches
      BY <2>5 DEF MarkFailed, ExpireCampaign
    <3>2. next.status = "Failed"
      BY <2>0, <1>9
    <3> HIDE DEF next
    <3>3. QED
      BY <1>0, <3>1, <3>2 DEF LeavesSchedule
  <2>6. QED
    BY <1>10, <2>1, <2>2, <2>3, <2>4, <2>5
<1>11. ASSUME NEW id \in CampaignIds, NEW i \in Investors,
              ClaimRefund(id, i) \/ ClaimReturn(id, i)
       PROVE  LeavesSchedule(o)
  BY <1>11 DEF ClaimRefund, ClaimReturn, PayShare, LeavesSchedule
<1>12. ASSUME NEW id \in CampaignIds, Contribute(id) \/ Manage(id) \/ Unwind(id)
       PROVE  ScheduleOf(campaign'[o], tranches'[o])
  BY <1>3, <1>5, <1>6, <1>7, <1>8, <1>10, <1>11, <1>12 DEF Manage, Unwind
<1>13. CASE UNCHANGED vars
  BY <1>4, <1>13 DEF vars
<1>14. CASE \/ \E a \in Admins : Initialize(a)
            \/ \E r \in Registries : SetRegistry(r)
            \/ Tick
            \/ \E t \in Tokens, amount \in Amounts : Deposit(t, amount)
  BY <1>4, <1>14 DEF Initialize, SetRegistry, Tick, Deposit
<1>15. QED
  BY <1>12, <1>13, <1>14 DEF Next

\* A configured schedule accounts for all that was released, and the funds held cover
\* every tranche still to be released, however often it was reconfigured and whatever
\* flags it was submitted with.
THEOREM SchedulesStayCovered == Spec => []TrancheScheduleCovered
<1>1. Init => Schedules
  BY DEF Init, NoCampaign, Schedules, ScheduleOf
<1>2. IInv /\ Schedules /\ [Next]_vars => Schedules'
  BY SchedulesStep
<1>3. Schedules => TrancheScheduleCovered
  BY DEF Schedules, ScheduleOf, TrancheScheduleCovered, Marked
<1>4. QED
  BY <1>1, <1>2, <1>3, Invariant, PTL DEF Spec

-----------------------------------------------------------------------------
(* Campaigns that share a token. *)

On(t) == {id \in CampaignIds : campaign[id].token_address = t}

OwedAll == [id \in CampaignIds |-> Owed(id)]

ReconciledAll == [id \in CampaignIds |-> audit[id].reconciled]

\* The property at one token.
CoveredAt(t) ==
  SumFunctionOnSet(OwedAll, On(t)) <= vault[t] + SumFunctionOnSet(ReconciledAll, On(t))

\* What every state says of the amounts the bound relates.
DebtTypes ==
  \A o \in CampaignIds :
    /\ OwedAll[o] = campaign[o].total_funded - campaign[o].released - audit[o].claimed
    /\ OwedAll[o] \in Int /\ ReconciledAll[o] \in Nat
    /\ ReconciledAll[o] = audit[o].reconciled
    /\ campaign[o].total_funded \in Nat /\ campaign[o].released \in Nat
    /\ audit[o].claimed \in Nat
    /\ Exists(o) <=> campaign[o].token_address \in Tokens

\* They follow from the invariant.
LEMMA DebtsTyped == IInv => DebtTypes
<1> SUFFICES ASSUME IInv, NEW o \in CampaignIds
             PROVE  /\ OwedAll[o] =
                         campaign[o].total_funded - campaign[o].released - audit[o].claimed
                    /\ OwedAll[o] \in Int /\ ReconciledAll[o] \in Nat
                    /\ ReconciledAll[o] = audit[o].reconciled
                    /\ campaign[o].total_funded \in Nat /\ campaign[o].released \in Nat
                    /\ audit[o].claimed \in Nat
                    /\ Exists(o) <=> campaign[o].token_address \in Tokens
  BY DEF DebtTypes
<1>1. OwedAll[o] = Out(campaign[o], audit[o].claimed)
  BY OwedIsOut DEF OwedAll
<1>2. /\ audit[o].claimed \in Nat /\ audit[o].reconciled \in Nat /\ GoodCampaign(campaign[o])
      /\ campaign[o].total_funded \in Nat /\ campaign[o].released \in Nat
  BY RecordFacts DEF IInv, TypeOK
<1>3. Exists(o) <=> campaign[o].token_address \in Tokens
  BY <1>2, EscrowConstants DEF GoodCampaign, Exists
<1>4. QED
  BY <1>1, <1>2, <1>3 DEF Out, ReconciledAll

\* A contribution raises the debt by what it brings or what it reconciles; a payment
\* lowers debt and balance alike; a release or a failure lowers debts; and a new
\* campaign owes nothing: the bound of every token survives each of them.
LEMMA CoveredStep ==
  ASSUME IInv, IInv', [Next]_vars, NEW t \in Tokens, CoveredAt(t)
  PROVE  CoveredAt(t)'
<1> DEFINE owed == OwedAll
           owedN == OwedAll'
           rec  == ReconciledAll
           recN == ReconciledAll'
           on   == On(t)
<1>a. DebtTypes /\ DebtTypes'
  <2>1. DebtTypes
    BY DebtsTyped
  <2>2. DebtTypes'
    BY DebtsTyped, PTL
  <2>3. QED
    BY <2>1, <2>2
<1>b. /\ \A o \in CampaignIds :
           /\ owed[o] = campaign[o].total_funded - campaign[o].released - audit[o].claimed
           /\ owedN[o] = campaign'[o].total_funded - campaign'[o].released - audit'[o].claimed
           /\ rec[o] = audit[o].reconciled /\ recN[o] = audit'[o].reconciled
           /\ owed[o] \in Int /\ owedN[o] \in Int /\ rec[o] \in Int /\ recN[o] \in Int
           /\ campaign[o].total_funded \in Int /\ campaign[o].released \in Int
           /\ audit[o].claimed \in Int
           /\ campaign'[o].total_funded \in Int /\ campaign'[o].released \in Int
           /\ audit'[o].claimed \in Nat /\ recN[o] \in Nat
           /\ Exists(o) <=> campaign[o].token_address \in Tokens
  BY <1>a DEF DebtTypes
<1>c. /\ vault[t] \in Int /\ vault'[t] \in Int
      /\ campaign \in [CampaignIds -> Campaign]
  BY DEF IInv, TypeOK
<1>d. IsFiniteSet(on) /\ on \subseteq CampaignIds
  BY FiniteScope, FS_Subset DEF On
<1>e. \A o \in on : owed[o] \in Int /\ owedN[o] \in Int /\ rec[o] \in Int /\ recN[o] \in Int
  BY <1>b, <1>d
<1>s. /\ SumFunctionOnSet(owed, on) \in Int /\ SumFunctionOnSet(rec, on) \in Int
      /\ SumFunctionOnSet(owedN, on) \in Int /\ SumFunctionOnSet(recN, on) \in Int
  BY <1>d, <1>e, SumType
<1>f. SumFunctionOnSet(owed, on) <= vault[t] + SumFunctionOnSet(rec, on)
  BY DEF CoveredAt
<1>g. ASSUME \A o \in CampaignIds : campaign'[o].token_address = campaign[o].token_address,
             SumFunctionOnSet(owedN, on) <= vault'[t] + SumFunctionOnSet(recN, on)
      PROVE  CoveredAt(t)'
  <2>1. On(t)' = on
    BY <1>g DEF On
  <2>2. QED
    BY <1>g, <2>1 DEF CoveredAt
<1>m. \A o \in CampaignIds : o \in on <=> campaign[o].token_address = t
  BY DEF On
<1> HIDE DEF owed, owedN, rec, recN, on
<1>1. CASE Holds
  <2>1. \A o \in CampaignIds : /\ owedN[o] <= owed[o] /\ recN[o] = rec[o]
                               /\ campaign'[o].token_address = campaign[o].token_address
    BY <1>1, <1>b DEF Holds, NothingReconciled
  <2>2. SumFunctionOnSet(owedN, on) <= SumFunctionOnSet(owed, on)
    BY <1>d, <1>e, <2>1, SumMonotone
  <2>3. SumFunctionOnSet(recN, on) = SumFunctionOnSet(rec, on)
    BY <1>d, <2>1, SumCongruence
  <2>4. vault'[t] >= vault[t]
    BY <1>1 DEF Holds
  <2>5. QED
    BY <1>c, <1>f, <1>g, <1>s, <2>1, <2>2, <2>3, <2>4
<1>2. ASSUME NEW id \in CampaignIds, Funds(id) PROVE CoveredAt(t)'
  <2>1. PICK amount \in Nat :
          /\ campaign'[id].total_funded = campaign[id].total_funded + amount
          /\ campaign'[id].released = campaign[id].released
          /\ Backed(id, campaign[id].token_address, amount)
    BY <1>2 DEF Funds
  <2>2. /\ \A o \in CampaignIds : campaign'[o].token_address = campaign[o].token_address
        /\ \A o \in CampaignIds \ {id} : campaign'[o] = campaign[o]
        /\ \A o \in CampaignIds : audit'[o].claimed = audit[o].claimed
    BY <1>2, <1>c DEF Funds, Rewrites
  <2>3. /\ owedN[id] = owed[id] + amount
        /\ \A o \in CampaignIds \ {id} : owedN[o] = owed[o]
    BY <1>b, <2>1, <2>2
  <2>4. \/ /\ vault'[t] = vault[t] + (IF id \in on THEN amount ELSE 0)
           /\ \A o \in CampaignIds : recN[o] = rec[o]
        \/ /\ vault'[t] = vault[t]
           /\ \A o \in CampaignIds : recN[o] = rec[o] + (IF o = id THEN amount ELSE 0)
    BY <1>b, <1>m, <2>1 DEF Backed, NothingReconciled
  <2>5. SumFunctionOnSet(owedN, on)
          = SumFunctionOnSet(owed, on) + (IF id \in on THEN amount ELSE 0)
    <3>1. CASE id \in on
      <4>1. SumFunctionOnSet(owedN, on) = SumFunctionOnSet(owed, on) + (owedN[id] - owed[id])
        BY <1>d, <1>e, <2>3, <3>1, SumUpdate
      <4>2. QED
        BY <1>b, <1>s, <2>3, <3>1, <4>1
    <3>2. CASE id \notin on
      <4>1. SumFunctionOnSet(owedN, on) = SumFunctionOnSet(owed, on)
        BY <1>d, <2>3, <3>2, SumCongruence
      <4>2. QED
        BY <1>s, <3>2, <4>1
    <3>3. QED
      BY <3>1, <3>2
  <2>6. CASE /\ vault'[t] = vault[t] + (IF id \in on THEN amount ELSE 0)
             /\ \A o \in CampaignIds : recN[o] = rec[o]
    <3>1. SumFunctionOnSet(recN, on) = SumFunctionOnSet(rec, on)
      BY <1>d, <2>6, SumCongruence
    <3>2. QED
      BY <1>c, <1>f, <1>g, <1>s, <2>2, <2>5, <2>6, <3>1
  <2>7. CASE /\ vault'[t] = vault[t]
             /\ \A o \in CampaignIds : recN[o] = rec[o] + (IF o = id THEN amount ELSE 0)
    <3>0. /\ recN[id] = rec[id] + amount
          /\ \A o \in CampaignIds \ {id} : recN[o] = rec[o]
      BY <1>b, <2>7
    <3>1. SumFunctionOnSet(recN, on)
            = SumFunctionOnSet(rec, on) + (IF id \in on THEN amount ELSE 0)
      <4>1. CASE id \in on
        <5>1. SumFunctionOnSet(recN, on) = SumFunctionOnSet(rec, on) + (recN[id] - rec[id])
          BY <1>d, <1>e, <3>0, <4>1, SumUpdate
        <5>2. QED
          BY <1>b, <1>s, <3>0, <4>1, <5>1
      <4>2. CASE id \notin on
        <5>1. SumFunctionOnSet(recN, on) = SumFunctionOnSet(rec, on)
          BY <1>d, <3>0, <4>2, SumCongruence
        <5>2. QED
          BY <1>s, <4>2, <5>1
      <4>3. QED
        BY <4>1, <4>2
    <3>2. QED
      BY <1>c, <1>f, <1>g, <1>s, <2>2, <2>5, <2>7, <3>1
  <2>8. QED
    BY <2>4, <2>6, <2>7
<1>3. ASSUME NEW id \in CampaignIds, Pays(id) PROVE CoveredAt(t)'
  <2>1. PICK amount \in Nat :
          /\ campaign'[id].total_funded = campaign[id].total_funded
          /\ campaign'[id].released + audit'[id].claimed
               = campaign[id].released + audit[id].claimed + amount
          /\ Drains(campaign[id].token_address, amount)
          /\ \A o \in CampaignIds \ {id} : audit'[o].claimed = audit[o].claimed
    BY <1>3 DEF Pays
  <2>2. /\ \A o \in CampaignIds : campaign'[o].token_address = campaign[o].token_address
        /\ \A o \in CampaignIds \ {id} : campaign'[o] = campaign[o]
        /\ NothingReconciled
    BY <1>3, <1>c DEF Pays, Rewrites
  <2>3. /\ owedN[id] = owed[id] - amount
        /\ \A o \in CampaignIds \ {id} : owedN[o] = owed[o]
    BY <1>b, <2>1, <2>2
  <2>4. vault'[t] = vault[t] - (IF id \in on THEN amount ELSE 0)
    BY <1>m, <2>1 DEF Drains
  <2>5. SumFunctionOnSet(recN, on) = SumFunctionOnSet(rec, on)
    <3>1. \A o \in on : recN[o] = rec[o]
      BY <1>b, <1>d, <2>2 DEF NothingReconciled
    <3>2. QED
      BY <1>d, <3>1, SumCongruence
  <2>6. SumFunctionOnSet(owedN, on)
          = SumFunctionOnSet(owed, on) - (IF id \in on THEN amount ELSE 0)
    <3>1. CASE id \in on
      <4>1. SumFunctionOnSet(owedN, on) = SumFunctionOnSet(owed, on) + (owedN[id] - owed[id])
        BY <1>d, <1>e, <2>3, <3>1, SumUpdate
      <4>2. QED
        BY <1>b, <1>s, <2>3, <3>1, <4>1
    <3>2. CASE id \notin on
      <4>1. SumFunctionOnSet(owedN, on) = SumFunctionOnSet(owed, on)
        BY <1>d, <2>3, <3>2, SumCongruence
      <4>2. QED
        BY <1>s, <3>2, <4>1
    <3>3. QED
      BY <3>1, <3>2
  <2>7. QED
    BY <1>c, <1>f, <1>g, <1>s, <2>2, <2>4, <2>5, <2>6
<1>4. ASSUME NEW id \in CampaignIds, Creates(id) PROVE CoveredAt(t)'
  <2>1. /\ \A o \in CampaignIds \ {id} : campaign'[o] = campaign[o]
        /\ campaign'[id].total_funded = 0 /\ campaign'[id].released = 0
        /\ vault'[t] = vault[t] /\ \A o \in CampaignIds : audit'[o] = audit[o]
    BY <1>4, <1>c DEF Creates, Rewrites
  <2>2. /\ \A o \in CampaignIds \ {id} : owedN[o] = owed[o]
        /\ \A o \in CampaignIds : recN[o] = rec[o]
        /\ owedN[id] <= 0 /\ recN[id] >= 0
    BY <1>b, <2>1
  <2>3. id \notin on
    <3>1. campaign[id].token_address \notin Tokens
      BY <1>4, <1>b DEF Creates
    <3>2. QED
      BY <1>m, <3>1
  <2>4. /\ SumFunctionOnSet(owedN, on) = SumFunctionOnSet(owed, on)
        /\ SumFunctionOnSet(recN, on) = SumFunctionOnSet(rec, on)
    <3>1. \A o \in on : owedN[o] = owed[o] /\ recN[o] = rec[o]
      BY <1>d, <2>2, <2>3
    <3>2. QED
      BY <1>d, <3>1, SumCongruence
  <2>5. SumFunctionOnSet(owedN, on) <= vault'[t] + SumFunctionOnSet(recN, on)
    BY <1>f, <2>1, <2>4
  <2>6. CASE campaign'[id].token_address # t
    <3>1. On(t)' = on
      BY <2>1, <2>3, <2>6 DEF On, on
    <3>2. QED
      BY <2>5, <3>1 DEF CoveredAt, owedN, recN
  <2>7. CASE campaign'[id].token_address = t
    <3>1. On(t)' = on \cup {id}
      BY <2>1, <2>3, <2>7 DEF On, on
    <3>2. IsFiniteSet(on \cup {id}) /\ (on \cup {id}) \ {id} = on
      BY <1>d, <2>3, FS_AddElement
    <3>3. \A o \in on \cup {id} : owedN[o] \in Int /\ recN[o] \in Int
      BY <1>b, <1>d
    <3>4. /\ SumFunctionOnSet(owedN, on \cup {id}) = owedN[id] + SumFunctionOnSet(owedN, on)
          /\ SumFunctionOnSet(recN, on \cup {id}) = recN[id] + SumFunctionOnSet(recN, on)
      <4>1. id \in on \cup {id}
        OBVIOUS
      <4>2. /\ SumFunctionOnSet(owedN, on \cup {id})
                 = owedN[id] + SumFunctionOnSet(owedN, (on \cup {id}) \ {id})
            /\ SumFunctionOnSet(recN, on \cup {id})
                 = recN[id] + SumFunctionOnSet(recN, (on \cup {id}) \ {id})
        BY <3>2, <3>3, <4>1, SumTakeOut
      <4>3. QED
        BY <3>2, <4>2
    <3>5. SumFunctionOnSet(owedN, on \cup {id})
            <= vault'[t] + SumFunctionOnSet(recN, on \cup {id})
      BY <1>b, <1>c, <1>s, <2>2, <2>5, <3>4
    <3>6. QED
      BY <3>1, <3>5 DEF CoveredAt, owedN, recN
  <2>8. QED
    BY <2>6, <2>7
<1>5. QED
  BY <1>1, <1>2, <1>3, <1>4, MoneyStep

\* Campaigns that share a token are short of tokens by no more than what was
\* reconciled without a transfer, in every interleaving of their invocations.
THEOREM ShortfallStaysBounded == Spec => []ShortfallBoundedByReconciliation
<1> DEFINE Bounded == \A t \in Tokens : CoveredAt(t)
<1>1. Init => Bounded
  <2> SUFFICES ASSUME Init, NEW t \in Tokens PROVE CoveredAt(t)
    OBVIOUS
  <2>1. On(t) = {} /\ vault[t] = 0
    BY EscrowConstants DEF Init, On, NoCampaign
  <2>2. IsFiniteSet({})
    BY FS_EmptySet
  <2>3. SumFunctionOnSet(OwedAll, {}) = 0 /\ SumFunctionOnSet(ReconciledAll, {}) = 0
    BY <2>2, SumType
  <2>4. QED
    BY <2>1, <2>3 DEF CoveredAt
<1>2. IInv /\ IInv' /\ Bounded /\ [Next]_vars => Bounded'
  BY CoveredStep
<1>3. Bounded => ShortfallBoundedByReconciliation
  BY DEF CoveredAt, On, OwedAll, ReconciledAll, ShortfallBoundedByReconciliation
<1> HIDE DEF Bounded
<1>4. QED
  BY <1>1, <1>2, <1>3, Invariant, PTL DEF Spec
=============================================================================
