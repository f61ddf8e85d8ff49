--------------------------- MODULE PlatformProofs ---------------------------
(***************************************************************************)
(* Proofs about the escrow and the registry in one transaction, for every  *)
(* value of the constants.                                                 *)
(***************************************************************************)
EXTENDS Platform, ProductionEscrowProofs

-----------------------------------------------------------------------------
(* What an escrow invocation does, seen from the registry.                   *)

RecordCall(id, action) == [fn |-> "record_activity", id |-> id, arg |-> action]

StatusCall(id, status) == [fn |-> "update_campaign_status", id |-> id, arg |-> status]

LinkCall(id, farmer) == [fn |-> "link_campaign_escrow", id |-> id, arg |-> farmer]

\* The transitions the registry is not told of.
Unreported(o) ==
  /\ campaign[o].status \in {"Active", "Funding"}
  /\ campaign'[o].status \in {"Funding", "Funded", "Failed"}

\* What the registry is told of a move from status s to status t.
Reported(action, s, t) ==
  \/ action = "CampaignFunded" /\ Accepting(s) /\ t \in {"Funding", "Funded"}
  \/ action = "FundsReleased" /\ s \in {"Funded", "InProduction"} /\ t = "InProduction"
  \/ action = "HarvestReported" /\ s \in {"Funded", "InProduction"} /\ t = "Harvested"
  \/ action = "CampaignSettled" /\ s = "Harvested" /\ t = "Settled"
  \/ action = "DisputeInitiated" /\ InFlight(s) /\ t = "Disputed"
  \/ action = "DisputeResolved" /\ s = "Disputed" /\ t = "Resolved"
  \/ action = "CampaignStatusChanged" /\ InFlight(s) /\ t = "Failed"

Moved(id, action) == Reported(action, campaign[id].status, campaign'[id].status)

OthersKept(id) == \A o \in CampaignIds \ {id} : campaign'[o] = campaign[o]

\* At most an activity is recorded, and every status stays but for those transitions.
Silent ==
  /\ \/ tx'.calls = <<>>
     \/ \E id \in CampaignIds, action \in ActivityAction :
          tx'.calls = <<RecordCall(id, action)>> /\ Moved(id, action)
  /\ \A o \in CampaignIds :
       /\ campaign'[o].farmer = campaign[o].farmer
       /\ campaign'[o].status = campaign[o].status \/ Unreported(o)

\* One campaign moves, and the registry is told where to.
Tells(id) ==
  /\ \E action \in ActivityAction :
       /\ tx'.calls = <<RecordCall(id, action), StatusCall(id, campaign'[id].status)>>
       /\ Moved(id, action)
  /\ campaign'[id].status \in CampaignStatus
  /\ campaign'[id].farmer = campaign[id].farmer
  /\ OthersKept(id)

\* A campaign is created, and linked by its farmer.
Opens(id) ==
  /\ tx'.calls = <<LinkCall(id, campaign'[id].farmer), RecordCall(id, "CampaignCreated")>>
  /\ ~Exists(id) /\ campaign'[id].status = "Active" /\ campaign'[id].farmer \in Farmers
  /\ OthersKept(id)

\* A rewrite that ends in a notification with the new status tells it.
LEMMA TellsStatus ==
  ASSUME NEW id \in CampaignIds, NEW d, campaign \in [CampaignIds -> Campaign],
         registry # NoOne, campaign' = [campaign EXCEPT ![id] = d],
         d.status \in CampaignStatus, d.farmer = campaign[id].farmer,
         NEW action \in ActivityAction, Reported(action, campaign[id].status, d.status),
         NEW events, Sends(RecordAndSync(id, action, d.status), events)
  PROVE  Tells(id)
<1>1. campaign'[id] = d /\ OthersKept(id) /\ Moved(id, action)
  BY DEF OthersKept, Moved
<1>2. tx'.calls = <<RecordCall(id, action), StatusCall(id, d.status)>>
  BY DEF Sends, RecordAndSync, RecordCall, StatusCall
<1>3. QED
  BY <1>1, <1>2 DEF Tells

\* One that reports at most an activity is silent, if it moves as it may unreported.
LEMMA SaysNothing ==
  ASSUME NEW id \in CampaignIds, NEW d, campaign \in [CampaignIds -> Campaign],
         campaign' = [campaign EXCEPT ![id] = d], d.farmer = campaign[id].farmer,
         \/ d.status = campaign[id].status
         \/ /\ campaign[id].status \in {"Active", "Funding"}
            /\ d.status \in {"Funding", "Funded", "Failed"},
         NEW calls, NEW events, Sends(calls, events),
         \/ calls = <<>>
         \/ \E action \in ActivityAction :
              calls = <<RecordCall(id, action)>> /\ Reported(action, campaign[id].status, d.status)
  PROVE  Silent
<1>1. campaign'[id] = d /\ \A o \in CampaignIds \ {id} : campaign'[o] = campaign[o]
  OBVIOUS
<1>2. tx'.calls = calls
  BY DEF Sends
<1>3. \A action : Reported(action, campaign[id].status, d.status) => Moved(id, action)
  BY <1>1 DEF Moved
<1>4. QED
  BY <1>1, <1>2, <1>3 DEF Silent, Unreported

\* The status and the farmer a rewritten record shows.
LEMMA StatusFields ==
  ASSUME NEW c \in Campaign, NEW s, NEW t, NEW r, NEW f, NEW n
  PROVE  /\ LET d == [c EXCEPT !.total_funded = t, !.status = s]
            IN  d.status = s /\ d.farmer = c.farmer
         /\ LET d == [c EXCEPT !.status = s] IN d.status = s /\ d.farmer = c.farmer
         /\ LET d == [c EXCEPT !.status = s, !.released = r]
            IN  d.status = s /\ d.farmer = c.farmer
         /\ LET d == [c EXCEPT !.released = r, !.refundable = f, !.status = s]
            IN  d.status = s /\ d.farmer = c.farmer
         /\ LET d == [c EXCEPT !.released = r, !.returnable = n, !.status = s]
            IN  d.status = s /\ d.farmer = c.farmer
         /\ LET d == [c EXCEPT !.refundable = f, !.status = s]
            IN  d.status = s /\ d.farmer = c.farmer
  BY DEF Campaign

\* An escrow without a registry calls none.
LEMMA Unregistered ==
  ASSUME Next, registry = NoOne
  PROVE  tx'.calls = <<>>
<1>1. /\ \A id, action : Record(id, action) = <<>>
      /\ \A id, action, status : RecordAndSync(id, action, status) = <<>>
      /\ \A id, farmer : LinkCampaignEscrow(id, farmer) = <<>>
  BY DEF Record, RecordAndSync, LinkCampaignEscrow
<1>2. <<>> \o <<>> = <<>>
  OBVIOUS
<1> DEFINE Quiet == tx'.calls = <<>>
<1>3. ASSUME NEW events, Sends(<<>>, events) PROVE Quiet
  BY <1>3 DEF Sends
<1>4. ASSUME tx' = NoTx PROVE Quiet
  BY <1>4 DEF NoTx
<1> HIDE DEF Quiet
<1>5. ASSUME NEW id \in CampaignIds, Contribute(id) PROVE Quiet
  <2>1. ASSUME NEW i, NEW amount, FundCampaign(id, i, amount) PROVE Quiet
    BY <1>1, <1>3, <2>1 DEF FundCampaign
  <2>2. ASSUME NEW i, NEW amount, ReceiveContribution(id, i, amount) PROVE Quiet
    BY <1>3, <2>2 DEF ReceiveContribution
  <2>3. QED
    BY <1>5, <2>1, <2>2 DEF Contribute
<1>6. ASSUME NEW id \in CampaignIds, Manage(id) PROVE Quiet
  <2>1. ASSUME NEW f, NEW target, NEW t, NEW dl, CreateCampaign(id, f, target, t, dl) PROVE Quiet
    BY <1>1, <1>2, <1>3, <2>1 DEF CreateCampaign
  <2>2. ASSUME NEW total, CompleteFunding(id, total) PROVE Quiet
    BY <1>3, <2>2 DEF CompleteFunding
  <2>3. ASSUME NEW list, ConfigureTranches(id, list) PROVE Quiet
    BY <1>3, <2>3 DEF ConfigureTranches
  <2>4. ASSUME NEW rcp, NEW amount, ReleaseTranche(id, rcp, amount) PROVE Quiet
    BY <1>1, <1>3, <2>4 DEF ReleaseTranche
  <2>5. ASSUME NEW who, ReportHarvest(id, who) PROVE Quiet
    BY <1>1, <1>3, <2>5 DEF ReportHarvest
  <2>6. ASSUME NEW payee, NEW payout, SettleCampaign(id, payee, payout) PROVE Quiet
    BY <1>1, <1>3, <2>6 DEF SettleCampaign
  <2>7. QED
    BY <1>6, <2>1, <2>2, <2>3, <2>4, <2>5, <2>6 DEF Manage
<1>7. ASSUME NEW id \in CampaignIds, Unwind(id) PROVE Quiet
  <2>1. ASSUME NEW who, OpenDispute(id, who) PROVE Quiet
    BY <1>1, <1>3, <2>1 DEF OpenDispute
  <2>2. ASSUME NEW q, NEW payout, ResolveDispute(id, q, payout) PROVE Quiet
    BY <1>1, <1>3, <2>2 DEF ResolveDispute
  <2>3. CASE MarkFailed(id)
    BY <1>1, <1>3, <2>3 DEF MarkFailed
  <2>4. CASE ExpireCampaign(id)
    BY <1>3, <2>4 DEF ExpireCampaign
  <2>5. ASSUME NEW i, ClaimRefund(id, i) \/ ClaimReturn(id, i) PROVE Quiet
    BY <1>3, <2>5 DEF ClaimRefund, ClaimReturn, PayShare
  <2>6. QED
    BY <1>7, <2>1, <2>2, <2>3, <2>4, <2>5 DEF Unwind
<1>8. QED
  BY <1>4, <1>5, <1>6, <1>7 DEF Next, Initialize, SetRegistry, Tick, Deposit, Quiet

\* Two lists of one call make a list of two.
LEMMA PairOfCalls ==
  ASSUME NEW x, NEW y
  PROVE  <<x>> \o <<y>> = <<x, y>>
<1> DEFINE S == {x, y}
           s == <<x>> \o <<y>>
           t == <<x, y>>
<1>1. <<x>> \in Seq(S) /\ <<y>> \in Seq(S) /\ t \in Seq(S) /\ Len(t) = 2
  OBVIOUS
<1>2. s \in Seq(S) /\ Len(s) = 2 /\ s[1] = x /\ s[2] = y
  BY <1>1
<1>3. \A i \in 1 .. Len(s) : s[i] = t[i]
  <2>1. \A i \in 1 .. Len(s) : i = 1 \/ i = 2
    BY <1>2
  <2>2. t[1] = x /\ t[2] = y
    OBVIOUS
  <2> HIDE DEF s, t
  <2>3. QED
    BY <1>2, <2>1, <2>2
<1> HIDE DEF s, t, S
<1>4. QED
  BY <1>1, <1>2, <1>3, SeqEqual DEF s, t

\* An escrow with a registry is silent, tells one campaign's new status, or opens one.
LEMMA EscrowSteps ==
  ASSUME IInv, Next, registry # NoOne
  PROVE  Silent \/ \E id \in CampaignIds : Tells(id) \/ Opens(id)
<1> DEFINE Goal == Silent \/ \E id \in CampaignIds : Tells(id) \/ Opens(id)
<1>a. /\ campaign \in [CampaignIds -> Campaign]
      /\ \A id \in CampaignIds : GoodCampaign(campaign[id]) /\ campaign[id] \in Campaign
  BY DEF IInv, TypeOK
<1>b. ASSUME NEW id \in CampaignIds, NEW action
      PROVE  Record(id, action) = <<RecordCall(id, action)>>
  BY DEF Record, RecordCall
<1> HIDE DEF Goal
<1>s. Silent => Goal
  BY DEF Goal
<1>t. ASSUME NEW id \in CampaignIds, Tells(id) PROVE Goal
  BY <1>t DEF Goal
<1>1. ASSUME NEW calls, calls = <<>>, NEW events, Sends(calls, events), UNCHANGED campaign
      PROVE  Goal
  BY <1>1, <1>s DEF Sends, Silent
<1>2. ASSUME \/ \E a \in Admins : Initialize(a)
             \/ \E r \in Registries : SetRegistry(r)
             \/ Tick
             \/ \E t \in Tokens, amount \in Amounts : Deposit(t, amount)
      PROVE  Goal
  BY <1>2, <1>s DEF Initialize, SetRegistry, Tick, Deposit, NoTx, Silent
<1>3. ASSUME NEW id \in CampaignIds, NEW i \in Investors, NEW amount \in Amounts,
             FundCampaign(id, i, amount)
      PROVE  Goal
  <2> DEFINE c == campaign[id]
             total == c.total_funded + amount
             full == total >= c.target_amount
             s == IF full THEN "Funded" ELSE "Funding"
             d == [c EXCEPT !.total_funded = total, !.status = s]
  <2>1. /\ campaign' = [campaign EXCEPT ![id] = d]
        /\ c.status \in {"Active", "Funding"}
    BY <1>3 DEF FundCampaign, CanContribute, Accepting
  <2>2. d.status = s /\ d.farmer = c.farmer
    BY <1>a, StatusFields
  <2>3. \E events : Sends(IF full THEN RecordAndSync(id, "CampaignFunded", "Funded")
                          ELSE Record(id, "CampaignFunded"), events)
    BY <1>3 DEF FundCampaign
  <2>4. "CampaignFunded" \in ActivityAction
    BY DEF ActivityAction
  <2> HIDE DEF d, c, full
  <2>5. CASE full
    <3>1. s = "Funded" /\ "Funded" \in CampaignStatus
      BY <2>5 DEF CampaignStatus
    <3>2. PICK events : Sends(RecordAndSync(id, "CampaignFunded", "Funded"), events)
      BY <2>3, <2>5
    <3>3. d.status = "Funded" /\ Reported("CampaignFunded", c.status, "Funded")
      BY <2>1, <2>2, <3>1 DEF Reported, Accepting
    <3>4. Tells(id)
      BY <1>a, <2>1, <2>2, <2>4, <3>1, <3>2, <3>3, TellsStatus DEF c
    <3>5. QED
      BY <1>t, <3>4
  <2>6. CASE ~full
    <3>1. d.status = "Funding" /\ Reported("CampaignFunded", c.status, "Funding")
      BY <2>1, <2>2, <2>6 DEF Reported, Accepting
    <3>2. PICK events : Sends(<<RecordCall(id, "CampaignFunded")>>, events)
      BY <1>b, <2>3, <2>6
    <3>3. Silent
      BY <1>a, <2>1, <2>2, <2>4, <3>1, <3>2, SaysNothing DEF c
    <3>4. QED
      BY <1>s, <3>3
  <2>7. QED
    BY <2>5, <2>6
<1>4. ASSUME NEW id \in CampaignIds, NEW i \in Investors, NEW amount \in Amounts,
             ReceiveContribution(id, i, amount)
      PROVE  Goal
  <2> DEFINE c == campaign[id]
             d == [c EXCEPT !.total_funded = c.total_funded + amount, !.status = "Funding"]
  <2>1. /\ campaign' = [campaign EXCEPT ![id] = d]
        /\ c.status \in {"Active", "Funding"}
    BY <1>4 DEF ReceiveContribution, CanContribute, Accepting
  <2>2. d.status = "Funding" /\ d.farmer = c.farmer
    BY <1>a, StatusFields
  <2>3. PICK events : Sends(<<>>, events)
    BY <1>4 DEF ReceiveContribution
  <2> HIDE DEF d
  <2>4. Silent
    BY <1>a, <2>1, <2>2, <2>3, SaysNothing
  <2>5. QED
    BY <1>s, <2>4
<1>5. ASSUME NEW id \in CampaignIds, Contribute(id) PROVE Goal
  BY <1>3, <1>4, <1>5 DEF Contribute
<1>6. ASSUME NEW id \in CampaignIds, NEW f \in Farmers, NEW target \in Amounts, NEW t \in Tokens,
             NEW dl \in 0 .. MaxTime, CreateCampaign(id, f, target, t, dl)
      PROVE  Goal
  <2> DEFINE d == NewCampaign(f, target, t, dl)
  <2>1. d.farmer = f /\ d.status = "Active"
    BY DEF NewCampaign
  <2>2. campaign' = [campaign EXCEPT ![id] = d] /\ ~Exists(id)
    BY <1>6 DEF CreateCampaign
  <2>3. tx'.calls = LinkCampaignEscrow(id, f) \o Record(id, "CampaignCreated")
    BY <1>6 DEF CreateCampaign, Sends
  <2>4. LinkCampaignEscrow(id, f) = <<LinkCall(id, f)>>
    BY DEF LinkCampaignEscrow, LinkCall
  <2>5. \A x, y : <<x>> \o <<y>> = <<x, y>>
    BY PairOfCalls
  <2>6. tx'.calls = <<LinkCall(id, f), RecordCall(id, "CampaignCreated")>>
    BY <1>b, <2>3, <2>4, <2>5
  <2> HIDE DEF d
  <2>7. campaign'[id] = d /\ OthersKept(id)
    BY <1>a, <2>2 DEF OthersKept
  <2>8. Opens(id)
    BY <2>1, <2>2, <2>6, <2>7 DEF Opens
  <2>9. QED
    BY <2>8 DEF Goal
<1>7. ASSUME NEW id \in CampaignIds, NEW total \in Amounts, CompleteFunding(id, total) PROVE Goal
  <2> DEFINE c == campaign[id]
             d == [c EXCEPT !.status = "Funded"]
  <2>1. /\ campaign' = [campaign EXCEPT ![id] = d]
        /\ c.status \in {"Active", "Funding"}
    BY <1>7 DEF CompleteFunding, Accepting
  <2>2. d.status = "Funded" /\ d.farmer = c.farmer
    BY <1>a, StatusFields
  <2>3. PICK events : Sends(<<>>, events)
    BY <1>7 DEF CompleteFunding
  <2> HIDE DEF d
  <2>4. Silent
    BY <1>a, <2>1, <2>2, <2>3, SaysNothing
  <2>5. QED
    BY <1>s, <2>4
<1>8. ASSUME NEW id \in CampaignIds, NEW list \in TrancheLists, ConfigureTranches(id, list)
      PROVE  Goal
  BY <1>1, <1>8 DEF ConfigureTranches
<1>9. ASSUME NEW id \in CampaignIds, NEW rcp \in Farmers, NEW amount \in Amounts,
             ReleaseTranche(id, rcp, amount)
      PROVE  Goal
  <2> DEFINE c == campaign[id]
             d == [c EXCEPT !.status = "InProduction", !.released = c.released + amount]
  <2>1. campaign' = [campaign EXCEPT ![id] = d]
    BY <1>9 DEF ReleaseTranche
  <2>2. d.status = "InProduction" /\ d.farmer = c.farmer
    BY <1>a, StatusFields
  <2>3. PICK events : Sends(RecordAndSync(id, "FundsReleased", "InProduction"), events)
    BY <1>9 DEF ReleaseTranche
  <2>4. "FundsReleased" \in ActivityAction /\ "InProduction" \in CampaignStatus
    BY DEF ActivityAction, CampaignStatus
  <2>5. Reported("FundsReleased", campaign[id].status, "InProduction")
    BY <1>9 DEF ReleaseTranche, Reported
  <2> HIDE DEF d
  <2>6. Tells(id)
    BY <1>a, <2>1, <2>2, <2>3, <2>4, <2>5, TellsStatus
  <2>7. QED
    BY <1>t, <2>6
<1>10. ASSUME NEW id \in CampaignIds, NEW who \in Accounts, ReportHarvest(id, who) PROVE Goal
  <2> DEFINE c == campaign[id]
             d == [c EXCEPT !.status = "Harvested"]
  <2>1. campaign' = [campaign EXCEPT ![id] = d]
    BY <1>10 DEF ReportHarvest
  <2>2. d.status = "Harvested" /\ d.farmer = c.farmer
    BY <1>a, StatusFields
  <2>3. PICK events : Sends(RecordAndSync(id, "HarvestReported", "Harvested"), events)
    BY <1>10 DEF ReportHarvest
  <2>4. "HarvestReported" \in ActivityAction /\ "Harvested" \in CampaignStatus
    BY DEF ActivityAction, CampaignStatus
  <2>5. Reported("HarvestReported", campaign[id].status, "Harvested")
    BY <1>10 DEF ReportHarvest, Reported
  <2> HIDE DEF d
  <2>6. Tells(id)
    BY <1>a, <2>1, <2>2, <2>3, <2>4, <2>5, TellsStatus
  <2>7. QED
    BY <1>t, <2>6
<1>11. ASSUME NEW id \in CampaignIds, NEW payee \in Farmers, NEW payout \in Amounts,
              SettleCampaign(id, payee, payout)
       PROVE  Goal
  <2> DEFINE c == campaign[id]
             d == [c EXCEPT !.released = c.released + payout,
                            !.returnable = c.returnable + (EscrowHeld(c) - payout),
                            !.status = "Settled"]
  <2>1. campaign' = [campaign EXCEPT ![id] = d]
    BY <1>11 DEF SettleCampaign
  <2>2. d.status = "Settled" /\ d.farmer = c.farmer
    BY <1>a, StatusFields
  <2>3. PICK events : Sends(RecordAndSync(id, "CampaignSettled", "Settled"), events)
    BY <1>11 DEF SettleCampaign
  <2>4. "CampaignSettled" \in ActivityAction /\ "Settled" \in CampaignStatus
    BY DEF ActivityAction, CampaignStatus
  <2>5. Reported("CampaignSettled", campaign[id].status, "Settled")
    BY <1>11 DEF SettleCampaign, Reported
  <2> HIDE DEF d
  <2>6. Tells(id)
    BY <1>a, <2>1, <2>2, <2>3, <2>4, <2>5, TellsStatus
  <2>7. QED
    BY <1>t, <2>6
<1>12. ASSUME NEW id \in CampaignIds, NEW who \in Accounts, OpenDispute(id, who) PROVE Goal
  <2> DEFINE c == campaign[id]
             d == [c EXCEPT !.status = "Disputed"]
  <2>1. campaign' = [campaign EXCEPT ![id] = d]
    BY <1>12 DEF OpenDispute
  <2>2. d.status = "Disputed" /\ d.farmer = c.farmer
    BY <1>a, StatusFields
  <2>3. PICK events : Sends(RecordAndSync(id, "DisputeInitiated", "Disputed"), events)
    BY <1>12 DEF OpenDispute
  <2>4. "DisputeInitiated" \in ActivityAction /\ "Disputed" \in CampaignStatus
    BY DEF ActivityAction, CampaignStatus
  <2>5. Reported("DisputeInitiated", campaign[id].status, "Disputed")
    BY <1>12 DEF OpenDispute, Reported
  <2> HIDE DEF d
  <2>6. Tells(id)
    BY <1>a, <2>1, <2>2, <2>3, <2>4, <2>5, TellsStatus
  <2>7. QED
    BY <1>t, <2>6
<1>13. ASSUME NEW id \in CampaignIds, NEW q \in DisputeResolution, NEW payout \in Amounts,
              ResolveDispute(id, q, payout)
       PROVE  Goal
  <2> DEFINE c == campaign[id]
             share == FarmerShare(q, payout, EscrowHeld(c))
             d == [c EXCEPT !.released = c.released + share,
                            !.refundable = c.refundable + (EscrowHeld(c) - share),
                            !.status = "Resolved"]
  <2>1. campaign' = [campaign EXCEPT ![id] = d]
    BY <1>13 DEF ResolveDispute
  <2>2. d.status = "Resolved" /\ d.farmer = c.farmer
    BY <1>a, StatusFields
  <2>3. PICK events : Sends(RecordAndSync(id, "DisputeResolved", "Resolved"), events)
    BY <1>13 DEF ResolveDispute
  <2>4. "DisputeResolved" \in ActivityAction /\ "Resolved" \in CampaignStatus
    BY DEF ActivityAction, CampaignStatus
  <2>5. Reported("DisputeResolved", campaign[id].status, "Resolved")
    BY <1>13 DEF ResolveDispute, Reported
  <2> HIDE DEF d
  <2>6. Tells(id)
    BY <1>a, <2>1, <2>2, <2>3, <2>4, <2>5, TellsStatus
  <2>7. QED
    BY <1>t, <2>6
<1>14. ASSUME NEW id \in CampaignIds, MarkFailed(id) \/ ExpireCampaign(id) PROVE Goal
  <2> DEFINE c == campaign[id]
             d == [c EXCEPT !.refundable = c.refundable + EscrowHeld(c), !.status = "Failed"]
  <2>1. campaign' = [campaign EXCEPT ![id] = d]
    BY <1>14 DEF MarkFailed, ExpireCampaign
  <2>2. d.status = "Failed" /\ d.farmer = c.farmer
    BY <1>a, StatusFields
  <2>3. "CampaignStatusChanged" \in ActivityAction /\ "Failed" \in CampaignStatus
    BY DEF ActivityAction, CampaignStatus
  <2> HIDE DEF d
  <2>4. CASE MarkFailed(id)
    <3>1. PICK events : Sends(RecordAndSync(id, "CampaignStatusChanged", "Failed"), events)
      BY <2>4 DEF MarkFailed
    <3>2. Reported("CampaignStatusChanged", campaign[id].status, "Failed")
      BY <2>4 DEF MarkFailed, Reported
    <3>3. Tells(id)
      BY <1>a, <2>1, <2>2, <2>3, <3>1, <3>2, TellsStatus
    <3>4. QED
      BY <1>t, <3>3
  <2>5. CASE ExpireCampaign(id)
    <3>1. PICK events : Sends(<<>>, events)
      BY <2>5 DEF ExpireCampaign
    <3>2. c.status \in {"Active", "Funding"}
      BY <2>5 DEF ExpireCampaign, Accepting
    <3>3. Silent
      BY <1>a, <2>1, <2>2, <3>1, <3>2, SaysNothing
    <3>4. QED
      BY <1>s, <3>3
  <2>6. QED
    BY <1>14, <2>4, <2>5
<1>15. ASSUME NEW id \in CampaignIds, NEW i \in Investors, ClaimRefund(id, i) \/ ClaimReturn(id, i)
       PROVE  Goal
  BY <1>1, <1>15 DEF ClaimRefund, ClaimReturn, PayShare
<1>16. ASSUME NEW id \in CampaignIds, Manage(id) PROVE Goal
  BY <1>6, <1>7, <1>8, <1>9, <1>10, <1>11, <1>16 DEF Manage
<1>17. ASSUME NEW id \in CampaignIds, Unwind(id) PROVE Goal
  BY <1>12, <1>13, <1>14, <1>15, <1>17 DEF Unwind
<1>18. QED
  BY <1>2, <1>5, <1>16, <1>17 DEF Next, Goal

-----------------------------------------------------------------------------
(* The calls of one transaction, one after the other.                        *)

\* The storage after calls 1 .. n have been served, as the fold computes it.
Serves(contract, calls, base, g) ==
  g = [s \in SUBSET DOMAIN calls |->
         IF s = {} THEN base ELSE Reg!Served(g[s \ {Reg!Max(s)}], contract, calls[Reg!Max(s)])]

\* The fold is the value of a solution of its recursion at all the calls.
LEMMA ServeUnfolds ==
  ASSUME NEW contract, NEW calls, NEW g, Serves(contract, calls, store, g),
         \A h : Serves(contract, calls, store, h) => h[DOMAIN calls] = g[DOMAIN calls],
         Reg!Serve(contract, calls)
  PROVE  store' = g[DOMAIN calls]
<1> DEFINE c == CHOOSE h : Serves(contract, calls, store, h)
<1>1. Serves(contract, calls, store, c)
  OBVIOUS
<1>2. store' = c[DOMAIN calls]
  BY DEF Reg!Serve, Reg!FoldLeft, Reg!MapThenFoldSet, Serves
<1>3. QED
  BY <1>1, <1>2

\* A transaction without registry calls leaves the storage alone.
LEMMA ServeNone ==
  ASSUME NEW contract, Reg!Serve(contract, <<>>)
  PROVE  store' = store
<1> DEFINE g == [s \in SUBSET {} |-> store]
<1>1. DOMAIN <<>> = {}
  OBVIOUS
<1>2. \A h : Serves(contract, <<>>, store, h) => h[{}] = store
  BY <1>1 DEF Serves
<1>3. Serves(contract, <<>>, store, g) /\ g[{}] = store
  <2>1. \A s \in SUBSET {} : s = {}
    OBVIOUS
  <2>2. QED
    BY <1>1, <2>1 DEF Serves
<1> HIDE DEF g
<1>4. QED
  BY <1>1, <1>2, <1>3, ServeUnfolds

\* One call is served on the storage the transaction finds.
LEMMA ServeOne ==
  ASSUME NEW contract, NEW a, Reg!Serve(contract, <<a>>)
  PROVE  Reg!Accepts(store, contract, a) /\ store' = Reg!Served(store, contract, a)
<1> DEFINE calls == <<a>>
           A == Reg!Served(store, contract, a)
           g == [s \in SUBSET {1} |-> IF s = {} THEN store ELSE A]
<1>1. DOMAIN calls = {1} /\ calls[1] = a
  OBVIOUS
<1>2. Reg!Max({1}) = 1
  BY DEF Reg!Max
<1>3. \A s \in SUBSET {1} : s = {} \/ s = {1}
  OBVIOUS
<1>4. Reg!Accepts(store, contract, a)
  BY <1>1 DEF Reg!Serve
<1> HIDE DEF calls
<1>5. ASSUME NEW h, Serves(contract, calls, store, h) PROVE h[DOMAIN calls] = A
  <2> DEFINE body(s) == IF s = {} THEN store
                        ELSE Reg!Served(h[s \ {Reg!Max(s)}], contract, calls[Reg!Max(s)])
  <2>1. h = [s \in SUBSET {1} |-> body(s)]
    BY <1>1, <1>5 DEF Serves
  <2> HIDE DEF body
  <2>2. h[{}] = body({}) /\ h[{1}] = body({1})
    BY <2>1
  <2>3. {1} \ {1} = {} /\ {1} # {}
    OBVIOUS
  <2>4. QED
    BY <1>1, <1>2, <2>2, <2>3 DEF body
<1> HIDE DEF A
<1>6. Serves(contract, calls, store, g) /\ g[DOMAIN calls] = A
  <2>1. g[{}] = store /\ g[{1}] = A /\ {1} \ {1} = {} /\ {1} # {}
    OBVIOUS
  <2> DEFINE body(s) == IF s = {} THEN store
                        ELSE Reg!Served(g[s \ {Reg!Max(s)}], contract, calls[Reg!Max(s)])
  <2>2. body({}) = g[{}] /\ body({1}) = g[{1}]
    BY <1>1, <1>2, <2>1 DEF A
  <2>3. g = [s \in SUBSET {1} |-> g[s]]
    OBVIOUS
  <2> HIDE DEF g, body
  <2>4. \A s \in SUBSET {1} : g[s] = body(s)
    BY <1>3, <2>2
  <2>5. g = [s \in SUBSET {1} |-> body(s)]
    BY <2>3, <2>4 DEF body
  <2>6. QED
    BY <1>1, <2>1, <2>5 DEF Serves, body
<1> HIDE DEF g
<1>7. QED
  BY <1>4, <1>5, <1>6, ServeUnfolds DEF A, calls

\* The second call is served on what the first one leaves.
LEMMA ServeTwo ==
  ASSUME NEW contract, NEW a, NEW b, Reg!Serve(contract, <<a, b>>)
  PROVE  /\ Reg!Accepts(store, contract, a) /\ Reg!Accepts(store, contract, b)
         /\ store' = Reg!Served(Reg!Served(store, contract, a), contract, b)
<1> DEFINE calls == <<a, b>>
           A == Reg!Served(store, contract, a)
           B == Reg!Served(A, contract, b)
           C == Reg!Served(store, contract, b)
           g == [s \in SUBSET {1, 2} |->
                   IF s = {} THEN store ELSE IF s = {1} THEN A ELSE IF s = {2} THEN C ELSE B]
<1>1. DOMAIN calls = {1, 2} /\ calls[1] = a /\ calls[2] = b
  OBVIOUS
<1>2. Reg!Max({1}) = 1 /\ Reg!Max({2}) = 2 /\ Reg!Max({1, 2}) = 2
  BY DEF Reg!Max
<1>3. \A s \in SUBSET {1, 2} : s = {} \/ s = {1} \/ s = {2} \/ s = {1, 2}
  OBVIOUS
<1>a. /\ {1} \ {1} = {} /\ {2} \ {2} = {} /\ {1, 2} \ {2} = {1}
      /\ {1} # {} /\ {2} # {} /\ {1, 2} # {} /\ {1} # {2} /\ {1, 2} # {1} /\ {1, 2} # {2}
      /\ {} \in SUBSET {1, 2} /\ {1} \in SUBSET {1, 2} /\ {2} \in SUBSET {1, 2}
      /\ {1, 2} \in SUBSET {1, 2}
  OBVIOUS
<1>4. Reg!Accepts(store, contract, a) /\ Reg!Accepts(store, contract, b)
  BY <1>1 DEF Reg!Serve
<1> HIDE DEF calls
<1>5. ASSUME NEW h, Serves(contract, calls, store, h) PROVE h[DOMAIN calls] = B
  <2> DEFINE body(s) == IF s = {} THEN store
                        ELSE Reg!Served(h[s \ {Reg!Max(s)}], contract, calls[Reg!Max(s)])
  <2>1. h = [s \in SUBSET {1, 2} |-> body(s)]
    BY <1>1, <1>5 DEF Serves
  <2> HIDE DEF body
  <2>2. h[{}] = body({}) /\ h[{1}] = body({1}) /\ h[{1, 2}] = body({1, 2})
    BY <1>a, <2>1
  <2>3. h[{}] = store /\ h[{1}] = A
    BY <1>1, <1>2, <1>a, <2>2 DEF body
  <2>4. h[{1, 2}] = B
    BY <1>1, <1>2, <1>a, <2>2, <2>3 DEF body
  <2>5. QED
    BY <1>1, <2>4
<1> HIDE DEF A, B, C
<1>6. Serves(contract, calls, store, g) /\ g[DOMAIN calls] = B
  <2>1. g[{}] = store /\ g[{1}] = A /\ g[{2}] = C /\ g[{1, 2}] = B
    BY <1>a
  <2> DEFINE body(s) == IF s = {} THEN store
                        ELSE Reg!Served(g[s \ {Reg!Max(s)}], contract, calls[Reg!Max(s)])
  <2>2. g = [s \in SUBSET {1, 2} |-> g[s]]
    OBVIOUS
  <2> HIDE DEF g
  <2>3. body({}) = g[{}] /\ body({1}) = g[{1}] /\ body({2}) = g[{2}]
    BY <1>1, <1>2, <1>a, <2>1 DEF A, C
  <2>4. body({1, 2}) = g[{1, 2}]
    BY <1>1, <1>2, <1>a, <2>1 DEF B
  <2> HIDE DEF body
  <2>5. \A s \in SUBSET {1, 2} : g[s] = body(s)
    BY <1>3, <2>3, <2>4
  <2>6. g = [s \in SUBSET {1, 2} |-> body(s)]
    BY <2>2, <2>5 DEF body
  <2>7. QED
    BY <1>1, <2>1, <2>6 DEF Serves, body
<1> HIDE DEF g
<1>7. QED
  BY <1>4, <1>5, <1>6, ServeUnfolds DEF A, B, calls

-----------------------------------------------------------------------------
(* What an operation on the registry's storage leaves of its records.        *)

Contracts == {Escrow} \cup OtherContracts

Typed(s) ==
  /\ {"admin", "approved", "farmers", "info", "campaigns", "record", "byFarmer", "log"}
       \subseteq DOMAIN s
  /\ s.info \in [CampaignIds -> Farmers \cup {NoOne}]
  /\ s.record \in [CampaignIds ->
       [farmer : Farmers \cup {NoOne}, escrow : Contracts \cup {NoOne},
        status : CampaignStatus \cup {"None"}]]

SameRecords(s, t) == Typed(t) /\ t.record = s.record /\ t.info = s.info

\* Recording an activity touches no record.
LEMMA RecordingKeeps ==
  ASSUME NEW s, Typed(s), NEW id, NEW actor, NEW action
  PROVE  SameRecords(s, Reg!RecordActivity(s, id, actor, action))
  BY DEF Typed, SameRecords, Reg!RecordActivity

\* Indexing a campaign in the enumeration touches no record.
LEMMA IndexingKeeps ==
  ASSUME NEW s, Typed(s), NEW id
  PROVE  SameRecords(s, Reg!IndexCampaign(s, id))
  BY DEF Typed, SameRecords, Reg!IndexCampaign

\* A status update changes one record's status.
LEMMA UpdateEffect ==
  ASSUME NEW s, Typed(s), NEW id \in CampaignIds, NEW status \in CampaignStatus
  PROVE  LET t == Reg!UpdateStatus(s, id, status) IN
         /\ Typed(t) /\ t.info = s.info
         /\ t.record[id].status = status
         /\ t.record[id].farmer = s.record[id].farmer
         /\ t.record[id].escrow = s.record[id].escrow
         /\ \A o \in CampaignIds \ {id} : t.record[o] = s.record[o]
<1> DEFINE r == [s.record[id] EXCEPT !.status = status]
           t == Reg!UpdateStatus(s, id, status)
<1>1. /\ r.status = status /\ r.farmer = s.record[id].farmer /\ r.escrow = s.record[id].escrow
      /\ r \in [farmer : Farmers \cup {NoOne}, escrow : Contracts \cup {NoOne},
                status : CampaignStatus \cup {"None"}]
  BY DEF Typed
<1>2. t = [s EXCEPT !.record = [s.record EXCEPT ![id] = r]]
  BY DEF Reg!UpdateStatus
<1> HIDE DEF r, t
<1>3. /\ t.record = [s.record EXCEPT ![id] = r] /\ t.info = s.info
      /\ DOMAIN t = DOMAIN s
  BY <1>2 DEF Typed
<1>4. QED
  BY <1>1, <1>3 DEF Typed, t

\* A link writes one record, with the status Active.
LEMMA LinkEffect ==
  ASSUME NEW s, Typed(s), NEW id \in CampaignIds, NEW f \in Farmers, NEW c \in Contracts
  PROVE  LET t == Reg!LinkEscrow(s, id, f, c) IN
         /\ Typed(t) /\ t.info = s.info
         /\ t.record = [s.record EXCEPT ![id] = [farmer |-> f, escrow |-> c, status |-> "Active"]]
<1> DEFINE r == [farmer |-> f, escrow |-> c, status |-> "Active"]
           b == [s.byFarmer EXCEPT ![f] = Reg!AppendPaged(s.byFarmer[f], id)]
           u == [[s EXCEPT !.record = [s.record EXCEPT ![id] = r]] EXCEPT !.byFarmer = b]
<1>1. r \in [farmer : Farmers \cup {NoOne}, escrow : Contracts \cup {NoOne},
             status : CampaignStatus \cup {"None"}]
  BY DEF CampaignStatus
<1> HIDE DEF b, r
<1>2. /\ u.record = [s.record EXCEPT ![id] = r] /\ u.info = s.info /\ DOMAIN u = DOMAIN s
  BY DEF Typed
<1>3. Typed(u)
  BY <1>1, <1>2 DEF Typed
<1>4. Reg!LinkEscrow(s, id, f, c) = Reg!IndexCampaign(u, id)
  BY DEF Reg!LinkEscrow, b, r
<1> HIDE DEF u
<1>5. SameRecords(u, Reg!IndexCampaign(u, id))
  BY <1>3, IndexingKeeps
<1>6. QED
  BY <1>2, <1>4, <1>5 DEF SameRecords, r

\* A registration writes one campaign's farmer.
LEMMA RegistrationEffect ==
  ASSUME NEW s, Typed(s), NEW id \in CampaignIds, NEW f \in Farmers
  PROVE  LET t == Reg!RegisterCampaign(s, id, f) IN
         Typed(t) /\ t.record = s.record /\ t.info = [s.info EXCEPT ![id] = f]
<1> DEFINE u == [s EXCEPT !.info = [s.info EXCEPT ![id] = f]]
<1>1. Typed(u) /\ u.record = s.record /\ u.info = [s.info EXCEPT ![id] = f]
  BY DEF Typed
<1>2. Reg!RegisterCampaign(s, id, f) = Reg!IndexCampaign(u, id)
  BY DEF Reg!RegisterCampaign
<1> HIDE DEF u
<1>3. SameRecords(u, Reg!IndexCampaign(u, id))
  BY <1>1, IndexingKeeps
<1>4. QED
  BY <1>1, <1>2, <1>3 DEF SameRecords

-----------------------------------------------------------------------------
(* The invariant that ties the two contracts together.                       *)

\* What holds of one campaign linked by its creation.
Linkage(o) ==
  /\ Exists(o)
  /\ store.record[o].farmer = campaign[o].farmer
  /\ store.info[o] = campaign[o].farmer
  /\ store.record[o].escrow = Escrow
  /\ \/ Mirror(o) = campaign[o].status
     \/ /\ Mirror(o) \in {"Active", "Funding"}
        /\ campaign[o].status \in {"Funding", "Funded", "Failed"}

\* Nothing is linked while the escrow has no registry, and it never loses one.
PInv ==
  /\ IInv /\ Typed(store) /\ mirrored \subseteq CampaignIds
  /\ mirrored # {} => registry # NoOne
  /\ \A o \in mirrored : Linkage(o)

\* Both start empty.
LEMMA InitPInv == PlatformInit => PInv
<1> SUFFICES ASSUME PlatformInit PROVE PInv
  OBVIOUS
<1>1. IInv /\ mirrored = {}
  BY InitIInv DEF PlatformInit
<1>2. store = Reg!EmptyStore
  BY DEF PlatformInit, Reg!Init
<1>3. Typed(store)
  BY <1>2 DEF Reg!EmptyStore, Typed
<1>4. QED
  BY <1>1, <1>3 DEF PInv

\* Steps of the registry alone leave the escrow's invariant.
LEMMA QuietKeepsIInv ==
  ASSUME IInv, tx' = NoTx,
         UNCHANGED <<timestamp, admin, registry, campaign, contribution, dispute,
                     tranches, harvest, vault, audit>>
  PROVE  IInv'
<1>1. NoTx \in [calls : Seq(Call), events : Seq(Event)]
  BY DEF NoTx
<1>2. TypeOK'
  BY <1>1 DEF IInv, TypeOK
<1>3. (\A id \in CampaignIds : GoodCampaign(campaign[id]))'
  BY DEF IInv
<1>4. RecordsMatchStatus' /\ StakesWithinTotal'
  BY DEF IInv, RecordsMatchStatus, StakesWithinTotal
<1>5. QED
  BY <1>2, <1>3, <1>4 DEF IInv

\* A registry that is set may be replaced, and is never unset.
LEMMA RegistryStays ==
  ASSUME Next, registry # NoOne
  PROVE  registry' # NoOne
<1> DEFINE Kept == registry' = registry
<1>1. ASSUME NEW id \in CampaignIds, Contribute(id) PROVE Kept
  BY <1>1 DEF Contribute, FundCampaign, ReceiveContribution
<1>2. ASSUME NEW id \in CampaignIds, Manage(id) PROVE Kept
  BY <1>2 DEF Manage, CreateCampaign, CompleteFunding, ConfigureTranches, ReleaseTranche,
              ReportHarvest, SettleCampaign
<1>3. ASSUME NEW id \in CampaignIds, Unwind(id) PROVE Kept
  BY <1>3 DEF Unwind, OpenDispute, ResolveDispute, MarkFailed, ExpireCampaign, ClaimRefund,
              ClaimReturn, PayShare
<1>4. ASSUME \/ \E a \in Admins : Initialize(a)
             \/ Tick
             \/ \E t \in Tokens, amount \in Amounts : Deposit(t, amount)
      PROVE  Kept
  BY <1>4 DEF Initialize, Tick, Deposit
<1>5. ASSUME NEW r \in Registries, SetRegistry(r) PROVE registry' \in Registries
  BY <1>5 DEF SetRegistry
<1>6. QED
  BY <1>1, <1>2, <1>3, <1>4, <1>5, EscrowConstants DEF Next

\* What serving each kind of call comes to.
LEMMA ServedCalls ==
  ASSUME NEW s, NEW c, NEW id
  PROVE  /\ \A a : Reg!Served(s, c, RecordCall(id, a)) = Reg!RecordActivity(s, id, c, a)
         /\ \A st : Reg!Served(s, c, StatusCall(id, st)) = Reg!UpdateStatus(s, id, st)
         /\ \A f : Reg!Served(s, c, LinkCall(id, f)) = Reg!LinkEscrow(s, id, f, c)
         /\ \A f : Reg!Accepts(s, c, LinkCall(id, f)) = Reg!CanLink(s, id, f)
<1>1. /\ \A a : RecordCall(id, a).fn = "record_activity" /\ RecordCall(id, a).id = id
                /\ RecordCall(id, a).arg = a
      /\ \A st : StatusCall(id, st).fn = "update_campaign_status" /\ StatusCall(id, st).id = id
                 /\ StatusCall(id, st).arg = st
      /\ \A f : LinkCall(id, f).fn = "link_campaign_escrow" /\ LinkCall(id, f).id = id
                /\ LinkCall(id, f).arg = f
  BY DEF RecordCall, StatusCall, LinkCall
<1>2. QED
  BY <1>1 DEF Reg!Served, Reg!Accepts

\* Only a creation links.
LEMMA LinksMade ==
  ASSUME NEW id
  PROVE  /\ LinkedBy(<<>>) = {}
         /\ \A a : LinkedBy(<<RecordCall(id, a)>>) = {}
         /\ \A a, st : LinkedBy(<<RecordCall(id, a), StatusCall(id, st)>>) = {}
         /\ \A a, f : LinkedBy(<<LinkCall(id, f), RecordCall(id, a)>>) = {id}
<1>1. /\ \A a : RecordCall(id, a).fn # "link_campaign_escrow"
      /\ \A st : StatusCall(id, st).fn # "link_campaign_escrow"
      /\ \A f : LinkCall(id, f).fn = "link_campaign_escrow" /\ LinkCall(id, f).id = id
  BY DEF RecordCall, StatusCall, LinkCall
<1>2. LinkedBy(<<>>) = {}
  BY DEF LinkedBy
<1>3. \A x : x.fn # "link_campaign_escrow" => LinkedBy(<<x>>) = {}
  BY DEF LinkedBy
<1>4. \A x, y : x.fn # "link_campaign_escrow" /\ y.fn # "link_campaign_escrow"
                  => LinkedBy(<<x, y>>) = {}
  BY DEF LinkedBy
<1>5. \A x, y : x.fn = "link_campaign_escrow" /\ y.fn # "link_campaign_escrow"
                  => LinkedBy(<<x, y>>) = {x.id}
  BY DEF LinkedBy
<1>6. QED
  BY <1>1, <1>2, <1>3, <1>4, <1>5

\* An escrow invocation changes a status with the registry's consent, or within the
\* funding, where the mirror may lag; and a creation links what its farmer registered.
LEMMA EscrowKeepsPInv ==
  ASSUME PInv, EscrowTransaction
  PROVE  PInv'
<1>a. /\ IInv /\ IInv' /\ Next /\ Typed(store) /\ mirrored \subseteq CampaignIds
      /\ Reg!Serve(Escrow, tx'.calls) /\ mirrored' = mirrored \cup LinkedBy(tx'.calls)
      /\ \A o \in mirrored : Linkage(o)
      /\ mirrored # {} => registry # NoOne
  BY StepIInv DEF PInv, EscrowTransaction
<1>1. CASE registry = NoOne
  <2>1. tx'.calls = <<>> /\ mirrored = {}
    BY <1>1, <1>a, Unregistered
  <2>2. store' = store /\ mirrored' = {}
    BY <1>a, <2>1, ServeNone, LinksMade
  <2>3. QED
    BY <1>a, <2>2 DEF PInv
<1>2. CASE registry # NoOne /\ Silent
  <2>1. mirrored' = mirrored /\ SameRecords(store, store')
    <3>1. CASE tx'.calls = <<>>
      <4>1. store' = store /\ LinkedBy(tx'.calls) = {}
        BY <1>a, <3>1, ServeNone, LinksMade
      <4>2. QED
        BY <1>a, <4>1 DEF SameRecords
    <3>2. ASSUME NEW id \in CampaignIds, NEW a \in ActivityAction,
                 tx'.calls = <<RecordCall(id, a)>>
          PROVE  mirrored' = mirrored /\ SameRecords(store, store')
      <4>1. store' = Reg!Served(store, Escrow, RecordCall(id, a))
        BY <1>a, <3>2, ServeOne
      <4>2. store' = Reg!RecordActivity(store, id, Escrow, a)
        BY <4>1, ServedCalls
      <4>3. LinkedBy(<<RecordCall(id, a)>>) = {}
        BY LinksMade
      <4>4. mirrored' = mirrored
        BY <1>a, <3>2, <4>3
      <4>5. QED
        BY <1>a, <4>2, <4>4, RecordingKeeps
    <3>3. QED
      BY <1>2, <3>1, <3>2 DEF Silent
  <2>2. ASSUME NEW o \in mirrored PROVE Linkage(o)'
    BY <1>2, <1>a, <2>1, <2>2 DEF Silent, Unreported, Linkage, Mirror, Exists, SameRecords
  <2>3. QED
    BY <1>2, <1>a, <2>1, <2>2, RegistryStays DEF PInv, SameRecords
<1>3. ASSUME NEW id \in CampaignIds, Tells(id), registry # NoOne PROVE PInv'
  <2> DEFINE st == campaign'[id].status
  <2>1. PICK a \in ActivityAction : tx'.calls = <<RecordCall(id, a), StatusCall(id, st)>>
    BY <1>3 DEF Tells
  <2> DEFINE s == Reg!RecordActivity(store, id, Escrow, a)
  <2>2. store' = Reg!UpdateStatus(s, id, st) /\ mirrored' = mirrored
    <3>1. store' = Reg!Served(Reg!Served(store, Escrow, RecordCall(id, a)), Escrow,
                              StatusCall(id, st))
      BY <1>a, <2>1, ServeTwo
    <3>2. LinkedBy(<<RecordCall(id, a), StatusCall(id, st)>>) = {}
      <4> HIDE DEF st
      <4>1. QED
        BY LinksMade
    <3>3. mirrored' = mirrored
      BY <1>a, <2>1, <3>2
    <3>4. QED
      BY <3>1, <3>3, ServedCalls
  <2>3. SameRecords(store, s)
    BY <1>a, RecordingKeeps
  <2>4. st \in CampaignStatus
    BY <1>3 DEF Tells
  <2> HIDE DEF s, st
  <2>5. /\ Typed(store') /\ store'.info = store.info
        /\ store'.record[id].status = st
        /\ store'.record[id].farmer = store.record[id].farmer
        /\ store'.record[id].escrow = store.record[id].escrow
        /\ \A o \in CampaignIds \ {id} : store'.record[o] = store.record[o]
    BY <2>2, <2>3, <2>4, UpdateEffect DEF SameRecords
  <2>6. ASSUME NEW o \in mirrored PROVE Linkage(o)'
    <3>1. o \in CampaignIds /\ Linkage(o)
      BY <1>a
    <3>2. CASE o = id
      <4>1. campaign'[id].farmer = campaign[id].farmer /\ st # "Absent"
        BY <1>3, <2>4 DEF Tells, CampaignStatus
      <4>2. QED
        BY <2>5, <3>1, <3>2, <4>1 DEF Linkage, Mirror, Exists, st
    <3>3. CASE o # id
      BY <1>3, <2>5, <3>1, <3>3 DEF Tells, OthersKept, Linkage, Mirror, Exists
    <3>4. QED
      BY <3>2, <3>3
  <2>7. QED
    BY <1>3, <1>a, <2>2, <2>5, <2>6, RegistryStays DEF PInv
<1>4. ASSUME NEW id \in CampaignIds, Opens(id), registry # NoOne PROVE PInv'
  <2> DEFINE f == campaign'[id].farmer
             s == Reg!LinkEscrow(store, id, f, Escrow)
  <2>1. tx'.calls = <<LinkCall(id, f), RecordCall(id, "CampaignCreated")>>
    BY <1>4 DEF Opens
  <2>2. /\ store' = Reg!RecordActivity(s, id, Escrow, "CampaignCreated")
        /\ mirrored' = mirrored \cup {id} /\ Reg!CanLink(store, id, f)
    <3>1. /\ store' = Reg!Served(Reg!Served(store, Escrow, LinkCall(id, f)), Escrow,
                                 RecordCall(id, "CampaignCreated"))
          /\ Reg!Accepts(store, Escrow, LinkCall(id, f))
      BY <1>a, <2>1, ServeTwo
    <3>2. LinkedBy(<<LinkCall(id, f), RecordCall(id, "CampaignCreated")>>) = {id}
      <4> HIDE DEF f
      <4>1. QED
        BY LinksMade
    <3>3. mirrored' = mirrored \cup {id}
      BY <1>a, <2>1, <3>2
    <3>4. QED
      BY <3>1, <3>3, ServedCalls
  <2>3. f \in Farmers /\ Escrow \in Contracts
    BY <1>4 DEF Opens, Contracts
  <2>4. id \notin mirrored
    BY <1>4, <1>a DEF Opens, Linkage
  <2> HIDE DEF f
  <2>5. /\ Typed(s) /\ s.info = store.info
        /\ s.record = [store.record EXCEPT ![id] =
                         [farmer |-> f, escrow |-> Escrow, status |-> "Active"]]
    BY <1>a, <2>3, LinkEffect
  <2> HIDE DEF s
  <2>6. SameRecords(s, store')
    BY <2>2, <2>5, RecordingKeeps
  <2>7. /\ Typed(store') /\ store'.info = store.info
        /\ store'.record[id] = [farmer |-> f, escrow |-> Escrow, status |-> "Active"]
        /\ \A o \in CampaignIds \ {id} : store'.record[o] = store.record[o]
    BY <1>a, <2>5, <2>6 DEF SameRecords, Typed
  <2>8. Linkage(id)'
    <3>1. store.info[id] = f
      BY <2>2 DEF Reg!CanLink
    <3>2. campaign'[id].status = "Active" /\ campaign'[id].farmer = f
      BY <1>4 DEF Opens, f
    <3>3. QED
      BY <2>7, <3>1, <3>2 DEF Linkage, Mirror, Exists
  <2>9. ASSUME NEW o \in mirrored PROVE Linkage(o)'
    BY <1>4, <1>a, <2>4, <2>7, <2>9 DEF Opens, OthersKept, Linkage, Mirror, Exists
  <2>10. QED
    BY <1>4, <1>a, <2>2, <2>7, <2>8, <2>9, RegistryStays DEF PInv
<1>5. QED
  BY <1>a, <1>1, <1>2, <1>3, <1>4, EscrowSteps

\* What leaves the escrow and the records of linked campaigns alone keeps the invariant.
LEMMA LinksUntouched ==
  ASSUME PInv, tx' = NoTx, Typed(store'), mirrored' \subseteq mirrored,
         UNCHANGED <<timestamp, admin, registry, campaign, contribution, dispute,
                     tranches, harvest, vault, audit>>,
         \A o \in mirrored' : store'.record[o] = store.record[o] /\ store'.info[o] = store.info[o]
  PROVE  PInv'
<1>1. IInv'
  BY QuietKeepsIInv DEF PInv
<1>2. ASSUME NEW o \in mirrored' PROVE Linkage(o)'
  BY <1>2 DEF PInv, Linkage, Mirror, Exists
<1>3. QED
  BY <1>1, <1>2 DEF PInv

\* People write a linked campaign's record only as the registry's administrator, and
\* then it is no longer counted as mirrored; its registration they cannot change.
LEMMA RegistryKeepsPInv ==
  ASSUME PInv, RegistryTransaction
  PROVE  PInv'
<1> DEFINE Goal == /\ Typed(store')
                   /\ \A o \in mirrored' : store'.info[o] = store.info[o]
<1>a. Typed(store) /\ mirrored \subseteq CampaignIds /\ \A o \in mirrored : Linkage(o)
  BY DEF PInv
<1>b. mirrored' = {id \in mirrored : store'.record[id] = store.record[id]}
  BY DEF RegistryTransaction
<1>c. ASSUME SameRecords(store, store') PROVE Goal
  BY <1>c DEF SameRecords
<1>1. ASSUME NEW a \in RegistryAdmins, Reg!Initialize(a) \/ Reg!UpdateAdmin(a) PROVE Goal
  <2>1. store' = [store EXCEPT !.admin = a]
    BY <1>1 DEF Reg!Initialize, Reg!UpdateAdmin
  <2>2. SameRecords(store, store')
    BY <1>a, <2>1 DEF Typed, SameRecords
  <2>3. QED
    BY <1>c, <2>2
<1>2. ASSUME NEW c, Reg!ApproveContract(c) \/ Reg!RevokeContract(c) PROVE Goal
  <2>1. \E approved : store' = [store EXCEPT !.approved = approved]
    BY <1>2 DEF Reg!ApproveContract, Reg!RevokeContract
  <2>2. SameRecords(store, store')
    BY <1>a, <2>1 DEF Typed, SameRecords
  <2>3. QED
    BY <1>c, <2>2
<1>3. ASSUME NEW id \in CampaignIds, NEW f \in Farmers, Reg!FarmerRegistersCampaign(id, f)
      PROVE  Goal
  <2>1. store.info[id] = NoOne /\ store' = Reg!RegisterCampaign(store, id, f)
    BY <1>3 DEF Reg!FarmerRegistersCampaign
  <2>2. Typed(store') /\ store'.info = [store.info EXCEPT ![id] = f]
    BY <1>a, <2>1, RegistrationEffect
  <2>3. id \notin mirrored
    <3>1. ASSUME id \in mirrored PROVE FALSE
      <4>1. store.info[id] = campaign[id].farmer /\ campaign[id].status # "Absent"
        BY <1>a, <3>1 DEF Linkage, Exists
      <4>2. campaign[id].farmer \in Farmers
        BY <4>1 DEF PInv, IInv, GoodCampaign
      <4>3. QED
        BY <2>1, <4>1, <4>2, EscrowConstants DEF Accounts
    <3>2. QED
      BY <3>1
  <2>4. QED
    BY <1>a, <1>b, <2>2, <2>3 DEF Typed
<1>4. ASSUME NEW id \in CampaignIds, NEW f \in Farmers, NEW c \in Contracts,
             Reg!FarmerLinks(id, f, c)
      PROVE  Goal
  <2>1. store' = Reg!LinkEscrow(store, id, f, c)
    BY <1>4 DEF Reg!FarmerLinks
  <2> DEFINE s == Reg!LinkEscrow(store, id, f, c)
  <2>2. /\ Typed(s) /\ s.info = store.info
        /\ s.record = [store.record EXCEPT ![id] =
                         [farmer |-> f, escrow |-> c, status |-> "Active"]]
    BY <1>a, LinkEffect
  <2> HIDE DEF s
  <2>3. store' = s
    BY <2>1 DEF s
  <2>4. QED
    BY <2>2, <2>3
<1>5. ASSUME NEW id \in CampaignIds, NEW status \in Reportable,
             Reg!AdminUpdatesStatus(id, status)
      PROVE  Goal
  <2>1. store' = Reg!UpdateStatus(store, id, status)
    BY <1>5 DEF Reg!AdminUpdatesStatus
  <2>2. Typed(store') /\ store'.info = store.info
    BY <1>a, <2>1, PlatformConstants, UpdateEffect
  <2>3. QED
    BY <2>2
<1>6. ASSUME NEW id \in CampaignIds, NEW p, NEW action,
             Reg!PersonRecordsActivity(id, p, action)
      PROVE  Goal
  <2>1. store' = Reg!RecordActivity(store, id, p, action)
    BY <1>6 DEF Reg!PersonRecordsActivity
  <2>2. QED
    BY <1>a, <1>c, <2>1, RecordingKeeps
<1>7. Goal
  <2> HIDE DEF Goal
  <2>1. \/ \E a \in RegistryAdmins : Reg!Initialize(a) \/ Reg!UpdateAdmin(a)
        \/ \E c : Reg!ApproveContract(c) \/ Reg!RevokeContract(c)
        \/ Reg!Enrolment \/ Reg!Reporting
    BY DEF RegistryTransaction
  <2>2. CASE Reg!Enrolment
    BY <1>3, <1>4, <2>2 DEF Reg!Enrolment, Contracts
  <2>3. CASE Reg!Reporting
    BY <1>5, <1>6, <2>3 DEF Reg!Reporting
  <2>4. QED
    BY <1>1, <1>2, <2>1, <2>2, <2>3
<1>8. /\ tx' = NoTx
      /\ UNCHANGED <<timestamp, admin, registry, campaign, contribution, dispute,
                     tranches, harvest, vault, audit>>
  BY DEF RegistryTransaction
<1>9. QED
  BY <1>7, <1>8, <1>b, LinksUntouched

\* Another contract updates only what is linked to it, which no mirrored campaign is.
LEMMA ForeignKeepsPInv ==
  ASSUME PInv, ForeignTransaction
  PROVE  PInv'
<1>a. Typed(store) /\ mirrored \subseteq CampaignIds /\ \A o \in mirrored : Linkage(o)
  BY DEF PInv
<1>1. PICK id \in CampaignIds, c \in OtherContracts, status \in Reportable :
        store.record[id].escrow = c /\ Reg!Serve(c, <<StatusCall(id, status)>>)
  BY DEF ForeignTransaction, StatusCall
<1>2. store' = Reg!Served(store, c, StatusCall(id, status))
  BY <1>1, ServeOne
<1>3. store' = Reg!UpdateStatus(store, id, status)
  BY <1>2, ServedCalls
<1>4. /\ Typed(store') /\ store'.info = store.info
      /\ \A o \in CampaignIds \ {id} : store'.record[o] = store.record[o]
  BY <1>a, <1>3, PlatformConstants, UpdateEffect
<1>5. id \notin mirrored
  BY <1>1, <1>a, PlatformConstants DEF Linkage
<1>6. /\ tx' = NoTx /\ mirrored' = mirrored
      /\ UNCHANGED <<timestamp, admin, registry, campaign, contribution, dispute,
                     tranches, harvest, vault, audit>>
  BY DEF ForeignTransaction
<1>7. QED
  BY <1>4, <1>5, <1>6, <1>a, LinksUntouched

\* A reconciliation makes the mirror exact.
LEMMA ReconcileKeepsPInv ==
  ASSUME PInv, NEW id \in CampaignIds, ReconcileStatus(id)
  PROVE  PInv'
<1>a. Typed(store) /\ mirrored \subseteq CampaignIds /\ \A o \in mirrored : Linkage(o)
  BY DEF PInv
<1>b. /\ tx' = NoTx /\ mirrored' = mirrored
      /\ UNCHANGED <<timestamp, admin, registry, campaign, contribution, dispute,
                     tranches, harvest, vault, audit>>
  BY DEF ReconcileStatus
<1>1. PICK status \in CampaignStatus :
        /\ store' = Reg!UpdateStatus(store, id, status)
        /\ store.record[id].escrow = Escrow => status = campaign[id].status
  <2>1. CASE store.record[id].escrow = Escrow
    <3>1. campaign[id].status \in CampaignStatus
      BY <2>1 DEF ReconcileStatus, PInv, IInv, GoodCampaign, Campaign, Exists
    <3>2. QED
      BY <2>1, <3>1 DEF ReconcileStatus, Reg!Reconcile
  <2>2. CASE store.record[id].escrow # Escrow
    BY <2>2, PlatformConstants DEF ReconcileStatus, Reg!Reconcile
  <2>3. QED
    BY <2>1, <2>2
<1>2. /\ Typed(store') /\ store'.info = store.info
      /\ store'.record[id].status = status
      /\ store'.record[id].farmer = store.record[id].farmer
      /\ store'.record[id].escrow = store.record[id].escrow
      /\ \A o \in CampaignIds \ {id} : store'.record[o] = store.record[o]
  BY <1>a, <1>1, UpdateEffect
<1>3. ASSUME NEW o \in mirrored PROVE Linkage(o)'
  <2>1. o \in CampaignIds /\ Linkage(o)
    BY <1>a
  <2>2. CASE o = id
    BY <1>1, <1>2, <1>b, <2>1, <2>2 DEF Linkage, Mirror, Exists
  <2>3. CASE o # id
    BY <1>2, <1>b, <2>1, <2>3 DEF Linkage, Mirror, Exists
  <2>4. QED
    BY <2>2, <2>3
<1>4. IInv'
  BY <1>b, QuietKeepsIInv DEF PInv
<1>5. QED
  BY <1>2, <1>3, <1>4, <1>a, <1>b DEF PInv

\* In every state the two contracts reach together, each is as it would be alone and
\* their records of a campaign that its creation linked fit.
THEOREM ContractsFit == PlatformSpec => []PInv
<1>1. PlatformInit => PInv
  BY InitPInv
<1>2. PInv /\ [PlatformNext]_platformVars => PInv'
  <2> SUFFICES ASSUME PInv, [PlatformNext]_platformVars PROVE PInv'
    OBVIOUS
  <2>1. CASE UNCHANGED platformVars
    BY <2>1 DEF PInv, IInv, TypeOK, GoodCampaign, RecordsMatchStatus, StakesWithinTotal,
                Typed, Linkage, Mirror, Exists, platformVars, vars
  <2>2. QED
    BY <2>1, EscrowKeepsPInv, RegistryKeepsPInv, ForeignKeepsPInv, ReconcileKeepsPInv
       DEF PlatformNext
<1>3. QED
  BY <1>1, <1>2, PTL DEF PlatformSpec

\* LinkedFarmersAgree: the identifiers of the two contracts never name campaigns of
\* different farmers, once a creation has linked them.
THEOREM FarmersAgree == PlatformSpec => []LinkedFarmersAgree
<1>1. PInv => LinkedFarmersAgree
  BY DEF PInv, LinkedFarmersAgree, Linkage
<1>2. QED
  BY <1>1, ContractsFit, PTL

\* MirrorLagsOnlyInFunding: the registry's status may be behind only while the funding
\* ends, whoever reconciles or calls in between.
THEOREM MirrorsLagInFunding == PlatformSpec => []MirrorLagsOnlyInFunding
<1>1. PInv => MirrorLagsOnlyInFunding
  BY DEF PInv, MirrorLagsOnlyInFunding, Linkage
<1>2. QED
  BY <1>1, ContractsFit, PTL

-----------------------------------------------------------------------------
(* A paged list, read as one sequence.                                       *)

\* g gives what the first pages hold, for each number of them.
Flattens(pages, g) ==
  g = [i \in 1 .. Len(pages) |-> IF i = 1 THEN pages[i] ELSE g[i - 1] \o pages[i]]

\* The recursion has a solution: it is solved for ever more pages.
LEMMA FlattensExist ==
  ASSUME NEW S, NEW pages \in Seq(Seq(S))
  PROVE  \E g : Flattens(pages, g)
<1> DEFINE Body(g, i) == IF i = 1 THEN pages[i] ELSE g[i - 1] \o pages[i]
           Solved(n) == \E g : g = [i \in 1 .. n |-> Body(g, i)]
           Bad == {n \in Nat : ~Solved(n)}
<1>1. Bad = {}
  <2> SUFFICES ASSUME Bad # {} PROVE FALSE
    OBVIOUS
  <2>1. PICK n \in Bad : \A k \in Bad : n <= k
    BY LeastNat
  <2>2. n \in Nat /\ ~Solved(n)
    OBVIOUS
  <2>3. CASE n = 0
    <3> DEFINE g == [i \in 1 .. 0 |-> 0]
    <3>1. g = [i \in 1 .. 0 |-> Body(g, i)]
      <4>1. \A i \in 1 .. 0 : FALSE
        OBVIOUS
      <4> HIDE DEF Body
      <4>2. QED
        BY <4>1
    <3>2. QED
      BY <2>2, <2>3, <3>1
  <2>4. CASE n # 0
    <3>1. n - 1 \in Nat /\ Solved(n - 1)
      <4>1. n - 1 \in Nat /\ ~(n <= n - 1)
        BY <2>2, <2>4
      <4> HIDE DEF Solved
      <4>2. QED
        BY <2>1, <4>1
    <3>2. PICK g : g = [i \in 1 .. (n - 1) |-> Body(g, i)]
      BY <3>1
    <3> DEFINE h == [i \in 1 .. n |-> Body(g, i)]
    <3>3. \A i \in 1 .. n : i # 1 => i - 1 \in 1 .. (n - 1) /\ i - 1 \in 1 .. n
      BY <2>2
    <3>4. \A i \in 1 .. (n - 1) : i \in 1 .. n /\ h[i] = g[i]
      <4>1. \A i \in 1 .. (n - 1) : i \in 1 .. n
        BY <2>2
      <4> HIDE DEF Body
      <4>2. QED
        BY <3>2, <4>1
    <3>5. \A i \in 1 .. n : Body(g, i) = Body(h, i)
      BY <3>3, <3>4
    <3> HIDE DEF Body
    <3>6. h = [i \in 1 .. n |-> Body(h, i)]
      BY <3>5
    <3>7. Solved(n)
      BY <3>6
    <3>8. QED
      BY <2>2, <3>7
  <2>5. QED
    BY <2>3, <2>4
<1>2. Solved(Len(pages))
  <2>1. Len(pages) \in Nat
    OBVIOUS
  <2> HIDE DEF Solved
  <2>2. QED
    BY <1>1, <2>1
<1>3. QED
  BY <1>2 DEF Flattens

\* What a solution says of each number of pages.
LEMMA FlattenRules ==
  ASSUME NEW pages, Len(pages) \in Nat, NEW g, Flattens(pages, g)
  PROVE  /\ Len(pages) > 0 => g[1] = pages[1]
         /\ \A i \in 1 .. Len(pages) : i # 1 => g[i] = g[i - 1] \o pages[i]
<1> DEFINE Body(i) == IF i = 1 THEN pages[i] ELSE g[i - 1] \o pages[i]
<1>1. g = [i \in 1 .. Len(pages) |-> Body(i)]
  BY DEF Flattens
<1> HIDE DEF Body
<1>2. \A i \in 1 .. Len(pages) : g[i] = Body(i)
  BY <1>1
<1>3. Len(pages) > 0 => 1 \in 1 .. Len(pages)
  OBVIOUS
<1>4. QED
  BY <1>2, <1>3 DEF Body

\* What the first pages hold depends on those pages only, and is a sequence.
LEMMA FlattenAgree ==
  ASSUME NEW S, NEW pages \in Seq(Seq(S)), NEW g, Flattens(pages, g),
         NEW more \in Seq(Seq(S)), NEW h, Flattens(more, h),
         NEW n \in 1 .. Len(pages), n \in 1 .. Len(more),
         \A i \in 1 .. n : more[i] = pages[i]
  PROVE  g[n] \in Seq(S) /\ h[n] = g[n]
<1> DEFINE Bad == {i \in 1 .. n : ~(g[i] \in Seq(S) /\ h[i] = g[i])}
<1>1. Bad = {}
  <2> SUFFICES ASSUME Bad # {} PROVE FALSE
    OBVIOUS
  <2>1. Bad \subseteq Nat
    OBVIOUS
  <2>2. PICK m \in Bad : \A k \in Bad : m <= k
    BY <2>1, LeastNat
  <2>3. /\ m \in 1 .. Len(pages) /\ m \in 1 .. Len(more) /\ m \in 1 .. n
        /\ Len(pages) \in Nat /\ Len(more) \in Nat
        /\ pages[m] \in Seq(S) /\ more[m] = pages[m]
    OBVIOUS
  <2>4. CASE m = 1
    <3>1. g[1] = pages[1] /\ h[1] = more[1]
      <4>1. Len(pages) > 0 /\ Len(more) > 0
        BY <2>3
      <4>2. QED
        BY <2>3, <4>1, FlattenRules
    <3>2. QED
      BY <2>2, <2>3, <2>4, <3>1
  <2>5. CASE m # 1
    <3>1. m - 1 \in 1 .. n /\ ~(m <= m - 1)
      BY <2>3, <2>5
    <3>2. g[m - 1] \in Seq(S) /\ h[m - 1] = g[m - 1]
      BY <2>2, <3>1
    <3>3. g[m] = g[m - 1] \o pages[m] /\ h[m] = h[m - 1] \o more[m]
      BY <2>3, <2>5, FlattenRules
    <3>4. g[m] \in Seq(S) /\ h[m] = g[m]
      BY <2>3, <3>2, <3>3
    <3>5. QED
      BY <2>2, <3>4
  <2>6. QED
    BY <2>4, <2>5
<1>2. n \in 1 .. n
  OBVIOUS
<1>3. QED
  BY <1>1, <1>2

\* FlattenSeq is what all the pages hold.
LEMMA FlattenValue ==
  ASSUME NEW S, NEW pages \in Seq(Seq(S)), NEW g, Flattens(pages, g), Len(pages) # 0
  PROVE  FlattenSeq(pages) = g[Len(pages)] /\ FlattenSeq(pages) \in Seq(S)
<1> DEFINE c == CHOOSE h : Flattens(pages, h)
<1>1. Flattens(pages, c)
  OBVIOUS
<1>2. FlattenSeq(pages) = c[Len(pages)]
  BY DEF FlattenSeq, Flattens
<1>3. Len(pages) \in 1 .. Len(pages) /\ Len(pages) \in Nat
  OBVIOUS
<1> HIDE DEF c
<1>4. g[Len(pages)] \in Seq(S) /\ c[Len(pages)] = g[Len(pages)]
  BY <1>1, <1>3, FlattenAgree
<1>5. QED
  BY <1>2, <1>3, <1>4

\* An element appended to the second of two sequences is the last of both together.
LEMMA AppendedLast ==
  ASSUME NEW S, NEW s \in Seq(S), NEW t \in Seq(S), NEW x \in S
  PROVE  s \o Append(t, x) = Append(s \o t, x)
<1> DEFINE u == s \o Append(t, x)
           v == Append(s \o t, x)
<1>1. Append(t, x) \in Seq(S) /\ s \o t \in Seq(S)
  OBVIOUS
<1>2. /\ Len(Append(t, x)) = Len(t) + 1 /\ Len(s \o t) = Len(s) + Len(t)
      /\ Len(s) \in Nat /\ Len(t) \in Nat
  OBVIOUS
<1>3. u \in Seq(S) /\ v \in Seq(S) /\ Len(u) = Len(s) + Len(t) + 1 /\ Len(v) = Len(u)
  BY <1>1, <1>2
<1>4. ASSUME NEW i \in 1 .. Len(u) PROVE u[i] = v[i]
  <2>1. CASE i <= Len(s)
    BY <1>1, <1>2, <1>3, <2>1
  <2>2. CASE Len(s) < i /\ i <= Len(s) + Len(t)
    BY <1>1, <1>2, <1>3, <2>2
  <2>3. CASE i = Len(s) + Len(t) + 1
    BY <1>1, <1>2, <1>3, <2>3
  <2>4. QED
    BY <1>2, <1>3, <2>1, <2>2, <2>3
<1> HIDE DEF u, v
<1>5. QED
  BY <1>3, <1>4, SeqEqual DEF u, v

\* Appending to a paged list appends to what it holds, whether or not it needs a new page.
LEMMA FlattenAppended ==
  ASSUME NEW S, NEW pages \in Seq(Seq(S)), NEW x \in S
  PROVE  LET more == Reg!AppendPaged(pages, x) IN
         /\ more \in Seq(Seq(S))
         /\ FlattenSeq(pages) \in Seq(S)
         /\ FlattenSeq(more) = Append(FlattenSeq(pages), x)
<1> DEFINE n == Len(pages)
           more == Reg!AppendPaged(pages, x)
<1>a. n \in Nat /\ (\A i \in 1 .. n : pages[i] \in Seq(S)) /\ <<x>> \in Seq(S)
  OBVIOUS
<1>1. CASE n = 0
  <2>1. pages = <<>>
    BY <1>1
  <2>2. more = <<<<x>>>>
    BY <2>1 DEF Reg!AppendPaged
  <2>3. more \in Seq(Seq(S)) /\ Len(more) = 1 /\ more[1] = <<x>>
    BY <1>a, <2>2
  <2>4. PICK h : Flattens(more, h)
    BY <2>3, FlattensExist
  <2> HIDE DEF more
  <2>5. FlattenSeq(more) = <<x>>
    <3>1. Len(more) \in Nat /\ Len(more) > 0 /\ Len(more) # 0
      BY <2>3
    <3>2. h[1] = more[1]
      BY <2>4, <3>1, FlattenRules
    <3>3. FlattenSeq(more) = h[Len(more)]
      BY <2>3, <2>4, <3>1, FlattenValue
    <3>4. QED
      BY <2>3, <3>2, <3>3
  <2>6. FlattenSeq(pages) = <<>>
    BY <2>1 DEF FlattenSeq
  <2>7. QED
    BY <2>3, <2>5, <2>6 DEF more
<1>2. CASE n # 0
  <2>1. PICK g : Flattens(pages, g)
    BY FlattensExist
  <2>2. FlattenSeq(pages) = g[n] /\ FlattenSeq(pages) \in Seq(S)
    BY <1>2, <2>1, FlattenValue
  <2>3. n \in 1 .. n /\ pages # <<>> /\ Reg!Last(pages) = pages[n]
    BY <1>2, <1>a DEF Reg!Last
  <2>4. CASE Len(Reg!Last(pages)) >= PageSize
    <3>1. more = Append(pages, <<x>>)
      BY <2>4 DEF Reg!AppendPaged
    <3>2. /\ more \in Seq(Seq(S)) /\ Len(more) = n + 1 /\ more[n + 1] = <<x>>
          /\ \A i \in 1 .. n : more[i] = pages[i]
      BY <1>a, <3>1
    <3> HIDE DEF more
    <3>3. PICK h : Flattens(more, h)
      BY <3>2, FlattensExist
    <3>4. h[n] = g[n]
      <4>1. /\ n \in 1 .. Len(pages) /\ n \in 1 .. Len(more)
            /\ more \in Seq(Seq(S)) /\ \A i \in 1 .. n : more[i] = pages[i]
        BY <1>a, <2>3, <3>2
      <4> HIDE DEF n
      <4>2. QED
        BY <2>1, <3>3, <4>1, FlattenAgree
    <3>5. h[n + 1] = h[n] \o <<x>>
      <4>1. n + 1 \in 1 .. Len(more) /\ n + 1 # 1 /\ (n + 1) - 1 = n
        BY <1>2, <1>a, <3>2
      <4> HIDE DEF n
      <4>2. Len(more) \in Nat
        BY <1>a, <3>2
      <4>3. \A i \in 1 .. Len(more) : i # 1 => h[i] = h[i - 1] \o more[i]
        BY <3>3, <4>2, FlattenRules
      <4>4. QED
        BY <3>2, <4>1, <4>3
    <3>6. FlattenSeq(more) = h[n + 1]
      BY <1>a, <3>2, <3>3, FlattenValue
    <3>7. FlattenSeq(more) = FlattenSeq(pages) \o <<x>>
      BY <2>2, <3>4, <3>5, <3>6
    <3>8. QED
      BY <2>2, <3>2, <3>7 DEF more
  <2>5. CASE ~(Len(Reg!Last(pages)) >= PageSize)
    <3> DEFINE page == Append(pages[n], x)
    <3>1. more = [pages EXCEPT ![n] = page]
      BY <2>3, <2>5 DEF Reg!AppendPaged
    <3>2. /\ more \in Seq(Seq(S)) /\ Len(more) = n /\ more[n] = page
          /\ \A i \in 1 .. (n - 1) : more[i] = pages[i]
      BY <1>a, <2>3, <3>1
    <3> HIDE DEF more
    <3>3. PICK h : Flattens(more, h)
      BY <3>2, FlattensExist
    <3>4. FlattenSeq(more) = h[n]
      BY <1>2, <3>2, <3>3, FlattenValue
    <3>5. h[n] = Append(g[n], x)
      <4>a. Len(pages) = n /\ Len(more) = n /\ n \in Nat /\ n > 0 /\ n \in 1 .. n
        BY <1>2, <1>a, <3>2
      <4> HIDE DEF n, page
      <4>1. CASE n = 1
        <5>1. h[1] = more[1] /\ g[1] = pages[1]
          BY <2>1, <3>3, <4>a, FlattenRules
        <5>2. QED
          BY <3>2, <4>1, <5>1 DEF page
      <4>2. CASE n # 1
        <5> DEFINE k == n - 1
        <5>1. k \in Nat /\ k <= n /\ k \in 1 .. k
          BY <4>a, <4>2
        <5>2. h[k] = g[k] /\ g[k] \in Seq(S)
          <6>1. more \in Seq(Seq(S)) /\ \A i \in 1 .. k : more[i] = pages[i]
            BY <3>2
          <6> HIDE DEF k
          <6>2. k \in 1 .. Len(pages) /\ k \in 1 .. Len(more)
            BY <4>a, <5>1
          <6>3. QED
            BY <2>1, <3>3, <6>1, <6>2, FlattenAgree
        <5>3. h[n] = h[k] \o more[n] /\ g[n] = g[k] \o pages[n]
          <6>1. \A i \in 1 .. Len(more) : i # 1 => h[i] = h[i - 1] \o more[i]
            BY <3>3, <4>a, FlattenRules
          <6>2. \A i \in 1 .. Len(pages) : i # 1 => g[i] = g[i - 1] \o pages[i]
            BY <2>1, <4>a, FlattenRules
          <6>3. QED
            BY <4>a, <4>2, <6>1, <6>2
        <5> HIDE DEF k
        <5>4. g[k] \in Seq(S) /\ pages[n] \in Seq(S) /\ x \in S
          BY <1>a, <4>a, <5>2
        <5>5. g[k] \o Append(pages[n], x) = Append(g[k] \o pages[n], x)
          <6> DEFINE a == g[k]
                     b == pages[n]
          <6> HIDE DEF a, b
          <6>1. a \in Seq(S) /\ b \in Seq(S) /\ x \in S
            BY <5>4 DEF a, b
          <6>2. a \o Append(b, x) = Append(a \o b, x)
            BY <6>1, AppendedLast
          <6>3. QED
            BY <6>2 DEF a, b
        <5>6. QED
          BY <3>2, <5>2, <5>3, <5>5 DEF page
      <4>3. QED
        BY <4>1, <4>2
    <3>6. QED
      BY <2>2, <3>2, <3>4, <3>5 DEF more
  <2>6. QED
    BY <2>4, <2>5
<1>3. QED
  BY <1>1, <1>2

-----------------------------------------------------------------------------
(* The story the activity log tells.                                         *)

Entry == [actor : Farmers \cup RegistryAdmins \cup {Escrow}, action : ActivityAction]

Logs == [CampaignIds -> Seq(Seq(Entry))]

Raising == {"CampaignCreated", "CampaignFunded"}

\* The escrow's latest entry has this action.
Latest(log, action) ==
  \E i \in Own(log) : log[i].action = action /\ \A j \in Own(log) : j <= i

\* What the log of a campaign in some status must tell for the next entry to fit.
Story(log, status) ==
  /\ Own(log) # {}
  /\ TellsLifecycle(log, status)
  /\ status \in {"Active", "Funding", "Funded"} => \A i \in Own(log) : log[i].action \in Raising
  /\ status = "Disputed" => Latest(log, "DisputeInitiated")
  /\ status = "Harvested" => Latest(log, "HarvestReported")

\* Before its creation a campaign has no entry of the escrow's.
LogInv ==
  /\ PInv
  /\ store.log \in Logs
  /\ \A id \in CampaignIds : ~Exists(id) => Own(ActivityLog(id)) = {}
  /\ \A id \in mirrored : Story(ActivityLog(id), campaign[id].status)

\* The places of the escrow's entries after one more entry.
LEMMA OwnAppended ==
  ASSUME NEW log \in Seq(Entry), NEW e \in Entry
  PROVE  LET new == Append(log, e)
             n   == Len(log) + 1
         IN
         /\ Own(log) \subseteq 1 .. Len(log) /\ Len(log) \in Nat
         /\ \A i \in Own(log) : new[i] = log[i]
         /\ e.actor # Escrow => Own(new) = Own(log)
         /\ e.actor = Escrow => Own(new) = Own(log) \cup {n} /\ new[n] = e
<1> DEFINE new == Append(log, e)
           n == Len(log) + 1
<1>1. /\ Len(log) \in Nat /\ DOMAIN log = 1 .. Len(log)
      /\ DOMAIN new = 1 .. n /\ new[n] = e
      /\ \A i \in 1 .. Len(log) : new[i] = log[i]
  OBVIOUS
<1> HIDE DEF new
<1>2. \A i : i \in 1 .. n <=> i \in 1 .. Len(log) \/ i = n
  BY <1>1
<1>3. n \notin 1 .. Len(log)
  BY <1>1
<1> HIDE DEF n
<1>4. QED
  BY <1>1, <1>2, <1>3 DEF Own, new, n

\* An entry of somebody else changes nothing of the escrow's story.
LEMMA StoryKept ==
  ASSUME NEW log, NEW new, NEW s, Own(new) = Own(log),
         \A i \in Own(log) : new[i] = log[i], Story(log, s)
  PROVE  Story(new, s)
<1>1. \A a : Latest(log, a) => Latest(new, a)
  BY DEF Latest
<1>2. \A i \in Own(log) : \A a : NextAfter(log, i, a) => NextAfter(new, i, a)
  BY DEF NextAfter
<1>3. TellsLifecycle(new, s)
  BY <1>2 DEF TellsLifecycle, Story
<1>4. QED
  BY <1>1, <1>3 DEF Story

\* A move the registry is not told of leaves a story the new status fits.
LEMMA StoryUnreported ==
  ASSUME NEW log, NEW s, NEW t, Story(log, s),
         s \in {"Active", "Funding"}, t \in {"Funding", "Funded", "Failed"}
  PROVE  Story(log, t)
<1>1. \A i \in Own(log) : log[i].action \in Raising
  BY DEF Story
<1>2. TellsLifecycle(log, t)
  BY <1>1 DEF Story, TellsLifecycle, Raising
<1>3. QED
  BY <1>1, <1>2 DEF Story

\* The first entry of a campaign's story is its creation.
LEMMA StoryBegins ==
  ASSUME NEW new, NEW n \in Nat, Own(new) = {n}, new[n].action = "CampaignCreated"
  PROVE  Story(new, "Active")
<1>1. TellsLifecycle(new, "Active")
  BY DEF TellsLifecycle
<1>2. QED
  BY <1>1 DEF Story, Raising

\* An entry about a move goes on with the story as it stands before the move.
LEMMA StoryGoesOn ==
  ASSUME NEW log, NEW new, NEW n \in Nat, NEW a, NEW s, NEW t,
         Own(log) \subseteq 1 .. (n - 1), Own(new) = Own(log) \cup {n},
         \A i \in Own(log) : new[i] = log[i], new[n].action = a,
         Story(log, s), Reported(a, s, t)
  PROVE  Story(new, t)
<1> USE DEF Raising
<1>1. \A i \in Own(log) : i \in Nat /\ i < n /\ i <= n /\ ~(n <= i) /\ ~(i >= n) /\ n >= i
  OBVIOUS
<1>2. n <= n /\ n >= n
  OBVIOUS
<1>3. \A i \in Own(log) :
        log[i].action \notin {"CampaignSettled", "DisputeResolved", "CampaignStatusChanged"}
  <2>1. s \notin {"Settled", "Resolved", "Failed"}
    BY DEF Reported, Accepting, InFlight
  <2>2. QED
    BY <2>1 DEF Story, TellsLifecycle
<1>4. ASSUME a = "CampaignFunded"
      PROVE  \A i \in Own(new) : new[i].action \in Raising
  <2>1. s \in {"Active", "Funding"}
    BY <1>4 DEF Reported, Accepting
  <2>2. \A i \in Own(log) : log[i].action \in Raising
    BY <2>1 DEF Story
  <2>3. QED
    BY <1>4, <2>2
<1>5. \A b : Latest(log, b) => NextAfter(new, n, b)
  BY <1>1, <1>2 DEF Latest, NextAfter
<1>6. ASSUME NEW i \in Own(log), NEW b, NextAfter(log, i, b) PROVE NextAfter(new, i, b)
  BY <1>1, <1>6 DEF NextAfter
<1>7. TellsLifecycle(new, t)
  <2> SUFFICES ASSUME NEW i \in Own(new)
               PROVE  /\ new[i].action = "CampaignCreated" <=> \A j \in Own(new) : j >= i
                      /\ new[i].action \in {"CampaignSettled", "DisputeResolved",
                                            "CampaignStatusChanged"} =>
                           /\ \A j \in Own(new) : j <= i
                           /\ t \in {"Settled", "Resolved", "Failed"}
                      /\ new[i].action = "CampaignFunded" =>
                           \A j \in Own(new) : j <= i => new[j].action \in Raising
                      /\ new[i].action = "DisputeResolved"
                           => NextAfter(new, i, "DisputeInitiated")
                      /\ new[i].action = "CampaignSettled"
                           => NextAfter(new, i, "HarvestReported")
    BY DEF TellsLifecycle
  <2>1. CASE i \in Own(log)
    <3>1. new[i] = log[i] /\ i \in Nat
      BY <1>1, <2>1
    <3>2. log[i].action = "CampaignCreated" <=> \A j \in Own(new) : j >= i
      BY <1>1, <2>1 DEF Story, TellsLifecycle
    <3>3. log[i].action = "CampaignFunded" =>
            \A j \in Own(new) : j <= i => new[j].action \in Raising
      BY <1>1, <2>1 DEF Story, TellsLifecycle
    <3>4. QED
      BY <1>3, <2>1, <3>1, <3>2, <3>3
  <2>2. CASE i = n
    <3>1. a # "CampaignCreated" /\ \E j \in Own(new) : ~(j >= n)
      BY <1>1 DEF Reported, Story
    <3>2. \A j \in Own(new) : j <= n
      BY <1>1, <1>2
    <3>3. a \in {"CampaignSettled", "DisputeResolved", "CampaignStatusChanged"}
            => t \in {"Settled", "Resolved", "Failed"}
      BY DEF Reported
    <3>4. /\ a = "DisputeResolved" => NextAfter(new, n, "DisputeInitiated")
          /\ a = "CampaignSettled" => NextAfter(new, n, "HarvestReported")
      BY <1>5 DEF Reported, Story
    <3>5. QED
      BY <1>4, <2>2, <3>1, <3>2, <3>3, <3>4
  <2>3. QED
    BY <2>1, <2>2
<1>8. \A b : a = b => Latest(new, b)
  BY <1>1, <1>2 DEF Latest
<1>9. /\ t \in {"Active", "Funding", "Funded"} => a = "CampaignFunded"
      /\ t = "Disputed" => a = "DisputeInitiated"
      /\ t = "Harvested" => a = "HarvestReported"
  BY DEF Reported
<1>10. QED
  BY <1>4, <1>7, <1>8, <1>9 DEF Story

\* An entry added to one campaign's log, in whatever page it lands.
LEMMA EntryAdded ==
  ASSUME store.log \in Logs, NEW id \in CampaignIds, NEW e \in Entry,
         store'.log = [store.log EXCEPT ![id] = Reg!AppendPaged(store.log[id], e)]
  PROVE  /\ store'.log \in Logs
         /\ ActivityLog(id) \in Seq(Entry)
         /\ ActivityLog(id)' = Append(ActivityLog(id), e)
         /\ \A o \in CampaignIds \ {id} : ActivityLog(o)' = ActivityLog(o)
<1> DEFINE pages == store.log[id]
           more == Reg!AppendPaged(pages, e)
<1>1. pages \in Seq(Seq(Entry))
  BY DEF Logs
<1> HIDE DEF pages
<1>2. /\ more \in Seq(Seq(Entry)) /\ FlattenSeq(pages) \in Seq(Entry)
      /\ FlattenSeq(more) = Append(FlattenSeq(pages), e)
  BY <1>1, FlattenAppended
<1>3. store'.log = [store.log EXCEPT ![id] = more]
  BY DEF pages
<1> HIDE DEF more
<1>4. /\ store'.log \in Logs /\ store'.log[id] = more
      /\ \A o \in CampaignIds \ {id} : store'.log[o] = store.log[o]
  BY <1>2, <1>3 DEF Logs
<1>5. QED
  BY <1>2, <1>4 DEF ActivityLog, pages

\* Only recording an activity touches a log.
LEMMA LogEffects ==
  ASSUME NEW s, Typed(s), NEW id \in CampaignIds
  PROVE  /\ \A actor, action :
              Reg!RecordActivity(s, id, actor, action).log =
                [s.log EXCEPT ![id] =
                   Reg!AppendPaged(s.log[id], [actor |-> actor, action |-> action])]
         /\ \A status : Reg!UpdateStatus(s, id, status).log = s.log
         /\ \A f, c : Reg!LinkEscrow(s, id, f, c).log = s.log
         /\ \A f : Reg!RegisterCampaign(s, id, f).log = s.log
<1>1. \A actor, action :
        Reg!RecordActivity(s, id, actor, action).log =
          [s.log EXCEPT ![id] = Reg!AppendPaged(s.log[id], [actor |-> actor, action |-> action])]
  BY DEF Typed, Reg!RecordActivity
<1>2. \A status : Reg!UpdateStatus(s, id, status).log = s.log
  BY DEF Typed, Reg!UpdateStatus
<1>3. ASSUME NEW u, "log" \in DOMAIN u, "campaigns" \in DOMAIN u
      PROVE  Reg!IndexCampaign(u, id).log = u.log
  BY <1>3 DEF Reg!IndexCampaign
<1>4. ASSUME NEW f, NEW c PROVE Reg!LinkEscrow(s, id, f, c).log = s.log
  <2> DEFINE r == [s.record EXCEPT ![id] = [farmer |-> f, escrow |-> c, status |-> "Active"]]
             b == [s.byFarmer EXCEPT ![f] = Reg!AppendPaged(s.byFarmer[f], id)]
             u == [[s EXCEPT !.record = r] EXCEPT !.byFarmer = b]
  <2>1. Reg!LinkEscrow(s, id, f, c) = Reg!IndexCampaign(u, id)
    BY DEF Reg!LinkEscrow
  <2> HIDE DEF r, b
  <2>2. u.log = s.log /\ "log" \in DOMAIN u /\ "campaigns" \in DOMAIN u
    BY DEF Typed
  <2> HIDE DEF u
  <2>3. QED
    BY <1>3, <2>1, <2>2
<1>5. ASSUME NEW f PROVE Reg!RegisterCampaign(s, id, f).log = s.log
  <2> DEFINE u == [s EXCEPT !.info = [s.info EXCEPT ![id] = f]]
  <2>1. Reg!RegisterCampaign(s, id, f) = Reg!IndexCampaign(u, id)
    BY DEF Reg!RegisterCampaign
  <2>2. u.log = s.log /\ "log" \in DOMAIN u /\ "campaigns" \in DOMAIN u
    BY DEF Typed
  <2> HIDE DEF u
  <2>3. QED
    BY <1>3, <2>1, <2>2
<1>6. QED
  BY <1>1, <1>2, <1>4, <1>5

\* A campaign that exists does not cease to.
LEMMA ExistenceStays ==
  ASSUME IInv, Next
  PROVE  \A id \in CampaignIds : Exists(id) => Exists(id)'
<1>1. LifecycleFollowed
  BY LifecycleStep
<1>2. QED
  BY <1>1 DEF LifecycleFollowed, Follows, Exists

\* The invariant survives a step that leaves the logs alone and moves statuses, if at
\* all, as they may move unreported.
LEMMA LogsUntouched ==
  ASSUME LogInv, PInv', store'.log = store.log, mirrored' \subseteq mirrored,
         \A o \in CampaignIds : Exists(o) => Exists(o)',
         \A o \in CampaignIds : campaign'[o].status = campaign[o].status \/ Unreported(o)
  PROVE  LogInv'
<1>1. \A o : ActivityLog(o)' = ActivityLog(o)
  BY DEF ActivityLog
<1>2. ASSUME NEW o \in mirrored' PROVE Story(ActivityLog(o), campaign[o].status)'
  <2>1. o \in CampaignIds /\ Story(ActivityLog(o), campaign[o].status)
    BY DEF LogInv, PInv
  <2>2. Story(ActivityLog(o), campaign'[o].status)
    BY <2>1, StoryUnreported DEF Unreported
  <2>3. QED
    BY <1>1, <2>2
<1>3. QED
  BY <1>1, <1>2 DEF LogInv

\* It survives the record of a move of one campaign.
LEMMA MoveRecorded ==
  ASSUME LogInv, PInv', NEW id \in CampaignIds, NEW a \in ActivityAction, Moved(id, a),
         store'.log = [store.log EXCEPT ![id] =
                         Reg!AppendPaged(store.log[id], [actor |-> Escrow, action |-> a])],
         mirrored' = mirrored,
         \A o \in CampaignIds : Exists(o) => Exists(o)',
         \A o \in CampaignIds \ {id} :
           campaign'[o].status = campaign[o].status \/ Unreported(o)
  PROVE  LogInv'
<1> DEFINE e == [actor |-> Escrow, action |-> a]
           log == ActivityLog(id)
           new == Append(log, e)
           n == Len(log) + 1
<1>1. e \in Entry /\ e.actor = Escrow /\ e.action = a
  BY DEF Entry
<1>2. store.log \in Logs /\ mirrored \subseteq CampaignIds
  BY DEF LogInv, PInv
<1> HIDE DEF e
<1>3. store'.log = [store.log EXCEPT ![id] = Reg!AppendPaged(store.log[id], e)]
  BY DEF e
<1>4. /\ store'.log \in Logs /\ log \in Seq(Entry) /\ log' = new
      /\ \A o \in CampaignIds \ {id} : ActivityLog(o)' = ActivityLog(o)
  BY <1>1, <1>2, <1>3, EntryAdded
<1>5. ASSUME NEW o \in mirrored PROVE Story(ActivityLog(o), campaign[o].status)'
  <2>1. o \in CampaignIds /\ Story(ActivityLog(o), campaign[o].status)
    BY <1>2 DEF LogInv
  <2>2. CASE o = id
    <3>1. /\ Own(log) \subseteq 1 .. Len(log) /\ Len(log) \in Nat
          /\ \A i \in Own(log) : new[i] = log[i]
          /\ Own(new) = Own(log) \cup {n} /\ new[n] = e
      BY <1>1, <1>4, OwnAppended
    <3>2. n \in Nat /\ Own(log) \subseteq 1 .. (n - 1) /\ new[n].action = a
      BY <1>1, <3>1
    <3> DEFINE s == campaign[id].status
               r == campaign'[id].status
    <3>3. Story(log, s) /\ Reported(a, s, r)
      BY <2>1, <2>2 DEF Moved
    <3>4. Own(new) = Own(log) \cup {n} /\ \A i \in Own(log) : new[i] = log[i]
      BY <3>1
    <3> HIDE DEF log, new, n, s, r
    <3>5. Story(new, r)
      BY <3>2, <3>3, <3>4, StoryGoesOn
    <3>6. QED
      BY <1>4, <2>2, <3>5 DEF log, r
  <2>3. CASE o # id
    <3>1. Story(ActivityLog(o), campaign'[o].status)
      BY <2>1, <2>3, StoryUnreported DEF Unreported
    <3>2. QED
      BY <1>4, <2>1, <2>3, <3>1
  <2>4. QED
    BY <2>2, <2>3
<1>6. ASSUME NEW o \in CampaignIds, ~Exists(o)' PROVE (Own(ActivityLog(o)) = {})'
  <2>1. ~Exists(o) /\ o # id
    BY <1>6 DEF Moved, Reported, Exists
  <2>2. ActivityLog(o)' = ActivityLog(o) /\ Own(ActivityLog(o)) = {}
    BY <1>4, <2>1 DEF LogInv
  <2>3. QED
    BY <2>2 DEF Own
<1>7. QED
  BY <1>4, <1>5, <1>6 DEF LogInv

\* An escrow invocation records the move it makes, or makes one it need not record.
LEMMA EscrowKeepsLogs ==
  ASSUME LogInv, EscrowTransaction
  PROVE  LogInv'
<1>a. /\ PInv /\ IInv /\ Next /\ Typed(store) /\ store.log \in Logs
      /\ mirrored \subseteq CampaignIds
      /\ Reg!Serve(Escrow, tx'.calls) /\ mirrored' = mirrored \cup LinkedBy(tx'.calls)
      /\ mirrored # {} => registry # NoOne
  BY DEF LogInv, PInv, EscrowTransaction
<1>b. PInv' /\ \A o \in CampaignIds : Exists(o) => Exists(o)'
  BY <1>a, EscrowKeepsPInv, ExistenceStays
<1>1. CASE registry = NoOne
  <2>1. tx'.calls = <<>> /\ mirrored = {}
    BY <1>1, <1>a, Unregistered
  <2>2. store' = store /\ mirrored' = {}
    BY <1>a, <2>1, ServeNone, LinksMade
  <2>3. ASSUME NEW o \in CampaignIds, ~Exists(o)' PROVE (Own(ActivityLog(o)) = {})'
    <3>1. ~Exists(o) /\ ActivityLog(o)' = ActivityLog(o)
      BY <1>b, <2>2, <2>3 DEF ActivityLog
    <3>2. Own(ActivityLog(o)) = {}
      BY <3>1 DEF LogInv
    <3>3. QED
      BY <3>1, <3>2 DEF Own
  <2>4. QED
    BY <1>a, <1>b, <2>2, <2>3 DEF LogInv
<1>2. CASE Silent
  <2>1. \A o \in CampaignIds : campaign'[o].status = campaign[o].status \/ Unreported(o)
    BY <1>2 DEF Silent
  <2>2. CASE tx'.calls = <<>>
    <3>1. store' = store /\ mirrored' = mirrored
      BY <1>a, <2>2, ServeNone, LinksMade
    <3>2. QED
      BY <1>b, <2>1, <3>1, LogsUntouched
  <2>3. ASSUME NEW id \in CampaignIds, NEW a \in ActivityAction,
               tx'.calls = <<RecordCall(id, a)>>, Moved(id, a)
        PROVE  LogInv'
    <3>1. store' = Reg!Served(store, Escrow, RecordCall(id, a))
      BY <1>a, <2>3, ServeOne
    <3>2. store' = Reg!RecordActivity(store, id, Escrow, a)
      BY <3>1, ServedCalls
    <3>3. LinkedBy(<<RecordCall(id, a)>>) = {}
      BY LinksMade
    <3>4. mirrored' = mirrored
      BY <1>a, <2>3, <3>3
    <3>5. store'.log = [store.log EXCEPT ![id] =
                          Reg!AppendPaged(store.log[id], [actor |-> Escrow, action |-> a])]
      BY <1>a, <3>2, LogEffects
    <3>6. QED
      BY <1>b, <2>1, <2>3, <3>4, <3>5, MoveRecorded
  <2>4. QED
    BY <1>2, <2>2, <2>3 DEF Silent
<1>3. ASSUME NEW id \in CampaignIds, Tells(id) PROVE LogInv'
  <2> DEFINE st == campaign'[id].status
  <2>1. PICK a \in ActivityAction :
          tx'.calls = <<RecordCall(id, a), StatusCall(id, st)>> /\ Moved(id, a)
    BY <1>3 DEF Tells
  <2> DEFINE s == Reg!RecordActivity(store, id, Escrow, a)
  <2> HIDE DEF st
  <2>2. store' = Reg!UpdateStatus(s, id, st)
    <3>1. store' = Reg!Served(Reg!Served(store, Escrow, RecordCall(id, a)), Escrow,
                              StatusCall(id, st))
      BY <1>a, <2>1, ServeTwo
    <3>2. QED
      BY <3>1, ServedCalls
  <2>3. mirrored' = mirrored
    <3>1. LinkedBy(<<RecordCall(id, a), StatusCall(id, st)>>) = {}
      BY LinksMade
    <3>2. QED
      BY <1>a, <2>1, <3>1
  <2>4. Typed(s) /\ s.log = [store.log EXCEPT ![id] =
                               Reg!AppendPaged(store.log[id], [actor |-> Escrow, action |-> a])]
    BY <1>a, RecordingKeeps, LogEffects DEF SameRecords
  <2> HIDE DEF s
  <2>5. store'.log = s.log
    BY <2>2, <2>4, LogEffects
  <2>6. store'.log = [store.log EXCEPT ![id] =
                        Reg!AppendPaged(store.log[id], [actor |-> Escrow, action |-> a])]
    BY <2>4, <2>5
  <2>7. \A o \in CampaignIds \ {id} : campaign'[o].status = campaign[o].status
    BY <1>3 DEF Tells, OthersKept
  <2>8. Moved(id, a)
    BY <2>1
  <2>9. QED
    BY <1>b, <2>3, <2>6, <2>7, <2>8, MoveRecorded
<1>4. ASSUME NEW id \in CampaignIds, Opens(id) PROVE LogInv'
  <2> DEFINE f == campaign'[id].farmer
             s == Reg!LinkEscrow(store, id, f, Escrow)
             e == [actor |-> Escrow, action |-> "CampaignCreated"]
             log == ActivityLog(id)
             new == Append(log, e)
             n == Len(log) + 1
  <2>1. tx'.calls = <<LinkCall(id, f), RecordCall(id, "CampaignCreated")>>
    BY <1>4 DEF Opens
  <2>2. f \in Farmers /\ Escrow \in Contracts /\ campaign'[id].status = "Active" /\ ~Exists(id)
    BY <1>4 DEF Opens, Contracts
  <2> HIDE DEF f
  <2>3. store' = Reg!RecordActivity(s, id, Escrow, "CampaignCreated")
    <3>1. store' = Reg!Served(Reg!Served(store, Escrow, LinkCall(id, f)), Escrow,
                              RecordCall(id, "CampaignCreated"))
      BY <1>a, <2>1, ServeTwo
    <3>2. QED
      BY <3>1, ServedCalls
  <2>4. mirrored' = mirrored \cup {id}
    <3>1. LinkedBy(<<LinkCall(id, f), RecordCall(id, "CampaignCreated")>>) = {id}
      BY LinksMade
    <3>2. QED
      BY <1>a, <2>1, <3>1
  <2>5. Typed(s) /\ s.log = store.log
    <3>1. Typed(s)
      BY <1>a, <2>2, LinkEffect
    <3>2. s.log = store.log
      BY <1>a, LogEffects
    <3>3. QED
      BY <3>1, <3>2
  <2> HIDE DEF s
  <2>6. e \in Entry /\ e.actor = Escrow /\ e.action = "CampaignCreated"
    BY DEF Entry, ActivityAction
  <2>7. store'.log = [store.log EXCEPT ![id] = Reg!AppendPaged(store.log[id], e)]
    BY <2>3, <2>5, LogEffects
  <2> HIDE DEF e
  <2>8. /\ store'.log \in Logs /\ log \in Seq(Entry) /\ log' = new
        /\ \A o \in CampaignIds \ {id} : ActivityLog(o)' = ActivityLog(o)
    BY <1>a, <2>6, <2>7, EntryAdded
  <2>9. Story(ActivityLog(id), campaign[id].status)'
    <3>1. Own(log) = {}
      BY <2>2 DEF LogInv
    <3>2. Own(new) = {n} /\ new[n].action = "CampaignCreated" /\ n \in Nat
      <4>1. Own(new) = Own(log) \cup {n} /\ new[n] = e /\ Len(log) \in Nat
        BY <2>6, <2>8, OwnAppended
      <4>2. QED
        BY <2>6, <3>1, <4>1
    <3> HIDE DEF log, new, n
    <3>3. Story(new, "Active")
      BY <3>2, StoryBegins
    <3>4. QED
      BY <2>2, <2>8, <3>3 DEF log
  <2>10. ASSUME NEW o \in mirrored', o # id PROVE Story(ActivityLog(o), campaign[o].status)'
    <3>1. o \in mirrored /\ o \in CampaignIds \ {id}
      BY <1>a, <2>4, <2>10
    <3>2. Story(ActivityLog(o), campaign[o].status) /\ campaign'[o] = campaign[o]
      BY <1>4, <3>1 DEF LogInv, Opens, OthersKept
    <3>3. QED
      BY <2>8, <3>1, <3>2
  <2>11. ASSUME NEW o \in CampaignIds, ~Exists(o)' PROVE (Own(ActivityLog(o)) = {})'
    <3>1. ~Exists(o) /\ o # id
      BY <1>b, <2>2, <2>11 DEF Exists
    <3>2. ActivityLog(o)' = ActivityLog(o) /\ Own(ActivityLog(o)) = {}
      BY <2>8, <3>1 DEF LogInv
    <3>3. QED
      BY <3>2 DEF Own
  <2>12. QED
    BY <1>b, <2>8, <2>9, <2>10, <2>11 DEF LogInv
<1>5. QED
  BY <1>a, <1>1, <1>2, <1>3, <1>4, EscrowSteps

\* People add entries of their own, between the escrow's.
LEMMA RegistryKeepsLogs ==
  ASSUME LogInv, RegistryTransaction
  PROVE  LogInv'
<1>a. PInv /\ PInv' /\ Typed(store) /\ store.log \in Logs
  BY RegistryKeepsPInv DEF LogInv, PInv
<1>b. /\ mirrored' \subseteq mirrored /\ campaign' = campaign
      /\ \A o : Exists(o)' <=> Exists(o)
  BY DEF RegistryTransaction, Exists
<1>c. ASSUME store'.log = store.log PROVE LogInv'
  BY <1>a, <1>b, <1>c, LogsUntouched
<1>1. ASSUME \/ \E a : Reg!Initialize(a) \/ Reg!UpdateAdmin(a)
             \/ \E c : Reg!ApproveContract(c) \/ Reg!RevokeContract(c)
      PROVE  LogInv'
  <2>1. \/ \E a : store' = [store EXCEPT !.admin = a]
        \/ \E approved : store' = [store EXCEPT !.approved = approved]
    BY <1>1 DEF Reg!Initialize, Reg!UpdateAdmin, Reg!ApproveContract, Reg!RevokeContract
  <2>2. store'.log = store.log
    BY <1>a, <2>1 DEF Typed
  <2>3. QED
    BY <1>c, <2>2
<1>2. ASSUME NEW id \in CampaignIds, NEW f, Reg!FarmerRegistersCampaign(id, f) PROVE LogInv'
  BY <1>2, <1>a, <1>c, LogEffects DEF Reg!FarmerRegistersCampaign
<1>3. ASSUME NEW id \in CampaignIds, NEW f, NEW c, Reg!FarmerLinks(id, f, c) PROVE LogInv'
  BY <1>3, <1>a, <1>c, LogEffects DEF Reg!FarmerLinks
<1>4. ASSUME NEW id \in CampaignIds, NEW status, Reg!AdminUpdatesStatus(id, status) PROVE LogInv'
  BY <1>4, <1>a, <1>c, LogEffects DEF Reg!AdminUpdatesStatus
<1>5. ASSUME NEW id \in CampaignIds, NEW p \in Farmers \cup RegistryAdmins,
             NEW action \in ActivityAction, Reg!PersonRecordsActivity(id, p, action)
      PROVE  LogInv'
  <2> DEFINE e == [actor |-> p, action |-> action]
             log == ActivityLog(id)
             new == Append(log, e)
  <2>1. e \in Entry /\ e.actor # Escrow
    BY PlatformConstants DEF Entry
  <2>2. store' = Reg!RecordActivity(store, id, p, action)
    BY <1>5 DEF Reg!PersonRecordsActivity
  <2>3. store'.log = [store.log EXCEPT ![id] = Reg!AppendPaged(store.log[id], e)]
    BY <1>a, <2>2, LogEffects
  <2> HIDE DEF e
  <2>4. /\ store'.log \in Logs /\ log \in Seq(Entry) /\ log' = new
        /\ \A o \in CampaignIds \ {id} : ActivityLog(o)' = ActivityLog(o)
    BY <1>a, <2>1, <2>3, EntryAdded
  <2>5. Own(new) = Own(log) /\ \A i \in Own(log) : new[i] = log[i]
    BY <2>1, <2>4, OwnAppended
  <2> HIDE DEF log, new
  <2>6. ASSUME NEW o \in mirrored' PROVE Story(ActivityLog(o), campaign[o].status)'
    <3>1. o \in CampaignIds /\ Story(ActivityLog(o), campaign[o].status)
      BY <1>b DEF LogInv, PInv
    <3>2. CASE o = id
      <4>1. Story(new, campaign[id].status)
        BY <2>5, <3>1, <3>2, StoryKept DEF log
      <4>2. QED
        BY <1>b, <2>4, <3>2, <4>1 DEF log
    <3>3. CASE o # id
      BY <1>b, <2>4, <3>1, <3>3
    <3>4. QED
      BY <3>2, <3>3
  <2>7. ASSUME NEW o \in CampaignIds, ~Exists(o)' PROVE (Own(ActivityLog(o)) = {})'
    <3>1. Own(ActivityLog(o)) = {}
      BY <1>b, <2>7 DEF LogInv
    <3>2. CASE o = id
      <4>1. Own(new) = {} /\ ActivityLog(o)' = new
        BY <2>4, <2>5, <3>1, <3>2 DEF log
      <4>2. QED
        BY <4>1 DEF Own
    <3>3. CASE o # id
      <4>1. ActivityLog(o)' = ActivityLog(o)
        BY <2>4, <3>3
      <4>2. QED
        BY <3>1, <4>1 DEF Own
    <3>4. QED
      BY <3>2, <3>3
  <2>8. QED
    BY <1>a, <2>4, <2>6, <2>7 DEF LogInv
<1>6. QED
  BY <1>1, <1>2, <1>3, <1>4, <1>5 DEF RegistryTransaction, Reg!Enrolment, Reg!Reporting, Reg!People

\* A status update of another contract, or a reconciliation, records nothing.
LEMMA UpdatesKeepLogs ==
  ASSUME LogInv, ForeignTransaction \/ \E id \in CampaignIds : ReconcileStatus(id)
  PROVE  LogInv'
<1>a. PInv /\ PInv' /\ Typed(store)
  BY ForeignKeepsPInv, ReconcileKeepsPInv DEF LogInv, PInv
<1>b. mirrored' = mirrored /\ campaign' = campaign /\ \A o : Exists(o)' <=> Exists(o)
  BY DEF ForeignTransaction, ReconcileStatus, Exists
<1>1. store'.log = store.log
  <2>1. CASE ForeignTransaction
    <3>1. PICK id \in CampaignIds, c \in OtherContracts, status \in Reportable :
            Reg!Serve(c, <<StatusCall(id, status)>>)
      BY <2>1 DEF ForeignTransaction, StatusCall
    <3>2. store' = Reg!Served(store, c, StatusCall(id, status))
      BY <3>1, ServeOne
    <3>3. store' = Reg!UpdateStatus(store, id, status)
      BY <3>2, ServedCalls
    <3>4. QED
      BY <1>a, <3>3, LogEffects
  <2>2. ASSUME NEW id \in CampaignIds, ReconcileStatus(id) PROVE store'.log = store.log
    <3>1. \E status : store' = Reg!UpdateStatus(store, id, status)
      BY <2>2 DEF ReconcileStatus, Reg!Reconcile
    <3>2. QED
      BY <1>a, <3>1, LogEffects
  <2>3. QED
    BY <2>1, <2>2
<1>2. QED
  BY <1>a, <1>b, <1>1, LogsUntouched

\* LogTellsLifecycle: the escrow's entries tell each mirrored campaign's story in order,
\* whoever adds entries between them and wherever the pages break.
THEOREM LogsTellLifecycles == PlatformSpec => []LogTellsLifecycle
<1>1. PlatformInit => LogInv
  <2> SUFFICES ASSUME PlatformInit PROVE LogInv
    OBVIOUS
  <2>1. PInv /\ mirrored = {}
    BY InitPInv DEF PlatformInit
  <2>2. store.log = [id \in CampaignIds |-> <<>>]
    BY DEF PlatformInit, Reg!Init, Reg!EmptyStore
  <2>3. store.log \in Logs
    BY <2>2 DEF Logs
  <2>4. ASSUME NEW id \in CampaignIds PROVE Own(ActivityLog(id)) = {}
    <3>1. store.log[id] = <<>>
      BY <2>2
    <3>2. ActivityLog(id) = <<>>
      BY <3>1 DEF ActivityLog, FlattenSeq
    <3>3. QED
      BY <3>2 DEF Own
  <2>5. QED
    BY <2>1, <2>3, <2>4 DEF LogInv
<1>2. LogInv /\ [PlatformNext]_platformVars => LogInv'
  <2> SUFFICES ASSUME LogInv, [PlatformNext]_platformVars PROVE LogInv'
    OBVIOUS
  <2>1. CASE UNCHANGED platformVars
    <3>1. store' = store /\ mirrored' = mirrored /\ campaign' = campaign
      BY <2>1 DEF platformVars, vars
    <3>2. PInv'
      BY <2>1 DEF LogInv, PInv, IInv, TypeOK, GoodCampaign, RecordsMatchStatus, StakesWithinTotal,
                  Typed, Linkage, Mirror, Exists, platformVars, vars
    <3>3. QED
      BY <3>1, <3>2, LogsUntouched DEF Exists
  <2>2. QED
    BY <2>1, EscrowKeepsLogs, RegistryKeepsLogs, UpdatesKeepLogs DEF PlatformNext
<1>3. LogInv => LogTellsLifecycle
  BY DEF LogInv, LogTellsLifecycle, Story
<1>4. QED
  BY <1>1, <1>2, <1>3, PTL DEF PlatformSpec

=============================================================================
