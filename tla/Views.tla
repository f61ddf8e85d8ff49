------------------------------- MODULE Views --------------------------------
(***************************************************************************)
(* What readers are shown of a campaign: the client's metrics, replayed    *)
(* from the events it loads straight from the RPC; the investor's cards;   *)
(* and the server's portfolio, computed from the indexed rows.  None of    *)
(* these asks the contract for the answer: each applies rules of its own.  *)
(***************************************************************************)
EXTENDS Indexer

CONSTANTS
  Lookback,     \* VITE_SOROBAN_EVENTS_LOOKBACK_LEDGERS
  LoadCap       \* PAGE_LIMIT * MAX_PAGES of the client's event loader

ASSUME ViewConstants == Lookback \in Nat /\ LoadCap \in Nat \ {0}

\* the events as getEvents returns them; `status` is history, the campaign's
\* status after the invocation
VARIABLE feed

viewVars == <<indexerVars, feed>>

-----------------------------------------------------------------------------
(* Loading the events. *)

\* the first event from startLedger = max(1, latest - lookback) on; events are in the
\* order of their ledgers
FirstLoaded == Min({k \in DOMAIN feed : feed[k].ledger >= Tip - Lookback} \cup {Len(feed) + 1})

\* Pages are fetched oldest first until one comes back short or the cap is met.
RecentEvents == SubSeq(feed, FirstLoaded, Min({Len(feed), FirstLoaded + LoadCap - 1}))

WholeHistory == RecentEvents = feed

-----------------------------------------------------------------------------
(* The client's metrics. *)

ReplayStepForgetful(status, name) ==                              \* mutant
  IF status = "Unseen"
  THEN IF name = "CampaignCreated" THEN "Active" ELSE "Unseen"
  ELSE CASE name = "CampaignCreated" -> "Active"
         [] name = "ContribReceived" -> "Funding"
         [] name = "CampaignFunded"  -> "Funded"
         [] name = "TrancheReleased" -> IF status = "Funded" THEN "InProduction" ELSE status
         [] name = "CampaignFailed"  -> "Failed"
         [] name = "HarvestReported" -> "Harvested"
         [] name = "DisputeOpened"   -> "Disputed"
         [] name = "DisputeResolved" -> "Resolved"
         [] name = "CampaignSettled" -> "Settled"
         [] OTHER                    -> status

\* The switch of computeAnalyticsMetrics: a campaign whose creation was not loaded
\* stays unseen, and reconciled contributions are ignored.
ReplayStep(status, name) ==
  IF status = "Unseen"
  THEN IF name = "CampaignCreated" THEN "Active" ELSE "Unseen"
  ELSE CASE name = "CampaignCreated" -> "Active"
         [] name = "ContribReceived" -> IF status = "Active" THEN "Funding" ELSE status
         [] name = "CampaignFunded"  -> "Funded"
         [] name = "TrancheReleased" -> IF status = "Funded" THEN "InProduction" ELSE status
         [] name = "CampaignFailed"  -> "Failed"
         [] name = "HarvestReported" -> "Harvested"
         [] name = "DisputeOpened"   -> "Disputed"
         [] name = "DisputeResolved" -> "Resolved"
         [] name = "CampaignSettled" -> "Settled"
         [] OTHER                    -> status

\* what computeAnalyticsMetrics makes of the accumulator of one campaign
Replayed(events, id) ==
  FoldLeft(LAMBDA status, e : IF e.id = id THEN ReplayStep(status, e.name) ELSE status,
           "Unseen", events)

TotalVolume(events) ==
  FoldLeft(LAMBDA sum, e : IF e.name = "ContribReceived" THEN sum + e.amount ELSE sum,
           0, events)

TARGET_REACHED_STATUSES ==
  {"Funded", "InProduction", "Harvested", "Disputed", "Resolved", "Settled"}

\* fundingOutcome: each campaign seen is in exactly one of three slices.
Outcome(events, id) ==
  LET status == Replayed(events, id) IN
  CASE status = "Unseen"                      -> "none"
    [] status \in TARGET_REACHED_STATUSES     -> "Reached target"
    [] status = "Failed"                      -> "Failed"
    [] OTHER                                  -> "Still raising"

-----------------------------------------------------------------------------
(* The stepper of the administrator's panel. *)

\* isDerivedInProduction, of a record and, when the caller has read one, its schedule
DerivedInProduction(c, list) ==
  c.status = "Funded" /\ ((\E i \in DOMAIN list : list[i].released) \/ c.released > 0)

StepNotAnchored(status) ==                                        \* mutant
  CASE status \in {"Active", "Funding"} -> 0
    [] status = "Funded"       -> 1
    [] status = "InProduction" -> 2
    [] status = "Harvested"    -> 3
    [] status = "Settled"      -> 4
    [] OTHER                   -> -1

\* A campaign off the happy path is shown at the funded step.
StepOf(status) ==
  CASE status \in {"Active", "Funding"} -> 0
    [] status = "Funded"       -> 1
    [] status = "InProduction" -> 2
    [] status = "Harvested"    -> 3
    [] status = "Settled"      -> 4
    [] OTHER                   -> 1

LifecycleStepIndex(c, list) == IF DerivedInProduction(c, list) THEN 2 ELSE StepOf(c.status)

\* CampaignAdminPanel passes the amount released, and no schedule.
StepShown(c) == LifecycleStepIndex(c, <<>>)

-----------------------------------------------------------------------------
(* The investor's cards. *)

\* useInvestorPortfolio lists the campaigns in which it finds a ContribReceived of
\* this wallet, and then reads each from the contract.
PortfolioIds(investor) ==
  {e.id : e \in {e \in Range(RecentEvents) :
                   e.name = "ContribReceived" /\ e.who = investor}}

\* the pool of the whole campaign, not the investor's part of it
ShownClaimable(c) ==
  CASE c.status \in {"Resolved", "Failed"} -> c.refundable
    [] c.status = "Settled"                -> c.returnable
    [] OTHER                               -> 0

ClaimedOnceDivided(investor, id) ==                               \* mutant
  campaign[id].status \in {"Resolved", "Failed", "Settled"}

Claimed(investor, id) == contribution[id][investor] = 0

\* isRefundable or isReturnable, which decide the button
ClaimButton(investor, id) ==
  /\ ShownClaimable(campaign[id]) > 0
  /\ ~Claimed(investor, id)

-----------------------------------------------------------------------------
(* The server's portfolio, from rows nothing disturbed. *)

\* persistEvent: a write that the database refuses ends the event's handler with an
\* error, but none is refused to events taken once and in order.
Persisted(tables, k) ==
  FoldLeft(LAMBDA t, write : IF Accepted(t, k, write) THEN Written(t, k, write) ELSE t,
           tables, Writes(chain[k].name))

\* every event in order
Indexed == FoldLeft(Persisted, EmptyDb, [k \in DOMAIN chain |-> k])

\* CLAIMABLE_POOL_BY_STATUS
PoolOfRow(row) ==
  CASE row.status \in {"Resolved", "Failed"} -> row.refundable
    [] row.status = "Settled"                -> row.returnable
    [] OTHER                                 -> 0

PositionRoundedUp(row, amount) ==                                 \* mutant
  IF row.totalFunded > 0
  THEN (amount * PoolOfRow(row) + row.totalFunded - 1) \div row.totalFunded ELSE 0

\* claimable of one investment row
Position(row, amount) ==
  IF row.totalFunded > 0 THEN (amount * PoolOfRow(row)) \div row.totalFunded ELSE 0

\* totalClaimable of an address, restricted to one campaign
TotalClaimable(tables, investor, id) ==
  MapThenSumSet(LAMBDA k : Position(tables.campaign[id], chain[k].amount),
                {k \in tables.investments : chain[k].id = id /\ feed[k].who = investor})

-----------------------------------------------------------------------------

Seen(event) ==
  [name |-> event.name, id |-> event.id, who |-> event.who, amount |-> event.amount,
   ledger |-> Tip + 1, status |-> campaign'[event.id].status]

ViewInit == IndexInit /\ feed = <<>>

ViewNext ==
  /\ Invoke
  /\ feed' = feed \o [i \in DOMAIN tx'.events |-> Seen(tx'.events[i])]

ViewSpec == ViewInit /\ [][ViewNext]_viewVars
-----------------------------------------------------------------------------
(* Properties. *)

\* Wherever the look-back window begins and the page cap cuts, also between two
\* events of one invocation, a campaign whose creation was loaded is shown in the
\* status it had at the last event loaded; only a campaign all of whose funds were
\* reconciled is shown as Active when it was Funding.
ReplayFollowsContract ==
  \A id \in CampaignIds :
    LET events == RecentEvents
        Of     == {k \in DOMAIN events : events[k].id = id}
        paid   == \E k \in Of : events[k].name = "ContribReceived"
    IN
    \A opening, latest \in Of :
      /\ \A k \in Of : opening <= k /\ k <= latest
      /\ events[opening].name = "CampaignCreated"
      => Replayed(events, id) =
           IF events[latest].status = "Funding" /\ ~paid THEN "Active"
           ELSE events[latest].status

\* With the whole history loaded, the volume is the money really paid in, and a
\* campaign is put in the wrong slice only by a dispute opened before its target was
\* met, or by reconciled funds nobody has completed.
OutcomesExplained ==
  WholeHistory =>
    /\ TotalVolume(RecentEvents) =
         MapThenSumSet(LAMBDA id : campaign[id].total_funded - audit[id].reconciled,
                       CampaignIds)
    /\ \A id \in CampaignIds :
         LET met     == campaign[id].total_funded = campaign[id].target_amount
             outcome == Outcome(RecentEvents, id)
         IN  /\ outcome = "none" <=> ~Exists(id)
             /\ outcome = "Reached target" => met \/ dispute[id].status # "None"
             /\ outcome = "Still raising" /\ met => audit[id].reconciled > 0

\* What the analytics page shows of the whole market is what happened on the chain.
AnalyticsFollowContract == ReplayFollowsContract /\ OutcomesExplained

\* The server's estimate never promises more than the contract would pay now: not to
\* an investor who has yet to claim, and not to all of them together, although it
\* rounds row by row and divides by a total of its own.
PortfolioNeverOverstates ==
  LET tables == Indexed IN
  \A id \in CampaignIds :
    /\ \A i \in Investors :
         contribution[id][i] > 0 =>
           TotalClaimable(tables, i, id)
             <= ProRata(contribution[id][i], Pool(id), campaign[id].total_funded)
    /\ MapThenSumSet(LAMBDA i : TotalClaimable(tables, i, id), Investors) <= Pool(id)

\* A card says Claimed exactly when the contract has paid that investor, and never
\* shows less than what a claim would pay.
CardsTruthful ==
  \A i \in Investors : \A id \in PortfolioIds(i) :
    /\ Claimed(i, id) <=>
         \E e \in Range(feed) : /\ e.id = id /\ e.who = i
                                /\ e.name \in {"RefundClaimed", "ReturnClaimed"}
    /\ ProRata(contribution[id][i], Pool(id), campaign[id].total_funded)
         <= ShownClaimable(campaign[id])

\* A card offers a claim exactly when the contract would accept one, but for a share
\* that rounds to nothing; it is otherwise as truthful.
ClaimButtonsTruthful ==
  /\ CardsTruthful
  /\ \A i \in Investors : \A id \in PortfolioIds(i) :
       LET share == ProRata(contribution[id][i], Pool(id), campaign[id].total_funded)
           alone == \A o \in CampaignIds \ {id} :
                      campaign[o].token_address # campaign[id].token_address
       IN
       (share > 0 /\ alone) =>
         (ClaimButton(i, id) <=> ENABLED (ClaimRefund(id, i) \/ ClaimReturn(id, i)))
=============================================================================
