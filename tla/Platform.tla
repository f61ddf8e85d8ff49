------------------------------ MODULE Platform ------------------------------
(***************************************************************************)
(* The escrow and the registry together.  Once an administrator points the *)
(* escrow at the registry, an escrow invocation carries its registry calls *)
(* in the same transaction: it happens only if the registry accepts all of *)
(* them, and otherwise nothing of it happens.                              *)
(***************************************************************************)
EXTENDS ProductionEscrow

CONSTANTS
  RegistryAdmins,   \* addresses that may administer the registry
  Escrow,           \* the address of the escrow contract
  OtherContracts,   \* other contracts that campaigns may be linked to
  Reportable,       \* bound: the statuses that others than the escrow report
  PageSize,         \* the registry's page length
  MaxLog            \* bound: activity entries people add

\* the store is that of the one registry the escrow may be pointed at
ASSUME PlatformConstants ==
  /\ \A r, s \in Registries : r = s
  /\ NoOne \notin RegistryAdmins \cup {Escrow} \cup OtherContracts
  /\ Escrow \notin OtherContracts \cup Farmers \cup RegistryAdmins
  /\ Reportable \subseteq CampaignStatus
  /\ PageSize \in Nat \ {0} /\ MaxLog \in Nat

VARIABLES
  store,      \* the registry's storage
  mirrored    \* history: campaigns linked by create_campaign whose mirror nobody
              \* but the escrow and reconcile_campaign_status has written

platformVars == <<vars, store, mirrored>>

Reg == INSTANCE Registry WITH
  Ids <- CampaignIds, Owners <- Farmers, Officers <- RegistryAdmins,
  Contracts <- {Escrow} \cup OtherContracts, Nobody <- NoOne,
  Statuses <- Reportable, Actions <- ActivityAction

LinkedBy(calls) ==
  {calls[i].id : i \in {j \in DOMAIN calls : calls[j].fn = "link_campaign_escrow"}}

EscrowTransaction ==
  /\ Next
  /\ Reg!Serve(Escrow, tx'.calls)
  /\ mirrored' = mirrored \cup LinkedBy(tx'.calls)

\* Farmers' profiles are left out: no other call reads them.  So is the approval of
\* other contracts, which would only keep farmers from linking to them.
RegistryTransaction ==
  /\ \/ \E a \in RegistryAdmins : Reg!Initialize(a) \/ Reg!UpdateAdmin(a)
     \/ Reg!ApproveContract(Escrow) \/ Reg!RevokeContract(Escrow)
     \/ Reg!Enrolment \/ Reg!Reporting
  /\ mirrored' = {id \in mirrored : store'.record[id] = store.record[id]}
  /\ tx' = NoTx
  /\ UNCHANGED <<timestamp, admin, registry, campaign, contribution, dispute,
                 tranches, harvest, vault, audit>>

\* A contract other than the escrow may update what is linked to it, as it likes.
ForeignTransaction ==
  /\ \E id \in CampaignIds, c \in OtherContracts, status \in Reportable :
       /\ store.record[id].escrow = c
       /\ Reg!Serve(c, <<[fn |-> "update_campaign_status", id |-> id, arg |-> status]>>)
  /\ tx' = NoTx
  /\ UNCHANGED <<timestamp, admin, registry, campaign, contribution, dispute,
                 tranches, harvest, vault, audit, mirrored>>

\* Anyone may call it; it panics when the escrow does not know the campaign.  What
\* another contract reports is up to that contract.
ReconcileStatus(id) ==
  /\ Reg!Linked(store, id)
  /\ IF store.record[id].escrow = Escrow
     THEN Exists(id) /\ Reg!Reconcile(id, campaign[id].status)
     ELSE \E reported \in Reportable : Reg!Reconcile(id, reported)
  /\ tx' = NoTx
  /\ UNCHANGED <<timestamp, admin, registry, campaign, contribution, dispute,
                 tranches, harvest, vault, audit, mirrored>>

PlatformInit == Init /\ Reg!Init /\ mirrored = {}

PlatformNext ==
  \/ EscrowTransaction
  \/ RegistryTransaction
  \/ ForeignTransaction
  \/ \E id \in CampaignIds : ReconcileStatus(id)

PlatformSpec == PlatformInit /\ [][PlatformNext]_platformVars

\* The reconciliation job of INTEGRATION.md runs on a schedule; nothing else is
\* assumed to happen.
ReconcilingSpec ==
  PlatformSpec /\ \A id \in CampaignIds : WF_platformVars(ReconcileStatus(id))
-----------------------------------------------------------------------------
(* Properties. *)

Mirror(id) == store.record[id].status

\* Three transitions change a campaign's status without telling the registry: the
\* first contribution, complete_funding and expire_campaign.  Even so the mirror of
\* a campaign only lags while funding ends: from production, harvest, a dispute or
\* settlement on it is exact, whatever reconciliations happened in between.
MirrorLagsOnlyInFunding ==
  \A id \in mirrored :
    \/ Mirror(id) = campaign[id].status
    \/ Mirror(id) \in {"Active", "Funding"}
         /\ campaign[id].status \in {"Funding", "Funded", "Failed"}

\* A campaign linked by its creation was registered by the very farmer that
\* created it, although identifiers are claimed in two contracts separately.
LinkedFarmersAgree ==
  \A id \in mirrored :
    /\ Exists(id)
    /\ store.record[id].farmer = campaign[id].farmer
    /\ store.info[id] = campaign[id].farmer
    /\ store.record[id].escrow = Escrow

\* a campaign's activity, read page by page
ActivityLog(id) == FlattenSeq(store.log[id])

\* the places of the escrow's own entries
Own(log) == {i \in DOMAIN log : log[i].actor = Escrow}

\* Entry i is the escrow's next one after one with this action.
NextAfter(log, i, action) ==
  \E j \in Own(log) : /\ j < i /\ log[j].action = action
                      /\ \A k \in Own(log) : k <= j \/ k >= i

TellsLifecycle(log, status) ==
  \A i \in Own(log) :
    /\ log[i].action = "CampaignCreated" <=> \A j \in Own(log) : j >= i
    /\ log[i].action \in {"CampaignSettled", "DisputeResolved", "CampaignStatusChanged"} =>
         /\ \A j \in Own(log) : j <= i
         /\ status \in {"Settled", "Resolved", "Failed"}
    /\ log[i].action = "CampaignFunded" =>
         \A j \in Own(log) :
           j <= i => log[j].action \in {"CampaignCreated", "CampaignFunded"}
    /\ log[i].action = "DisputeResolved" => NextAfter(log, i, "DisputeInitiated")
    /\ log[i].action = "CampaignSettled" => NextAfter(log, i, "HarvestReported")

\* The escrow's entries in the activity log tell the campaign's story in order, whatever
\* people add between them: nothing after its verdict, no release before the money.
LogTellsLifecycle ==
  \A id \in mirrored : TellsLifecycle(ActivityLog(id), campaign[id].status)

\* With somebody reconciling, a drifted mirror is always corrected in the end,
\* even while the registry's administrator keeps overriding it.
DriftHeals ==
  \A id \in CampaignIds :
    (Exists(id) /\ store.record[id].escrow = Escrow) ~> Mirror(id) = campaign[id].status
=============================================================================
