------------------------------ MODULE Registry ------------------------------
(***************************************************************************)
(* The Registry contract: who administers it, which contracts it approves, *)
(* the farmers and campaigns it enumerates, the record that mirrors each   *)
(* campaign's escrow status, and the paged activity log.                   *)
(*                                                                         *)
(* The contract's storage is one record, `store`; a handler is a guard and *)
(* an operator from the storage to the next one, so that the calls which   *)
(* another contract makes in one transaction can be applied one by one.    *)
(***************************************************************************)
EXTENDS Integers, SequencesExt

CONSTANTS
  Ids,          \* campaign identifiers
  Owners,       \* farmers' addresses
  Officers,     \* addresses that may administer the registry
  Escrow,       \* the ProductionEscrow contract
  Contracts,    \* contracts a campaign may be linked to, Escrow among them
  Nobody,       \* an address that is not set
  Statuses,     \* the statuses a record may mirror
  Actions,      \* the kinds of activity
  PageSize,     \* MAX_ACTIVITIES_PER_PAGE and MAX_FARMER_CAMPAIGNS_PER_PAGE
  MaxLog        \* bound: activity entries, over all campaigns, up to which new
                \* ones are made (by people, when a contract drives the registry)

People == Owners \cup Officers

ASSUME RegistryConstants ==
  /\ Escrow \in Contracts
  /\ Nobody \notin People \cup Contracts
  /\ PageSize \in Nat \ {0} /\ MaxLog \in Nat

VARIABLE store

EmptyStore ==
  [admin     |-> Nobody,                        \* DataKey::Admin
   approved  |-> {},                            \* DataKey::ApprovedContract
   farmers   |-> <<>>,                          \* DataKey::FarmerByIndex
   info      |-> [id \in Ids |-> Nobody],       \* DataKey::Campaign: its farmer
   campaigns |-> <<>>,                          \* DataKey::CampaignByIndex
   record    |-> [id \in Ids |->                \* DataKey::CampaignRecord
                   [farmer |-> Nobody, escrow |-> Nobody, status |-> "None"]],
   byFarmer  |-> [f \in Owners |-> <<>>],       \* DataKey::FarmerCampaignsPage
   log       |-> [id \in Ids |-> <<>>]]         \* DataKey::CampaignActivitiesPage

-----------------------------------------------------------------------------
(* Storage helpers. *)

AppendPagedOneTooMany(pages, x) ==                                \* mutant
  IF pages = <<>> \/ Len(Last(pages)) > PageSize
  THEN Append(pages, <<x>>)
  ELSE [pages EXCEPT ![Len(pages)] = Append(@, x)]

AppendPagedInPlace(pages, x) ==                                   \* mutant
  IF pages = <<>> THEN <<<<x>>>>
  ELSE [pages EXCEPT ![Len(pages)] = IF Len(@) >= PageSize THEN <<x>> ELSE Append(@, x)]

\* Append to the last page while it has room, otherwise to a new one.
AppendPaged(pages, x) ==
  IF pages = <<>> \/ Len(Last(pages)) >= PageSize
  THEN Append(pages, <<x>>)
  ELSE [pages EXCEPT ![Len(pages)] = Append(@, x)]

\* idempotent: register_campaign and link_campaign_escrow both index
IndexCampaign(s, id) ==
  IF id \in Range(s.campaigns) THEN s ELSE [s EXCEPT !.campaigns = Append(@, id)]

Linked(s, id) == s.record[id].escrow # Nobody

-----------------------------------------------------------------------------
(* The handlers, on a storage. *)

RegisterCampaign(s, id, farmer) ==
  IndexCampaign([s EXCEPT !.info[id] = farmer], id)

CanLinkUnregistered(s, id, farmer) == ~Linked(s, id)              \* mutant

CanLinkAnyFarmer(s, id, farmer) == ~Linked(s, id) /\ s.info[id] # Nobody  \* mutant

\* not linked yet, and registered by the same farmer
CanLink(s, id, farmer) == ~Linked(s, id) /\ s.info[id] = farmer

LinkEscrow(s, id, farmer, contract) ==
  IndexCampaign(
    [s EXCEPT !.record[id] = [farmer |-> farmer, escrow |-> contract, status |-> "Active"],
              !.byFarmer[farmer] = AppendPaged(@, id)],
    id)

\* get_admin is unwrapped first, so nobody can update before initialize
CanUpdateStatus(s, id, caller) ==
  /\ Linked(s, id)
  /\ s.admin # Nobody
  /\ caller \in {s.admin, s.record[id].escrow}

UpdateStatus(s, id, status) == [s EXCEPT !.record[id].status = status]

RecordActivity(s, id, actor, action) ==
  [s EXCEPT !.log[id] = AppendPaged(@, [actor |-> actor, action |-> action])]

-----------------------------------------------------------------------------
(* What a contract calls inside its own transaction, as its own invoker: a   *)
(* call that panics aborts that transaction, and with it the calls before.   *)

\* A contract that links signs for itself when approved; otherwise the farmer
\* has to sign, as it does for the create_campaign that makes the call.
Accepts(s, contract, call) ==
  CASE call.fn = "link_campaign_escrow"   -> CanLink(s, call.id, call.arg)
    [] call.fn = "update_campaign_status" -> CanUpdateStatus(s, call.id, contract)
    [] call.fn = "record_activity"        -> TRUE

Served(s, contract, call) ==
  CASE call.fn = "link_campaign_escrow"   -> LinkEscrow(s, call.id, call.arg, contract)
    [] call.fn = "update_campaign_status" -> UpdateStatus(s, call.id, call.arg)
    [] call.fn = "record_activity"        -> RecordActivity(s, call.id, contract, call.arg)

\* No call changes what a later one of the same transaction checks, so all are
\* checked against the storage the transaction starts from.
Serve(contract, calls) ==
  /\ \A i \in DOMAIN calls : Accepts(store, contract, calls[i])
  /\ store' = FoldLeft(LAMBDA s, call : Served(s, contract, call), store, calls)

-----------------------------------------------------------------------------
(* Invocations by people. *)

Initialize(a) == store.admin = Nobody /\ store' = [store EXCEPT !.admin = a]

UpdateAdmin(a) == store.admin # Nobody /\ store' = [store EXCEPT !.admin = a]

ApproveContract(c) ==
  store.admin # Nobody /\ store' = [store EXCEPT !.approved = @ \cup {c}]

RevokeContract(c) ==
  store.admin # Nobody /\ store' = [store EXCEPT !.approved = @ \ {c}]

RegisterFarmer(f) ==
  /\ f \notin Range(store.farmers)
  /\ store' = [store EXCEPT !.farmers = Append(@, f)]

FarmerRegistersCampaign(id, f) ==
  /\ store.info[id] = Nobody
  /\ store' = RegisterCampaign(store, id, f)

\* A farmer may link directly as long as the contract is not approved: an
\* approved contract has to sign for itself.
FarmerLinks(id, f, contract) ==
  /\ contract \notin store.approved
  /\ CanLink(store, id, f)
  /\ store' = LinkEscrow(store, id, f, contract)

AdminUpdatesStatus(id, status) ==
  /\ CanUpdateStatus(store, id, store.admin)
  /\ store' = UpdateStatus(store, id, status)

\* all pages but the last are full
Entries(pages) ==
  IF pages = <<>> THEN 0 ELSE (Len(pages) - 1) * PageSize + Len(Last(pages))

LogLength(s) == MapThenSumSet(LAMBDA id : Entries(s.log[id]), Ids)

\* Nothing but the actor's own signature is checked.
PersonRecordsActivity(id, person, action) ==
  /\ LogLength(store) < MaxLog
  /\ store' = RecordActivity(store, id, person, action)

ReconcileFromActive(id, reported) ==                              \* mutant
  /\ Linked(store, id)
  /\ store.record[id].status = "Active" /\ reported # "Active"
  /\ store' = UpdateStatus(store, id, reported)

\* reconcile_campaign_status, given what the linked contract reports; without
\* drift it writes nothing.
Reconcile(id, reported) ==
  /\ Linked(store, id)
  /\ store.record[id].status # reported
  /\ store' = UpdateStatus(store, id, reported)

Administration ==
  \/ \E a \in Officers : Initialize(a) \/ UpdateAdmin(a)
  \/ \E c \in Contracts : ApproveContract(c) \/ RevokeContract(c)

\* RegisterFarmer is not among them: no other handler reads what it writes.
Enrolment ==
  \E id \in Ids, f \in Owners :
    \/ FarmerRegistersCampaign(id, f)
    \/ \E c \in Contracts : FarmerLinks(id, f, c)

Reporting ==
  \E id \in Ids :
    \/ \E status \in Statuses : AdminUpdatesStatus(id, status)
    \/ \E p \in People, action \in Actions : PersonRecordsActivity(id, p, action)

Init == store = EmptyStore

-----------------------------------------------------------------------------
(* Properties. *)

Paged(pages) ==
  \A i \in DOMAIN pages :
    /\ Len(pages[i]) \in 1 .. PageSize
    /\ i < Len(pages) => Len(pages[i]) = PageSize

\* Whatever the order of registrations, links and activities, no storage entry
\* outgrows a page, and page numbers 0 .. count - 1 address the whole of a list.
PagesStayBounded ==
  /\ \A id \in Ids : Paged(store.log[id])
  /\ \A f \in Owners : Paged(store.byFarmer[f])

\* The enumeration lists each campaign known in either way exactly once, although
\* both ways index it.
EnumerationComplete ==
  /\ IsInjective(store.campaigns)
  /\ Range(store.campaigns) = {id \in Ids : store.info[id] # Nobody \/ Linked(store, id)}

\* A farmer's paged list holds exactly the campaigns linked to that farmer, once
\* each, and a linked campaign was registered by the farmer it is linked to.
FarmerListsMatchRecords ==
  /\ \A f \in Owners :
       LET pages == store.byFarmer[f]
           mine  == {id \in Ids : store.record[id].farmer = f}
       IN  /\ UNION {Range(pages[p]) : p \in DOMAIN pages} = mine
           /\ Entries(pages) = Cardinality(mine)
  /\ \A id \in Ids : Linked(store, id) => store.record[id].farmer = store.info[id]

\* Every list the registry keeps by hand agrees with the records it stands for, and is
\* kept in pages that stay small, in whatever order people and contracts call.
ListsMatchRecords == PagesStayBounded /\ EnumerationComplete /\ FarmerListsMatchRecords

\* The activity log of a campaign only ever grows at its end: no page that was written
\* loses or changes an entry, whatever is linked or recorded.
LogOnlyGrows ==
  [][\A id \in Ids :
       \A page \in DOMAIN store.log[id] :
         /\ page \in DOMAIN store'.log[id]
         /\ IsPrefix(store.log[id][page], store'.log[id][page])]_store
=============================================================================
