---------------------------- MODULE RegistryIndex ----------------------------
(***************************************************************************)
(* The server's index of the registry, and of the escrow that drives it.   *)
(* Every invocation emits its events in order; the parser makes of each    *)
(* what its shape tells and writes campaign rows and users' names.  Three  *)
(* event names have two origins, the call itself and the activity log that *)
(* mirrors it, and the parser must tell them apart by the payload.  A      *)
(* row's status has two writers: the registry's events and the escrow's    *)
(* own.  Lost and repeated events are the matter of Indexer; here each is  *)
(* handled once and in order.                                              *)
(***************************************************************************)
EXTENDS Registry, Wire

CONSTANTS
  Titles,     \* titles and names people choose, which may happen to be the
  Names,      \* name of an action
  NoText      \* the empty title, the missing name

ASSUME TextConstants == NoText \notin Titles \cup Names \cup Statuses

VARIABLES
  titles,     \* CampaignInfo.title, on the contract's side
  names,      \* FarmerProfile.name, on the contract's side
  shape,      \* how this SDK decodes an enum
  onEscrow,   \* the status in the escrow, which is pointed at this registry;
              \* "None" while the escrow has no such campaign
  index,      \* the index: campaign rows, and users' names
  strayed     \* history: rows whose farmer a mirror without a handler of its own
              \* has overwritten, rows whose record was reconciled since its
              \* status was last reported, and rows the escrow's own events have
              \* moved since without the registry being told

registryIndexVars == <<store, titles, names, shape, onEscrow, index, strayed>>

NewRow == [known |-> FALSE, farmer |-> Nobody, title |-> NoText,
           escrow |-> Nobody, status |-> "Active"]

-----------------------------------------------------------------------------
(* What the contract emits; the clock's two slots are left out. *)

Event(name, key, slots) == [name |-> name, key |-> key, slots |-> slots]

Plain(v) == [js |-> "string", v |-> v]
Enum(v)  == [js |-> shape, v |-> v]

\* activity_recorded: first the mirror, then the record itself
Activity(id, actor, action) ==
  LET record == <<Plain(actor), Enum(action)>>
      mirror ==
        CASE action = "FarmerRegistered" ->
               <<Event("FarmerRegistered", actor, <<Plain(actor)>>)>>
          [] action \in {"CampaignCreated", "CampaignRegistered"} ->
               <<Event("CampaignRegistered", id, record)>>
          [] action = "CampaignStatusChanged" ->
               <<Event("CampaignStatusUpdated", id, record)>>
          [] OTHER -> <<>>
  IN mirror \o <<Event("ActivityRecorded", id, record)>>

LinkedEvent(id, farmer, contract) ==
  Event("CampaignEscrowLinked", id, <<Plain(farmer), Plain(contract)>>)

StatusEvent(id, status) ==
  Event("CampaignStatusUpdated", id, <<Enum(store.record[id].status), Enum(status)>>)

\* By the status they end in, the escrow's handlers that pass the registry a status:
\* where they start, the activity they record, and their own event.
Notified ==
  [Funded       |-> [from |-> {"Active", "Funding"}, action |-> "CampaignFunded",
                     event |-> "CampaignFunded"],
   InProduction |-> [from |-> {"Funded", "InProduction"}, action |-> "FundsReleased",
                     event |-> "TrancheReleased"],
   Harvested    |-> [from |-> {"Funded", "InProduction"}, action |-> "HarvestReported",
                     event |-> "HarvestReported"],
   Disputed     |-> [from |-> {"Active", "Funding", "Funded", "InProduction"},
                     action |-> "DisputeInitiated", event |-> "DisputeOpened"],
   Resolved     |-> [from |-> {"Disputed"}, action |-> "DisputeResolved",
                     event |-> "DisputeResolved"],
   Settled      |-> [from |-> {"Harvested"}, action |-> "CampaignSettled",
                     event |-> "CampaignSettled"],
   Failed       |-> [from |-> {"Active", "Funding", "Funded", "InProduction"},
                     action |-> "CampaignStatusChanged", event |-> "CampaignFailed"]]

\* The two that tell the registry nothing: complete_funding and expire_campaign.
Silent ==
  [Funded |-> [from |-> {"Funding"}, event |-> "CampaignFunded"],
   Failed |-> [from |-> {"Active", "Funding"}, event |-> "CampaignFailed"]]

-----------------------------------------------------------------------------
(* What the parser makes of it. *)

ActivityTags ==
  {"CampaignCreated", "CampaignFunded", "CampaignStatusChanged", "FundsReleased",
   "HarvestReported", "DisputeInitiated", "DisputeResolved", "CampaignSettled",
   "FarmerRegistered", "CampaignRegistered"}

IsTagLike(slot) == slot.js \in {"array", "object"}

TextByType(slot) == IF slot.js = "string" THEN slot.v ELSE NoText \* mutant

\* isActivityActionTag decodes every shape of a tag
TextIn(slot) ==
  IF slot.js = "string" /\ slot.v \notin ActivityTags THEN slot.v ELSE NoText

StatusBefore(slots) == IF IsTagLike(slots[1]) THEN slots[1].v ELSE NoText  \* mutant

\* The first slot tells the contract's statuses from the mirror's actor.
StatusIn(slots) == IF IsTagLike(slots[1]) THEN slots[2].v ELSE NoText

KeepUnless(new, old) == IF new = NoText THEN old ELSE new

Registered(row, farmer, title) ==
  [row EXCEPT !.known = TRUE, !.farmer = farmer, !.title = KeepUnless(title, @)]

EscrowCreated(row, farmer) == [row EXCEPT !.known = TRUE, !.farmer = farmer]

Pointed(row, farmer, contract) == [row EXCEPT !.farmer = farmer, !.escrow = contract]

Updated(row, status) == [row EXCEPT !.status = KeepUnless(status, @)]

WithRow(db, id, row) == [db EXCEPT !.rows[id] = row]

WithName(db, who, name) == [db EXCEPT !.users[who] = KeepUnless(name, @)]

\* The status that an event of the escrow writes; a release finds only Funded rows.
OwnStatus ==
  [CampaignFunded |-> "Funded", TrancheReleased |-> "InProduction",
   HarvestReported |-> "Harvested", CampaignFailed |-> "Failed",
   DisputeOpened |-> "Disputed", DisputeResolved |-> "Resolved",
   CampaignSettled |-> "Settled"]

\* The rest is audit only, or the update of a missing row.
HandledOwn(db, event) ==
  LET row == db.rows[event.key] IN
  IF /\ event.name \in DOMAIN OwnStatus
     /\ row.known
     /\ event.name = "TrancheReleased" => row.status = "Funded"
  THEN WithRow(db, event.key, [row EXCEPT !.status = OwnStatus[event.name]])
  ELSE db

Handled(db, event) ==
  LET slots == event.slots
      row   == db.rows[event.key]
  IN
  CASE event.name = "FarmerRegistered" ->
         WithName(db, event.key, IF Len(slots) = 1 THEN NoText ELSE TextIn(slots[2]))
    [] event.name = "CampaignRegistered" ->
         WithRow(db, event.key, Registered(row, slots[1].v, TextIn(slots[2])))
    [] event.name = "CampaignEscrowLinked" /\ row.known ->
         WithRow(db, event.key, Pointed(row, slots[1].v, slots[2].v))
    [] event.name = "CampaignStatusUpdated" /\ row.known ->
         WithRow(db, event.key, Updated(row, StatusIn(slots)))
    [] event.name = "CampaignCreated" ->
         WithRow(db, event.key, EscrowCreated(row, slots[1].v))
    [] OTHER -> HandledOwn(db, event)

Process(events) == index' = FoldLeft(Handled, index, events)

-----------------------------------------------------------------------------
(* The invocations, each with its events. *)

ChainOnly == UNCHANGED <<titles, names, shape, onEscrow, strayed>>

Administer == Administration /\ Process(<<>>) /\ ChainOnly

FarmerJoins(f, name) ==
  /\ RegisterFarmer(f)
  /\ names' = [names EXCEPT ![f] = name]
  /\ Process(<<Event("FarmerRegistered", f, <<Plain(f), Plain(name)>>)>>)
  /\ UNCHANGED <<titles, shape, onEscrow, strayed>>

CampaignIsRegistered(id, f, title) ==
  /\ FarmerRegistersCampaign(id, f)
  /\ titles' = [titles EXCEPT ![id] = title]
  /\ strayed' = [strayed EXCEPT !.farmer = @ \ {id}]
  /\ Process(<<Event("CampaignRegistered", id, <<Plain(f), Plain(title)>>)>>)
  /\ UNCHANGED <<names, shape, onEscrow>>

FarmerLinksCampaign(id, f, c) ==
  /\ FarmerLinks(id, f, c)
  /\ strayed' = [strayed EXCEPT !.farmer = @ \ {id}]
  /\ Process(<<LinkedEvent(id, f, c)>>)
  /\ UNCHANGED <<titles, names, shape, onEscrow>>

\* The registry was told a status, and its event is what the row was told last.
StatusIsTold(id) ==
  strayed' = [strayed EXCEPT !.reconciled = @ \ {id}, !.untold = @ \ {id}]

StatusIsReported(id, status) ==
  /\ StatusIsTold(id)
  /\ Process(<<StatusEvent(id, status)>>)
  /\ UNCHANGED <<titles, names, shape, onEscrow>>

AdminReports(id, status) == AdminUpdatesStatus(id, status) /\ StatusIsReported(id, status)

\* a contract other than the escrow, for a campaign that is linked to it
ContractReports(c, id, status) ==
  /\ store.record[id].escrow = c
  /\ Serve(c, <<[fn |-> "update_campaign_status", id |-> id, arg |-> status]>>)
  /\ StatusIsReported(id, status)

ActivityIsRecorded(id, actor, action) ==
  /\ strayed' = IF action \in {"CampaignCreated", "CampaignRegistered"}
                THEN [strayed EXCEPT !.farmer = @ \cup {id}] ELSE strayed
  /\ Process(Activity(id, actor, action))
  /\ UNCHANGED <<titles, names, shape>>

PersonReports(id, person, action) ==
  /\ PersonRecordsActivity(id, person, action)
  /\ ActivityIsRecorded(id, person, action)
  /\ UNCHANGED onEscrow

\* CampaignStatusReconciled is none of the events the parser knows.
StatusIsReconciled(id, reported) ==
  /\ store.record[id].escrow = Escrow => reported = onEscrow[id]
  /\ Reconcile(id, reported)
  /\ strayed' = [strayed EXCEPT !.reconciled = @ \cup {id}]
  /\ Process(<<Event("CampaignStatusReconciled", id, <<>>)>>)
  /\ UNCHANGED <<titles, names, shape, onEscrow>>

-----------------------------------------------------------------------------
(* The escrow's invocations, each with the registry calls it makes and the   *)
(* events of both contracts.                                                 *)

\* create_campaign: link, record, and the escrow's own event
EscrowCreates(id, f) ==
  /\ LogLength(store) < MaxLog
  /\ onEscrow[id] = "None"
  /\ Serve(Escrow, <<[fn |-> "link_campaign_escrow", id |-> id, arg |-> f],
                     [fn |-> "record_activity", id |-> id, arg |-> "CampaignCreated"]>>)
  /\ onEscrow' = [onEscrow EXCEPT ![id] = "Active"]
  /\ strayed' = [strayed EXCEPT !.farmer = @ \ {id}]
  /\ Process(<<LinkedEvent(id, f, Escrow)>> \o Activity(id, Escrow, "CampaignCreated")
             \o <<Event("CampaignCreated", id, <<Plain(f)>>)>>)
  /\ UNCHANGED <<titles, names, shape>>

\* A contribution short of the target: receive_contribution calls nobody, fund_campaign
\* records the activity; the events of both leave the row's status alone.
EscrowRaises(id) ==
  /\ onEscrow[id] \in {"Active", "Funding"}
  /\ onEscrow' = [onEscrow EXCEPT ![id] = "Funding"]
  /\ \/ Process(<<>>) /\ UNCHANGED <<store, titles, names, shape, strayed>>
     \/ /\ LogLength(store) < MaxLog
        /\ Serve(Escrow, <<[fn |-> "record_activity", id |-> id, arg |-> "CampaignFunded"]>>)
        /\ ActivityIsRecorded(id, Escrow, "CampaignFunded")

\* A handler that passes a status: the activity, the status, and its own event, which
\* fund_campaign alone publishes before it calls the registry.
EscrowNotifies(id, status) ==
  LET move == Notified[status]
      told == Activity(id, Escrow, move.action) \o <<StatusEvent(id, status)>>
      own  == <<Event(move.event, id, <<>>)>>
  IN
  /\ onEscrow[id] \in move.from
  /\ LogLength(store) < MaxLog
  /\ Serve(Escrow, <<[fn |-> "record_activity", id |-> id, arg |-> move.action],
                     [fn |-> "update_campaign_status", id |-> id, arg |-> status]>>)
  /\ onEscrow' = [onEscrow EXCEPT ![id] = status]
  /\ StatusIsTold(id)
  /\ Process(IF status = "Funded" THEN own \o told ELSE told \o own)
  /\ UNCHANGED <<titles, names, shape>>

\* complete_funding and expire_campaign: only the escrow's own event
EscrowMovesSilently(id, status) ==
  /\ onEscrow[id] \in Silent[status].from
  /\ onEscrow' = [onEscrow EXCEPT ![id] = status]
  /\ strayed' = [strayed EXCEPT !.untold = @ \cup {id}]
  /\ Process(<<Event(Silent[status].event, id, <<>>)>>)
  /\ UNCHANGED <<store, titles, names, shape>>

RegistryIndexInit ==
  /\ Init
  /\ titles = [id \in Ids |-> NoText]
  /\ names = [f \in Owners |-> NoText]
  /\ shape \in Shapes
  /\ onEscrow = [id \in Ids |-> "None"]
  /\ index = [rows |-> [id \in Ids |-> NewRow],
              users |-> [p \in People \cup Contracts |-> NoText]]
  /\ strayed = [farmer |-> {}, reconciled |-> {}, untold |-> {}]

RegistryIndexNext ==
  \/ Administer
  \/ \E f \in Owners, name \in Names : FarmerJoins(f, name)
  \/ \E id \in Ids, f \in Owners :
       \/ \E title \in Titles : CampaignIsRegistered(id, f, title)
       \/ \E c \in Contracts : FarmerLinksCampaign(id, f, c)
       \/ EscrowCreates(id, f)
  \/ \E id \in Ids, p \in People, action \in Actions : PersonReports(id, p, action)
  \/ \E id \in Ids : EscrowRaises(id)
  \/ \E id \in Ids, status \in Statuses :
       \/ AdminReports(id, status)
       \/ \E c \in Contracts \ {Escrow} : ContractReports(c, id, status)
       \/ StatusIsReconciled(id, status)
       \/ status \in DOMAIN Notified /\ EscrowNotifies(id, status)
       \/ status \in DOMAIN Silent /\ EscrowMovesSilently(id, status)

RegistryIndexSpec == RegistryIndexInit /\ [][RegistryIndexNext]_registryIndexVars
-----------------------------------------------------------------------------
(* Properties. *)

Shown(text) == IF text \in ActivityTags THEN NoText ELSE text

\* However an enum is decoded, no mirrored activity puts an action where a title or a
\* name belongs or blanks one; only a text that is an action's name is lost itself.
TextsSurviveMirrors ==
  /\ \A id \in Ids : index.rows[id].title = Shown(titles[id])
  /\ \A f \in Owners : index.users[f] = Shown(names[f])

\* the status that the escrow's own events give a campaign: they tell of no contribution
ToldByEscrow(id) ==
  IF onEscrow[id] \in {"None", "Active", "Funding"} THEN "Active" ELSE onEscrow[id]

\* Of its two writers, a row's status follows the one that wrote last: the escrow when it
\* moved without telling the registry, else the registry's record, unless that was last
\* written by a reconciliation.
FollowsLastWriter(id) ==
  LET status == index.rows[id].status IN
  IF id \in strayed.untold THEN status = ToldByEscrow(id)
  ELSE (Linked(store, id) /\ id \notin strayed.reconciled) => status = store.record[id].status

\* The index shows the status that was written last, by the registry's events or by the
\* escrow's own, in whatever order they come, and mirrored activities change it never;
\* where the SDK decodes an enum to a bare string it may show the escrow's word alone.
IndexFollowsRecord ==
  \A id \in Ids :
    \/ FollowsLastWriter(id)
    \/ shape = "string" /\ index.rows[id].status = ToldByEscrow(id)

\* Between the registration, the link and the creation, which mirrors the escrow as the
\* actor, the index shows the registrant as the farmer, until a person records a creation.
RowsNameTheRegistrant ==
  \A id \in Ids :
    (store.info[id] # Nobody /\ id \notin strayed.farmer) =>
      /\ index.rows[id].known
      /\ index.rows[id].farmer = store.info[id]
      /\ index.rows[id].escrow = store.record[id].escrow

\* A campaign's row and its farmer's profile in the index are those of its
\* registration, whatever mirrors and re-decodings arrive after it.
RowsMatchRegistration == TextsSurviveMirrors /\ RowsNameTheRegistrant

\* Of every payload the contracts emit, but that of CampaignStatusReconciled, the parser
\* takes slot by slot the fields it has, in a type the reader accepts, whatever SDK is
\* chosen at the start; and it knows no event that neither contract emits.
WireAgrees == PayloadsAgree(shape)
=============================================================================
