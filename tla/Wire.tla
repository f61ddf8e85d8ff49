-------------------------------- MODULE Wire --------------------------------
(***************************************************************************)
(* The payloads of the contracts' events: what each slot carries on the    *)
(* contracts' side, and what the server's parser takes it for.  A value is *)
(* abstracted to the JavaScript type that scValToNative gives it; that of  *)
(* a fieldless enum depends on the version of the SDK.                     *)
(***************************************************************************)
EXTENDS Integers, SequencesExt

\* how a fieldless enum may be decoded: "Funded", ["Funded"] or { tag: "Funded" }
Shapes == {"string", "array", "object"}

JsType(type, shape) ==
  CASE type \in {"Address", "Symbol", "String"} -> "string"
    [] type \in {"u64", "i128"}                 -> "bigint"
    [] type = "u32"                             -> "number"
    [] type = "enum"                            -> shape

\* asString, asNumber, asBigInt (an address or a text holds no integer) and decodeTag
Reads(reader) ==
  CASE reader = "asString"  -> {"string", "number", "bigint"}
    [] reader = "asNumber"  -> {"number", "bigint"}
    [] reader = "asBigInt"  -> {"number", "bigint"}
    [] reader = "decodeTag" -> {"string", "array", "object"}

-----------------------------------------------------------------------------
(* The contracts' side: <<field, type>> by slot. *)

Who(field)     == <<field, "Address">>
Sum(field)     == <<field, "i128">>
Timestamp      == <<"timestamp", "u64">>
Ledger         == <<"ledgerSequence", "u32">>
Variant(field) == <<field, "enum">>

EscrowPayload ==
  [CampaignCreated    |-> <<Who("farmer"), Timestamp, Sum("targetAmount")>>,
   ContribReceived    |-> <<Who("investor"), Timestamp, Sum("amount")>>,
   ContribReconciled  |-> <<Who("investor"), Timestamp, Sum("amount")>>,
   CampaignFunded     |-> <<Timestamp, Sum("totalFunded")>>,
   TranchesConfigured |-> <<Timestamp, <<"trancheCount", "u32">>>>,
   TrancheReleased    |-> <<Who("recipient"), Timestamp, Sum("amount")>>,
   HarvestReported    |-> <<Who("farmer"), <<"outcome", "Symbol">>, Timestamp>>,
   CampaignFailed     |-> <<Timestamp, Sum("refundable")>>,
   ReturnClaimed      |-> <<Who("investor"), Timestamp, Sum("amount")>>,
   RefundClaimed      |-> <<Who("investor"), Timestamp, Sum("amount")>>,
   DisputeOpened      |-> <<Who("opener"), <<"reason", "Symbol">>, Timestamp, Ledger>>,
   DisputeResolved    |-> <<Who("admin"), Variant("resolution"), Sum("payoutToFarmer"),
                            Sum("refundableToInvestors"), Timestamp, Ledger>>,
   CampaignSettled    |-> <<Who("farmer"), Timestamp, Sum("farmerPayout"),
                            Sum("investorReturns")>>]

RegistryPayload ==
  [AdminInitialized      |-> <<Who("admin"), Timestamp, Ledger>>,
   AdminUpdated          |-> <<Who("actor"), Who("oldAdmin"), Who("newAdmin"), Timestamp, Ledger>>,
   ContractApproved      |-> <<Who("actor"), Who("contract"), Timestamp, Ledger>>,
   ContractRevoked       |-> <<Who("actor"), Who("contract"), Timestamp, Ledger>>,
   FarmerRegistered      |-> <<Who("farmer"), <<"name", "String">>, Timestamp, Ledger>>,
   CampaignRegistered    |-> <<Who("farmer"), <<"title", "String">>, Timestamp, Ledger>>,
   CampaignEscrowLinked  |-> <<Who("farmer"), Who("escrowContract"), Timestamp, Ledger>>,
   CampaignStatusUpdated |-> <<Variant("prevStatus"), Variant("newStatus"), Timestamp, Ledger>>,
   CampaignStatusReconciled |->
     <<Variant("prevStatus"), Variant("newStatus"), Timestamp, Ledger>>,
   ActivityRecorded      |-> <<Who("actor"), Variant("actionType"), Timestamp, Ledger>>]

\* record_activity publishes these under the same names.
MirrorPayload ==
  [FarmerRegistered      |-> <<Who("actor"), Timestamp, Ledger>>,
   CampaignRegistered    |-> <<Who("actor"), Variant("actionType"), Timestamp, Ledger>>,
   CampaignStatusUpdated |-> <<Who("actor"), Variant("actionType"), Timestamp, Ledger>>]

-----------------------------------------------------------------------------
(* The parser's side: <<field, reader>> by slot; a shorter payload is refused. *)

Name(field)   == <<field, "asString">>
Amount(field) == <<field, "asBigInt">>
Number(field) == <<field, "asNumber">>
Tag(field)    == <<field, "decodeTag">>
Time          == Number("timestamp")
Sequence      == Number("ledgerSequence")

FundingParser ==
  [CampaignCreated    |-> <<Name("farmer"), Time, Amount("targetAmount")>>,
   ContribReceived    |-> <<Name("investor"), Time, Amount("amount")>>,
   ContribReconciled  |-> <<Name("investor"), Time, Amount("amount")>>,
   CampaignFunded     |-> <<Time, Amount("totalFunded")>>,
   TranchesConfigured |-> <<Time, Number("trancheCount")>>]

PayoutParser ==
  [TrancheReleased    |-> <<Name("recipient"), Time, Amount("amount")>>,
   HarvestReported    |-> <<Name("farmer"), Name("outcome"), Time>>,
   CampaignFailed     |-> <<Time, Amount("refundable")>>,
   ReturnClaimed      |-> <<Name("investor"), Time, Amount("amount")>>,
   RefundClaimed      |-> <<Name("investor"), Time, Amount("amount")>>]

VerdictParserSwapped ==                                           \* mutant
  [DisputeOpened      |-> <<Name("opener"), Name("reason"), Time, Sequence>>,
   DisputeResolved    |-> <<Name("admin"), Tag("resolution"), Amount("refundableToInvestors"),
                            Amount("payoutToFarmer"), Time, Sequence>>,
   CampaignSettled    |-> <<Name("farmer"), Time, Amount("farmerPayout"),
                            Amount("investorReturns")>>]

VerdictParser ==
  [DisputeOpened      |-> <<Name("opener"), Name("reason"), Time, Sequence>>,
   DisputeResolved    |-> <<Name("admin"), Tag("resolution"), Amount("payoutToFarmer"),
                            Amount("refundableToInvestors"), Time, Sequence>>,
   CampaignSettled    |-> <<Name("farmer"), Time, Amount("farmerPayout"),
                            Amount("investorReturns")>>]

AdministrationParser ==
  [AdminInitialized   |-> <<Name("admin"), Time, Sequence>>,
   AdminUpdated       |-> <<Name("actor"), Name("oldAdmin"), Name("newAdmin"), Time, Sequence>>,
   ContractApproved   |-> <<Name("actor"), Name("contract"), Time, Sequence>>,
   ContractRevoked    |-> <<Name("actor"), Name("contract"), Time, Sequence>>]

CampaignParser ==
  [CampaignEscrowLinked |-> <<Name("farmer"), Name("escrowContract"), Time, Sequence>>,
   ActivityRecorded   |-> <<Name("actor"), Tag("actionType"), Time, Sequence>>]

\* The one event that is emitted and that no parser is registered for.
Unparsed == {"CampaignStatusReconciled"}

\* Events of two origins: only the last two slots mean the same in both shapes.
SharedParser ==
  [FarmerRegistered |-> 3, CampaignRegistered |-> 4, CampaignStatusUpdated |-> 4]

-----------------------------------------------------------------------------
(* Do they agree? *)

Fits(slot, rule, shape) == slot[1] = rule[1] /\ JsType(slot[2], shape) \in Reads(rule[2])

Agrees(payload, rules, shape) ==
  /\ Len(payload) >= Len(rules)
  /\ \A i \in DOMAIN rules : Fits(payload[i], rules[i], shape)

EndsAlike(payload, arity, shape) ==
  /\ Len(payload) >= arity
  /\ Fits(payload[Len(payload) - 1], Time, shape)
  /\ Fits(payload[Len(payload)], Sequence, shape)

PayloadsAgree(shape) ==
  LET parser         == FundingParser @@ PayoutParser @@ VerdictParser
      registryParser == AdministrationParser @@ CampaignParser
  IN
  /\ DOMAIN parser = DOMAIN EscrowPayload
  /\ \A name \in DOMAIN parser : Agrees(EscrowPayload[name], parser[name], shape)
  /\ \A name \in DOMAIN registryParser :
       Agrees(RegistryPayload[name], registryParser[name], shape)
  /\ DOMAIN registryParser \cup DOMAIN SharedParser = DOMAIN RegistryPayload \ Unparsed
  /\ \A name \in DOMAIN SharedParser :
       /\ EndsAlike(RegistryPayload[name], SharedParser[name], shape)
       /\ EndsAlike(MirrorPayload[name], SharedParser[name], shape)
=============================================================================
