--------------------------- MODULE SessionProofs ----------------------------
(***************************************************************************)
(* Proofs about a farmer's browser: a wallet that was disconnected stays   *)
(* so, and what a visit of the creation page leaves on the contracts.       *)
(***************************************************************************)
EXTENDS Session, RegistryProofs

-----------------------------------------------------------------------------
(* The inductive invariant, part by part. *)

Accounts == Owners \cup {Nobody, Blank}

\* A write carries who it is for and which key pays for it.
Writes ==
  [fn : {"create_campaign", "register_campaign"}, id : Ids, farmer : Owners, key : Owners,
   at : {"build", "sign", "send"}, signer : Owners \cup {Nobody}]
  \cup
  [fn : {"register_farmer"}, id : {Nobody}, farmer : Owners, key : Owners,
   at : {"build", "sign", "send"}, signer : Owners \cup {Nobody}]

SessionType ==
  /\ StoreInv(store)
  /\ created \in [Ids -> Owners \cup {Nobody}]
  /\ freighter \in [there : BOOLEAN, account : Owners]
  /\ publicKey \in Accounts /\ stored \in Accounts
  /\ awaiting \in [connect : {"no", "detect", "address", "network"}, mount : BOOLEAN]
  /\ campaignId \in Ids \cup {Nobody}
  /\ op \in Writes \cup {NoOp}
  /\ seen \in [minted : SUBSET Ids, switches : Nat, lost : Nat, lostHere : Nat,
               here : SUBSET Ids, left : BOOLEAN]
  /\ IsFiniteSet(seen.here)

\* The contracts know whatever the page takes for created, and whatever is registered.
Chained ==
  /\ campaignId # Nobody => created[campaignId] # Nobody
  /\ op.fn = "register_campaign" => created[op.id] # Nobody
  /\ \A id \in Ids : store.info[id] # Nobody => created[id] # Nobody

\* Until the extension's account changes there is one account everywhere.
OneAccount ==
  seen.switches = 0 =>
    /\ {publicKey, stored} \subseteq {freighter.account, Nobody, Blank}
    /\ op # NoOp => op.farmer = freighter.account
    /\ \A id \in Ids : /\ created[id] \in {freighter.account, Nobody}
                       /\ store.info[id] \in {freighter.account, Nobody}

\* While the page knows of no campaign, every one it made is one whose answer was lost.
Counted ==
  /\ Cardinality(seen.here) <= seen.lostHere + (IF campaignId = Nobody THEN 0 ELSE 1)
  /\ op.fn = "create_campaign" => campaignId = Nobody

\* On an integrated escrow the page never gets past the creation.
Refused ==
  integrated =>
    /\ \A id \in Ids : created[id] = Nobody
    /\ campaignId = Nobody /\ op.fn # "register_campaign"

\* Nothing is left to connect from once the user has disconnected.
Gone == seen.left => publicKey = Nobody /\ stored = Nobody /\ awaiting.connect = "no"

SInv ==
  SessionType /\ Gone /\ Chained /\ OneAccount /\ Counted /\ Refused

-----------------------------------------------------------------------------
(* The steps. *)

\* The invariant holds when the page is first opened.
LEMMA InitSInv == SessionInit => SInv
<1> SUFFICES ASSUME SessionInit PROVE SInv
  OBVIOUS
<1>1. StoreInv(store) /\ store.info = [id \in Ids |-> Nobody]
  BY EmptyStoreInv DEF SessionInit, Init, EmptyStore
<1>2. op = NoOp /\ op.fn = "none"
  BY DEF SessionInit, NoOp
<1>3. IsFiniteSet({}) /\ Cardinality({}) = 0
  BY FS_EmptySet
<1>4. SessionType
  BY <1>1, <1>2, <1>3 DEF SessionInit, SessionType, Accounts
<1>5. Chained /\ OneAccount
  BY <1>1, <1>2 DEF SessionInit, Chained, OneAccount
<1>6. Counted /\ Refused /\ Gone
  BY <1>1, <1>2, <1>3 DEF SessionInit, Counted, Refused, Gone
<1>7. QED
  BY <1>4, <1>5, <1>6 DEF SInv

\* Whatever connect, disconnect and the check on mount write, they write it to the
\* context, and to the browser's storage unless that refuses.
LEMMA WalletKeepsSInv ==
  ASSUME SInv, NEW key \in Accounts, NEW kept \in Accounts, NEW busy, NEW waiting,
         NEW left \in BOOLEAN,
         waiting \in [connect : {"no", "detect", "address", "network"}, mount : BOOLEAN],
         seen.switches = 0 => {key, kept} \subseteq {freighter.account, Nobody, Blank},
         left => key = Nobody /\ kept = Nobody /\ waiting.connect = "no",
         WalletStep(key, kept, busy, waiting, left)
  PROVE  SInv'
<1>1. /\ seen' = [seen EXCEPT !.left = left]
      /\ seen \in [minted : SUBSET Ids, switches : Nat, lost : Nat, lostHere : Nat,
                   here : SUBSET Ids, left : BOOLEAN]
  BY DEF WalletStep, SInv, SessionType
<1>2. /\ seen'.left = left /\ seen'.switches = seen.switches /\ seen'.here = seen.here
      /\ seen'.lostHere = seen.lostHere
      /\ seen' \in [minted : SUBSET Ids, switches : Nat, lost : Nat, lostHere : Nat,
                    here : SUBSET Ids, left : BOOLEAN]
  BY <1>1
<1>3. SessionType' /\ Gone'
  BY <1>2 DEF SInv, SessionType, Gone, WalletStep, pageVars
<1>4. Chained' /\ OneAccount' /\ Counted' /\ Refused'
  BY <1>2 DEF SInv, Chained, OneAccount, Counted, Refused, WalletStep, pageVars
<1>5. QED
  BY <1>3, <1>4 DEF SInv

\* Every action of the wallet context is such a write.
LEMMA WalletContextKeepsSInv ==
  ASSUME SInv,
         Connect \/ Detected \/ Addressed \/ ConnectEnds \/ DisconnectWallet \/ MountAnswered
  PROVE  SInv'
<1> DEFINE Waiting == [connect : {"no", "detect", "address", "network"}, mount : BOOLEAN]
           Ours == {freighter.account, Nobody, Blank}
<1>1. /\ publicKey \in Accounts /\ stored \in Accounts /\ Nobody \in Accounts
      /\ seen.left \in BOOLEAN /\ FALSE \in BOOLEAN
      /\ seen.switches = 0 => publicKey \in Ours /\ stored \in Ours
      /\ \A a \in {freighter.account, Blank} : a \in Accounts /\ a \in Ours
      /\ Nobody \in Ours
      /\ seen.left => publicKey = Nobody /\ stored = Nobody /\ awaiting.connect = "no"
  BY DEF SInv, SessionType, OneAccount, Accounts, Gone
<1>2. /\ \A x \in {"no", "detect", "address", "network"} :
           [awaiting EXCEPT !.connect = x] \in Waiting
      /\ [awaiting EXCEPT !.connect = "no"].connect = "no"
      /\ [awaiting EXCEPT !.mount = FALSE] \in Waiting
      /\ [awaiting EXCEPT !.mount = FALSE].connect = awaiting.connect
      /\ awaiting \in Waiting
  BY DEF SInv, SessionType
<1>a. ASSUME NEW k, NEW m, seen.switches = 0 => k \in Ours /\ m \in Ours
      PROVE  seen.switches = 0 => {k, m} \subseteq {freighter.account, Nobody, Blank}
  BY <1>a
<1> HIDE DEF Waiting, Ours
<1>3. ASSUME NEW key \in Accounts, NEW kept \in Accounts, NEW busy, NEW waiting \in Waiting,
             NEW left \in BOOLEAN,
             seen.switches = 0 => key \in Ours /\ kept \in Ours,
             left => key = Nobody /\ kept = Nobody /\ waiting.connect = "no",
             WalletStep(key, kept, busy, waiting, left)
      PROVE  SInv'
  <2>1. seen.switches = 0 => {key, kept} \subseteq {freighter.account, Nobody, Blank}
    BY <1>3, <1>a
  <2>2. QED
    BY <1>3, <2>1, WalletKeepsSInv DEF Waiting
<1>4. CASE Connect
  BY <1>1, <1>2, <1>3, <1>4 DEF Connect
<1>5. CASE Detected
  <2>1. ~seen.left
    BY <1>1, <1>5 DEF Detected
  <2>2. QED
    BY <1>1, <1>2, <1>3, <1>5, <2>1 DEF Detected
<1>6. CASE Addressed
  <2>1. ~seen.left
    BY <1>1, <1>6 DEF Addressed
  <2>2. PICK address \in {freighter.account, Blank} : \E kept \in {address, stored} :
          WalletStep(address, kept, TRUE, [awaiting EXCEPT !.connect = "network"], seen.left)
    BY <1>6 DEF Addressed, AfterWrite
  <2>3. PICK kept \in {address, stored} :
          WalletStep(address, kept, TRUE, [awaiting EXCEPT !.connect = "network"], seen.left)
    BY <2>2
  <2>4. /\ address \in Accounts /\ kept \in Accounts
        /\ seen.switches = 0 => address \in Ours /\ kept \in Ours
    BY <1>1
  <2>5. QED
    BY <1>1, <1>2, <1>3, <2>1, <2>3, <2>4
<1>7. CASE ConnectEnds
  BY <1>1, <1>2, <1>3, <1>7 DEF ConnectEnds
<1>8. CASE DisconnectWallet
  <2>1. PICK refused \in BOOLEAN :
          WalletStep(Nobody, IF refused THEN stored ELSE Nobody, isConnecting, awaiting,
                     ~refused /\ awaiting.connect = "no")
    BY <1>8 DEF DisconnectWallet, StoredAfterDisconnect
  <2> DEFINE kept == IF refused THEN stored ELSE Nobody
             left == ~refused /\ awaiting.connect = "no"
  <2>2. /\ kept \in Accounts /\ left \in BOOLEAN
        /\ seen.switches = 0 => Nobody \in Ours /\ kept \in Ours
        /\ left => kept = Nobody /\ awaiting.connect = "no"
    BY <1>1
  <2>3. WalletStep(Nobody, kept, isConnecting, awaiting, left)
    BY <2>1
  <2> HIDE DEF kept, left
  <2>4. QED
    BY <1>1, <1>2, <1>3, <2>2, <2>3
<1>9. CASE MountAnswered
  <2>1. CASE WalletStep(publicKey, stored, isConnecting, [awaiting EXCEPT !.mount = FALSE],
                        seen.left)
    BY <1>1, <1>2, <1>3, <2>1
  <2>2. ASSUME NEW kept \in {Nobody, stored},
               WalletStep(Nobody, kept, isConnecting, [awaiting EXCEPT !.mount = FALSE],
                          seen.left)
        PROVE  SInv'
    <3>1. /\ kept \in Accounts /\ (seen.switches = 0 => Nobody \in Ours /\ kept \in Ours)
          /\ seen.left => kept = Nobody
      BY <1>1
    <3>2. QED
      BY <1>1, <1>2, <1>3, <2>2, <3>1
  <2>3. QED
    BY <1>9, <2>1, <2>2 DEF MountAnswered, AfterWrite
<1>10. QED
  BY <1>4, <1>5, <1>6, <1>7, <1>8, <1>9

\* A reload begins a new visit, with the stored key if it can be read.
LEMMA ReloadKeepsSInv ==
  ASSUME SInv, Reload
  PROVE  SInv'
<1>1. /\ publicKey' \in {stored, Nobody} /\ stored' = stored
      /\ op' = NoOp /\ campaignId' = Nobody
      /\ store' = store /\ integrated' = integrated /\ created' = created
      /\ freighter' = freighter
  BY DEF Reload
<1>2. NoOp.fn = "none"
  BY DEF NoOp
<1>3. /\ awaiting' \in [connect : {"no", "detect", "address", "network"}, mount : BOOLEAN]
      /\ awaiting'.connect = "no"
      /\ seen'.here = {} /\ seen'.lostHere = 0 /\ seen'.switches = seen.switches
      /\ seen'.left = seen.left
      /\ seen' \in [minted : SUBSET Ids, switches : Nat, lost : Nat, lostHere : Nat,
                    here : SUBSET Ids, left : BOOLEAN]
  <2>1. /\ awaiting' \in [connect : {"no", "detect", "address", "network"}, mount : BOOLEAN]
        /\ awaiting'.connect = "no"
    <3>1. awaiting' = [connect |-> "no", mount |-> (publicKey' \in Owners)]
      BY DEF Reload
    <3>2. (publicKey' \in Owners) \in BOOLEAN
      OBVIOUS
    <3>3. QED
      BY <3>1, <3>2
  <2>2. /\ seen' = [seen EXCEPT !.here = {}, !.lostHere = 0]
        /\ seen \in [minted : SUBSET Ids, switches : Nat, lost : Nat, lostHere : Nat,
                     here : SUBSET Ids, left : BOOLEAN]
    BY DEF Reload, SInv, SessionType
  <2>3. QED
    BY <2>1, <2>2
<1>4. IsFiniteSet({}) /\ Cardinality({}) = 0
  BY FS_EmptySet
<1>5. SessionType' /\ Gone'
  BY <1>1, <1>3, <1>4 DEF SInv, SessionType, Gone, Accounts
<1>6. Chained' /\ OneAccount'
  BY <1>1, <1>2, <1>3 DEF SInv, Chained, OneAccount
<1>7. Counted' /\ Refused'
  BY <1>1, <1>2, <1>3, <1>4 DEF SInv, Counted, Refused
<1>8. QED
  BY <1>5, <1>6, <1>7 DEF SInv

\* A changed account ends the agreement of accounts for good.
LEMMA SwitchKeepsSInv ==
  ASSUME SInv, SwitchAccount
  PROVE  SInv'
<1>1. /\ freighter' \in [there : BOOLEAN, account : Owners]
      /\ seen' = [seen EXCEPT !.switches = seen.switches + 1]
      /\ UNCHANGED <<store, integrated, created, walletVars, pageVars>>
  BY DEF SwitchAccount
<1>2. /\ seen'.switches # 0 /\ seen'.here = seen.here /\ seen'.lostHere = seen.lostHere
      /\ seen' \in [minted : SUBSET Ids, switches : Nat, lost : Nat, lostHere : Nat,
                    here : SUBSET Ids, left : BOOLEAN]
  BY <1>1 DEF SInv, SessionType
<1>3. SessionType' /\ Gone'
  BY <1>1, <1>2 DEF SInv, SessionType, Gone, walletVars, pageVars
<1>4. Chained' /\ OneAccount' /\ Counted' /\ Refused'
  BY <1>1, <1>2 DEF SInv, Chained, OneAccount, Counted, Refused, walletVars, pageVars
<1>5. QED
  BY <1>3, <1>4 DEF SInv

\* The wizard's own steps touch nothing the invariant is about.
LEMMA PageKeepsSInv ==
  ASSUME SInv, Edit \/ GoNext \/ GoBack \/ DeadlinePasses
  PROVE  SInv'
<1>1. UNCHANGED <<store, integrated, created, freighter, walletVars, campaignId, op, seen>>
  BY DEF Edit, GoNext, GoBack, DeadlinePasses, PageStep
<1>2. SessionType' /\ Gone'
  BY <1>1 DEF SInv, SessionType, Gone, walletVars
<1>3. Chained' /\ OneAccount' /\ Counted' /\ Refused'
  BY <1>1 DEF SInv, Chained, OneAccount, Counted, Refused, walletVars
<1>4. QED
  BY <1>2, <1>3 DEF SInv

\* A write of the page is the connected account's, or none.
LEMMA WriteFits ==
  ASSUME NEW fn \in {"create_campaign", "register_campaign"}, NEW id \in Ids,
         NEW farmer \in Owners
  PROVE  LET w == Write(fn, id, farmer) IN
         /\ w \in Writes \cup {NoOp}
         /\ w # NoOp => w.farmer = farmer
         /\ w.fn = "none" \/ (w.fn = fn /\ w.id = id)
<1>1. CASE CanWrite
  <2>1. publicKey \in Owners
    BY <1>1 DEF CanWrite
  <2>2. Write(fn, id, farmer) = [fn |-> fn, id |-> id, farmer |-> farmer, key |-> publicKey,
                                 at |-> "build", signer |-> Nobody]
    BY <1>1 DEF Write
  <2>3. QED
    BY <2>1, <2>2 DEF Writes
<1>2. CASE ~CanWrite
  <2>1. Write(fn, id, farmer) = NoOp
    BY <1>2 DEF Write
  <2>2. NoOp.fn = "none"
    BY DEF NoOp
  <2>3. QED
    BY <2>1, <2>2
<1>3. QED
  BY <1>1, <1>2

\* Confirming in the wizard creates under a new id, or registers the known campaign.
LEMMA ConfirmKeepsSInv ==
  ASSUME SInv, ConfirmCreation
  PROVE  SInv'
<1>1. /\ UNCHANGED <<store, integrated, created, freighter, walletVars, form, campaignId>>
      /\ publicKey \in Owners
  BY DEF ConfirmCreation, CanWrite
<1>a. publicKey \notin {Nobody, Blank}
  BY <1>1, RegistryConstants, SessionConstants DEF People
<1>b. NoOp.fn = "none"
  BY DEF NoOp
<1>2. CASE campaignId # Nobody
  <2>1. op' = Write("register_campaign", campaignId, publicKey) /\ seen' = seen
    BY <1>2 DEF ConfirmCreation
  <2>2. campaignId \in Ids
    BY <1>2 DEF SInv, SessionType
  <2>3. /\ op' \in Writes \cup {NoOp} /\ (op' # NoOp => op'.farmer = publicKey)
        /\ op'.fn = "none" \/ (op'.fn = "register_campaign" /\ op'.id = campaignId)
    BY <1>1, <2>1, <2>2, WriteFits
  <2>4. SessionType' /\ Gone'
    BY <1>1, <2>1, <2>3 DEF SInv, SessionType, Gone, walletVars
  <2>5. Chained' /\ OneAccount'
    BY <1>1, <1>2, <1>a, <2>1, <2>3 DEF SInv, Chained, OneAccount, walletVars
  <2>6. Counted' /\ Refused'
    BY <1>1, <1>2, <2>1, <2>3 DEF SInv, Counted, Refused
  <2>7. QED
    BY <2>4, <2>5, <2>6 DEF SInv
<1>3. CASE campaignId = Nobody
  <2>1. PICK id \in Ids : /\ op' = Write("create_campaign", id, publicKey)
                          /\ seen' = [seen EXCEPT !.minted = seen.minted \cup {id}]
    BY <1>3 DEF ConfirmCreation, FirstWrite
  <2>2. /\ op' \in Writes \cup {NoOp} /\ (op' # NoOp => op'.farmer = publicKey)
        /\ op'.fn \in {"none", "create_campaign"}
    BY <1>1, <2>1, WriteFits
  <2>3. /\ seen'.here = seen.here /\ seen'.lostHere = seen.lostHere
        /\ seen'.switches = seen.switches /\ seen'.left = seen.left
        /\ seen' \in [minted : SUBSET Ids, switches : Nat, lost : Nat, lostHere : Nat,
                      here : SUBSET Ids, left : BOOLEAN]
    BY <2>1 DEF SInv, SessionType
  <2>4. SessionType' /\ Gone'
    BY <1>1, <2>2, <2>3 DEF SInv, SessionType, Gone, walletVars
  <2>5. Chained' /\ OneAccount'
    BY <1>1, <1>3, <1>a, <2>2, <2>3 DEF SInv, Chained, OneAccount, walletVars
  <2>6. Counted' /\ Refused'
    BY <1>1, <1>3, <2>2, <2>3 DEF SInv, Counted, Refused
  <2>7. QED
    BY <2>4, <2>5, <2>6 DEF SInv
<1>4. QED
  BY <1>2, <1>3

\* The profile form starts a write about no campaign.
LEMMA ProfileKeepsSInv ==
  ASSUME SInv, SubmitProfile
  PROVE  SInv'
<1>1. /\ UNCHANGED <<store, integrated, created, freighter, walletVars, form, campaignId, seen>>
      /\ publicKey \in Owners
      /\ op' = [fn |-> "register_farmer", id |-> Nobody, farmer |-> publicKey,
                key |-> publicKey, at |-> "build", signer |-> Nobody]
  BY DEF SubmitProfile, CanWrite, Write
<1>2. publicKey \notin {Nobody, Blank}
  BY <1>1, RegistryConstants, SessionConstants DEF People
<1>3. op' \in Writes /\ op'.fn = "register_farmer" /\ op'.farmer = publicKey
  BY <1>1 DEF Writes
<1>4. SessionType' /\ Gone'
  BY <1>1, <1>3 DEF SInv, SessionType, Gone, walletVars
<1>5. Chained' /\ OneAccount'
  BY <1>1, <1>2, <1>3 DEF SInv, Chained, OneAccount, walletVars
<1>6. Counted' /\ Refused'
  BY <1>1, <1>3 DEF SInv, Counted, Refused
<1>7. QED
  BY <1>4, <1>5, <1>6 DEF SInv

\* Building, signing and failing change where a write is, or end it.
LEMMA ProgressKeepsSInv ==
  ASSUME SInv, Built \/ Signed \/ Failed
  PROVE  SInv'
<1>1. /\ UNCHANGED <<store, integrated, created, freighter, walletVars, form, campaignId, seen>>
      /\ op # NoOp /\ op \in Writes
  BY DEF Built, Signed, Failed, OpStep, SInv, SessionType
<1>2. op' \in Writes \cup {NoOp} /\ (op' = NoOp \/ /\ op'.fn = op.fn /\ op'.id = op.id
                                                   /\ op'.farmer = op.farmer)
  <2>1. CASE Built
    <3>1. op' = [op EXCEPT !.at = "sign"]
      BY <2>1 DEF Built, OpStep
    <3>2. QED
      BY <1>1, <3>1 DEF Writes
  <2>2. CASE Signed
    <3>1. op' = [op EXCEPT !.at = "send", !.signer = freighter.account]
      BY <2>2 DEF Signed, OpStep
    <3>2. freighter.account \in Owners
      BY DEF SInv, SessionType
    <3>3. QED
      BY <1>1, <3>1, <3>2 DEF Writes
  <2>3. CASE Failed
    BY <2>3 DEF Failed, OpStep
  <2>4. QED
    BY <2>1, <2>2, <2>3
<1>3. NoOp.fn = "none"
  BY DEF NoOp
<1>4. SessionType' /\ Gone'
  BY <1>1, <1>2 DEF SInv, SessionType, Gone, walletVars
<1>5. Chained' /\ OneAccount'
  BY <1>1, <1>2, <1>3 DEF SInv, Chained, OneAccount, walletVars
<1>6. Counted' /\ Refused'
  BY <1>1, <1>2, <1>3 DEF SInv, Counted, Refused
<1>7. QED
  BY <1>4, <1>5, <1>6 DEF SInv

\* The contracts accept a creation only of a new campaign, and on an integrated escrow
\* none; a registration writes the farmer who signs it.
LEMMA ExecuteEffect ==
  ASSUME SInv, op \in Writes, Acceptable(op), Execute(op)
  PROVE  /\ StoreInv(store')
         /\ op.fn = "create_campaign" => ~integrated
         /\ created' = IF op.fn = "create_campaign"
                       THEN [created EXCEPT ![op.id] = op.farmer] ELSE created
         /\ store'.info = IF op.fn = "register_campaign"
                          THEN [store.info EXCEPT ![op.id] = op.farmer] ELSE store.info
<1>1. StoreInv(store) /\ op.farmer \in Owners
  BY DEF SInv, SessionType, Writes
<1>2. CASE op.fn = "create_campaign"
  <2>1. op.id \in Ids
    BY <1>2 DEF Writes
  <2>2. ~integrated
    <3> SUFFICES ASSUME integrated PROVE FALSE
      OBVIOUS
    <3>1. Accepts(store, Escrow, Link(op.id, op.farmer))
      BY <1>2 DEF Acceptable
    <3>2. /\ Link(op.id, op.farmer).fn = "link_campaign_escrow"
          /\ Link(op.id, op.farmer).id = op.id /\ Link(op.id, op.farmer).arg = op.farmer
      BY DEF Link
    <3>3. CanLink(store, op.id, op.farmer)
      BY <3>1, <3>2 DEF Accepts
    <3>4. store.info[op.id] = op.farmer /\ op.farmer # Nobody
      BY <1>1, <3>3, RegistryConstants DEF CanLink, People
    <3>5. QED
      BY <2>1, <3>4 DEF SInv, Chained, Refused
  <2>3. store' = store /\ created' = [created EXCEPT ![op.id] = op.farmer]
    BY <1>2, <2>2 DEF Execute
  <2>4. QED
    BY <1>1, <1>2, <2>2, <2>3
<1>3. CASE op.fn = "register_campaign"
  <2>1. op.id \in Ids
    BY <1>3 DEF Writes
  <2>2. created' = created /\ FarmerRegistersCampaign(op.id, op.farmer)
    BY <1>3 DEF Execute
  <2>3. store.info[op.id] = Nobody /\ store' = RegisterCampaign(store, op.id, op.farmer)
    BY <2>2 DEF FarmerRegistersCampaign
  <2> DEFINE t == RegisterCampaign(store, op.id, op.farmer)
  <2>4. StoreInv(t) /\ t.info = [store.info EXCEPT ![op.id] = op.farmer]
    BY <1>1, <2>1, <2>3, RegisterCampaignKeeps
  <2>5. store' = t
    BY <2>3
  <2> HIDE DEF t
  <2>6. QED
    BY <1>3, <2>2, <2>4, <2>5
<1>4. CASE op.fn = "register_farmer"
  <2>1. /\ created' = created
        /\ store' = [store EXCEPT !.farmers = Append(store.farmers, op.farmer)]
    BY <1>4 DEF Execute, RegisterFarmer
  <2> DEFINE t == [store EXCEPT !.farmers = Append(store.farmers, op.farmer)]
  <2>2. StoreInv(t)
    BY <1>1, AdministrationKeeps
  <2>3. t.info = store.info
    BY <1>1 DEF StoreInv, StoreType
  <2> HIDE DEF t
  <2>4. store' = t
    BY <2>1 DEF t
  <2>5. QED
    BY <1>4, <2>1, <2>2, <2>3, <2>4
<1>5. QED
  BY <1>2, <1>3, <1>4 DEF Writes

\* What an executed write leaves, whatever the page learns of it: the parts of the
\* invariant that relate the two contracts to each other and to the accounts.
LEMMA ExecutedFits ==
  ASSUME SInv, op \in Writes, Acceptable(op), Execute(op)
  PROVE  /\ StoreInv(store')
         /\ created' \in [Ids -> Owners \cup {Nobody}]
         /\ \A id \in Ids : created[id] # Nobody => created'[id] # Nobody
         /\ op.fn = "create_campaign" => created'[op.id] # Nobody /\ ~integrated
         /\ \A id \in Ids : store'.info[id] # Nobody => created'[id] # Nobody
         /\ seen.switches = 0 =>
              \A id \in Ids : /\ created'[id] \in {freighter.account, Nobody}
                              /\ store'.info[id] \in {freighter.account, Nobody}
         /\ integrated => \A id \in Ids : created'[id] = Nobody
<1>1. /\ StoreInv(store')
      /\ op.fn = "create_campaign" => ~integrated
      /\ created' = IF op.fn = "create_campaign"
                    THEN [created EXCEPT ![op.id] = op.farmer] ELSE created
      /\ store'.info = IF op.fn = "register_campaign"
                       THEN [store.info EXCEPT ![op.id] = op.farmer] ELSE store.info
  BY ExecuteEffect
<1>2. op.farmer \in Owners /\ op.farmer # Nobody
  BY RegistryConstants DEF Writes, People
<1>3. /\ created \in [Ids -> Owners \cup {Nobody}]
      /\ store.info \in [Ids -> Owners \cup {Nobody}]
      /\ \A id \in Ids : store.info[id] # Nobody => created[id] # Nobody
      /\ op.fn = "register_campaign" => created[op.id] # Nobody
      /\ op.fn \in {"create_campaign", "register_campaign"} => op.id \in Ids
  BY DEF SInv, SessionType, StoreInv, StoreType, Chained, Writes
<1>4. /\ created' \in [Ids -> Owners \cup {Nobody}]
      /\ \A id \in Ids : created[id] # Nobody => created'[id] # Nobody
      /\ op.fn = "create_campaign" => created'[op.id] # Nobody
  BY <1>1, <1>2, <1>3
<1>5. ASSUME NEW id \in Ids, store'.info[id] # Nobody PROVE created'[id] # Nobody
  BY <1>1, <1>2, <1>3, <1>4, <1>5
<1>6. seen.switches = 0 =>
        \A id \in Ids : /\ created'[id] \in {freighter.account, Nobody}
                        /\ store'.info[id] \in {freighter.account, Nobody}
  <2>1. NoOp.fn = "none"
    BY DEF NoOp
  <2>2. op # NoOp
    BY <2>1 DEF Writes
  <2>3. QED
    BY <1>1, <1>3, <2>2 DEF SInv, OneAccount
<1>7. integrated => \A id \in Ids : created'[id] = Nobody
  BY <1>1 DEF SInv, Refused
<1>8. QED
  BY <1>1, <1>4, <1>5, <1>6, <1>7

\* The answer of a creation makes the campaign known; any other ends the visit.
LEMMA SuccessKeepsSInv ==
  ASSUME SInv, Succeeded
  PROVE  SInv'
<1>1. /\ op # NoOp /\ op \in Writes /\ Acceptable(op) /\ Execute(op)
      /\ UNCHANGED <<integrated, freighter, walletVars>>
      /\ campaignId' = KnownAfter(op)
  BY DEF Succeeded, Sent, SInv, SessionType
<1>2. /\ StoreInv(store')
      /\ created' \in [Ids -> Owners \cup {Nobody}]
      /\ op.fn = "create_campaign" => created'[op.id] # Nobody /\ ~integrated
      /\ \A id \in Ids : store'.info[id] # Nobody => created'[id] # Nobody
      /\ seen.switches = 0 =>
           \A id \in Ids : /\ created'[id] \in {freighter.account, Nobody}
                           /\ store'.info[id] \in {freighter.account, Nobody}
      /\ integrated => \A id \in Ids : created'[id] = Nobody
  BY <1>1, ExecutedFits
<1>n. NoOp.fn = "none"
  BY DEF NoOp
<1>s. seen \in [minted : SUBSET Ids, switches : Nat, lost : Nat, lostHere : Nat,
                here : SUBSET Ids, left : BOOLEAN]
  BY DEF SInv, SessionType
<1>3. CASE op.fn = "create_campaign"
  <2>1. op.id \in Ids /\ op.farmer \in Owners
    BY <1>1, <1>3 DEF Writes
  <2>2. /\ campaignId' = op.id /\ op' = Write("register_campaign", op.id, op.farmer)
        /\ seen' = [seen EXCEPT !.here = seen.here \cup {op.id}]
    BY <1>1, <1>3 DEF Succeeded, KnownAfter
  <2>3. /\ op' \in Writes \cup {NoOp} /\ (op' # NoOp => op'.farmer = op.farmer)
        /\ op'.fn = "none" \/ (op'.fn = "register_campaign" /\ op'.id = op.id)
    BY <2>1, <2>2, WriteFits
  <2>4. /\ seen'.here = seen.here \cup {op.id} /\ seen'.lostHere = seen.lostHere
        /\ seen'.switches = seen.switches /\ seen'.left = seen.left
        /\ seen' \in [minted : SUBSET Ids, switches : Nat, lost : Nat, lostHere : Nat,
                      here : SUBSET Ids, left : BOOLEAN]
    BY <1>s, <2>1, <2>2
  <2>5. /\ IsFiniteSet(seen.here \cup {op.id})
        /\ Cardinality(seen.here \cup {op.id}) <= Cardinality(seen.here) + 1
        /\ Cardinality(seen.here) \in Nat /\ Cardinality(seen.here \cup {op.id}) \in Nat
    <3>1. IsFiniteSet(seen.here)
      BY DEF SInv, SessionType
    <3>2. Cardinality(seen.here) \in Nat
      BY <3>1, FS_CardinalityType
    <3>3. /\ IsFiniteSet(seen.here \cup {op.id})
          /\ Cardinality(seen.here \cup {op.id}) =
               IF op.id \in seen.here THEN Cardinality(seen.here)
               ELSE Cardinality(seen.here) + 1
      BY <3>1, FS_AddElement
    <3>4. QED
      BY <3>2, <3>3
  <2>6. SessionType' /\ Gone'
    BY <1>1, <1>2, <2>1, <2>2, <2>3, <2>4, <2>5
       DEF SInv, SessionType, Gone, walletVars
  <2>7. Chained'
    BY <1>2, <1>3, <2>1, <2>2, <2>3 DEF SInv, Chained
  <2>8. OneAccount'
    BY <1>1, <1>2, <2>2, <2>3, <2>4 DEF SInv, OneAccount, walletVars
  <2>9. Counted'
    <3>1. campaignId = Nobody /\ Cardinality(seen.here) <= seen.lostHere
      BY <1>3, <1>s, <2>5 DEF SInv, Counted
    <3>2. campaignId' # Nobody
      BY <2>1, <2>2, SessionConstants
    <3>3. QED
      BY <1>s, <2>3, <2>4, <2>5, <3>1, <3>2 DEF Counted
  <2>10. Refused'
    BY <1>1, <1>2, <1>3 DEF Refused
  <2>11. QED
    BY <2>6, <2>7, <2>8, <2>9, <2>10 DEF SInv
<1>4. CASE op.fn # "create_campaign"
  <2>1. /\ campaignId' = Nobody /\ op' = NoOp
        /\ seen' = [seen EXCEPT !.here = {}, !.lostHere = 0]
    BY <1>1, <1>4 DEF Succeeded, KnownAfter
  <2>2. /\ seen'.here = {} /\ seen'.lostHere = 0
        /\ seen'.switches = seen.switches /\ seen'.left = seen.left
        /\ seen' \in [minted : SUBSET Ids, switches : Nat, lost : Nat, lostHere : Nat,
                      here : SUBSET Ids, left : BOOLEAN]
    BY <1>s, <2>1
  <2>3. IsFiniteSet({}) /\ Cardinality({}) = 0
    BY FS_EmptySet
  <2>4. SessionType' /\ Gone'
    BY <1>1, <1>2, <2>1, <2>2, <2>3 DEF SInv, SessionType, Gone, walletVars
  <2>5. Chained' /\ OneAccount'
    BY <1>1, <1>2, <1>n, <2>1, <2>2 DEF SInv, Chained, OneAccount, walletVars
  <2>6. Counted' /\ Refused'
    BY <1>1, <1>2, <1>n, <2>1, <2>2, <2>3 DEF SInv, Counted, Refused
  <2>7. QED
    BY <2>4, <2>5, <2>6 DEF SInv
<1>5. QED
  BY <1>3, <1>4

\* A lost answer leaves a campaign the page does not know of, and is counted.
LEMMA LossKeepsSInv ==
  ASSUME SInv, AnswerLost
  PROVE  SInv'
<1>1. /\ op # NoOp /\ op \in Writes /\ Acceptable(op) /\ Execute(op)
      /\ UNCHANGED <<integrated, freighter, walletVars, campaignId>> /\ op' = NoOp
  BY DEF AnswerLost, Sent, SInv, SessionType
<1>2. /\ StoreInv(store')
      /\ created' \in [Ids -> Owners \cup {Nobody}]
      /\ \A id \in Ids : created[id] # Nobody => created'[id] # Nobody
      /\ \A id \in Ids : store'.info[id] # Nobody => created'[id] # Nobody
      /\ seen.switches = 0 =>
           \A id \in Ids : /\ created'[id] \in {freighter.account, Nobody}
                           /\ store'.info[id] \in {freighter.account, Nobody}
      /\ integrated => \A id \in Ids : created'[id] = Nobody
  BY <1>1, ExecutedFits
<1>n. NoOp.fn = "none"
  BY DEF NoOp
<1>s. seen \in [minted : SUBSET Ids, switches : Nat, lost : Nat, lostHere : Nat,
                here : SUBSET Ids, left : BOOLEAN]
  BY DEF SInv, SessionType
<1> DEFINE made == IF op.fn = "create_campaign" THEN seen.here \cup {op.id} ELSE seen.here
<1>3. /\ made \in SUBSET Ids /\ IsFiniteSet(made)
      /\ Cardinality(made) <= Cardinality(seen.here) + 1
      /\ Cardinality(seen.here) \in Nat /\ Cardinality(made) \in Nat
  <2>1. /\ IsFiniteSet(seen.here \cup {op.id})
        /\ Cardinality(seen.here \cup {op.id}) <= Cardinality(seen.here) + 1
        /\ Cardinality(seen.here) \in Nat /\ Cardinality(seen.here \cup {op.id}) \in Nat
    <3>1. IsFiniteSet(seen.here)
      BY DEF SInv, SessionType
    <3>2. Cardinality(seen.here) \in Nat
      BY <3>1, FS_CardinalityType
    <3>3. /\ IsFiniteSet(seen.here \cup {op.id})
          /\ Cardinality(seen.here \cup {op.id}) =
               IF op.id \in seen.here THEN Cardinality(seen.here)
               ELSE Cardinality(seen.here) + 1
      BY <3>1, FS_AddElement
    <3>4. QED
      BY <3>2, <3>3
  <2>2. op.fn = "create_campaign" => op.id \in Ids
    BY <1>1 DEF Writes
  <2>3. QED
    BY <1>s, <2>1, <2>2 DEF SInv, SessionType
<1>4. seen' = [seen EXCEPT !.lost = seen.lost + 1, !.lostHere = seen.lostHere + 1, !.here = made]
  BY DEF AnswerLost
<1> HIDE DEF made
<1>5. /\ seen'.here = made /\ seen'.lostHere = seen.lostHere + 1
      /\ seen'.switches = seen.switches /\ seen'.left = seen.left
      /\ seen' \in [minted : SUBSET Ids, switches : Nat, lost : Nat, lostHere : Nat,
                    here : SUBSET Ids, left : BOOLEAN]
  <2>1. made \in SUBSET Ids
    BY <1>3
  <2>2. seen.lost + 1 \in Nat /\ seen.lostHere + 1 \in Nat
    BY <1>s
  <2>3. QED
    BY <1>4, <1>s, <2>1, <2>2
<1>6. SessionType' /\ Gone'
  BY <1>1, <1>2, <1>3, <1>5 DEF SInv, SessionType, Gone, walletVars
<1>7. Chained'
  BY <1>1, <1>2, <1>n DEF SInv, SessionType, Chained
<1>8. OneAccount'
  BY <1>1, <1>2, <1>5 DEF SInv, OneAccount, walletVars
<1>9. Counted'
  <2>1. Cardinality(seen.here) <= seen.lostHere + (IF campaignId = Nobody THEN 0 ELSE 1)
    BY DEF SInv, Counted
  <2>2. QED
    BY <1>1, <1>3, <1>5, <1>n, <1>s, <2>1 DEF Counted
<1>10. Refused'
  BY <1>1, <1>2, <1>n DEF SInv, Refused
<1>11. QED
  BY <1>6, <1>7, <1>8, <1>9, <1>10 DEF SInv

-----------------------------------------------------------------------------
(* The theorems. *)

\* In every state of the browser and the contracts the parts of SInv hold: the page
\* knows, writes and counts only what the contracts have.
THEOREM PageFits == SessionSpec => []SInv
<1>1. SInv /\ [SessionNext]_sessionVars => SInv'
  <2> SUFFICES ASSUME SInv, [SessionNext]_sessionVars PROVE SInv'
    OBVIOUS
  <2>1. CASE UNCHANGED sessionVars
    BY <2>1 DEF SInv, SessionType, Gone, Chained, OneAccount, Counted, Refused,
                sessionVars, walletVars, pageVars
  <2>2. QED
    BY <2>1, WalletContextKeepsSInv, ReloadKeepsSInv, SwitchKeepsSInv, PageKeepsSInv,
       ConfirmKeepsSInv, ProfileKeepsSInv, ProgressKeepsSInv, SuccessKeepsSInv, LossKeepsSInv
       DEF SessionNext
<1>2. QED
  BY <1>1, InitSInv, PTL DEF SessionSpec

\* DisconnectLasts: whatever answers late or is reloaded, a wallet the user has
\* disconnected for good is connected again only when the user asks for it.
THEOREM DisconnectStays == SessionSpec => []DisconnectLasts
<1>1. SInv => DisconnectLasts
  BY DEF SInv, Gone, DisconnectLasts
<1>2. QED
  BY <1>1, PageFits, PTL

\* OneCampaignPerVisit: only a lost answer makes a visit create a second campaign.
THEOREM OnePerVisit == SessionSpec => []OneCampaignPerVisit
<1>1. SInv => OneCampaignPerVisit
  <2> SUFFICES ASSUME SInv PROVE OneCampaignPerVisit
    OBVIOUS
  <2>1. Cardinality(seen.here) \in Nat /\ seen.lostHere \in Nat
    BY FS_CardinalityType DEF SInv, SessionType
  <2>2. Cardinality(seen.here) <= seen.lostHere + (IF campaignId = Nobody THEN 0 ELSE 1)
    BY DEF SInv, Counted
  <2>3. QED
    BY <2>1, <2>2 DEF OneCampaignPerVisit
<1>2. QED
  BY <1>1, PageFits, PTL

\* RegistrationFollowsCreation: what is registered was created, and for the same farmer
\* while the account stays.
THEOREM RegistersWhatItCreated == SessionSpec => []RegistrationFollowsCreation
<1>1. SInv => RegistrationFollowsCreation
  BY DEF SInv, Chained, OneAccount, RegistrationFollowsCreation
<1>2. QED
  BY <1>1, PageFits, PTL

\* IntegratedCreatesNothing: with a registry set, creating and then registering never
\* gets past the first write.
THEOREM IntegratedRefuses == SessionSpec => []IntegratedCreatesNothing
<1>1. SInv => IntegratedCreatesNothing
  BY DEF SInv, Refused, IntegratedCreatesNothing
<1>2. QED
  BY <1>1, PageFits, PTL

=============================================================================
