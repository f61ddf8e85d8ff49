------------------------------ MODULE Session -------------------------------
(***************************************************************************)
(* A farmer's browser: the wallet context, the creation page with its two  *)
(* transactions, the profile form, and the path every write takes through  *)
(* the contract client.  The registry is the real one; of the escrow only  *)
(* what create_campaign asks of it.                                        *)
(***************************************************************************)
EXTENDS Registry

CONSTANTS
  MaxSwitches, \* times the account changes in the extension
  MaxLost      \* executed transactions whose answer never arrives

Blank == ""             \* what Freighter answers an application it has not allowed

\* An id is the time and three random digits, an account's address never empty.
ASSUME SessionConstants ==
  /\ MaxSwitches \in Nat /\ MaxLost \in Nat
  /\ Nobody \notin Ids /\ Blank \notin Owners

VARIABLES
  integrated,           \* the escrow has a registry set
  created,              \* the escrow's campaigns: id to farmer
  freighter,            \* the extension: detected or not, and its active account
  publicKey, stored,    \* the context's account, and localStorage
  isConnecting, awaiting,   \* awaiting: what connect and the check on mount wait for
  form, campaignId,     \* the wizard, and the id it knows to be created
  op,                   \* the write in progress
  seen                  \* history: ids minted, accounts switched, lost answers, what
                        \* this visit of the page created, and whether the user left

walletVars  == <<publicKey, stored, isConnecting, awaiting>>
pageVars    == <<form, campaignId, op>>
sessionVars == <<store, integrated, created, freighter, walletVars, pageVars, seen>>

NoOp == [fn |-> "none"]
CanWrite == publicKey \in Owners            \* a key neither null nor empty
Shown == publicKey # Nobody                 \* the page asks to connect otherwise

EmptyForm == [step |-> 0, valid |-> {}, late |-> FALSE]

-----------------------------------------------------------------------------
(* WalletContext. *)

WalletStep(key, kept, busy, waiting, left) ==
  /\ publicKey' = key /\ stored' = kept /\ isConnecting' = busy /\ awaiting' = waiting
  /\ seen' = [seen EXCEPT !.left = left]
  /\ UNCHANGED <<store, integrated, created, freighter, pageVars>>

\* localStorage may refuse a write, and the context ignores it.
AfterWrite(value) == {value, stored}

\* The buttons are disabled while connecting.
Connect ==
  /\ ~isConnecting
  /\ WalletStep(publicKey, stored, TRUE, [awaiting EXCEPT !.connect = "detect"], FALSE)

\* isConnected answers
Detected ==
  /\ awaiting.connect = "detect"
  /\ IF freighter.there
     THEN WalletStep(publicKey, stored, TRUE, [awaiting EXCEPT !.connect = "address"], seen.left)
     ELSE WalletStep(publicKey, stored, FALSE, [awaiting EXCEPT !.connect = "no"], seen.left)

\* getAddress answers, with an empty address if the application is not allowed; the
\* answer is taken whatever happened since it was asked for.
Addressed ==
  /\ awaiting.connect = "address"
  /\ \E address \in {freighter.account, Blank} : \E kept \in AfterWrite(address) :
       WalletStep(address, kept, TRUE, [awaiting EXCEPT !.connect = "network"], seen.left)

\* The network check only warns; a call that fails ends the connect from anywhere.
ConnectEnds ==
  /\ awaiting.connect # "no"
  /\ WalletStep(publicKey, stored, FALSE, [awaiting EXCEPT !.connect = "no"], seen.left)

KeptStored(key) == key                                            \* mutant
StoredAfterDisconnect(key) == Nobody

\* The user has left for good if no connect is under way and storage did not refuse.
DisconnectWallet ==
  \E refused \in BOOLEAN :
    WalletStep(Nobody, IF refused THEN stored ELSE StoredAfterDisconnect(stored),
               isConnecting, awaiting, ~refused /\ awaiting.connect = "no")

\* The check of the persisted address on mount, which only disconnects.
MountAnswered ==
  /\ awaiting.mount
  /\ LET checked == [awaiting EXCEPT !.mount = FALSE] IN
     \/ freighter.there /\ WalletStep(publicKey, stored, isConnecting, checked, seen.left)
     \/ \E kept \in AfterWrite(Nobody) :
          WalletStep(Nobody, kept, isConnecting, checked, seen.left)

\* The browser reloads: only the stored key survives, if storage can be read.  A blank
\* key is not checked.
Reload ==
  /\ publicKey' \in {stored, Nobody} /\ isConnecting' = FALSE
  /\ awaiting' = [connect |-> "no", mount |-> publicKey' \in Owners]
  /\ form' = EmptyForm /\ campaignId' = Nobody /\ op' = NoOp
  /\ seen' = [seen EXCEPT !.here = {}, !.lostHere = 0]
  /\ UNCHANGED <<store, integrated, created, freighter, stored>>

SwitchAccount ==
  /\ seen.switches < MaxSwitches
  /\ \E a \in Owners \ {freighter.account}, there \in BOOLEAN :
       freighter' = [there |-> there, account |-> a]
  /\ seen' = [seen EXCEPT !.switches = @ + 1]
  /\ UNCHANGED <<store, integrated, created, walletVars, pageVars>>

-----------------------------------------------------------------------------
(* The wizard of the creation page. *)

PageStep(f) ==
  /\ form' = f
  /\ UNCHANGED <<store, integrated, created, freighter, walletVars, campaignId, op, seen>>

\* Typing makes the fields of a step valid, or invalid; the deadline's step also
\* sets it anew.
Edit ==
  /\ Shown /\ form.step < 3
  /\ \E ok \in BOOLEAN :
       PageStep([form EXCEPT !.valid = IF ok THEN @ \cup {form.step} ELSE @ \ {form.step},
                             !.late = @ /\ form.step # 2])

\* stepErrors looks at the step shown; for the deadline, also at the clock
StepErrors(f) == f.step \notin f.valid \/ (f.step = 2 /\ f.late)

GoNext == Shown /\ form.step < 3 /\ ~StepErrors(form) /\ PageStep([form EXCEPT !.step = @ + 1])

\* disabled while submitting and once the campaign exists
GoBack ==
  /\ Shown /\ form.step > 0 /\ (form.step = 3 => op = NoOp /\ campaignId = Nobody)
  /\ PageStep([form EXCEPT !.step = @ - 1])

DeadlinePasses == ~form.late /\ 2 \in form.valid /\ PageStep([form EXCEPT !.late = TRUE])

-----------------------------------------------------------------------------
(* A write: the contract client, the wallet, the network. *)

Write(fn, id, farmer) ==
  IF CanWrite
  THEN [fn |-> fn, id |-> id, farmer |-> farmer, key |-> publicKey, at |-> "build",
        signer |-> Nobody]
  ELSE NoOp                    \* "Connect your wallet to continue."

Link(id, farmer) == [fn |-> "link_campaign_escrow", id |-> id, arg |-> farmer]

\* what the contracts check: the farmer's signature, and their own state
Acceptable(o) ==
  /\ o.key = o.farmer
  /\ CASE o.fn = "create_campaign" ->
            /\ created[o.id] = Nobody /\ ~form.late
            /\ integrated => Accepts(store, Escrow, Link(o.id, o.farmer))
       [] o.fn = "register_campaign" -> store.info[o.id] = Nobody
       [] o.fn = "register_farmer"   -> o.farmer \notin Range(store.farmers)

Execute(o) ==
  CASE o.fn = "create_campaign" ->
         /\ created' = [created EXCEPT ![o.id] = o.farmer]
         /\ IF integrated THEN Serve(Escrow, <<Link(o.id, o.farmer)>>) ELSE UNCHANGED store
    [] o.fn = "register_campaign" ->
         FarmerRegistersCampaign(o.id, o.farmer) /\ UNCHANGED created
    [] o.fn = "register_farmer" -> RegisterFarmer(o.farmer) /\ UNCHANGED created

RegistersFirst(id) == Write("register_campaign", id, publicKey)   \* mutant

FirstWrite(id) == Write("create_campaign", id, publicKey)

\* handleConfirm: create under a new id, unless a campaign is known to be created
ConfirmCreation ==
  /\ form.step = 3 /\ op = NoOp /\ CanWrite
  /\ IF campaignId # Nobody
     THEN op' = Write("register_campaign", campaignId, publicKey) /\ UNCHANGED seen
     ELSE \E id \in Ids \ seen.minted :
            /\ op' = FirstWrite(id)
            /\ seen' = [seen EXCEPT !.minted = @ \cup {id}]
  /\ UNCHANGED <<store, integrated, created, freighter, walletVars, form, campaignId>>

\* the profile page shows its form for one's own address, with nothing found under it
ProfileForm == form = EmptyForm /\ publicKey \notin Range(store.farmers)

SubmitProfile ==
  /\ ProfileForm /\ op = NoOp /\ CanWrite
  /\ op' = Write("register_farmer", Nobody, publicKey)
  /\ UNCHANGED <<store, integrated, created, freighter, walletVars, form, campaignId, seen>>

OpStep(o) ==
  /\ op' = o
  /\ UNCHANGED <<store, integrated, created, freighter, walletVars, form, campaignId, seen>>

Built == op # NoOp /\ op.at = "build" /\ Acceptable(op) /\ OpStep([op EXCEPT !.at = "sign"])

\* Freighter signs with whatever account is active by then.
Signed ==
  /\ op # NoOp /\ op.at = "sign" /\ freighter.there
  /\ OpStep([op EXCEPT !.at = "send", !.signer = freighter.account])

\* a refused simulation, a rejected signature, a failed call
Failed == op # NoOp /\ OpStep(NoOp)

Sent == op # NoOp /\ op.at = "send" /\ op.signer = op.key /\ Acceptable(op)

KnownOnlyWhenDone(o) == Nobody                                   \* mutant

\* setCampaignId after the creation; the registration navigates away from the page
KnownAfter(o) == IF o.fn = "create_campaign" THEN o.id ELSE Nobody

\* The answer arrives.  A creation goes on to the registration: the farmer is the one
\* who confirmed, the wallet that of the latest render.
Succeeded ==
  /\ Sent
  /\ Execute(op)
  /\ campaignId' = KnownAfter(op)
  /\ IF op.fn = "create_campaign"
     THEN /\ op' = Write("register_campaign", op.id, op.farmer)
          /\ seen' = [seen EXCEPT !.here = @ \cup {op.id}]
          /\ UNCHANGED form
     ELSE /\ op' = NoOp /\ form' = EmptyForm
          /\ seen' = [seen EXCEPT !.here = {}, !.lostHere = 0]
  /\ UNCHANGED <<integrated, freighter, walletVars>>

\* The transaction is executed, but the page sees an error.
AnswerLost ==
  /\ Sent /\ seen.lost < MaxLost
  /\ Execute(op)
  /\ seen' = [seen EXCEPT !.lost = @ + 1, !.lostHere = @ + 1,
                          !.here = IF op.fn = "create_campaign" THEN @ \cup {op.id} ELSE @]
  /\ op' = NoOp
  /\ UNCHANGED <<integrated, freighter, walletVars, form, campaignId>>

-----------------------------------------------------------------------------
SessionInit ==
  /\ Init
  /\ integrated \in BOOLEAN
  /\ created = [id \in Ids |-> Nobody]
  /\ freighter \in [there : BOOLEAN, account : Owners]
  /\ publicKey = Nobody /\ stored = Nobody /\ isConnecting = FALSE
  /\ awaiting = [connect |-> "no", mount |-> FALSE]
  /\ form = EmptyForm /\ campaignId = Nobody /\ op = NoOp
  /\ seen = [minted |-> {}, switches |-> 0, lost |-> 0, lostHere |-> 0, here |-> {},
             left |-> FALSE]

SessionNext ==
  \/ Connect \/ Detected \/ Addressed \/ ConnectEnds \/ DisconnectWallet
  \/ MountAnswered \/ Reload \/ SwitchAccount
  \/ Edit \/ GoNext \/ GoBack \/ DeadlinePasses
  \/ ConfirmCreation \/ SubmitProfile \/ Built \/ Signed \/ Failed \/ Succeeded \/ AnswerLost

SessionSpec == SessionInit /\ [][SessionNext]_sessionVars

-----------------------------------------------------------------------------
\* Once the user has disconnected, with no connect under way and nothing refused by the
\* storage, no reload, no late answer of the check on mount and no switch of accounts
\* connects the page again before the user asks for it.
DisconnectLasts == seen.left => publicKey = Nobody

\* One visit of the page creates at most one campaign, however often its second
\* transaction fails and is retried, unless the answer to a creation was lost.
OneCampaignPerVisit == Cardinality(seen.here) <= 1 + seen.lostHere

\* A registration follows the creation of the same campaign and names its farmer,
\* unless another account was active before a retry: the page then registers it in
\* that account's name.
RegistrationFollowsCreation ==
  \A id \in Ids : store.info[id] # Nobody =>
    /\ created[id] # Nobody
    /\ seen.switches = 0 => store.info[id] = created[id]

\* On an escrow that has a registry the page never creates anything: creation links
\* the campaign, which the registry refuses before the registration the page leaves
\* for later.
IntegratedCreatesNothing == integrated => \A id \in Ids : created[id] = Nobody
=============================================================================
