------------------------------ MODULE Indexer -------------------------------
(***************************************************************************)
(* The server's event indexer following the escrow's events.  The chain is *)
(* what the invocations of ProductionEscrow emit.  The listener polls it   *)
(* on a timer, page by page; for each event it has not met since it was    *)
(* started, the parser makes the event's database writes one by one and    *)
(* then an audit row.  Every await is a step: the timer starts a poll even *)
(* while an earlier one is under way, a call may fail, and the process may *)
(* crash between any two writes.                                           *)
(***************************************************************************)
EXTENDS ProductionEscrow

CONSTANTS
  Polls,            \* bound: polls that may be under way at once
  PageLimit,        \* EVENTS_PAGE_LIMIT
  MaxPages,         \* MAX_PAGES_PER_POLL
  StartLedger,      \* SOROBAN_INDEXER_START_LEDGER, 0 when not set
  MaxEvents,        \* bound: length of the chain up to which the escrow is invoked
  MaxFaults,        \* bound: calls that fail
  MaxCrashes        \* bound: crashes of the process

\* One invocation emits at most two events; a poll that met its page cap inside a
\* single ledger would repeat it for ever.
ASSUME IndexerConstants ==
  /\ PageLimit \in Nat \ {0} /\ MaxPages \in Nat \ {0} /\ PageLimit * MaxPages > 2
  /\ {StartLedger, MaxEvents, MaxFaults, MaxCrashes} \subseteq Nat

VARIABLES
  chain,         \* the events, each with its ledger; its index is the event's id
  db,            \* the tables Campaign, Investment, Tranche, Dispute, Transaction
  cursor,        \* IndexerCursor.lastProcessedLedger, NoRow before the first upsert
  last,          \* lastProcessedLedger, in memory
  processed,     \* processedEventIds, in memory
  poll,          \* the local variables of each poll
  tally          \* history: events met, increments made, faults, crashes, overlap

indexVars == <<db, cursor, last, processed, poll, tally>>
indexerVars == <<vars, chain, indexVars>>

NoRow == -1

\* ledgers are counted from 1, and only those that hold an event
Tip == IF chain = <<>> THEN 0 ELSE Last(chain).ledger

Idle == [at |-> "idle", latest |-> 0, from |-> 0, to |-> 0, pages |-> 0,
         event |-> 0, step |-> 0]

-----------------------------------------------------------------------------
(* The database. *)

NewRow == [known |-> FALSE, status |-> "Active", totalFunded |-> 0,
           refundable |-> 0, returnable |-> 0]

EmptyDb ==
  [campaign     |-> [id \in CampaignIds |-> NewRow],
   investments  |-> {}, tranches |-> {},
   disputes     |-> [id \in CampaignIds |-> "None"],
   transactions |-> {}]

IncrementThenInvestment == <<"increment", "investment">>           \* mutant

InvestmentThenIncrement == <<"investment", "increment">>

ReconciledAsInvestment == <<"investment", "increment">>            \* mutant

\* a reconciliation has no row of its own
ReconciledWrites == <<"increment">>

\* The writes of an event's handler, in order.  The users' rows, which a handler
\* upserts first, are left out: a replay of that write changes nothing.
Handler(name) ==
  CASE name = "CampaignCreated"   -> <<"campaign">>
    [] name = "ContribReceived"   -> InvestmentThenIncrement
    [] name = "ContribReconciled" -> ReconciledWrites
    [] name = "TrancheReleased"   -> <<"tranche", "inProduction">>
    [] name = "DisputeOpened"     -> <<"dispute", "disputed">>
    [] name = "DisputeResolved"   -> <<"verdict", "resolved">>
    [] name \in {"RefundClaimed", "ReturnClaimed"} -> <<>>
    [] OTHER                      -> <<name>>

AuditMidway(name) ==                                              \* mutant
  IF Len(Handler(name)) < 2 THEN Append(Handler(name), "transaction")
  ELSE InsertAt(Handler(name), 2, "transaction")

\* persistEvent makes the audit row once the handler is through
Writes(name) == Append(Handler(name), "transaction")

\* An update of a missing row, a second row with the same id, and a row whose
\* campaign is missing are errors.
Accepted(tables, k, write) ==
  LET known == tables.campaign[chain[k].id].known IN
  CASE write \in {"campaign", "inProduction", "verdict"} -> TRUE
    [] write = "investment"  -> known /\ k \notin tables.investments
    [] write = "tranche"     -> known /\ k \notin tables.tranches
    [] write = "dispute"     -> known /\ tables.disputes[chain[k].id] = "None"
    [] write = "transaction" -> known /\ k \notin tables.transactions
    [] OTHER                 -> known

Verdict(row, amount) == [row EXCEPT !.status = "Resolved", !.refundable = @ + amount]

\* The campaign's row after a write.
Row(row, write, amount) ==
  CASE write = "campaign"        -> [row EXCEPT !.known = TRUE]
    [] write = "increment"       -> [row EXCEPT !.totalFunded = @ + amount]
    [] write = "CampaignFunded"  -> [row EXCEPT !.status = "Funded", !.totalFunded = amount]
    [] write = "inProduction"    ->
         [row EXCEPT !.status = IF @ = "Funded" THEN "InProduction" ELSE @]
    [] write = "HarvestReported" -> [row EXCEPT !.status = "Harvested"]
    [] write = "CampaignFailed"  -> [row EXCEPT !.status = "Failed", !.refundable = amount]
    [] write = "disputed"        -> [row EXCEPT !.status = "Disputed"]
    [] write = "resolved"        -> Verdict(row, amount)
    [] write = "CampaignSettled" -> [row EXCEPT !.status = "Settled",
                                                !.returnable = @ + amount]
    [] OTHER -> row

\* A campaign has at most one dispute, so the open one that dispute_resolved looks
\* for is the campaign's; finding none only logs a warning.
DisputeRow(old, write) ==
  CASE write = "dispute" -> "Open"
    [] write = "verdict" -> IF old = "Open" THEN "Resolved" ELSE old
    [] OTHER -> old

Put(table, k, here) == IF here THEN table \cup {k} ELSE table

Written(tables, k, write) ==
  LET id == chain[k].id IN
  [campaign     |-> [tables.campaign EXCEPT ![id] = Row(@, write, chain[k].amount)],
   investments  |-> Put(tables.investments, k, write = "investment"),
   tranches     |-> Put(tables.tranches, k, write = "tranche"),
   disputes     |-> [tables.disputes EXCEPT ![id] = DisputeRow(@, write)],
   transactions |-> Put(tables.transactions, k, write = "transaction")]

-----------------------------------------------------------------------------
(* The chain. *)

\* What parseEvent keeps of an event, with the ledger the RPC gives for it.
Parsed(event) ==
  [name |-> event.name, id |-> event.id, amount |-> event.amount, ledger |-> Tip + 1]

\* One invocation of the contract; the events it emits share a ledger.
Invoke ==
  /\ Len(chain) < MaxEvents
  /\ Next
  /\ chain' = chain \o [i \in DOMAIN tx'.events |-> Parsed(tx'.events[i])]
  /\ UNCHANGED indexVars

-----------------------------------------------------------------------------
(* pollEvents, from one await to the next. *)

\* back to the events of the page
Leave(p) == [poll[p] EXCEPT !.at = "choosing", !.event = 0, !.step = 0]

Steps(p, local) == poll' = [poll EXCEPT ![p] = local]

\* The timer fires, and getLatestLedger answers.
StartPoll(p) ==
  /\ poll[p] = Idle
  /\ Steps(p, [Idle EXCEPT !.at = "started", !.latest = Tip])
  /\ tally' = [tally EXCEPT !.overlap = @ \/ \E q \in Polls \ {p} : poll[q] # Idle]
  /\ UNCHANGED <<db, cursor, last, processed>>

\* startLedger = lastProcessedLedger + 1; there may be nothing to fetch.
ChooseStart(p) ==
  /\ poll[p].at = "started"
  /\ IF last + 1 > poll[p].latest
     THEN Steps(p, Idle)
     ELSE Steps(p, [poll[p] EXCEPT !.at = "fetching",
                      !.from = 1 + Cardinality({k \in DOMAIN chain : chain[k].ledger <= last})])
  /\ UNCHANGED <<db, cursor, last, processed, tally>>

\* getEvents answers with the next page of all events there are by now.
Fetch(p) ==
  /\ poll[p].at = "fetching"
  /\ LET to == poll[p].from + PageLimit - 1 IN
     Steps(p, [poll[p] EXCEPT !.at = "choosing", !.pages = @ + 1,
                 !.to = IF to <= Len(chain) THEN to ELSE Len(chain)])
  /\ UNCHANGED <<db, cursor, last, processed, tally>>

\* The events of the page that processedEventIds does not hold.
Fresh(p) == (poll[p].from .. poll[p].to) \ processed

\* The id is remembered before the event is processed.
TakeEvent(p) ==
  /\ poll[p].at = "choosing"
  /\ \E k \in Fresh(p) :
       /\ \A j \in Fresh(p) : k <= j
       /\ processed' = processed \cup {k}
       /\ tally' = [tally EXCEPT !.met = @ \cup {k}]
       /\ Steps(p, [poll[p] EXCEPT !.at = "looking", !.event = k])
  /\ UNCHANGED <<db, cursor, last>>

\* Where a poll resumes after the page cap: the last ledger seen may have more.
ResumeBefore(ledger) == ledger - 1

ReachedTip(p) == Tip                                              \* mutant

\* What a poll that has drained all pages may claim: the tip it asked for first.
Reached(p) == poll[p].latest

\* The page is done: fetch another, or move lastProcessedLedger and persist it.
EndPage(p) ==
  LET full    == poll[p].to - poll[p].from + 1 = PageLimit
      Save(to) == /\ last' = to
                  /\ Steps(p, [Idle EXCEPT !.at = "saving", !.latest = to])
  IN
  /\ poll[p].at = "choosing"
  /\ Fresh(p) = {}
  /\ \/ ~full /\ Save(Reached(p))
     \/ full /\ poll[p].pages = MaxPages /\ Save(ResumeBefore(chain[poll[p].to].ledger))
     \/ /\ full /\ poll[p].pages < MaxPages
        /\ Steps(p, [poll[p] EXCEPT !.at = "fetching", !.from = poll[p].to + 1])
        /\ UNCHANGED last
  /\ UNCHANGED <<db, cursor, processed, tally>>

\* persistCursor: the configured contracts' rows always get the same value.
SaveCursor(p) ==
  /\ poll[p].at = "saving"
  /\ cursor' = poll[p].latest
  /\ Steps(p, Idle)
  /\ UNCHANGED <<db, last, processed, tally>>

\* persistEvent first looks for the audit row.
LookUp(p) ==
  /\ poll[p].at = "looking"
  /\ Steps(p, IF poll[p].event \in db.transactions
              THEN Leave(p)
              ELSE [poll[p] EXCEPT !.at = "writing", !.step = 1])
  /\ UNCHANGED <<db, cursor, last, processed, tally>>

\* The next write of the event's handler; processEvent swallows an error, and the
\* poll goes on with the next event.
Write(p) ==
  LET k      == poll[p].event
      writes == Writes(chain[k].name)
      write  == writes[poll[p].step]
  IN
  /\ poll[p].at = "writing"
  /\ IF Accepted(db, k, write)
     THEN /\ db' = Written(db, k, write)
          /\ tally' = IF write = "increment"
                      THEN [tally EXCEPT !.counted = SetToBag({k}) (+) @] ELSE tally
          /\ Steps(p, IF poll[p].step < Len(writes)
                      THEN [poll[p] EXCEPT !.step = @ + 1] ELSE Leave(p))
     ELSE Steps(p, Leave(p)) /\ UNCHANGED <<db, tally>>
  /\ UNCHANGED <<cursor, last, processed>>

\* A database call of the parser fails: the event is given up.  A call of the poll
\* itself fails: the poll is given up.
Fail(p) ==
  /\ tally.faults < MaxFaults
  /\ \/ /\ poll[p].at \in {"looking", "writing"}
        /\ Steps(p, Leave(p))
     \/ poll[p].at \in {"started", "fetching", "saving"} /\ Steps(p, Idle)
  /\ tally' = [tally EXCEPT !.faults = @ + 1]
  /\ UNCHANGED <<db, cursor, last, processed>>

ResumedAtTip == Tip                                               \* mutant

\* loadCursor
Resumed ==
  IF cursor # NoRow THEN cursor
  ELSE IF StartLedger > 0 THEN StartLedger - 1 ELSE Tip

\* The process dies, and is started again.
Crash ==
  /\ tally.crashes < MaxCrashes
  /\ last' = Resumed
  /\ processed' = {}
  /\ poll' = [p \in Polls |-> Idle]
  /\ tally' = [tally EXCEPT !.crashes = @ + 1]
  /\ UNCHANGED <<db, cursor>>

IndexInit ==
  /\ Init
  /\ chain = <<>>
  /\ db = EmptyDb
  /\ cursor = NoRow
  /\ last = Resumed
  /\ processed = {}
  /\ poll = [p \in Polls |-> Idle]
  /\ tally = [met |-> {}, counted |-> EmptyBag, faults |-> 0, crashes |-> 0,
              overlap |-> FALSE]

\* What the event loop does without being disturbed.
Progress(p) ==
  \/ StartPoll(p) \/ ChooseStart(p) \/ Fetch(p) \/ TakeEvent(p) \/ EndPage(p)
  \/ SaveCursor(p) \/ LookUp(p) \/ Write(p)

IndexNext ==
  \/ Invoke
  \/ UNCHANGED <<vars, chain>> /\ (Crash \/ \E p \in Polls : Progress(p) \/ Fail(p))

IndexSpec == IndexInit /\ [][IndexNext]_indexerVars

\* The timer keeps firing and every call is answered in the end, if only by an error.
FollowingSpec ==
  IndexSpec /\ \A p \in Polls : WF_indexerVars(UNCHANGED <<vars, chain>> /\ Progress(p))
-----------------------------------------------------------------------------
(* Properties. *)

Undisturbed == tally.faults = 0 /\ tally.crashes = 0 /\ ~tally.overlap

\* how often event k has been added to its campaign's total
Increments(k) == IF BagIn(k, tally.counted) THEN tally.counted[k] ELSE 0

CaughtUp == db.transactions = DOMAIN chain

\* An audit row stands for an event whose whole handler has run: neither a crash
\* between two writes nor a second poll leaves one beside half of the effects.
AuditedMeansApplied ==
  \A k \in db.transactions :
    CASE chain[k].name = "ContribReceived" ->
           k \in db.investments /\ BagIn(k, tally.counted)
      [] chain[k].name = "ContribReconciled" -> BagIn(k, tally.counted)
      [] chain[k].name = "TrancheReleased"   -> k \in db.tranches
      [] chain[k].name = "DisputeOpened"     -> db.disputes[chain[k].id] # "None"
      [] OTHER -> TRUE

\* However polls overlap and crashes make events be met again, an investment is
\* added to the campaign's total at most once, and only after its own row; a
\* reconciliation, which has no row, at most once in each life of the process.
CountedOnce ==
  \A k \in DOMAIN chain :
    /\ chain[k].name = "ContribReceived" =>
         /\ Increments(k) <= 1
         /\ BagIn(k, tally.counted) => k \in db.investments
    /\ Increments(k) <= 1 + tally.crashes

\* With a start ledger configured, no event from that ledger on that is at or below
\* the cursor, stored or in memory, was never met: pages, the page cap, polls that
\* finish out of order and restarts skip nothing.
NothingSkipped ==
  StartLedger > 0 =>
    \A k \in DOMAIN chain :
      /\ chain[k].ledger >= StartLedger
      /\ chain[k].ledger <= cursor \/ chain[k].ledger <= last
      => k \in tally.met

IndexedStatus(status) == IF status = "Funding" THEN "Active" ELSE status

\* Left undisturbed, the index that has caught up agrees with the contract: status,
\* both pools, the dispute, and the investments with all that was really paid in.
FaithfulWhenUndisturbed ==
  (Undisturbed /\ CaughtUp) =>
    \A id \in CampaignIds :
      LET row == db.campaign[id] IN
      /\ row.known <=> Exists(id)
      /\ row.known => row.status = IndexedStatus(campaign[id].status)
      /\ row.refundable = campaign[id].refundable
      /\ row.returnable = campaign[id].returnable
      /\ db.disputes[id] = dispute[id].status
      /\ MapThenSumSet(LAMBDA k : chain[k].amount,
                       {k \in db.investments : chain[k].id = id})
           = campaign[id].total_funded - audit[id].reconciled

\* Every event is met in the end, across failing calls and crashes, and indexed
\* unless something disturbed it.
EveryEventReached ==
  \A k \in 1 .. MaxEvents :
    k \in DOMAIN chain ~>
      (k \in tally.met /\ (Undisturbed => k \in db.transactions))

-----------------------------------------------------------------------------
(* What the comments say and the code does not do. *)

\* "every ledger strictly before the last one we saw is guaranteed fully processed"
\* (pollEvents): what the cursor has left behind has its audit row.
ProcessedBelowCursor ==
  \A k \in DOMAIN chain : chain[k].ledger <= cursor => k \in db.transactions

\* "to stay consistent with the escrow contract's own accounting" (the handler of
\* reconciled contributions): the index has the contract's total.
TotalMatchesEscrow ==
  (Undisturbed /\ CaughtUp) =>
    \A id \in CampaignIds : db.campaign[id].totalFunded = campaign[id].total_funded
=============================================================================
