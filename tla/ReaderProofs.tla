---------------------------- MODULE ReaderProofs ----------------------------
(***************************************************************************)
(* Proofs about the readers of the escrow: the server's indexer, for every *)
(* number of polls, faults and crashes and every length of the chain; what *)
(* investors and visitors are shown; and the client's console.             *)
(***************************************************************************)
EXTENDS Console, ProductionEscrowProofs, FiniteSetTheorems

-----------------------------------------------------------------------------
(* The chain the indexer follows. *)

Entry == [name : EventName, id : CampaignIds, amount : Int, ledger : Nat \ {0}]

\* Events are typed, and no event is in an earlier ledger than one before it.
ChainInv ==
  /\ chain \in Seq(Entry)
  /\ \A j, k \in DOMAIN chain : j <= k => chain[j].ledger <= chain[k].ledger

TipOnTop == Tip \in Nat /\ \A k \in DOMAIN chain : chain[k].ledger <= Tip

\* The tip is a ledger at or above that of every event, and zero before there is one.
LEMMA TipIsLast == ChainInv => TipOnTop
<1> SUFFICES ASSUME ChainInv
             PROVE  Tip \in Nat /\ \A k \in DOMAIN chain : chain[k].ledger <= Tip
  BY DEF TipOnTop
<1>1. CASE chain = <<>>
  BY <1>1 DEF Tip
<1>2. CASE chain # <<>>
  <2>1. Len(chain) \in DOMAIN chain /\ DOMAIN chain = 1 .. Len(chain)
    BY <1>2, LenProperties, EmptySeq DEF ChainInv
  <2>2. Tip = chain[Len(chain)].ledger
    BY <1>2 DEF Tip, Last
  <2>3. chain[Len(chain)] \in Entry
    BY <2>1, ElementOfSeq DEF ChainInv
  <2>4. QED
    BY <2>1, <2>2, <2>3 DEF ChainInv, Entry
<1>3. QED
  BY <1>1, <1>2

\* An invocation appends events of the next ledger, and leaves the others alone.
Extends(more) ==
  /\ chain' = chain \o more
  /\ more \in Seq(Entry)
  /\ \A i \in DOMAIN more : more[i].ledger = Tip + 1

\* What an invocation appends is typed, because what the contract emits is.
LEMMA InvokeExtends ==
  ASSUME IInv', ChainInv, Invoke
  PROVE  \E more : Extends(more)
<1> DEFINE events == tx'.events
           more == [i \in DOMAIN events |-> Parsed(events[i])]
<1>1. events \in Seq(Event)
  BY DEF IInv, TypeOK
<1> HIDE DEF events
<1>2. DOMAIN events = 1 .. Len(events) /\ Len(events) \in Nat
  BY <1>1, LenProperties
<1>3. Tip \in Nat
  BY TipIsLast DEF TipOnTop
<1>4. ASSUME NEW i \in DOMAIN events
      PROVE  Parsed(events[i]) \in Entry /\ Parsed(events[i]).ledger = Tip + 1
  <2>1. events[i] \in Event
    BY <1>1, <1>2, <1>4, ElementOfSeq
  <2>2. QED
    BY <2>1, <1>3 DEF Parsed, Entry, Event
<1>5. more \in [1 .. Len(events) -> Entry]
  BY <1>2, <1>4
<1>6. more \in Seq(Entry) /\ DOMAIN more = DOMAIN events
  BY <1>2, <1>5
<1>7. \A i \in DOMAIN more : more[i].ledger = Tip + 1
  BY <1>4, <1>6
<1>8. chain' = chain \o more
  BY DEF Invoke, events
<1>9. QED
  BY <1>6, <1>7, <1>8 DEF Extends

\* What a step may do to the chain: the events there were keep their place, and only
\* those of later ledgers follow.
ChainGrows ==
  /\ Tip \in Nat /\ Tip' \in Nat /\ Tip <= Tip'
  /\ DOMAIN chain \subseteq DOMAIN chain'
  /\ Len(chain) \in Nat /\ Len(chain') \in Nat /\ Len(chain) <= Len(chain')
  /\ \A k \in DOMAIN chain : chain'[k] = chain[k]
  /\ \A k \in DOMAIN chain' \ DOMAIN chain : chain'[k].ledger > Tip

\* An invocation grows the chain.
LEMMA ExtendedChain ==
  ASSUME ChainInv, NEW more, Extends(more)
  PROVE  ChainInv' /\ ChainGrows
<1>1. /\ chain' \in Seq(Entry)
      /\ Len(chain') = Len(chain) + Len(more)
      /\ \A i \in 1 .. Len(chain) + Len(more) :
           chain'[i] = IF i <= Len(chain) THEN chain[i] ELSE more[i - Len(chain)]
  BY ConcatProperties DEF Extends, ChainInv
<1>2. /\ Len(chain) \in Nat /\ Len(more) \in Nat
      /\ DOMAIN chain = 1 .. Len(chain)
      /\ DOMAIN chain' = 1 .. Len(chain) + Len(more)
      /\ DOMAIN more = 1 .. Len(more)
  BY <1>1, LenProperties DEF ChainInv, Extends
<1>3. \A k \in DOMAIN chain : chain'[k] = chain[k]
  BY <1>1, <1>2
<1>4. ASSUME NEW k \in DOMAIN chain' \ DOMAIN chain
      PROVE  chain'[k].ledger = Tip + 1 /\ k > Len(chain)
  <2>1. k > Len(chain) /\ k - Len(chain) \in DOMAIN more
    BY <1>2, <1>4
  <2>2. chain'[k] = more[k - Len(chain)]
    BY <1>1, <1>2, <1>4, <2>1
  <2>3. QED
    BY <2>1, <2>2 DEF Extends
<1>5. Tip \in Nat /\ \A k \in DOMAIN chain : chain[k].ledger <= Tip
  BY TipIsLast DEF TipOnTop
<1>6. \A k \in DOMAIN chain' : chain'[k].ledger \in Nat
  <2>1. \A k \in 1 .. Len(chain') : chain'[k] \in Entry
    BY <1>1, ElementOfSeq
  <2>2. QED
    BY <1>1, <1>2, <2>1 DEF Entry
<1>7. ASSUME NEW j \in DOMAIN chain', NEW k \in DOMAIN chain', j <= k
      PROVE  chain'[j].ledger <= chain'[k].ledger
  <2>1. CASE k \in DOMAIN chain
    BY <1>2, <1>3, <1>7, <2>1 DEF ChainInv
  <2>2. CASE k \notin DOMAIN chain
    <3>1. chain'[j].ledger <= Tip + 1
      BY <1>3, <1>4, <1>5, <1>6
    <3>2. QED
      BY <1>4, <2>2, <3>1
  <2>3. QED
    BY <2>1, <2>2
<1>8. ChainInv'
  BY <1>1, <1>7 DEF ChainInv
<1>9. Tip' \in Nat /\ \A k \in DOMAIN chain' : chain'[k].ledger <= Tip'
  <2>1. TipOnTop'
    BY <1>8, TipIsLast, PTL
  <2>2. QED
    BY <2>1 DEF TipOnTop
<1>10. Tip <= Tip'
  <2>1. CASE chain = <<>>
    BY <1>9, <2>1 DEF Tip
  <2>2. CASE chain # <<>>
    <3>1. Len(chain) \in DOMAIN chain
      BY <2>2, <1>2, EmptySeq, LenProperties DEF ChainInv
    <3>2. Tip = chain[Len(chain)].ledger
      BY <2>2 DEF Tip, Last
    <3>3. chain'[Len(chain)] = chain[Len(chain)] /\ Len(chain) \in DOMAIN chain'
      BY <1>2, <1>3, <3>1
    <3>4. QED
      BY <1>9, <3>1, <3>2, <3>3
  <2>3. QED
    BY <2>1, <2>2
<1>11. QED
  BY <1>1, <1>2, <1>3, <1>4, <1>5, <1>8, <1>9, <1>10 DEF ChainGrows

\* So does a step of the indexer, which leaves the chain alone.
LEMMA SameChain ==
  ASSUME ChainInv, UNCHANGED chain
  PROVE  ChainInv' /\ ChainGrows
<1>1. Tip' = Tip /\ Tip \in Nat
  BY TipIsLast DEF Tip, TipOnTop
<1>2. ChainInv'
  BY DEF ChainInv
<1>3. Len(chain) \in Nat
  BY LenProperties DEF ChainInv
<1>4. QED
  BY <1>1, <1>2, <1>3 DEF ChainGrows

-----------------------------------------------------------------------------
(* The cursor. *)

At == {"idle", "started", "fetching", "choosing", "looking", "writing", "saving"}

OnPage == {"choosing", "looking", "writing"}

Local == [at : At, latest : Nat, from : Nat, to : Nat, pages : Nat, event : Nat, step : Nat]

Bag == UNION {[S -> Nat \ {0}] : S \in SUBSET Nat}

Tally == [met : SUBSET Nat, counted : Bag, faults : Nat, crashes : Nat, overlap : BOOLEAN]

\* The events a configured start ledger asks for.
Due(e) == StartLedger > 0 /\ e.ledger >= StartLedger

\* Every event of chain c that is due, up to `ledger`, is in the set met.
MetUpTo(c, met, ledger) ==
  \A k \in DOMAIN c : Due(c[k]) /\ c[k].ledger <= ledger => k \in met

\* The same of those before event n.
MetBefore(c, met, n) ==
  \A k \in DOMAIN c : Due(c[k]) /\ k < n => k \in met

\* What a poll knows of the page it is on: a page that is not full was the last one
\* when it was fetched, so it reaches all there was when the poll began.
PageKnown(c, l) ==
  /\ l.from <= l.to + 1 /\ l.to <= Len(c) /\ l.to <= l.from + PageLimit - 1
  /\ l.to # l.from + PageLimit - 1 =>
       \A k \in DOMAIN c : c[k].ledger <= l.latest => k <= l.to

\* What the local variables l of a poll say of the chain c, whose tip is top.
PollKnows(c, top, met, l) ==
  /\ l.at # "idle" => l.latest <= top
  /\ l.at \in {"fetching"} \cup OnPage =>
       1 <= l.from /\ l.from <= Len(c) + 1 /\ MetBefore(c, met, l.from)
  /\ l.at \in OnPage => PageKnown(c, l)
  /\ l.at = "saving" => MetUpTo(c, met, l.latest)

CursorTypes ==
  /\ poll \in [Polls -> Local]
  /\ cursor \in Int /\ last \in Int
  /\ tally \in Tally
  /\ processed \subseteq tally.met

\* The inductive invariant behind the cursor: each poll answers for the events it has
\* left behind, and neither cursor runs ahead of the tip.
CursorInv ==
  /\ CursorTypes
  /\ cursor <= Tip /\ MetUpTo(chain, tally.met, cursor)
  /\ last <= Tip \/ last < StartLedger
  /\ MetUpTo(chain, tally.met, last)
  /\ \A p \in Polls : PollKnows(chain, Tip, tally.met, poll[p])

\* An event has a name, a campaign, and a ledger.
LEMMA EntryFields ==
  ASSUME NEW c \in Seq(Entry), NEW k \in DOMAIN c
  PROVE  /\ c[k].ledger \in Nat /\ c[k].ledger > 0
         /\ c[k].name \in EventName /\ c[k].id \in CampaignIds
         /\ k \in Nat /\ k > 0
<1>1. k \in 1 .. Len(c) /\ Len(c) \in Nat
  BY LenProperties
<1>2. c[k] \in Entry
  BY <1>1, ElementOfSeq
<1>3. QED
  BY <1>1, <1>2 DEF Entry

\* What was met of a grown chain stays met, up to any ledger that was reached.
LEMMA MetStays ==
  ASSUME ChainInv, ChainInv', ChainGrows, NEW met, NEW more, met \subseteq more,
         NEW n \in Int, n <= Tip \/ n < StartLedger, MetUpTo(chain, met, n)
  PROVE  MetUpTo(chain', more, n)
<1> SUFFICES ASSUME NEW k \in DOMAIN chain', Due(chain'[k]), chain'[k].ledger <= n
             PROVE  k \in more
  BY DEF MetUpTo
<1>1. StartLedger \in Nat
  BY IndexerConstants
<1>2. CASE k \in DOMAIN chain
  BY <1>2 DEF ChainGrows, MetUpTo
<1>3. CASE k \notin DOMAIN chain
  <2>1. chain'[k].ledger \in Nat /\ chain'[k].ledger > Tip
    BY <1>3, EntryFields DEF ChainInv, ChainGrows
  <2>2. QED
    BY <1>1, <2>1 DEF ChainGrows, Due
<1>4. QED
  BY <1>2, <1>3

\* And so does all that a poll knows.
LEMMA PollStillKnows ==
  ASSUME ChainInv, ChainInv', ChainGrows, NEW met, NEW more, met \subseteq more,
         NEW l \in Local, PollKnows(chain, Tip, met, l)
  PROVE  PollKnows(chain', Tip', more, l)
<1>1. l.latest \in Nat /\ l.from \in Nat /\ l.to \in Nat
  BY DEF Local
<1>2. l.at # "idle" => l.latest <= Tip /\ l.latest <= Tip'
  BY <1>1 DEF PollKnows, ChainGrows
<1>3. ASSUME l.at \in {"fetching"} \cup OnPage
      PROVE  1 <= l.from /\ l.from <= Len(chain') + 1 /\ MetBefore(chain', more, l.from)
  <2>1. 1 <= l.from /\ l.from <= Len(chain) + 1 /\ MetBefore(chain, met, l.from)
    BY <1>3 DEF PollKnows
  <2>2. \A k \in DOMAIN chain' : k < l.from => k \in DOMAIN chain
    <3>1. DOMAIN chain = 1 .. Len(chain) /\ DOMAIN chain' = 1 .. Len(chain')
      BY LenProperties DEF ChainInv
    <3>2. QED
      BY <1>1, <2>1, <3>1 DEF ChainGrows
  <2>3. QED
    BY <1>1, <2>1, <2>2 DEF MetBefore, ChainGrows
<1>4. ASSUME l.at \in OnPage PROVE PageKnown(chain', l)
  <2>1. PageKnown(chain, l) /\ l.latest <= Tip
    BY <1>2, <1>4 DEF PollKnows, OnPage
  <2>2. ASSUME NEW k \in DOMAIN chain', chain'[k].ledger <= l.latest PROVE k \in DOMAIN chain
    <3>1. chain'[k].ledger \in Nat
      BY EntryFields DEF ChainInv
    <3>2. QED
      BY <1>1, <2>1, <2>2, <3>1 DEF ChainGrows
  <2>3. QED
    BY <1>1, <2>1, <2>2 DEF PageKnown, ChainGrows
<1>5. ASSUME l.at = "saving" PROVE MetUpTo(chain', more, l.latest)
  BY <1>1, <1>2, <1>5, MetStays DEF PollKnows
<1>6. QED
  BY <1>2, <1>3, <1>4, <1>5 DEF PollKnows

\* The chain being in the order of its ledgers, the events up to a ledger are as many
\* as the place of the last of them: where pollEvents starts.
LEMMA StartOfPoll ==
  ASSUME ChainInv, NEW n \in Int
  PROVE  LET m == Cardinality({k \in DOMAIN chain : chain[k].ledger <= n}) IN
         m \in Nat /\ m <= Len(chain) /\ \A k \in DOMAIN chain : k <= m => chain[k].ledger <= n
<1> DEFINE S == {k \in DOMAIN chain : chain[k].ledger <= n}
<1>1. DOMAIN chain = 1 .. Len(chain) /\ Len(chain) \in Nat
  BY LenProperties DEF ChainInv
<1>2. ASSUME NEW m \in Nat, S \subseteq 1 .. m
      PROVE  Cardinality(S) \in Nat /\ Cardinality(S) <= m
  <2>1. IsFiniteSet(1 .. m) /\ Cardinality(1 .. m) = m
    BY FS_Interval, <1>2
  <2>2. QED
    BY <1>2, <2>1, FS_Subset, FS_CardinalityType
<1>3. Cardinality(S) \in Nat /\ Cardinality(S) <= Len(chain)
  BY <1>1, <1>2
<1>4. ASSUME NEW k \in DOMAIN chain, ~(chain[k].ledger <= n) PROVE Cardinality(S) < k
  <2>1. \A j \in DOMAIN chain : chain[j].ledger \in Nat
    BY EntryFields DEF ChainInv
  <2>2. \A j \in S : j < k
    BY <1>1, <1>4, <2>1 DEF ChainInv
  <2>3. S \subseteq 1 .. k - 1 /\ k - 1 \in Nat
    BY <1>1, <2>2
  <2>4. Cardinality(S) <= k - 1
    BY <1>2, <2>3
  <2>5. QED
    BY <1>1, <1>3, <2>4
<1> HIDE DEF S
<1>5. \A k \in DOMAIN chain : k <= Cardinality(S) => chain[k].ledger <= n
  BY <1>1, <1>3, <1>4
<1> USE DEF S
<1>6. QED
  BY <1>3, <1>5

\* What is left to show of a step for the cursor's invariant.
LEMMA CursorStep ==
  ASSUME CursorInv, ChainInv, ChainInv', ChainGrows, CursorTypes', tally.met \subseteq tally'.met,
         cursor' # cursor => cursor' <= Tip /\ MetUpTo(chain, tally.met, cursor'),
         last' # last => /\ last' <= Tip \/ last' < StartLedger
                         /\ MetUpTo(chain, tally.met, last'),
         \A p \in Polls : \/ poll'[p] = poll[p]
                          \/ PollKnows(chain', Tip', tally'.met, poll'[p])
  PROVE  CursorInv'
<1>1. StartLedger \in Nat /\ Tip \in Nat /\ Tip' \in Nat /\ Tip <= Tip'
  BY IndexerConstants DEF ChainGrows
<1>2. cursor' \in Int /\ last' \in Int
  BY DEF CursorTypes
<1>3. cursor' <= Tip /\ MetUpTo(chain, tally.met, cursor')
  BY DEF CursorInv
<1>4. (last' <= Tip \/ last' < StartLedger) /\ MetUpTo(chain, tally.met, last')
  BY DEF CursorInv
<1>5. MetUpTo(chain', tally'.met, cursor')
  BY <1>2, <1>3, MetStays
<1>6. MetUpTo(chain', tally'.met, last')
  BY <1>2, <1>4, MetStays
<1>7. ASSUME NEW p \in Polls PROVE PollKnows(chain', Tip', tally'.met, poll'[p])
  <2>1. CASE poll'[p] = poll[p]
    <3>1. poll[p] \in Local /\ PollKnows(chain, Tip, tally.met, poll[p])
      BY DEF CursorInv, CursorTypes
    <3>2. PollKnows(chain', Tip', tally'.met, poll[p])
      BY <3>1, PollStillKnows
    <3>3. QED
      BY <2>1, <3>2
  <2>2. QED
    BY <2>1
<1>8. cursor' <= Tip' /\ (last' <= Tip' \/ last' < StartLedger)
  BY <1>1, <1>2, <1>3, <1>4
<1>9. QED
  BY <1>5, <1>6, <1>7, <1>8 DEF CursorInv

\* One more copy of event k, and the others as before.
LEMMA BagGrows ==
  ASSUME NEW B \in Bag, NEW k \in Nat
  PROVE  LET C == SetToBag({k}) (+) B IN
         /\ C \in Bag
         /\ DOMAIN C = DOMAIN B \cup {k}
         /\ C[k] = 1 + (IF k \in DOMAIN B THEN B[k] ELSE 0)
         /\ \A j \in DOMAIN B : j # k => C[j] = B[j]
<1> DEFINE C == SetToBag({k}) (+) B
<1>1. PICK S \in SUBSET Nat : B \in [S -> Nat \ {0}]
  BY DEF Bag
<1>2. C = [e \in {k} \cup S |-> (IF e \in {k} THEN 1 ELSE 0) + (IF e \in S THEN B[e] ELSE 0)]
  BY <1>1 DEF SetToBag, (+)
<1>3. \A e \in S : B[e] \in Nat \ {0}
  BY <1>1
<1> HIDE DEF C
<1>4. \A e \in {k} \cup S : C[e] \in Nat \ {0}
  BY <1>2, <1>3
<1>5. C \in [{k} \cup S -> Nat \ {0}] /\ {k} \cup S \in SUBSET Nat
  BY <1>2, <1>4
<1>6. C \in Bag
  BY <1>5 DEF Bag
<1>7. C[k] = 1 + (IF k \in S THEN B[k] ELSE 0) /\ \A j \in S : j # k => C[j] = B[j]
  BY <1>2, <1>3
<1>8. QED
  BY <1>1, <1>5, <1>6, <1>7 DEF C

\* The values a poll's variables are given.
LEMMA LocalTypes ==
  /\ Idle \in Local /\ Idle.at = "idle"
  /\ \A l \in Local : [l EXCEPT !.at = "choosing", !.event = 0, !.step = 0] \in Local
  /\ \A a \in At, n \in Nat :
       LET l == [Idle EXCEPT !.at = a, !.latest = n] IN
       l \in Local /\ l.at = a /\ l.latest = n
  BY DEF Idle, Local, At

\* A step of one poll leaves the others as they are.
LEMMA OnePollMoves ==
  ASSUME CursorTypes, NEW p \in Polls, NEW l \in Local, Steps(p, l)
  PROVE  /\ poll' \in [Polls -> Local]
         /\ poll'[p] = l
         /\ \A q \in Polls : q # p => poll'[q] = poll[q]
  BY DEF CursorTypes, Steps

\* The part every step of a poll shares.
LEMMA PollStep ==
  ASSUME CursorInv, ChainInv, ChainInv', ChainGrows, NEW p \in Polls, NEW l \in Local,
         Steps(p, l), tally' \in Tally, tally.met \subseteq tally'.met,
         processed' \subseteq tally'.met,
         PollKnows(chain', Tip', tally'.met, l),
         cursor' # cursor => /\ cursor' \in Int /\ cursor' <= Tip
                             /\ MetUpTo(chain, tally.met, cursor'),
         last' # last => /\ last' \in Int /\ last' <= Tip
                         /\ MetUpTo(chain, tally.met, last')
  PROVE  CursorInv'
<1>1. CursorTypes
  BY DEF CursorInv
<1>2. /\ poll' \in [Polls -> Local] /\ poll'[p] = l
      /\ \A q \in Polls : q # p => poll'[q] = poll[q]
  BY <1>1, OnePollMoves
<1>3. CursorTypes'
  BY <1>1, <1>2 DEF CursorTypes
<1>4. \A q \in Polls : poll'[q] = poll[q] \/ PollKnows(chain', Tip', tally'.met, poll'[q])
  BY <1>2
<1>5. QED
  BY <1>3, <1>4, CursorStep

\* Starting, and choosing where to start from.
LEMMA StartKeepsCursor ==
  ASSUME CursorInv, ChainInv, UNCHANGED chain, NEW p \in Polls, StartPoll(p) \/ ChooseStart(p)
  PROVE  CursorInv'
<1>1. ChainInv' /\ ChainGrows /\ Tip' = Tip /\ Tip \in Nat
  BY SameChain, TipIsLast DEF Tip, TipOnTop
<1>2. /\ CursorTypes /\ poll[p] \in Local /\ tally \in Tally
      /\ processed \subseteq tally.met /\ last \in Int
  BY DEF CursorInv, CursorTypes
<1>3. CASE StartPoll(p)
  <2> DEFINE l == [Idle EXCEPT !.at = "started", !.latest = Tip]
  <2>1. l \in Local /\ l.at = "started" /\ l.latest = Tip
    BY <1>1 DEF Idle, Local, At
  <2>2. Steps(p, l)
    BY <1>3 DEF StartPoll
  <2> HIDE DEF l
  <2>3. tally' \in Tally /\ tally'.met = tally.met
    BY <1>2, <1>3 DEF StartPoll, Tally
  <2>4. PollKnows(chain', Tip', tally'.met, l)
    BY <1>1, <2>1 DEF PollKnows, OnPage
  <2>5. UNCHANGED <<cursor, last, processed>>
    BY <1>3 DEF StartPoll
  <2>6. QED
    BY <1>1, <1>2, <2>1, <2>2, <2>3, <2>4, <2>5, PollStep
<1>4. CASE ChooseStart(p)
  <2>1. UNCHANGED <<cursor, last, processed, tally>>
    BY <1>4 DEF ChooseStart
  <2>2. CASE last + 1 > poll[p].latest
    <3>1. Steps(p, Idle)
      BY <1>4, <2>2 DEF ChooseStart
    <3>2. PollKnows(chain', Tip', tally'.met, Idle)
      BY LocalTypes DEF PollKnows, OnPage
    <3>3. QED
      BY <1>1, <1>2, <2>1, <3>1, <3>2, LocalTypes, PollStep
  <2>3. CASE ~(last + 1 > poll[p].latest)
    <3> DEFINE m == Cardinality({k \in DOMAIN chain : chain[k].ledger <= last})
               n == 1 + m
           l == [poll[p] EXCEPT !.at = "fetching", !.from = n]
    <3>1. m \in Nat /\ m <= Len(chain) /\ \A k \in DOMAIN chain : k <= m => chain[k].ledger <= last
      BY <1>2, StartOfPoll
    <3>2. Steps(p, l)
      BY <1>4, <2>3 DEF ChooseStart
    <3> HIDE DEF m
    <3>a. n \in Nat /\ n = 1 + m
      BY <3>1
    <3> HIDE DEF n
    <3>3. l \in Local /\ l.at = "fetching" /\ l.from = n /\ l.latest = poll[p].latest
      BY <1>2, <3>a DEF Local, At
    <3> HIDE DEF l
    <3>4. poll[p].at = "started"
      BY <1>4 DEF ChooseStart
    <3>5. l.latest <= Tip
      BY <3>3, <3>4 DEF CursorInv, PollKnows
    <3>6. MetBefore(chain, tally.met, l.from)
      <4>1. MetUpTo(chain, tally.met, last)
        BY DEF CursorInv
      <4>2. \A k \in DOMAIN chain : k \in Nat
        BY EntryFields DEF ChainInv
      <4>3. QED
        BY <3>1, <3>a, <3>3, <4>1, <4>2 DEF MetBefore, MetUpTo
    <3>7. Len(chain) \in Nat /\ 1 <= l.from /\ l.from <= Len(chain) + 1
      BY <3>1, <3>a, <3>3, LenProperties DEF ChainInv
    <3>8. PollKnows(chain', Tip', tally'.met, l)
      BY <1>1, <2>1, <3>3, <3>5, <3>6, <3>7 DEF PollKnows, OnPage
    <3>9. QED
      BY <1>1, <1>2, <2>1, <3>2, <3>3, <3>8, PollStep
  <2>4. QED
    BY <2>2, <2>3
<1>5. QED
  BY <1>3, <1>4

\* A page is fetched: it is full, or it ends with the chain.
LEMMA FetchKeepsCursor ==
  ASSUME CursorInv, ChainInv, UNCHANGED chain, NEW p \in Polls, Fetch(p)
  PROVE  CursorInv'
<1> DEFINE s == poll[p]
           e == s.from + PageLimit - 1
           to == IF e <= Len(chain) THEN e ELSE Len(chain)
           pages == s.pages + 1
           l == [s EXCEPT !.at = "choosing", !.pages = pages, !.to = to]
<1>1. ChainInv' /\ ChainGrows /\ Tip' = Tip /\ Tip \in Nat
  BY SameChain, TipIsLast DEF Tip, TipOnTop
<1>2. CursorTypes /\ s \in Local /\ tally \in Tally /\ processed \subseteq tally.met
  BY DEF CursorInv, CursorTypes
<1>3. /\ s.at = "fetching" /\ Steps(p, l)
      /\ UNCHANGED <<cursor, last, processed, tally>> /\ UNCHANGED <<db>>
  BY DEF Fetch
<1>4. /\ s.latest <= Tip /\ 1 <= s.from /\ s.from <= Len(chain) + 1
      /\ MetBefore(chain, tally.met, s.from)
  BY <1>3 DEF CursorInv, PollKnows
<1>5. /\ s.from \in Nat /\ s.pages \in Nat /\ PageLimit \in Nat /\ PageLimit > 0
      /\ Len(chain) \in Nat
  BY <1>2, IndexerConstants, LenProperties DEF Local, ChainInv
<1> HIDE DEF s
<1>6. /\ to \in Nat /\ pages \in Nat /\ s.from <= to + 1 /\ to <= Len(chain)
      /\ to <= s.from + PageLimit - 1
      /\ to # s.from + PageLimit - 1 => to = Len(chain)
  BY <1>4, <1>5
<1> HIDE DEF to, pages, e
<1>7. /\ l \in Local /\ l.at = "choosing" /\ l.from = s.from /\ l.to = to
      /\ l.latest = s.latest
  BY <1>2, <1>6 DEF Local, At
<1> HIDE DEF l
<1>8. DOMAIN chain = 1 .. Len(chain)
  BY LenProperties DEF ChainInv
<1>9. PageKnown(chain, l)
  <2>1. l.from <= l.to + 1 /\ l.to <= Len(chain) /\ l.to <= l.from + PageLimit - 1
    BY <1>6, <1>7
  <2>2. l.to # l.from + PageLimit - 1 => l.to = Len(chain)
    BY <1>6, <1>7
  <2>3. QED
    BY <1>8, <2>1, <2>2 DEF PageKnown
<1>10. PollKnows(chain, Tip, tally.met, l)
  BY <1>4, <1>7, <1>9 DEF PollKnows, OnPage
<1>11. QED
  BY <1>1, <1>2, <1>3, <1>7, <1>10, PollStep

\* A poll that has turned to something else on the page it is on.
Turned(l, s, at) ==
  /\ l \in Local /\ l.at = at
  /\ l.latest = s.latest /\ l.from = s.from /\ l.to = s.to

\* Leaving an event takes a poll back to its page.
LEMMA PageKept ==
  ASSUME NEW c, NEW top, NEW met, NEW more, met \subseteq more, NEW s, NEW l,
         s.at \in OnPage, l.at \in OnPage,
         l.latest = s.latest, l.from = s.from, l.to = s.to, PollKnows(c, top, met, s)
  PROVE  PollKnows(c, top, more, l)
<1>1. s.at # "idle" /\ l.at # "idle" /\ l.at # "saving"
  BY DEF OnPage
<1>2. PageKnown(c, l)
  BY DEF PollKnows, PageKnown
<1>3. MetBefore(c, more, l.from)
  BY DEF PollKnows, MetBefore
<1>4. QED
  BY <1>1, <1>2, <1>3 DEF PollKnows

\* Meeting an event, looking it up, writing, and giving it up leave a poll on its page.
LEMMA EventKeepsCursor ==
  ASSUME CursorInv, ChainInv, UNCHANGED chain, NEW p \in Polls, NEW at \in OnPage,
         NEW l, Steps(p, l), poll[p].at \in OnPage, Turned(l, poll[p], at),
         UNCHANGED <<cursor, last>>, tally' \in Tally, tally.met \subseteq tally'.met,
         processed' \subseteq tally'.met
  PROVE  CursorInv'
<1>1. ChainInv' /\ ChainGrows /\ Tip' = Tip
  BY SameChain DEF Tip
<1>2. PollKnows(chain, Tip, tally.met, poll[p])
  BY DEF CursorInv
<1>3. PollKnows(chain, Tip, tally'.met, l)
  BY <1>2, PageKept DEF Turned
<1>4. QED
  BY <1>1, <1>3, PollStep DEF Turned

\* A drained page leads to the next one, or to the cursor: the tip asked for at the
\* start, once there is nothing more, or the ledger before the last one seen.
LEMMA EndKeepsCursor ==
  ASSUME CursorInv, ChainInv, UNCHANGED chain, NEW p \in Polls, EndPage(p)
  PROVE  CursorInv'
<1> DEFINE s == poll[p]
           full == s.to - s.from + 1 = PageLimit
           saving(to) == [Idle EXCEPT !.at = "saving", !.latest = to]
           n == s.to + 1
           l == [s EXCEPT !.at = "fetching", !.from = n]
<1>1. ChainInv' /\ ChainGrows /\ Tip' = Tip /\ Tip \in Nat
  BY SameChain, TipIsLast DEF Tip, TipOnTop
<1>2. CursorTypes /\ s \in Local /\ tally \in Tally /\ processed \subseteq tally.met
  BY DEF CursorInv, CursorTypes
<1>3. s.at = "choosing" /\ Fresh(p) = {} /\ UNCHANGED <<cursor, processed, tally>>
  BY DEF EndPage
<1>4. \/ ~full /\ last' = Reached(p) /\ Steps(p, saving(Reached(p)))
      \/ /\ full /\ last' = ResumeBefore(chain[s.to].ledger)
         /\ Steps(p, saving(ResumeBefore(chain[s.to].ledger)))
      \/ full /\ Steps(p, l) /\ UNCHANGED last
  BY DEF EndPage
<1>5. /\ s.latest <= Tip /\ 1 <= s.from /\ s.from <= Len(chain) + 1
      /\ MetBefore(chain, tally.met, s.from) /\ PageKnown(chain, s)
  BY <1>3 DEF CursorInv, PollKnows, OnPage
<1>6. /\ s.from \in Nat /\ s.to \in Nat /\ s.latest \in Nat /\ Len(chain) \in Nat
      /\ PageLimit \in Nat /\ PageLimit > 0 /\ DOMAIN chain = 1 .. Len(chain)
  BY <1>2, IndexerConstants, LenProperties DEF Local, ChainInv
<1>7. s.from .. s.to \subseteq tally.met
  BY <1>2, <1>3 DEF Fresh
<1> HIDE DEF s
<1>8. \A k \in DOMAIN chain : Due(chain[k]) /\ k <= s.to => k \in tally.met
  BY <1>5, <1>6, <1>7 DEF MetBefore
<1>9. \A k \in DOMAIN chain :
        chain[k].ledger \in Nat /\ chain[k].ledger > 0 /\ chain[k].ledger <= Tip
  BY TipIsLast, EntryFields DEF ChainInv, TipOnTop
<1>10. ASSUME NEW to \in Nat, to <= Tip, MetUpTo(chain, tally.met, to),
              last' = to, Steps(p, saving(to))
       PROVE  CursorInv'
  <2>1. saving(to) \in Local /\ saving(to).at = "saving" /\ saving(to).latest = to
    BY LocalTypes DEF At
  <2> HIDE DEF saving
  <2>2. PollKnows(chain, Tip, tally.met, saving(to))
    BY <1>10, <2>1 DEF PollKnows, OnPage
  <2>3. QED
    BY <1>1, <1>2, <1>3, <1>10, <2>1, <2>2, PollStep
<1>11. CASE ~full /\ last' = Reached(p) /\ Steps(p, saving(Reached(p)))
  <2>1. Reached(p) = s.latest
    BY DEF Reached, s
  <2>2. \A k \in DOMAIN chain : chain[k].ledger <= s.latest => k <= s.to
    BY <1>5, <1>6, <1>11 DEF PageKnown
  <2>3. MetUpTo(chain, tally.met, s.latest)
    BY <1>8, <2>2 DEF MetUpTo
  <2>4. QED
    BY <1>5, <1>6, <1>10, <1>11, <2>1, <2>3
<1>12. CASE /\ full /\ last' = ResumeBefore(chain[s.to].ledger)
            /\ Steps(p, saving(ResumeBefore(chain[s.to].ledger)))
  <2> DEFINE to == ResumeBefore(chain[s.to].ledger)
  <2>1. s.to \in DOMAIN chain
    BY <1>5, <1>6, <1>12 DEF PageKnown
  <2>2. to \in Nat /\ to = chain[s.to].ledger - 1 /\ to <= Tip
    BY <1>1, <1>9, <2>1 DEF ResumeBefore
  <2> HIDE DEF to
  <2>3. \A k \in DOMAIN chain : chain[k].ledger <= to => k <= s.to
    BY <1>6, <1>9, <2>1, <2>2, SMTT(30) DEF ChainInv
  <2>4. MetUpTo(chain, tally.met, to)
    BY <1>8, <2>3 DEF MetUpTo
  <2>5. last' = to /\ Steps(p, saving(to))
    BY <1>12 DEF to
  <2>6. QED
    BY <1>10, <2>2, <2>4, <2>5
<1>13. CASE full /\ Steps(p, l) /\ UNCHANGED last
  <2>1. n \in Nat /\ 1 <= n /\ n <= Len(chain) + 1 /\ n = s.to + 1
    BY <1>5, <1>6 DEF PageKnown
  <2> HIDE DEF n
  <2>2. l \in Local /\ l.at = "fetching" /\ l.from = n /\ l.latest = s.latest
    BY <1>2, <2>1 DEF Local, At
  <2>3. Steps(p, l)
    BY <1>13
  <2> HIDE DEF l
  <2>4. MetBefore(chain, tally.met, l.from)
    BY <1>6, <1>8, <2>1, <2>2 DEF MetBefore
  <2>5. PollKnows(chain, Tip, tally.met, l)
    BY <1>5, <2>1, <2>2, <2>4 DEF PollKnows, OnPage
  <2>6. QED
    BY <1>1, <1>2, <1>3, <1>13, <2>2, <2>3, <2>5, PollStep
<1>14. QED
  BY <1>4, <1>11, <1>12, <1>13

\* What TakeEvent, LookUp, Write and Fail may make of the poll that is on an event.
LEMMA EventLocals ==
  ASSUME NEW s \in Local, NEW k \in Nat, NEW i \in Nat
  PROVE  /\ Turned([s EXCEPT !.at = "looking", !.event = k], s, "looking")
         /\ [s EXCEPT !.at = "looking", !.event = k].event = k
         /\ Turned([s EXCEPT !.at = "writing", !.step = i], s, "writing")
         /\ [s EXCEPT !.at = "writing", !.step = i].event = s.event
         /\ [s EXCEPT !.at = "writing", !.step = i].step = i
         /\ Turned([s EXCEPT !.step = i], s, s.at)
         /\ [s EXCEPT !.step = i].event = s.event
         /\ [s EXCEPT !.step = i].step = i
         /\ Turned([s EXCEPT !.at = "choosing", !.event = 0, !.step = 0], s, "choosing")
  BY DEF Local, At, Turned

\* Giving an event up, or being through with it, is such a turn.
LEMMA LeaveLocal ==
  ASSUME NEW p \in Polls, poll[p] \in Local
  PROVE  Turned(Leave(p), poll[p], "choosing")
<1> DEFINE s == poll[p]
<1>1. s \in Local
  OBVIOUS
<1> HIDE DEF s
<1>2. Leave(p) = [s EXCEPT !.at = "choosing", !.event = 0, !.step = 0]
  BY DEF Leave, s
<1>3. Turned(Leave(p), s, "choosing")
  BY <1>1, <1>2, EventLocals, ZenonT(60)
<1>4. QED
  BY <1>3 DEF s

Counts(k) == tally' = [tally EXCEPT !.counted = SetToBag({k}) (+) @]

\* An increment is counted once more for its event, and no other event's.
LEMMA CountingTypes ==
  ASSUME tally \in Tally, NEW k \in Nat, Counts(k)
  PROVE  /\ tally' \in Tally /\ tally'.met = tally.met /\ tally'.crashes = tally.crashes
         /\ tally'.counted = SetToBag({k}) (+) tally.counted
<1> DEFINE C == SetToBag({k}) (+) tally.counted
<1>1. tally.counted \in Bag
  BY DEF Tally
<1>2. C \in Bag
  BY <1>1, BagGrows
<1>3. tally' = [tally EXCEPT !.counted = C]
  BY DEF Counts
<1> HIDE DEF C
<1>4. /\ tally' \in Tally /\ tally'.met = tally.met
      /\ tally'.crashes = tally.crashes /\ tally'.counted = C
  BY <1>2, <1>3 DEF Tally
<1>5. QED
  BY <1>4 DEF C

\* Taking an event, looking it up, writing and giving up keep the cursor's invariant.
LEMMA WorkKeepsCursor ==
  ASSUME CursorInv, ChainInv, UNCHANGED chain, NEW p \in Polls,
         TakeEvent(p) \/ LookUp(p) \/ Write(p)
  PROVE  CursorInv'
<1>1. CursorTypes /\ poll[p] \in Local /\ tally \in Tally /\ processed \subseteq tally.met
  BY DEF CursorInv, CursorTypes
<1>2. Turned(Leave(p), poll[p], "choosing")
  BY <1>1, LeaveLocal
<1>3. CASE TakeEvent(p)
  <2>1. PICK k \in Fresh(p) :
          /\ processed' = processed \cup {k}
          /\ tally' = [tally EXCEPT !.met = @ \cup {k}]
          /\ Steps(p, [poll[p] EXCEPT !.at = "looking", !.event = k])
    BY <1>3 DEF TakeEvent
  <2>2. k \in Nat
    BY <1>1, <2>1 DEF Fresh, Local
  <2> DEFINE l == [poll[p] EXCEPT !.at = "looking", !.event = k]
  <2>3. Turned(l, poll[p], "looking")
    BY <1>1, <2>2, EventLocals
  <2>4. Steps(p, l)
    BY <2>1
  <2> HIDE DEF l
  <2>5. tally' \in Tally /\ tally'.met = tally.met \cup {k}
    BY <1>1, <2>1, <2>2 DEF Tally
  <2>6. poll[p].at = "choosing" /\ UNCHANGED <<cursor, last>>
    BY <1>3 DEF TakeEvent
  <2>7. QED
    BY <1>1, <2>1, <2>3, <2>4, <2>5, <2>6, EventKeepsCursor DEF OnPage
<1>4. CASE LookUp(p)
  <2>1. poll[p].at = "looking" /\ UNCHANGED <<cursor, last, processed, tally>>
    BY <1>4 DEF LookUp
  <2>2. CASE Steps(p, Leave(p))
    BY <1>1, <1>2, <2>1, <2>2, EventKeepsCursor DEF OnPage
  <2>3. CASE Steps(p, [poll[p] EXCEPT !.at = "writing", !.step = 1])
    <3> DEFINE l == [poll[p] EXCEPT !.at = "writing", !.step = 1]
    <3>1. Turned(l, poll[p], "writing")
      BY <1>1, EventLocals
    <3>2. Steps(p, l)
      BY <2>3
    <3> HIDE DEF l
    <3>3. QED
      BY <1>1, <2>1, <3>1, <3>2, EventKeepsCursor DEF OnPage
  <2>4. QED
    BY <1>4, <2>2, <2>3 DEF LookUp
<1>5. CASE Write(p)
  <2>1. /\ poll[p].at = "writing" /\ UNCHANGED <<cursor, last, processed>>
        /\ poll[p].event \in Nat /\ poll[p].step \in Nat
    BY <1>1, <1>5 DEF Write, Local
  <2>2. tally' = tally \/ Counts(poll[p].event)
    BY <1>5 DEF Write, Counts
  <2>3. tally' \in Tally /\ tally'.met = tally.met
    BY <1>1, <2>1, <2>2, CountingTypes
  <2>4. CASE Steps(p, Leave(p))
    BY <1>1, <1>2, <2>1, <2>3, <2>4, EventKeepsCursor DEF OnPage
  <2>5. CASE Steps(p, [poll[p] EXCEPT !.step = @ + 1])
    <3> DEFINE n == poll[p].step + 1
               l == [poll[p] EXCEPT !.step = n]
    <3>1. n \in Nat
      BY <2>1
    <3>2. Steps(p, l)
      BY <2>5
    <3> HIDE DEF n
    <3>3. Turned(l, poll[p], "writing")
      BY <1>1, <2>1, <3>1, EventLocals
    <3> HIDE DEF l
    <3>4. QED
      BY <1>1, <2>1, <2>3, <3>2, <3>3, EventKeepsCursor DEF OnPage
  <2>6. QED
    BY <1>5, <2>4, <2>5 DEF Write
<1>6. QED
  BY <1>3, <1>4, <1>5

\* Persisting the cursor, and a failing call, keep it too.
LEMMA SaveKeepsCursor ==
  ASSUME CursorInv, ChainInv, UNCHANGED chain, NEW p \in Polls, SaveCursor(p) \/ Fail(p)
  PROVE  CursorInv'
<1>1. ChainInv' /\ ChainGrows /\ Tip' = Tip
  BY SameChain DEF Tip
<1>2. CursorTypes /\ poll[p] \in Local /\ tally \in Tally /\ processed \subseteq tally.met
  BY DEF CursorInv, CursorTypes
<1>3. PollKnows(chain', Tip', tally'.met, Idle)
  BY LocalTypes DEF PollKnows, OnPage
<1>4. CASE SaveCursor(p)
  <2>1. /\ Steps(p, Idle) /\ cursor' = poll[p].latest /\ poll[p].at = "saving"
        /\ UNCHANGED <<last, processed, tally>>
    BY <1>4 DEF SaveCursor
  <2>2. cursor' \in Int /\ cursor' <= Tip /\ MetUpTo(chain, tally.met, cursor')
    <3>1. PollKnows(chain, Tip, tally.met, poll[p])
      BY DEF CursorInv
    <3>2. QED
      BY <1>2, <2>1, <3>1 DEF PollKnows, Local
  <2>3. QED
    BY <1>1, <1>2, <1>3, <2>1, <2>2, LocalTypes, PollStep
<1>5. CASE Fail(p)
  <2>1. tally' \in Tally /\ tally'.met = tally.met
    BY <1>2, <1>5 DEF Fail, Tally
  <2>2. UNCHANGED <<cursor, last, processed>>
    BY <1>5 DEF Fail
  <2>3. CASE poll[p].at \in {"looking", "writing"} /\ Steps(p, Leave(p))
    BY <1>2, <2>1, <2>2, <2>3, LeaveLocal, EventKeepsCursor DEF OnPage
  <2>4. CASE Steps(p, Idle)
    BY <1>1, <1>2, <1>3, <2>1, <2>2, <2>4, LocalTypes, PollStep
  <2>5. QED
    BY <1>5, <2>3, <2>4 DEF Fail
<1>6. QED
  BY <1>4, <1>5

\* A restart resumes from the stored cursor, or just before the start ledger; without
\* one it resumes from the tip, and nothing is due.
LEMMA CrashKeepsCursor ==
  ASSUME CursorInv, ChainInv, UNCHANGED chain, Crash
  PROVE  CursorInv'
<1>1. ChainInv' /\ ChainGrows /\ Tip' = Tip /\ Tip \in Nat
  BY SameChain, TipIsLast DEF Tip, TipOnTop
<1>2. CursorTypes /\ tally \in Tally /\ StartLedger \in Nat /\ cursor \in Int
  BY IndexerConstants DEF CursorInv, CursorTypes
<1>3. tally' \in Tally /\ tally'.met = tally.met
  BY <1>2 DEF Crash, Tally
<1>4. poll' \in [Polls -> Local] /\ \A p \in Polls : poll'[p] = Idle
  BY LocalTypes DEF Crash
<1>5. /\ cursor' = cursor /\ processed' = {}
      /\ \/ last' = cursor
         \/ StartLedger > 0 /\ last' = StartLedger - 1
         \/ ~(StartLedger > 0) /\ last' = Tip
  BY DEF Crash, Resumed
<1>6. CursorTypes'
  BY <1>1, <1>2, <1>3, <1>4, <1>5 DEF CursorTypes
<1>7. /\ StartLedger > 0 => MetUpTo(chain, tally.met, StartLedger - 1)
      /\ ~(StartLedger > 0) => MetUpTo(chain, tally.met, Tip)
  BY <1>2, EntryFields DEF MetUpTo, Due, ChainInv
<1>8. /\ last' <= Tip \/ last' < StartLedger
      /\ MetUpTo(chain, tally.met, last')
  BY <1>1, <1>2, <1>5, <1>7 DEF CursorInv
<1>9. PollKnows(chain', Tip', tally'.met, Idle)
  BY LocalTypes DEF PollKnows, OnPage
<1>10. \A p \in Polls : PollKnows(chain', Tip', tally'.met, poll'[p])
  BY <1>4, <1>9
<1>11. QED
  BY <1>1, <1>3, <1>5, <1>6, <1>8, <1>10, CursorStep

\* The invariants of the chain and of the contract behind it, in every step.
LEMMA ChainStep ==
  ASSUME IInv, ChainInv, [IndexNext]_indexerVars
  PROVE  IInv' /\ ChainInv' /\ ChainGrows
<1>1. CASE Invoke
  <2>1. IInv'
    <3>1. [Next]_vars
      BY <1>1 DEF Invoke
    <3>2. QED
      BY <3>1, StepIInv
  <2>2. QED
    BY <1>1, <2>1, InvokeExtends, ExtendedChain
<1>2. CASE UNCHANGED <<vars, chain>>
  <2>1. [Next]_vars /\ UNCHANGED chain
    BY <1>2
  <2>2. QED
    BY <2>1, StepIInv, SameChain
<1>3. QED
  BY <1>1, <1>2 DEF IndexNext, indexerVars

\* A step that leaves the indexer alone, whatever the chain grows by.
LEMMA QuietKeepsCursor ==
  ASSUME CursorInv, ChainInv, ChainInv', ChainGrows, UNCHANGED indexVars
  PROVE  CursorInv'
<1>1. UNCHANGED <<cursor, last, processed, poll, tally>>
  BY DEF indexVars
<1>2. CursorTypes'
  BY <1>1 DEF CursorInv, CursorTypes
<1>3. QED
  BY <1>1, <1>2, CursorStep

\* The cursor's invariant is inductive.
LEMMA CursorKept ==
  ASSUME IInv, ChainInv, CursorInv, [IndexNext]_indexerVars
  PROVE  CursorInv'
<1>1. ChainInv' /\ ChainGrows
  BY ChainStep
<1>2. CASE Invoke
  BY <1>1, <1>2, QuietKeepsCursor DEF Invoke
<1>3. CASE UNCHANGED chain /\ Crash
  BY <1>3, CrashKeepsCursor
<1>4. ASSUME NEW p \in Polls, UNCHANGED chain, Progress(p) PROVE CursorInv'
  <2>1. CASE StartPoll(p) \/ ChooseStart(p)
    BY <1>4, <2>1, StartKeepsCursor
  <2>2. CASE Fetch(p)
    BY <1>4, <2>2, FetchKeepsCursor
  <2>3. CASE EndPage(p)
    BY <1>4, <2>3, EndKeepsCursor
  <2>4. CASE SaveCursor(p)
    BY <1>4, <2>4, SaveKeepsCursor
  <2>5. CASE TakeEvent(p) \/ LookUp(p) \/ Write(p)
    BY <1>4, <2>5, WorkKeepsCursor
  <2>6. QED
    BY <1>4, <2>1, <2>2, <2>3, <2>4, <2>5 DEF Progress
<1>5. ASSUME NEW p \in Polls, UNCHANGED chain, Fail(p) PROVE CursorInv'
  BY <1>5, SaveKeepsCursor
<1>6. CASE UNCHANGED indexerVars
  BY <1>1, <1>6, QuietKeepsCursor DEF indexerVars
<1>7. QED
  BY <1>2, <1>3, <1>4, <1>5, <1>6 DEF IndexNext

\* The indexer starts on an empty chain.
LEMMA ChainInit == IndexInit => IInv /\ ChainInv
<1> SUFFICES ASSUME IndexInit PROVE IInv /\ ChainInv
  OBVIOUS
<1>1. IInv
  BY InitIInv DEF IndexInit
<1>2. chain = <<>>
  BY DEF IndexInit
<1>3. QED
  BY <1>1, <1>2 DEF ChainInv

\* With nothing met and nothing to meet.
LEMMA CursorInit == IndexInit => CursorInv
<1> SUFFICES ASSUME IndexInit PROVE CursorInv
  OBVIOUS
<1>1. chain = <<>> /\ StartLedger \in Nat /\ Tip = 0
  BY IndexerConstants DEF IndexInit, Tip
<1>2. cursor = -1 /\ (last = StartLedger - 1 \/ last = 0) /\ processed = {}
  BY <1>1 DEF IndexInit, Resumed, NoRow
<1>3. poll = [p \in Polls |-> Idle]
  BY DEF IndexInit
<1>4. EmptyBag \in Bag
  BY ZenonT(60) DEF EmptyBag, SetToBag, Bag
<1>5. tally \in Tally
  BY <1>4 DEF IndexInit, Tally
<1>6. CursorTypes
  <2>1. poll \in [Polls -> Local]
    BY <1>3, LocalTypes
  <2>2. cursor \in Int /\ last \in Int /\ processed \subseteq tally.met
    BY <1>1, <1>2
  <2>3. QED
    BY <1>5, <2>1, <2>2 DEF CursorTypes
<1>7. DOMAIN chain = {}
  BY <1>1
<1>8. \A n \in Int : MetUpTo(chain, tally.met, n)
  BY <1>7 DEF MetUpTo
<1>9. PollKnows(chain, Tip, tally.met, Idle)
  BY LocalTypes DEF PollKnows, OnPage
<1>10. QED
  BY <1>1, <1>2, <1>3, <1>6, <1>8, <1>9 DEF CursorInv

\* The contract's invariant holds of the contract the indexer follows, and the chain
\* is in the order of its ledgers.
LEMMA ChainAlways == IndexSpec => [](IInv /\ ChainInv)
<1>1. IInv /\ ChainInv /\ [IndexNext]_indexerVars => (IInv /\ ChainInv)'
  BY ChainStep
<1>2. QED
  BY <1>1, ChainInit, PTL DEF IndexSpec

\* The cursor's invariant holds throughout, whatever the start ledger.
LEMMA CursorAlways == IndexSpec => [](IInv /\ ChainInv /\ CursorInv)
<1>1. IInv /\ ChainInv /\ CursorInv /\ [IndexNext]_indexerVars => CursorInv'
  BY CursorKept
<1>2. QED
  BY <1>1, CursorInit, ChainAlways, PTL DEF IndexSpec

\* NothingSkipped, for any number of overlapping polls, faults and crashes, any page
\* size and cap: with a start ledger configured, no event from it on that is at or
\* below the cursor (stored, or lastProcessedLedger in memory) was never met.
THEOREM CursorSkipsNothing == IndexSpec => []NothingSkipped
<1>1. CursorInv => NothingSkipped
  BY DEF CursorInv, MetUpTo, Due, NothingSkipped
<1>2. QED
  BY <1>1, CursorAlways, PTL

-----------------------------------------------------------------------------
(* The events' writes. *)

\* An audit row is appended to the writes of a handler.
LEMMA AppendTuples ==
  ASSUME NEW a, NEW b, NEW t
  PROVE  /\ Append(<<>>, t) = <<t>>
         /\ Append(<<a>>, t) = <<a, t>>
         /\ Append(<<a, b>>, t) = <<a, b, t>>
<1> DEFINE S == {a, b, t}
<1>1. a \in S /\ b \in S /\ t \in S
  OBVIOUS
<1> HIDE DEF S
<1>2. /\ <<>> \in Seq(S) /\ <<a>> \in Seq(S) /\ <<a, b>> \in Seq(S)
      /\ <<t>> \in Seq(S) /\ <<a, t>> \in Seq(S) /\ <<a, b, t>> \in Seq(S)
  BY <1>1
<1>3. Append(<<a>>, t) = <<a, t>>
  <2>1. /\ Append(<<a>>, t) \in Seq(S) /\ Len(Append(<<a>>, t)) = 2
        /\ Append(<<a>>, t)[1] = a /\ Append(<<a>>, t)[2] = t
    BY <1>1, <1>2, AppendProperties
  <2>2. \A i \in 1 .. 2 : Append(<<a>>, t)[i] = <<a, t>>[i]
    BY <2>1
  <2>3. QED
    BY <1>2, <2>1, <2>2, SeqEqual
<1>4. Append(<<a, b>>, t) = <<a, b, t>>
  <2>1. /\ Append(<<a, b>>, t) \in Seq(S) /\ Len(Append(<<a, b>>, t)) = 3
        /\ Append(<<a, b>>, t)[1] = a /\ Append(<<a, b>>, t)[2] = b
        /\ Append(<<a, b>>, t)[3] = t
    BY <1>1, <1>2, AppendProperties
  <2>2. \A i \in 1 .. 3 : Append(<<a, b>>, t)[i] = <<a, b, t>>[i]
    BY <2>1
  <2>3. QED
    BY <1>2, <2>1, <2>2, SeqEqual
<1>5. Append(<<>>, t) = <<t>>
  OBVIOUS
<1>6. QED
  BY <1>3, <1>4, <1>5

\* The lists of writes of the handlers that count or keep something of their own.
LEMMA HandlerLists ==
  /\ Writes("ContribReceived")   = <<"investment", "increment", "transaction">>
  /\ Writes("ContribReconciled") = <<"increment", "transaction">>
  /\ Writes("TrancheReleased")   = <<"tranche", "inProduction", "transaction">>
  /\ Writes("DisputeOpened")     = <<"dispute", "disputed", "transaction">>
<1>1. /\ Handler("ContribReceived")   = <<"investment", "increment">>
      /\ Handler("ContribReconciled") = <<"increment">>
      /\ Handler("TrancheReleased")   = <<"tranche", "inProduction">>
      /\ Handler("DisputeOpened")     = <<"dispute", "disputed">>
  BY DEF Handler, InvestmentThenIncrement, ReconciledWrites
<1>2. Writes("ContribReceived") = <<"investment", "increment", "transaction">>
  <2>1. Append(<<"investment", "increment">>, "transaction")
          = <<"investment", "increment", "transaction">>
    BY AppendTuples
  <2>2. QED
    BY <1>1, <2>1, Zenon DEF Writes
<1>3. Writes("ContribReconciled") = <<"increment", "transaction">>
  BY <1>1, AppendTuples, Zenon DEF Writes
<1>4. Writes("TrancheReleased") = <<"tranche", "inProduction", "transaction">>
  <2>1. Append(<<"tranche", "inProduction">>, "transaction")
          = <<"tranche", "inProduction", "transaction">>
    BY AppendTuples
  <2>2. QED
    BY <1>1, <2>1, Zenon DEF Writes
<1>5. Writes("DisputeOpened") = <<"dispute", "disputed", "transaction">>
  <2>1. Append(<<"dispute", "disputed">>, "transaction") = <<"dispute", "disputed", "transaction">>
    BY AppendTuples
  <2>2. QED
    BY <1>1, <2>1, Zenon DEF Writes
<1>6. QED
  BY <1>2, <1>3, <1>4, <1>5

\* And of the others.
LEMMA OtherLists ==
  ASSUME NEW name \in EventName \ {"ContribReceived", "ContribReconciled",
                                   "TrancheReleased", "DisputeOpened"}
  PROVE  \/ Writes(name) = <<"transaction">>
         \/ \E a \in {"campaign"} \cup EventName : Writes(name) = <<a, "transaction">>
         \/ Writes(name) = <<"verdict", "resolved", "transaction">>
<1>1. CASE name = "CampaignCreated"
  <2>1. Handler(name) = <<"campaign">>
    BY <1>1 DEF Handler
  <2>2. Writes(name) = <<"campaign", "transaction">>
    BY <2>1, AppendTuples DEF Writes
  <2>3. QED
    BY <2>2
<1>2. CASE name = "DisputeResolved"
  <2>1. Handler(name) = <<"verdict", "resolved">>
    BY <1>2 DEF Handler
  <2>2. Append(<<"verdict", "resolved">>, "transaction") = <<"verdict", "resolved", "transaction">>
    BY AppendTuples
  <2>3. QED
    BY <2>1, <2>2, Zenon DEF Writes
<1>3. CASE name \in {"RefundClaimed", "ReturnClaimed"}
  <2>1. Handler(name) = <<>>
    BY <1>3 DEF Handler
  <2>2. Writes(name) = <<"transaction">>
    BY <2>1, AppendTuples, Zenon DEF Writes
  <2>3. QED
    BY <2>2
<1>4. CASE name \notin {"CampaignCreated", "DisputeResolved", "RefundClaimed", "ReturnClaimed"}
  <2>1. Handler(name) = <<name>>
    BY <1>4 DEF Handler
  <2>2. Writes(name) = <<name, "transaction">>
    BY <2>1, AppendTuples DEF Writes
  <2>3. QED
    BY <2>2
<1>5. QED
  BY <1>1, <1>2, <1>3, <1>4

\* Where in its handler, a list of writes, each write stands.
Placed(name, list, i) ==
  /\ list[i] = "investment" <=> name = "ContribReceived" /\ i = 1
  /\ list[i] = "increment" <=> \/ name = "ContribReceived" /\ i = 2
                               \/ name = "ContribReconciled" /\ i = 1
  /\ list[i] = "tranche" <=> name = "TrancheReleased" /\ i = 1
  /\ list[i] = "dispute" <=> name = "DisputeOpened" /\ i = 1
  /\ list[i] = "transaction" <=> i = Len(list)
  /\ name \in {"ContribReceived", "TrancheReleased", "DisputeOpened"} => Len(list) = 3
  /\ name = "ContribReconciled" => Len(list) = 2

\* An investment is written first and incremented second, a reconciliation has but the
\* increment, and the audit row is the last write of every event.
LEMMA PlaceOfWrite ==
  ASSUME NEW name \in EventName, NEW i \in 1 .. Len(Writes(name))
  PROVE  Len(Writes(name)) \in Nat /\ Placed(name, Writes(name), i)
<1>1. CASE name = "ContribReceived"
  <2>1. Writes(name) = <<"investment", "increment", "transaction">>
    BY <1>1, HandlerLists, Zenon
  <2>2. /\ Len(Writes(name)) = 3
        /\ Writes(name)[1] = "investment" /\ Writes(name)[2] = "increment"
        /\ Writes(name)[3] = "transaction"
    BY <2>1
  <2>3. i = 1 \/ i = 2 \/ i = 3
    BY <2>2
  <2>4. CASE i = 1
    BY <1>1, <2>2, <2>4 DEF Placed
  <2>5. CASE i = 2
    BY <1>1, <2>2, <2>5 DEF Placed
  <2>6. CASE i = 3
    BY <1>1, <2>2, <2>6 DEF Placed
  <2>7. QED
    BY <2>3, <2>4, <2>5, <2>6
<1>2. CASE name = "ContribReconciled"
  <2>1. Writes(name) = <<"increment", "transaction">>
    BY <1>2, HandlerLists, Zenon
  <2>2. /\ Len(Writes(name)) = 2
        /\ Writes(name)[1] = "increment" /\ Writes(name)[2] = "transaction"
    BY <2>1
  <2>3. i = 1 \/ i = 2
    BY <2>2
  <2>4. CASE i = 1
    BY <1>2, <2>2, <2>4 DEF Placed
  <2>5. CASE i = 2
    BY <1>2, <2>2, <2>5 DEF Placed
  <2>6. QED
    BY <2>3, <2>4, <2>5
<1>3. CASE name = "TrancheReleased"
  <2>1. Writes(name) = <<"tranche", "inProduction", "transaction">>
    BY <1>3, HandlerLists, Zenon
  <2>2. /\ Len(Writes(name)) = 3
        /\ Writes(name)[1] = "tranche" /\ Writes(name)[2] = "inProduction"
        /\ Writes(name)[3] = "transaction"
    BY <2>1
  <2>3. i = 1 \/ i = 2 \/ i = 3
    BY <2>2
  <2>4. CASE i = 1
    BY <1>3, <2>2, <2>4 DEF Placed
  <2>5. CASE i = 2
    BY <1>3, <2>2, <2>5 DEF Placed
  <2>6. CASE i = 3
    BY <1>3, <2>2, <2>6 DEF Placed
  <2>7. QED
    BY <2>3, <2>4, <2>5, <2>6
<1>4. CASE name = "DisputeOpened"
  <2>1. Writes(name) = <<"dispute", "disputed", "transaction">>
    BY <1>4, HandlerLists, Zenon
  <2>2. /\ Len(Writes(name)) = 3
        /\ Writes(name)[1] = "dispute" /\ Writes(name)[2] = "disputed"
        /\ Writes(name)[3] = "transaction"
    BY <2>1
  <2>3. i = 1 \/ i = 2 \/ i = 3
    BY <2>2
  <2>4. CASE i = 1
    BY <1>4, <2>2, <2>4 DEF Placed
  <2>5. CASE i = 2
    BY <1>4, <2>2, <2>5 DEF Placed
  <2>6. CASE i = 3
    BY <1>4, <2>2, <2>6 DEF Placed
  <2>7. QED
    BY <2>3, <2>4, <2>5, <2>6
<1>5. CASE name \notin {"ContribReceived", "ContribReconciled", "TrancheReleased", "DisputeOpened"}
  <2>1. CASE Writes(name) = <<"transaction">>
    BY <1>5, <2>1 DEF Placed
  <2>2. ASSUME NEW a \in {"campaign"} \cup EventName, Writes(name) = <<a, "transaction">>
        PROVE  Len(Writes(name)) \in Nat /\ Placed(name, Writes(name), i)
    <3>1. a \notin {"investment", "increment", "tranche", "dispute", "transaction"}
      BY DEF EventName
    <3>2. QED
      BY <1>5, <2>2, <3>1 DEF Placed
  <2>3. CASE Writes(name) = <<"verdict", "resolved", "transaction">>
    BY <1>5, <2>3 DEF Placed
  <2>4. QED
    BY <1>5, <2>1, <2>2, <2>3, OtherLists
<1>6. QED
  BY <1>1, <1>2, <1>3, <1>4, <1>5

\* Every handler ends with the audit row, so it has a first write; none has a fourth.
LEMMA ListsNotEmpty ==
  ASSUME NEW name \in EventName
  PROVE  Len(Writes(name)) \in 1 .. 3
<1>1. CASE name \in {"ContribReceived", "ContribReconciled", "TrancheReleased", "DisputeOpened"}
  <2>1. \/ Writes(name) = <<"investment", "increment", "transaction">>
        \/ Writes(name) = <<"increment", "transaction">>
        \/ Writes(name) = <<"tranche", "inProduction", "transaction">>
        \/ Writes(name) = <<"dispute", "disputed", "transaction">>
    BY <1>1, HandlerLists, Zenon
  <2>2. Len(Writes(name)) \in {2, 3}
    BY <2>1
  <2>3. QED
    BY <2>2
<1>2. CASE name \notin {"ContribReceived", "ContribReconciled", "TrancheReleased", "DisputeOpened"}
  <2>1. CASE Writes(name) = <<"transaction">>
    BY <2>1
  <2>2. ASSUME NEW a, Writes(name) = <<a, "transaction">>
        PROVE  Len(Writes(name)) = 2
    BY <2>2
  <2>3. CASE Writes(name) = <<"verdict", "resolved", "transaction">>
    BY <2>3
  <2>4. QED
    BY <1>2, <2>1, <2>2, <2>3, OtherLists
<1>3. QED
  BY <1>1, <1>2

-----------------------------------------------------------------------------
(* The work on an event. *)

Working == {"looking", "writing"}

\* What the writes before step i of event k's handler have left behind.
Effects(k, i) ==
  /\ chain[k].name = "ContribReceived" =>
       /\ i >= 2 => k \in db.investments
       /\ i = 2 => ~BagIn(k, tally.counted)
       /\ i >= 3 => BagIn(k, tally.counted)
  /\ chain[k].name = "ContribReconciled" => (i >= 2 => BagIn(k, tally.counted))
  /\ chain[k].name = "TrancheReleased" => (i >= 2 => k \in db.tranches)
  /\ chain[k].name = "DisputeOpened" => (i >= 2 => db.disputes[chain[k].id] # "None")

\* The increment of event k is still to come, at step i of its handler.
ToCount(k, i) ==
  \/ chain[k].name = "ContribReceived" /\ i <= 2
  \/ chain[k].name = "ContribReconciled" /\ i <= 1

\* A poll that works on an event holds its id, and answers for the steps it has done.
WorkKnown(l) ==
  /\ l.event \in DOMAIN chain /\ l.event \in processed
  /\ l.at = "looking" => Increments(l.event) <= tally.crashes
  /\ l.at = "writing" =>
       /\ l.step \in 1 .. Len(Writes(chain[l.event].name))
       /\ Effects(l.event, l.step)
       /\ ToCount(l.event, l.step) => Increments(l.event) <= tally.crashes

RowTypes ==
  /\ DOMAIN db.disputes = CampaignIds
  /\ db.transactions \subseteq DOMAIN chain
  /\ DOMAIN tally.counted \subseteq DOMAIN chain

NobodyShares ==
  \A p, q \in Polls :
    p # q /\ poll[p].at \in Working /\ poll[q].at \in Working => poll[p].event # poll[q].event

\* The inductive invariant behind the counts and the audit rows: no two polls work on
\* the same event, since its id is held from before the first await; each has made
\* exactly the writes it has passed; and an event may have been counted once for each
\* life of the process that is over, and once more only if this one holds its id.
WorkInv ==
  /\ RowTypes
  /\ \A p \in Polls : poll[p].at \in Working => WorkKnown(poll[p])
  /\ NobodyShares
  /\ \A k \in DOMAIN chain : k \notin processed => Increments(k) <= tally.crashes
  /\ CountedOnce
  /\ AuditedMeansApplied

\* How often an event is counted is a number, not zero once it is in the bag.
LEMMA IncrementsType ==
  ASSUME tally \in Tally, NEW k
  PROVE  /\ Increments(k) \in Nat
         /\ BagIn(k, tally.counted) <=> Increments(k) > 0
<1>1. PICK S \in SUBSET Nat : tally.counted \in [S -> Nat \ {0}]
  BY DEF Tally, Bag
<1>2. CASE k \in S
  BY <1>1, <1>2 DEF Increments, BagIn, BagToSet
<1>3. CASE k \notin S
  BY <1>1, <1>3 DEF Increments, BagIn, BagToSet
<1>4. QED
  BY <1>2, <1>3

\* Steps that touch no table and no count: of the polls that go on working, each
\* still holds its event.
LEMMA RestKeepsWork ==
  ASSUME WorkInv, CursorInv, CursorInv', ChainInv, ChainInv', ChainGrows, UNCHANGED db,
         tally'.counted = tally.counted,
         \/ processed' = processed /\ tally'.crashes = tally.crashes
         \/ tally'.crashes = tally.crashes + 1,
         \A p \in Polls : \/ poll'[p].at \notin Working
                          \/ poll'[p] = poll[p] /\ processed' = processed
  PROVE  WorkInv'
<1>1. tally \in Tally /\ tally' \in Tally /\ tally.crashes \in Nat /\ tally'.crashes \in Nat
  BY DEF CursorInv, CursorTypes, Tally
<1>2. tally.crashes <= tally'.crashes
  BY <1>1
<1>3. \A k : /\ Increments(k)' = Increments(k)
             /\ BagIn(k, tally.counted)' <=> BagIn(k, tally.counted)
  BY DEF Increments, BagIn, BagToSet
<1>4. \A k : Increments(k) \in Nat /\ (BagIn(k, tally.counted) <=> Increments(k) > 0)
  BY <1>1, IncrementsType
<1>5. ASSUME NEW k \in DOMAIN chain' \ DOMAIN chain
      PROVE  Increments(k) = 0 /\ ~BagIn(k, tally.counted)
  BY <1>4, <1>5 DEF WorkInv, RowTypes, BagIn, BagToSet
<1>6. RowTypes'
  BY DEF WorkInv, RowTypes, ChainGrows
<1>7. ASSUME NEW l, WorkKnown(l), processed' = processed PROVE WorkKnown(l)'
  <2>1. l.event \in DOMAIN chain /\ l.event \in DOMAIN chain' /\ chain'[l.event] = chain[l.event]
    BY <1>7 DEF WorkKnown, ChainGrows
  <2>2. \A i : Effects(l.event, i) => Effects(l.event, i)'
    BY <1>3, <2>1 DEF Effects
  <2>3. \A i : ToCount(l.event, i)' <=> ToCount(l.event, i)
    BY <2>1 DEF ToCount
  <2>4. Increments(l.event) \in Nat /\ Increments(l.event)' = Increments(l.event)
    BY <1>3, <1>4
  <2>5. QED
    BY <1>1, <1>2, <1>7, <2>1, <2>2, <2>3, <2>4 DEF WorkKnown
<1>8. ASSUME NEW p \in Polls, poll'[p].at \in Working
      PROVE  poll'[p] = poll[p] /\ WorkKnown(poll[p])'
  BY <1>7, <1>8 DEF WorkInv
<1>9. NobodyShares'
  BY <1>8 DEF WorkInv, NobodyShares
<1>10. ASSUME NEW k \in DOMAIN chain' PROVE Increments(k) <= 1 + tally.crashes
  BY <1>1, <1>4, <1>5, <1>10 DEF WorkInv, CountedOnce
<1>11. ASSUME NEW k \in DOMAIN chain', k \notin processed'
       PROVE  Increments(k)' <= tally'.crashes
  <2>1. CASE processed' = processed /\ tally'.crashes = tally.crashes
    BY <1>1, <1>3, <1>4, <1>5, <1>11, <2>1 DEF WorkInv
  <2>2. CASE tally'.crashes = tally.crashes + 1
    BY <1>1, <1>3, <1>4, <1>10, <1>11, <2>2
  <2>3. QED
    BY <2>1, <2>2
<1>12. CountedOnce'
  <2>1. ASSUME NEW k \in DOMAIN chain'
        PROVE  /\ chain'[k].name = "ContribReceived" =>
                    /\ Increments(k)' <= 1
                    /\ BagIn(k, tally.counted)' => k \in db'.investments
               /\ Increments(k)' <= 1 + tally'.crashes
    <3>1. Increments(k)' <= 1 + tally'.crashes
      BY <1>1, <1>2, <1>3, <1>4, <1>10, <2>1
    <3>2. CASE k \in DOMAIN chain
      BY <1>3, <3>1, <3>2 DEF WorkInv, CountedOnce, ChainGrows
    <3>3. CASE k \notin DOMAIN chain
      BY <1>3, <1>5, <2>1, <3>1, <3>3
    <3>4. QED
      BY <3>2, <3>3
  <2>2. QED
    BY <2>1 DEF CountedOnce
<1>13. AuditedMeansApplied'
  <2>1. \A k \in db.transactions : k \in DOMAIN chain /\ chain'[k] = chain[k]
    BY DEF WorkInv, RowTypes, ChainGrows
  <2>2. QED
    BY <1>3, <2>1 DEF WorkInv, AuditedMeansApplied
<1>14. QED
  BY <1>6, <1>8, <1>9, <1>11, <1>12, <1>13 DEF WorkInv

\* A poll that stops working on its event, or was not working on one.
LEMMA RestingPoll ==
  ASSUME WorkInv, CursorInv, CursorInv', ChainInv, UNCHANGED <<chain, db, processed>>,
         tally'.counted = tally.counted, tally'.crashes = tally.crashes,
         NEW p \in Polls, NEW l, Steps(p, l), l.at \notin Working
  PROVE  WorkInv'
<1>1. ChainInv' /\ ChainGrows
  BY SameChain
<1>2. /\ DOMAIN poll = Polls /\ poll'[p] = l
      /\ \A q \in Polls : q # p => poll'[q] = poll[q]
  BY DEF CursorInv, CursorTypes, Steps
<1>3. \A q \in Polls : poll'[q].at \notin Working \/ poll'[q] = poll[q]
  BY <1>2
<1>4. QED
  BY <1>1, <1>3, RestKeepsWork

\* What all the actions that rest a poll leave alone.
LEMMA RestingActions ==
  ASSUME CursorInv, NEW p \in Polls,
         \/ StartPoll(p) \/ ChooseStart(p) \/ Fetch(p) \/ EndPage(p) \/ SaveCursor(p) \/ Fail(p)
         \/ LookUp(p) /\ poll[p].event \in db.transactions
  PROVE  /\ UNCHANGED <<db, processed>>
         /\ tally'.counted = tally.counted /\ tally'.crashes = tally.crashes
         /\ \E l : Steps(p, l) /\ l.at \notin Working
<1> DEFINE Goal == /\ UNCHANGED <<db, processed>>
                   /\ tally'.counted = tally.counted /\ tally'.crashes = tally.crashes
                   /\ \E l : Steps(p, l) /\ l.at \notin Working
<1>1. poll[p] \in Local /\ tally \in Tally
  BY DEF CursorInv, CursorTypes
<1>2. Idle.at \notin Working
  BY LocalTypes DEF Working
<1>3. Leave(p).at \notin Working
  BY <1>1, LeaveLocal DEF Turned, Working
<1>4. CASE StartPoll(p)
  <2>1. [Idle EXCEPT !.at = "started", !.latest = Tip].at \notin Working
    BY DEF Idle, Working
  <2>2. tally'.counted = tally.counted /\ tally'.crashes = tally.crashes
    BY <1>1, <1>4 DEF StartPoll, Tally
  <2>3. QED
    BY <1>4, <2>1, <2>2 DEF StartPoll
<1>5. CASE ChooseStart(p)
  <2>1. \A n : [poll[p] EXCEPT !.at = "fetching", !.from = n].at \notin Working
    BY <1>1 DEF Local, Working
  <2>2. QED
    BY <1>2, <1>5, <2>1 DEF ChooseStart
<1>6. CASE Fetch(p)
  <2>1. \A m, n : [poll[p] EXCEPT !.at = "choosing", !.pages = m, !.to = n].at \notin Working
    BY <1>1 DEF Local, Working
  <2>2. QED
    BY <1>6, <2>1 DEF Fetch
<1>7. CASE EndPage(p)
  <2>1. /\ \A n : [Idle EXCEPT !.at = "saving", !.latest = n].at \notin Working
        /\ \A n : [poll[p] EXCEPT !.at = "fetching", !.from = n].at \notin Working
    BY <1>1 DEF Idle, Local, Working
  <2>2. UNCHANGED <<db, processed, tally>>
    BY <1>7 DEF EndPage
  <2>3. \/ \E n : Steps(p, [Idle EXCEPT !.at = "saving", !.latest = n])
        \/ \E n : Steps(p, [poll[p] EXCEPT !.at = "fetching", !.from = n])
    BY <1>7 DEF EndPage
  <2>4. QED
    BY <2>1, <2>2, <2>3
<1>8. CASE SaveCursor(p)
  BY <1>2, <1>8 DEF SaveCursor
<1>9. CASE Fail(p)
  <2>1. tally'.counted = tally.counted /\ tally'.crashes = tally.crashes
    BY <1>1, <1>9 DEF Fail, Tally
  <2>2. QED
    BY <1>2, <1>3, <1>9, <2>1 DEF Fail
<1>10. CASE LookUp(p) /\ poll[p].event \in db.transactions
  BY <1>3, <1>10 DEF LookUp
<1>11. QED
  BY <1>4, <1>5, <1>6, <1>7, <1>8, <1>9, <1>10

\* Taking an event: its id was held by nobody, so nobody works on it.
LEMMA TakeKeepsWork ==
  ASSUME WorkInv, CursorInv, CursorInv', ChainInv, UNCHANGED chain, NEW p \in Polls, TakeEvent(p)
  PROVE  WorkInv'
<1>1. PICK k \in Fresh(p) :
        /\ processed' = processed \cup {k}
        /\ tally' = [tally EXCEPT !.met = @ \cup {k}]
        /\ Steps(p, [poll[p] EXCEPT !.at = "looking", !.event = k])
  BY DEF TakeEvent
<1>2. poll[p].at = "choosing" /\ UNCHANGED db
  BY DEF TakeEvent
<1>3. poll[p] \in Local /\ tally \in Tally /\ CursorTypes
  BY DEF CursorInv, CursorTypes
<1>4. k \in DOMAIN chain /\ k \notin processed
  <2>1. 1 <= poll[p].from /\ poll[p].to <= Len(chain)
    BY <1>2 DEF CursorInv, PollKnows, PageKnown, OnPage
  <2>2. DOMAIN chain = 1 .. Len(chain) /\ Len(chain) \in Nat
    BY LenProperties DEF ChainInv
  <2>3. QED
    BY <1>3, <2>1, <2>2 DEF Fresh, Local
<1>5. PICK l \in Local : Steps(p, l) /\ l.at = "looking" /\ l.event = k
  <2> DEFINE m == [poll[p] EXCEPT !.at = "looking", !.event = k]
  <2>1. k \in Nat
    BY <1>4, EntryFields DEF ChainInv
  <2>2. Turned(m, poll[p], "looking") /\ m.event = k
    BY <1>3, <2>1, EventLocals
  <2>3. Steps(p, m)
    BY <1>1
  <2> HIDE DEF m
  <2>4. QED
    BY <2>2, <2>3 DEF Turned
<1>7. poll'[p] = l /\ \A q \in Polls : q # p => poll'[q] = poll[q]
  BY <1>3, <1>5, OnePollMoves
<1>8. tally'.counted = tally.counted /\ tally'.crashes = tally.crashes
  BY <1>1, <1>3 DEF Tally
<1>9. \A j : Increments(j)' = Increments(j)
  BY <1>8 DEF Increments, BagIn, BagToSet
<1>10. ASSUME NEW m, WorkKnown(m) PROVE WorkKnown(m)' /\ m.event # k
  <2>1. \A i : Effects(m.event, i)' <=> Effects(m.event, i)
    BY <1>2, <1>8 DEF Effects
  <2>2. \A i : ToCount(m.event, i)' <=> ToCount(m.event, i)
    BY DEF ToCount
  <2>3. QED
    BY <1>1, <1>4, <1>8, <1>9, <1>10, <2>1, <2>2 DEF WorkKnown
<1>11. WorkKnown(l)'
  <2>1. Increments(k) <= tally.crashes
    BY <1>4 DEF WorkInv
  <2>2. QED
    BY <1>1, <1>4, <1>5, <1>8, <1>9, <2>1 DEF WorkKnown
<1>12. ASSUME NEW q \in Polls, poll'[q].at \in Working PROVE WorkKnown(poll[q])'
  <2>1. CASE q = p
    BY <1>7, <1>11, <2>1
  <2>2. CASE q # p
    BY <1>7, <1>10, <1>12, <2>2 DEF WorkInv
  <2>3. QED
    BY <2>1, <2>2
<1>13. NobodyShares'
  <2>1. \A q \in Polls : poll[q].at \in Working => poll[q].event # k
    BY <1>10 DEF WorkInv
  <2>2. QED
    BY <1>5, <1>7, <2>1 DEF WorkInv, NobodyShares
<1>14. RowTypes' /\ AuditedMeansApplied'
  BY <1>2, <1>8 DEF WorkInv, RowTypes, AuditedMeansApplied
<1>15. /\ CountedOnce'
       /\ \A j \in DOMAIN chain' : j \notin processed' => Increments(j)' <= tally'.crashes
  BY <1>1, <1>2, <1>8, <1>9 DEF WorkInv, CountedOnce
<1>16. QED
  BY <1>12, <1>13, <1>14, <1>15 DEF WorkInv

\* No audit row yet: the first write is next, and nothing has been done.
LEMMA LookUpKeepsWork ==
  ASSUME WorkInv, CursorInv, CursorInv', ChainInv, UNCHANGED chain, NEW p \in Polls, LookUp(p),
         poll[p].event \notin db.transactions
  PROVE  WorkInv'
<1> DEFINE k == poll[p].event
<1>1. /\ poll[p].at = "looking" /\ UNCHANGED <<db, cursor, last, processed, tally>>
      /\ Steps(p, [poll[p] EXCEPT !.at = "writing", !.step = 1])
  BY DEF LookUp
<1>2. poll[p] \in Local /\ tally \in Tally /\ CursorTypes
  BY DEF CursorInv, CursorTypes
<1>3. PICK l \in Local : Steps(p, l) /\ l.at = "writing" /\ l.event = poll[p].event /\ l.step = 1
  <2> DEFINE m == [poll[p] EXCEPT !.at = "writing", !.step = 1]
  <2>1. Turned(m, poll[p], "writing") /\ m.event = poll[p].event /\ m.step = 1
    BY <1>2, EventLocals, ZenonT(60)
  <2>2. Steps(p, m)
    BY <1>1
  <2> HIDE DEF m
  <2>3. QED
    BY <2>1, <2>2 DEF Turned
<1>4. poll'[p] = l /\ \A q \in Polls : q # p => poll'[q] = poll[q]
  BY <1>2, <1>3, OnePollMoves
<1>5. WorkKnown(poll[p])
  BY <1>1 DEF WorkInv, Working
<1>6. WorkKnown(l)
  <2>1. l.event \in DOMAIN chain /\ Increments(l.event) <= tally.crashes
    BY <1>1, <1>3, <1>5 DEF WorkKnown
  <2>2. Effects(l.event, l.step)
    BY <1>3 DEF Effects
  <2>3. 1 \in 1 .. Len(Writes(chain[l.event].name))
    <3>1. chain[l.event].name \in EventName
      BY <2>1, EntryFields DEF ChainInv
    <3>2. PICK n \in 1 .. 3 : n = Len(Writes(chain[l.event].name))
      BY <3>1, ListsNotEmpty
    <3>3. 1 \in 1 .. n
      OBVIOUS
    <3>4. QED
      BY <3>2, <3>3, Zenon
  <2>4. QED
    BY <1>3, <1>5, <2>1, <2>2, <2>3 DEF WorkKnown
<1>7. ASSUME NEW m, WorkKnown(m) PROVE WorkKnown(m)'
  <2>1. \A i : Effects(m.event, i)' <=> Effects(m.event, i)
    BY <1>1 DEF Effects
  <2>2. \A i : ToCount(m.event, i)' <=> ToCount(m.event, i)
    BY DEF ToCount
  <2>3. Increments(m.event)' = Increments(m.event)
    BY <1>1 DEF Increments
  <2>4. QED
    BY <1>1, <1>7, <2>1, <2>2, <2>3 DEF WorkKnown
<1>8. ASSUME NEW q \in Polls, poll'[q].at \in Working PROVE WorkKnown(poll[q])'
  <2>1. CASE q = p
    BY <1>4, <1>6, <1>7, <2>1
  <2>2. CASE q # p
    BY <1>4, <1>7, <1>8, <2>2 DEF WorkInv
  <2>3. QED
    BY <2>1, <2>2
<1>9. NobodyShares'
  BY <1>1, <1>3, <1>4 DEF WorkInv, NobodyShares, Working
<1>10. RowTypes' /\ AuditedMeansApplied' /\ CountedOnce'
  BY <1>1 DEF WorkInv, RowTypes, AuditedMeansApplied, CountedOnce, Increments
<1>11. \A j \in DOMAIN chain' : j \notin processed' => Increments(j)' <= tally'.crashes
  BY <1>1 DEF WorkInv, Increments
<1>12. QED
  BY <1>8, <1>9, <1>10, <1>11 DEF WorkInv

\* What one accepted write, of event k, does to the tables and to the counts: it adds
\* to them, and to nothing of any other event's.
Wrote(k, write) ==
  /\ db.investments \subseteq db'.investments /\ db.tranches \subseteq db'.tranches
  /\ \A j : j # k => (j \in db'.investments <=> j \in db.investments)
  /\ write = "investment" => k \notin db.investments /\ k \in db'.investments
  /\ write = "tranche" => k \in db'.tranches
  /\ db'.transactions = IF write = "transaction" THEN db.transactions \cup {k}
                        ELSE db.transactions
  /\ DOMAIN db'.disputes = CampaignIds
  /\ \A id \in CampaignIds : db.disputes[id] # "None" => db'.disputes[id] # "None"
  /\ write = "dispute" => db'.disputes[chain[k].id] # "None"
  /\ tally'.crashes = tally.crashes
  /\ \A j : j # k => /\ Increments(j)' = Increments(j)
                     /\ BagIn(j, tally.counted)' <=> BagIn(j, tally.counted)
  /\ write = "increment" => Increments(k)' = Increments(k) + 1
  /\ write # "increment" => Increments(k)' = Increments(k)
  /\ BagIn(k, tally.counted)' <=> write = "increment" \/ BagIn(k, tally.counted)
  /\ DOMAIN tally'.counted \subseteq DOMAIN tally.counted \cup {k}

\* The rows.
LEMMA WrittenRows ==
  ASSUME DOMAIN db.disputes = CampaignIds, NEW k, chain[k].id \in CampaignIds, NEW write,
         Accepted(db, k, write), db' = Written(db, k, write)
  PROVE  /\ db.investments \subseteq db'.investments /\ db.tranches \subseteq db'.tranches
         /\ \A j : j # k => (j \in db'.investments <=> j \in db.investments)
         /\ write = "investment" => k \notin db.investments /\ k \in db'.investments
         /\ write = "tranche" => k \in db'.tranches
         /\ db'.transactions = IF write = "transaction" THEN db.transactions \cup {k}
                               ELSE db.transactions
         /\ DOMAIN db'.disputes = CampaignIds
         /\ \A id \in CampaignIds : db.disputes[id] # "None" => db'.disputes[id] # "None"
         /\ write = "dispute" => db'.disputes[chain[k].id] # "None"
<1>1. /\ db'.investments = Put(db.investments, k, write = "investment")
      /\ db'.tranches = Put(db.tranches, k, write = "tranche")
      /\ db'.transactions = Put(db.transactions, k, write = "transaction")
      /\ db'.disputes = [db.disputes EXCEPT ![chain[k].id] = DisputeRow(@, write)]
  BY DEF Written
<1>2. /\ db'.investments = IF write = "investment" THEN db.investments \cup {k} ELSE db.investments
      /\ db'.tranches = IF write = "tranche" THEN db.tranches \cup {k} ELSE db.tranches
      /\ db'.transactions = IF write = "transaction" THEN db.transactions \cup {k}
                            ELSE db.transactions
  BY <1>1 DEF Put
<1>3. write = "investment" => k \notin db.investments
  BY DEF Accepted
<1>4. /\ DisputeRow(db.disputes[chain[k].id], "dispute") = "Open"
      /\ db.disputes[chain[k].id] # "None" => DisputeRow(db.disputes[chain[k].id], write) # "None"
  BY DEF DisputeRow
<1>5. /\ DOMAIN db'.disputes = CampaignIds
      /\ db'.disputes[chain[k].id] = DisputeRow(db.disputes[chain[k].id], write)
      /\ \A id \in CampaignIds : id # chain[k].id => db'.disputes[id] = db.disputes[id]
  BY <1>1
<1>6. QED
  BY <1>2, <1>3, <1>4, <1>5

\* And the counts.
LEMMA WrittenCounts ==
  ASSUME tally \in Tally, NEW k \in Nat, NEW write,
         IF write = "increment" THEN Counts(k) ELSE UNCHANGED tally
  PROVE  /\ tally'.crashes = tally.crashes
         /\ \A j : j # k => /\ Increments(j)' = Increments(j)
                            /\ BagIn(j, tally.counted)' <=> BagIn(j, tally.counted)
         /\ write = "increment" => Increments(k)' = Increments(k) + 1
         /\ write # "increment" => Increments(k)' = Increments(k)
         /\ BagIn(k, tally.counted)' <=> write = "increment" \/ BagIn(k, tally.counted)
         /\ DOMAIN tally'.counted \subseteq DOMAIN tally.counted \cup {k}
<1>1. CASE write # "increment"
  BY <1>1 DEF Increments, BagIn, BagToSet
<1>2. CASE write = "increment"
  <2> DEFINE B == tally.counted
             C == SetToBag({k}) (+) B
  <2>1. tally'.crashes = tally.crashes /\ tally'.counted = C
    BY <1>2, CountingTypes
  <2>2. B \in Bag
    BY DEF Tally
  <2>3. /\ DOMAIN C = DOMAIN B \cup {k}
        /\ C[k] = 1 + (IF k \in DOMAIN B THEN B[k] ELSE 0)
        /\ \A j \in DOMAIN B : j # k => C[j] = B[j]
    BY <2>2, BagGrows
  <2>4. Increments(k) \in Nat
    BY IncrementsType
  <2> HIDE DEF C
  <2>5. /\ Increments(k)' = C[k]
        /\ \A j : Increments(j)' = IF j \in DOMAIN C THEN C[j] ELSE 0
        /\ \A j : BagIn(j, tally.counted)' <=> j \in DOMAIN C
        /\ \A j : Increments(j) = IF j \in DOMAIN B THEN B[j] ELSE 0
        /\ \A j : BagIn(j, tally.counted) <=> j \in DOMAIN B
    BY <2>1, <2>3 DEF Increments, BagIn, BagToSet
  <2> HIDE DEF B
  <2>6. Increments(k)' = Increments(k) + 1
    BY <2>3, <2>4, <2>5
  <2>7. \A j : j # k => /\ Increments(j)' = Increments(j)
                        /\ BagIn(j, tally.counted)' <=> BagIn(j, tally.counted)
    BY <2>3, <2>5
  <2>8. BagIn(k, tally.counted)'
    BY <2>3, <2>5
  <2>9. QED
    BY <1>2, <2>1, <2>3, <2>6, <2>7, <2>8 DEF B
<1>3. QED
  BY <1>1, <1>2

\* The write at step i of event k's handler leaves what is behind step i + 1.
LEMMA EffectsGrow ==
  ASSUME CountedOnce, UNCHANGED chain, NEW k \in DOMAIN chain,
         chain[k].id \in CampaignIds, NEW i \in 1 .. 3, NEW list,
         Placed(chain[k].name, list, i), Effects(k, i), Wrote(k, list[i])
  PROVE  Effects(k, i + 1)'
<1>1. ASSUME chain[k].name = "ContribReceived"
      PROVE  /\ i + 1 >= 2 => k \in db'.investments
             /\ i + 1 = 2 => ~BagIn(k, tally.counted)'
             /\ i + 1 >= 3 => BagIn(k, tally.counted)'
  <2>1. (list[i] = "investment" <=> i = 1) /\ (list[i] = "increment" <=> i = 2)
    BY <1>1 DEF Placed
  <2>2. BagIn(k, tally.counted) => k \in db.investments
    BY <1>1 DEF CountedOnce
  <2>3. CASE i = 1
    BY <2>1, <2>2, <2>3 DEF Wrote
  <2>4. CASE i = 2
    BY <1>1, <2>1, <2>4 DEF Effects, Wrote
  <2>5. CASE i = 3
    BY <1>1, <2>1, <2>5 DEF Effects, Wrote
  <2>6. QED
    BY <2>3, <2>4, <2>5
<1>2. ASSUME chain[k].name = "ContribReconciled"
      PROVE  i + 1 >= 2 => BagIn(k, tally.counted)'
  BY <1>2 DEF Placed, Effects, Wrote
<1>3. ASSUME chain[k].name = "TrancheReleased"
      PROVE  i + 1 >= 2 => k \in db'.tranches
  BY <1>3 DEF Placed, Effects, Wrote
<1>4. ASSUME chain[k].name = "DisputeOpened"
      PROVE  i + 1 >= 2 => db'.disputes[chain[k].id] # "None"
  BY <1>4 DEF Placed, Effects, Wrote
<1>5. QED
  BY <1>1, <1>2, <1>3, <1>4 DEF Effects

\* A write of the event the poll holds.
LEMMA WriteKeepsWork ==
  ASSUME WorkInv, CursorInv, CursorInv', ChainInv, UNCHANGED chain, NEW p \in Polls, Write(p)
  PROVE  WorkInv'
<1>1. poll[p] \in Local /\ tally \in Tally /\ tally' \in Tally /\ CursorTypes
  BY DEF CursorInv, CursorTypes
<1>2. PICK k, i : k = poll[p].event /\ i = poll[p].step
  OBVIOUS
<1> DEFINE list == Writes(chain[k].name)
<1>3. poll[p].at = "writing" /\ UNCHANGED <<cursor, last, processed>>
  BY DEF Write
<1>4. /\ k \in DOMAIN chain /\ k \in processed /\ i \in 1 .. Len(list) /\ Effects(k, i)
      /\ ToCount(k, i) => Increments(k) <= tally.crashes
  BY <1>2, <1>3 DEF WorkInv, WorkKnown, Working
<1>5. k \in Nat /\ chain[k].id \in CampaignIds /\ chain[k].name \in EventName
  BY <1>4, EntryFields DEF ChainInv
<1>6. Len(list) \in 1 .. 3 /\ i \in 1 .. 3 /\ Placed(chain[k].name, list, i)
  <2>1. Len(list) \in 1 .. 3
    BY <1>5, ListsNotEmpty
  <2>2. Placed(chain[k].name, list, i)
    BY <1>4, <1>5, PlaceOfWrite
  <2>3. i \in 1 .. Len(list)
    BY <1>4
  <2> HIDE DEF list
  <2>4. PICK n \in 1 .. 3 : n = Len(list)
    BY <2>1
  <2>5. i \in 1 .. n
    BY <2>3, <2>4
  <2>6. i \in 1 .. 3
    BY <2>5
  <2>7. QED
    BY <2>1, <2>2, <2>6
<1>7. CASE ~Accepted(db, k, list[i])
  <2>1. Steps(p, Leave(p)) /\ UNCHANGED <<db, tally>>
    BY <1>2, <1>7 DEF Write
  <2>2. Leave(p).at \notin Working
    BY <1>1, LeaveLocal DEF Turned, Working
  <2>3. QED
    BY <1>1, <1>3, <2>1, <2>2, RestingPoll
<1>8. CASE Accepted(db, k, list[i])
  <2>1. /\ db' = Written(db, k, list[i])
        /\ IF list[i] = "increment" THEN Counts(k) ELSE UNCHANGED tally
        /\ IF i < Len(list) THEN Steps(p, [poll[p] EXCEPT !.step = @ + 1]) ELSE Steps(p, Leave(p))
    BY <1>2, <1>8 DEF Write, Counts
  <2>2. Wrote(k, list[i])
    <3>1. DOMAIN db.disputes = CampaignIds
      BY DEF WorkInv, RowTypes
    <3> DEFINE write == list[i]
    <3>2. Accepted(db, k, write) /\ db' = Written(db, k, write)
      BY <1>8, <2>1
    <3>3. IF write = "increment" THEN Counts(k) ELSE UNCHANGED tally
      BY <2>1
    <3> HIDE DEF write, list
    <3>4. Wrote(k, write)
      BY <1>1, <1>5, <3>1, <3>2, <3>3, WrittenRows, WrittenCounts DEF Wrote
    <3>5. QED
      BY <3>4 DEF write
  <2> HIDE DEF list
  <2>3. Effects(k, i + 1)'
    BY <1>4, <1>5, <1>6, <2>2, EffectsGrow DEF WorkInv
  <2>4. \A j : Increments(j) \in Nat /\ (BagIn(j, tally.counted) <=> Increments(j) > 0)
    BY <1>1, IncrementsType
  <2>5. tally.crashes \in Nat /\ tally'.crashes = tally.crashes
    BY <1>1, <2>2 DEF Wrote, Tally
  <2>6. Increments(k)' <= 1 + tally.crashes
    <3>1. CASE list[i] = "increment"
      <4>1. ToCount(k, i)
        BY <1>6, <3>1 DEF Placed, ToCount
      <4>2. QED
        BY <1>4, <2>2, <2>4, <2>5, <3>1, <4>1 DEF Wrote
    <3>2. CASE list[i] # "increment"
      BY <1>4, <2>2, <3>2 DEF Wrote, WorkInv, CountedOnce
    <3>3. QED
      BY <3>1, <3>2
  <2>7. CountedOnce'
    <3>1. ASSUME chain[k].name = "ContribReceived"
          PROVE  Increments(k)' <= 1 /\ (BagIn(k, tally.counted)' => k \in db'.investments)
      <4>1. Increments(k) <= 1 /\ (BagIn(k, tally.counted) => k \in db.investments)
        BY <1>4, <3>1 DEF WorkInv, CountedOnce
      <4>2. CASE list[i] = "increment"
        <5>1. i = 2
          BY <1>6, <3>1, <4>2 DEF Placed
        <5>2. k \in db.investments /\ ~BagIn(k, tally.counted)
          BY <1>4, <3>1, <5>1 DEF Effects
        <5>3. Increments(k) = 0
          BY <2>4, <5>2
        <5>4. QED
          BY <2>2, <4>2, <5>2, <5>3 DEF Wrote
      <4>3. CASE list[i] # "increment"
        BY <2>2, <4>1, <4>3 DEF Wrote
      <4>4. QED
        BY <4>2, <4>3
    <3>2. ASSUME NEW j \in DOMAIN chain, j # k
          PROVE  /\ Increments(j)' = Increments(j)
                 /\ BagIn(j, tally.counted)' <=> BagIn(j, tally.counted)
                 /\ j \in db'.investments <=> j \in db.investments
      BY <2>2, <3>2 DEF Wrote
    <3>3. QED
      BY <2>5, <2>6, <3>1, <3>2 DEF WorkInv, CountedOnce
  <2>8. AuditedMeansApplied'
    <3>1. ASSUME NEW j \in db.transactions
          PROVE  CASE chain'[j].name = "ContribReceived" ->
                        j \in db'.investments /\ BagIn(j, tally.counted)'
                   [] chain'[j].name = "ContribReconciled" -> BagIn(j, tally.counted)'
                   [] chain'[j].name = "TrancheReleased"   -> j \in db'.tranches
                   [] chain'[j].name = "DisputeOpened"     -> db'.disputes[chain'[j].id] # "None"
                   [] OTHER -> TRUE
      <4>1. /\ db.investments \subseteq db'.investments /\ db.tranches \subseteq db'.tranches
            /\ BagIn(j, tally.counted) => BagIn(j, tally.counted)'
        BY <2>2 DEF Wrote
      <4>2. db.disputes[chain[j].id] # "None" => db'.disputes[chain[j].id] # "None"
        <5>1. j \in DOMAIN chain
          BY DEF WorkInv, RowTypes
        <5>2. chain[j].id \in CampaignIds
          BY <5>1, EntryFields DEF ChainInv
        <5>3. QED
          BY <2>2, <5>2 DEF Wrote
      <4>3. QED
        BY <4>1, <4>2 DEF WorkInv, AuditedMeansApplied
    <3>2. ASSUME list[i] = "transaction"
          PROVE  /\ chain[k].name = "ContribReceived" =>
                      k \in db'.investments /\ BagIn(k, tally.counted)'
                 /\ chain[k].name = "ContribReconciled" => BagIn(k, tally.counted)'
                 /\ chain[k].name = "TrancheReleased" => k \in db'.tranches
                 /\ chain[k].name = "DisputeOpened" => db'.disputes[chain[k].id] # "None"
      <4>1. i = Len(list)
        BY <1>6, <3>2 DEF Placed
      <4>2. /\ chain[k].name \in {"ContribReceived", "TrancheReleased", "DisputeOpened"} => i = 3
            /\ chain[k].name = "ContribReconciled" => i = 2
        BY <1>6, <4>1 DEF Placed
      <4>3. QED
        BY <2>3, <4>2 DEF Effects
    <3>3. db'.transactions \subseteq db.transactions \cup {k}
          /\ (k \in db'.transactions => k \in db.transactions \/ list[i] = "transaction")
      BY <2>2 DEF Wrote
    <3>4. QED
      BY <3>1, <3>2, <3>3 DEF AuditedMeansApplied
  <2>9. RowTypes'
    BY <1>4, <2>2 DEF Wrote, WorkInv, RowTypes
  <2>10. \A j \in DOMAIN chain' : j \notin processed' => Increments(j)' <= tally'.crashes
    BY <1>3, <1>4, <2>2, <2>5 DEF Wrote, WorkInv
  <2>11. ASSUME NEW m, WorkKnown(m), m.event # k PROVE WorkKnown(m)'
    <3>1. m.event \in DOMAIN chain
      BY <2>11 DEF WorkKnown
    <3>2. chain[m.event].id \in CampaignIds
      BY <3>1, EntryFields DEF ChainInv
    <3>3. \A n : Effects(m.event, n) => Effects(m.event, n)'
      BY <2>2, <2>11, <3>2 DEF Effects, Wrote
    <3>4. \A n : ToCount(m.event, n)' <=> ToCount(m.event, n)
      BY DEF ToCount
    <3>5. Increments(m.event)' = Increments(m.event)
      BY <2>2, <2>11 DEF Wrote
    <3>6. QED
      BY <1>3, <2>5, <2>11, <3>1, <3>3, <3>4, <3>5 DEF WorkKnown
  <2>12. DOMAIN poll = Polls /\ \A q \in Polls : q # p => poll'[q] = poll[q]
    BY <1>1, <2>1 DEF CursorTypes, Steps
  <2>13. poll'[p].at \in Working =>
           i < Len(list) /\ poll'[p].event = k /\ poll'[p].step = i + 1 /\ poll'[p].at = "writing"
    <3>1. CASE i < Len(list)
      <4> DEFINE n == i + 1
                 m == [poll[p] EXCEPT !.step = n]
      <4>1. n \in Nat /\ n = i + 1
        BY <1>6
      <4>2. Steps(p, m)
        BY <1>2, <2>1, <3>1
      <4> HIDE DEF n
      <4>3. Turned(m, poll[p], poll[p].at) /\ m.event = poll[p].event /\ m.step = n
        BY <1>1, <4>1, EventLocals, ZenonT(60)
      <4> HIDE DEF m
      <4>4. poll'[p] = m
        BY <2>12, <4>2 DEF Steps
      <4>5. QED
        BY <1>2, <1>3, <3>1, <4>1, <4>3, <4>4 DEF Turned
    <3>2. CASE ~(i < Len(list))
      <4>1. Steps(p, Leave(p)) /\ Leave(p).at \notin Working
        BY <1>1, <2>1, <3>2, LeaveLocal DEF Turned, Working
      <4>2. poll'[p] = Leave(p)
        BY <2>12, <4>1 DEF Steps
      <4>3. QED
        BY <4>1, <4>2
    <3>3. QED
      BY <3>1, <3>2
  <2>14. NobodyShares'
    BY <1>2, <1>3, <2>12, <2>13 DEF WorkInv, NobodyShares, Working
  <2>15. ASSUME NEW q \in Polls, poll'[q].at \in Working PROVE WorkKnown(poll[q])'
    <3>1. CASE q # p
      <4>1. poll'[q] = poll[q] /\ WorkKnown(poll[q]) /\ poll[q].event # k
        BY <1>2, <1>3, <2>12, <2>15, <3>1 DEF WorkInv, NobodyShares, Working
      <4>2. QED
        BY <2>11, <4>1
    <3>2. CASE q = p
      <4>1. i < Len(list) /\ poll'[p].event = k /\ poll'[p].step = i + 1 /\ poll'[p].at = "writing"
        BY <2>13, <2>15, <3>2
      <4>2. i + 1 \in 1 .. Len(list)
        BY <1>6, <4>1
      <4>3. ToCount(k, i + 1) => Increments(k)' <= tally.crashes
        <5>1. ToCount(k, i + 1) => ToCount(k, i) /\ list[i] # "increment"
          BY <1>6 DEF ToCount, Placed
        <5>2. QED
          BY <1>4, <2>2, <5>1 DEF Wrote
      <4>4. ToCount(k, i + 1)' <=> ToCount(k, i + 1)
        BY DEF ToCount
      <4>5. k \in DOMAIN chain' /\ k \in processed' /\ list = Writes(chain'[k].name)
        BY <1>3, <1>4 DEF list
      <4>6. QED
        BY <2>3, <2>5, <3>2, <4>1, <4>2, <4>3, <4>4, <4>5 DEF WorkKnown
    <3>3. QED
      BY <3>1, <3>2
  <2>16. QED
    BY <2>7, <2>8, <2>9, <2>10, <2>14, <2>15 DEF WorkInv
<1>9. QED
  BY <1>7, <1>8

\* Nothing has been written when the indexer starts.
LEMMA WorkInit == IndexInit => WorkInv
<1> SUFFICES ASSUME IndexInit PROVE WorkInv
  OBVIOUS
<1>1. chain = <<>> /\ db = EmptyDb /\ processed = {} /\ tally.counted = EmptyBag
  BY DEF IndexInit
<1>2. poll = [p \in Polls |-> Idle] /\ Idle.at \notin Working
  BY LocalTypes DEF IndexInit, Working
<1>3. RowTypes
  BY <1>1 DEF RowTypes, EmptyDb, EmptyBag, SetToBag
<1>4. DOMAIN chain = {} /\ db.transactions = {}
  BY <1>1 DEF EmptyDb
<1>5. CountedOnce /\ AuditedMeansApplied
  BY <1>4 DEF CountedOnce, AuditedMeansApplied
<1>6. QED
  BY <1>2, <1>3, <1>4, <1>5 DEF WorkInv, NobodyShares

\* A crash forgets the ids held, and with them everything a poll had under way.
LEMMA CrashKeepsWork ==
  ASSUME WorkInv, CursorInv, CursorInv', ChainInv, UNCHANGED chain, Crash
  PROVE  WorkInv'
<1>1. tally \in Tally
  BY DEF CursorInv, CursorTypes
<1>2. tally'.counted = tally.counted /\ tally'.crashes = tally.crashes + 1 /\ UNCHANGED db
  BY <1>1 DEF Crash, Tally
<1>3. \A p \in Polls : poll'[p].at \notin Working
  BY LocalTypes DEF Crash, Working
<1>4. QED
  BY <1>2, <1>3, SameChain, RestKeepsWork

\* A step that leaves the indexer alone.
LEMMA QuietKeepsWork ==
  ASSUME WorkInv, CursorInv, CursorInv', ChainInv, ChainInv', ChainGrows, UNCHANGED indexVars
  PROVE  WorkInv'
<1>1. UNCHANGED <<db, processed, poll, tally>>
  BY DEF indexVars
<1>2. QED
  BY <1>1, RestKeepsWork

\* The work's invariant is inductive, relative to the cursor's.
LEMMA WorkKept ==
  ASSUME IInv, ChainInv, CursorInv, WorkInv, [IndexNext]_indexerVars
  PROVE  WorkInv'
<1>1. ChainInv' /\ ChainGrows /\ CursorInv'
  BY ChainStep, CursorKept
<1>2. CASE Invoke
  BY <1>1, <1>2, QuietKeepsWork DEF Invoke
<1>3. CASE UNCHANGED chain /\ Crash
  BY <1>1, <1>3, CrashKeepsWork
<1>4. ASSUME NEW p \in Polls, UNCHANGED chain,
             \/ StartPoll(p) \/ ChooseStart(p) \/ Fetch(p) \/ EndPage(p) \/ SaveCursor(p) \/ Fail(p)
             \/ LookUp(p) /\ poll[p].event \in db.transactions
      PROVE  WorkInv'
  <2>1. /\ UNCHANGED <<db, processed>>
        /\ tally'.counted = tally.counted /\ tally'.crashes = tally.crashes
        /\ \E l : Steps(p, l) /\ l.at \notin Working
    BY <1>4, RestingActions
  <2>2. QED
    BY <1>1, <1>4, <2>1, RestingPoll
<1>5. ASSUME NEW p \in Polls, UNCHANGED chain, Progress(p) PROVE WorkInv'
  <2>1. CASE TakeEvent(p)
    BY <1>1, <1>5, <2>1, TakeKeepsWork
  <2>2. CASE LookUp(p) /\ poll[p].event \notin db.transactions
    BY <1>1, <1>5, <2>2, LookUpKeepsWork
  <2>3. CASE Write(p)
    BY <1>1, <1>5, <2>3, WriteKeepsWork
  <2>4. QED
    BY <1>4, <1>5, <2>1, <2>2, <2>3 DEF Progress
<1>6. CASE UNCHANGED indexerVars
  BY <1>1, <1>6, QuietKeepsWork DEF indexerVars
<1>7. QED
  BY <1>2, <1>3, <1>4, <1>5, <1>6 DEF IndexNext

\* The whole of the indexer's inductive invariant.
THEOREM IndexerConsistent == IndexSpec => [](IInv /\ ChainInv /\ CursorInv /\ WorkInv)
<1>1. IInv /\ ChainInv /\ CursorInv /\ WorkInv /\ [IndexNext]_indexerVars => WorkInv'
  BY WorkKept
<1>2. QED
  BY <1>1, WorkInit, CursorAlways, PTL DEF IndexSpec

\* AuditedMeansApplied, wherever the process crashes between two writes and however
\* many polls run: an audit row stands for an event whose whole handler has run.
THEOREM AuditRowsComplete == IndexSpec => []AuditedMeansApplied
<1>1. WorkInv => AuditedMeansApplied
  BY DEF WorkInv
<1>2. QED
  BY <1>1, IndexerConsistent, PTL

\* CountedOnce, for any number of polls and crashes: an investment is added to the
\* campaign's total at most once, after its own row, and a reconciliation at most once
\* in each life of the process.
THEOREM NothingCountedTwice == IndexSpec => []CountedOnce
<1>1. WorkInv => CountedOnce
  BY DEF WorkInv
<1>2. QED
  BY <1>1, IndexerConsistent, PTL

-----------------------------------------------------------------------------
(* What the events make of a campaign's rows. *)

Rows == [known : BOOLEAN, status : CampaignStatus, totalFunded : Int, refundable : Int,
         returnable : Int]

\* A campaign as the index shows it: its row, and its dispute's.
Shown == [row : Rows, dispute : {"None", "Open", "Resolved"}]

NotShown == [row |-> NewRow, dispute |-> "None"]

Rewrite(v, write, amount) ==
  [row |-> Row(v.row, write, amount), dispute |-> DisputeRow(v.dispute, write)]

\* What is shown before write i of event e's handler, which makes two at most before
\* the audit row.
Before(v, e, i) ==
  LET first == Rewrite(v, Writes(e.name)[1], e.amount) IN
  CASE i = 1 -> v
    [] i = 2 -> first
    [] OTHER -> Rewrite(first, Writes(e.name)[2], e.amount)

After(v, e) == Before(v, e, Len(Writes(e.name)))

\* The handler of event e finds the rows it needs.
Expected(v, e) ==
  /\ e.name # "CampaignCreated" => v.row.known
  /\ e.name = "DisputeOpened" => v.dispute = "None"

\* The contract's record c, with its dispute's status s, is what is shown; only the
\* total may be higher, since the event that closes the funding is counted twice.
Agrees(v, c, s) ==
  /\ v.row.known <=> c.status # "Absent"
  /\ v.row.status = IF c.status = "Absent" THEN "Active" ELSE IndexedStatus(c.status)
  /\ v.row.refundable = c.refundable /\ v.row.returnable = c.returnable
  /\ v.row.totalFunded >= c.total_funded
  /\ v.dispute = s

\* V gives what is shown of every campaign after each number of the events of c.
Recounts(c, V) ==
  /\ V \in [0 .. Len(c) -> [CampaignIds -> Shown]]
  /\ \A id \in CampaignIds : V[0][id] = NotShown
  /\ \A k \in 1 .. Len(c) :
       /\ Expected(V[k - 1][c[k].id], c[k])
       /\ V[k][c[k].id] = After(V[k - 1][c[k].id], c[k])
       /\ \A id \in CampaignIds : id # c[k].id => V[k][id] = V[k - 1][id]

\* The events c tell what the contract has come to: the records and the disputes.
ToldBy(c, V, records, disputes) ==
  /\ Recounts(c, V)
  /\ \A id \in CampaignIds : Agrees(V[Len(c)][id], records[id], disputes[id].status)

ToldSoFar(V) == ToldBy(chain, V, campaign, dispute)

-----------------------------------------------------------------------------
(* What an undisturbed index holds. *)

Received(c, n) == {k \in 1 .. n : c[k].name = "ContribReceived"}

\* The tables hold the first n events of c, and of event n + 1 the writes before write i.
HoldsPart(c, tables, V, n, i) ==
  /\ tables.transactions = 1 .. n
  /\ tables.investments =
       Received(c, n) \cup {k \in {n + 1} : i > 1 /\ c[k].name = "ContribReceived"}
  /\ tables.tranches \subseteq 1 .. (n + (IF i > 1 THEN 1 ELSE 0))
  /\ DOMAIN tables.campaign = CampaignIds /\ DOMAIN tables.disputes = CampaignIds
  /\ \A id \in CampaignIds :
       LET v == IF i > 1 /\ id = c[n + 1].id
                THEN Before(V[n][id], c[n + 1], i) ELSE V[n][id]
       IN  tables.campaign[id] = v.row /\ tables.disputes[id] = v.dispute

HoldsFirst(c, tables, V, n) == HoldsPart(c, tables, V, n, 1)

\* Poll l has brought the tables to where they are; of c, m events have been taken.
PollInStep(c, tables, V, m, l) ==
  /\ l.at \in {"fetching"} \cup OnPage => l.from <= m + 1
  /\ l.at \in Working => m >= 1 /\ l.event = m
  /\ l.at = "looking" => HoldsFirst(c, tables, V, m - 1)
  /\ l.at = "writing" => HoldsPart(c, tables, V, m - 1, l.step)

OneAtATime(polls) == \A p, q \in Polls : polls[p] # Idle /\ polls[q] # Idle => p = q

\* m events of c have been taken, one by one; the last is still being worked on, or not.
InStep(c, tables, done, top, polls, V, m) ==
  /\ m \in 0 .. Len(c) /\ done = 1 .. m
  /\ top \in Nat /\ \A k \in DOMAIN c : c[k].ledger <= top => k <= m
  /\ OneAtATime(polls)
  /\ \A p \in Polls : PollInStep(c, tables, V, m, polls[p])
  /\ (\A p \in Polls : polls[p].at \notin Working) => HoldsFirst(c, tables, V, m)

\* Event n is not of the first ledger.
Beyond(c, n) == \A k \in DOMAIN c : c[k].ledger <= 1 => k < n

PollBeyond(c, l) ==
  /\ l.at \notin {"idle", "started"} => l.latest >= 1
  /\ l.at \in {"fetching"} \cup OnPage => Beyond(c, l.from)
  /\ l.at \in Working => Beyond(c, l.event)

\* Started beyond the first ledger, the index never has its events.
Late ==
  /\ last >= 1 /\ (cursor = NoRow \/ cursor >= 1)
  /\ \A p \in Polls : PollBeyond(chain, poll[p])
  /\ 1 \notin db.transactions
  /\ chain = <<>> => db = EmptyDb
  /\ chain # <<>> => chain[1].ledger = 1

\* What was paid to a campaign by the events c: nothing else was.
Payments(c, id) == {k \in 1 .. Len(c) : c[k].name = "ContribReceived" /\ c[k].id = id}

PaidBy(c, id) == SumFunctionOnSet(AmountsOf(c), Payments(c, id))

Paid(id) == campaign[id].total_funded - audit[id].reconciled

PaidIn == \A id \in CampaignIds : PaidBy(chain, id) = Paid(id)

-----------------------------------------------------------------------------
(* An undisturbed index goes step by step. *)

InStepNow(V, m) == InStep(chain, db, processed, last, poll, V, m)

\* Only poll p is under way.
OthersIdle(p) == \A q \in Polls : q # p => poll[q] = Idle

\* The amounts of some events, added up event by event or as a function's sum.
LEMMA AmountsSum ==
  ASSUME NEW S, IsFiniteSet(S), NEW f, \A k \in S : f[k] = chain[k].amount
  PROVE  MapThenSumSet(LAMBDA k : chain[k].amount, S) = SumFunctionOnSet(f, S)
<1> DEFINE Totals(h) ==
             h = [s \in SUBSET S |-> IF s = {} THEN 0
                                     ELSE chain[Pick(s)].amount + h[s \ {Pick(s)}]]
           c == CHOOSE h : Totals(h)
<1>1. PICK g : IsSum(f, S, g) /\ SumFunctionOnSet(f, S) = g[S]
  BY SumUnfolds
<1>2. \A s \in SUBSET S : s # {} => Pick(s) \in S
  BY PickIn
<1>3. Totals(g)
  BY <1>1, <1>2 DEF IsSum
<1>4. Totals(c)
  BY <1>3
<1>5. MapThenSumSet(LAMBDA k : chain[k].amount, S) = c[S]
  BY DEF MapThenSumSet, MapThenFoldSet, Pick
<1> HIDE DEF c
<1>6. IsSum(f, S, c)
  BY <1>2, <1>4 DEF IsSum
<1>7. g[S] = c[S]
  BY <1>1, <1>6, SumSame
<1>8. QED
  BY <1>1, <1>5, <1>7

\* The lists of writes, event by event.
LEMMA ExactLists ==
  /\ Writes("CampaignCreated") = <<"campaign", "transaction">>
  /\ Writes("DisputeResolved") = <<"verdict", "resolved", "transaction">>
  /\ \A n \in {"RefundClaimed", "ReturnClaimed"} : Writes(n) = <<"transaction">>
  /\ \A n \in {"CampaignFunded", "TranchesConfigured", "HarvestReported", "CampaignFailed",
                "CampaignSettled"} :
       Writes(n) = <<n, "transaction">>
<1>1. Writes("CampaignCreated") = <<"campaign", "transaction">>
  <2>1. Handler("CampaignCreated") = <<"campaign">>
    BY DEF Handler
  <2>2. QED
    BY <2>1, AppendTuples, Zenon DEF Writes
<1>2. Writes("DisputeResolved") = <<"verdict", "resolved", "transaction">>
  <2>1. Handler("DisputeResolved") = <<"verdict", "resolved">>
    BY DEF Handler
  <2>2. Append(<<"verdict", "resolved">>, "transaction") = <<"verdict", "resolved", "transaction">>
    BY AppendTuples
  <2>3. QED
    BY <2>1, <2>2, Zenon DEF Writes
<1>3. ASSUME NEW n \in {"RefundClaimed", "ReturnClaimed"} PROVE Writes(n) = <<"transaction">>
  <2>1. Handler(n) = <<>>
    BY DEF Handler
  <2>2. QED
    BY <2>1, AppendTuples, Zenon DEF Writes
<1>4. ASSUME NEW n \in {"CampaignFunded", "TranchesConfigured", "HarvestReported",
                        "CampaignFailed", "CampaignSettled"}
      PROVE  Writes(n) = <<n, "transaction">>
  <2>1. Handler(n) = <<n>>
    BY DEF Handler
  <2>2. QED
    BY <2>1, AppendTuples, Zenon DEF Writes
<1>5. QED
  BY <1>1, <1>2, <1>3, <1>4

\* What is shown after an event whose list of writes has one, two or three.
LEMMA AfterLists ==
  ASSUME NEW v, NEW e, NEW a, NEW b
  PROVE  /\ Writes(e.name) = <<"transaction">> => After(v, e) = v
         /\ Writes(e.name) = <<a, "transaction">> => After(v, e) = Rewrite(v, a, e.amount)
         /\ Writes(e.name) = <<a, b, "transaction">> =>
              After(v, e) = Rewrite(Rewrite(v, a, e.amount), b, e.amount)
<1>1. CASE Writes(e.name) = <<"transaction">>
  BY <1>1 DEF After, Before
<1>2. CASE Writes(e.name) = <<a, "transaction">>
  BY <1>2 DEF After, Before
<1>3. CASE Writes(e.name) = <<a, b, "transaction">>
  BY <1>3 DEF After, Before
<1>4. QED
  BY <1>1, <1>2, <1>3

\* The fields of what a write leaves of the rows shown.
LEMMA RewriteFields ==
  ASSUME NEW v \in Shown, NEW write, NEW amount \in Int
  PROVE  LET w == Rewrite(v, write, amount) IN
         /\ w \in Shown
         /\ w.row.known <=> v.row.known \/ write = "campaign"
         /\ w.row.status =
              CASE write = "CampaignFunded"  -> "Funded"
                [] write = "inProduction"    ->
                     IF v.row.status = "Funded" THEN "InProduction" ELSE v.row.status
                [] write = "HarvestReported" -> "Harvested"
                [] write = "CampaignFailed"  -> "Failed"
                [] write = "disputed"        -> "Disputed"
                [] write = "resolved"        -> "Resolved"
                [] write = "CampaignSettled" -> "Settled"
                [] OTHER                     -> v.row.status
         /\ w.row.totalFunded =
              CASE write = "increment"      -> v.row.totalFunded + amount
                [] write = "CampaignFunded" -> amount
                [] OTHER                    -> v.row.totalFunded
         /\ w.row.refundable =
              CASE write = "CampaignFailed" -> amount
                [] write = "resolved"       -> v.row.refundable + amount
                [] OTHER                    -> v.row.refundable
         /\ w.row.returnable = IF write = "CampaignSettled" THEN v.row.returnable + amount
                               ELSE v.row.returnable
         /\ w.dispute =
              CASE write = "dispute" -> "Open"
                [] write = "verdict" -> IF v.dispute = "Open" THEN "Resolved" ELSE v.dispute
                [] OTHER             -> v.dispute
<1> DEFINE r == v.row
           s == Row(r, write, amount)
           w == Rewrite(v, write, amount)
<1>1. r \in Rows /\ v.dispute \in {"None", "Open", "Resolved"}
  BY DEF Shown
<1> HIDE DEF r
<1>2. /\ s \in Rows
      /\ s.known <=> r.known \/ write = "campaign"
      /\ s.status =
              CASE write = "CampaignFunded"  -> "Funded"
                [] write = "inProduction"    ->
                     IF r.status = "Funded" THEN "InProduction" ELSE r.status
                [] write = "HarvestReported" -> "Harvested"
                [] write = "CampaignFailed"  -> "Failed"
                [] write = "disputed"        -> "Disputed"
                [] write = "resolved"        -> "Resolved"
                [] write = "CampaignSettled" -> "Settled"
                [] OTHER                     -> r.status
      /\ s.totalFunded =
              CASE write = "increment"      -> r.totalFunded + amount
                [] write = "CampaignFunded" -> amount
                [] OTHER                    -> r.totalFunded
      /\ s.refundable =
              CASE write = "CampaignFailed" -> amount
                [] write = "resolved"       -> r.refundable + amount
                [] OTHER                    -> r.refundable
      /\ s.returnable = IF write = "CampaignSettled" THEN r.returnable + amount
                        ELSE r.returnable
  <2>1. CASE write = "campaign"
    <3>1. s = [r EXCEPT !.known = TRUE]
      BY <2>1 DEF Row
    <3> HIDE DEF s
    <3>2. /\ s \in Rows /\ s.known = TRUE /\ s.status = r.status
          /\ s.totalFunded = r.totalFunded /\ s.refundable = r.refundable
          /\ s.returnable = r.returnable
      BY <1>1, <3>1 DEF Rows, CampaignStatus
    <3>3. QED
      BY <2>1, <3>2
  <2>2. CASE write = "increment"
    <3>1. s = [r EXCEPT !.totalFunded = r.totalFunded + amount]
      BY <2>2 DEF Row
    <3> HIDE DEF s
    <3>2. /\ s \in Rows /\ s.known = r.known /\ s.status = r.status
          /\ s.totalFunded = r.totalFunded + amount /\ s.refundable = r.refundable
          /\ s.returnable = r.returnable
      BY <1>1, <3>1 DEF Rows, CampaignStatus
    <3>3. QED
      BY <2>2, <3>2
  <2>3. CASE write = "CampaignFunded"
    <3>1. s = [r EXCEPT !.status = "Funded", !.totalFunded = amount]
      BY <2>3 DEF Row
    <3> HIDE DEF s
    <3>2. /\ s \in Rows /\ s.known = r.known /\ s.status = "Funded"
          /\ s.totalFunded = amount /\ s.refundable = r.refundable
          /\ s.returnable = r.returnable
      BY <1>1, <3>1 DEF Rows, CampaignStatus
    <3>3. QED
      BY <2>3, <3>2
  <2>4. CASE write = "inProduction"
    <3>1. s = [r EXCEPT !.status = IF r.status = "Funded" THEN "InProduction" ELSE r.status]
      BY <2>4 DEF Row
    <3> HIDE DEF s
    <3>2. /\ s \in Rows /\ s.known = r.known
          /\ s.status = (IF r.status = "Funded" THEN "InProduction" ELSE r.status)
          /\ s.totalFunded = r.totalFunded /\ s.refundable = r.refundable
          /\ s.returnable = r.returnable
      BY <1>1, <3>1 DEF Rows, CampaignStatus
    <3>3. QED
      BY <2>4, <3>2
  <2>5. CASE write = "HarvestReported"
    <3>1. s = [r EXCEPT !.status = "Harvested"]
      BY <2>5 DEF Row
    <3> HIDE DEF s
    <3>2. /\ s \in Rows /\ s.known = r.known /\ s.status = "Harvested"
          /\ s.totalFunded = r.totalFunded /\ s.refundable = r.refundable
          /\ s.returnable = r.returnable
      BY <1>1, <3>1 DEF Rows, CampaignStatus
    <3>3. QED
      BY <2>5, <3>2
  <2>6. CASE write = "CampaignFailed"
    <3>1. s = [r EXCEPT !.status = "Failed", !.refundable = amount]
      BY <2>6 DEF Row
    <3> HIDE DEF s
    <3>2. /\ s \in Rows /\ s.known = r.known /\ s.status = "Failed"
          /\ s.totalFunded = r.totalFunded /\ s.refundable = amount
          /\ s.returnable = r.returnable
      BY <1>1, <3>1 DEF Rows, CampaignStatus
    <3>3. QED
      BY <2>6, <3>2
  <2>7. CASE write = "disputed"
    <3>1. s = [r EXCEPT !.status = "Disputed"]
      BY <2>7 DEF Row
    <3> HIDE DEF s
    <3>2. /\ s \in Rows /\ s.known = r.known /\ s.status = "Disputed"
          /\ s.totalFunded = r.totalFunded /\ s.refundable = r.refundable
          /\ s.returnable = r.returnable
      BY <1>1, <3>1 DEF Rows, CampaignStatus
    <3>3. QED
      BY <2>7, <3>2
  <2>8. CASE write = "resolved"
    <3>0. PICK n \in Int : n = r.refundable + amount
      BY <1>1 DEF Rows
    <3>1. s = [r EXCEPT !.status = "Resolved", !.refundable = n]
      BY <2>8, <3>0 DEF Row, Verdict
    <3> HIDE DEF s
    <3>2. /\ s \in Rows /\ s.known = r.known /\ s.status = "Resolved"
          /\ s.totalFunded = r.totalFunded /\ s.refundable = r.refundable + amount
          /\ s.returnable = r.returnable
      BY <1>1, <3>0, <3>1 DEF Rows, CampaignStatus
    <3>3. QED
      BY <2>8, <3>2
  <2>9. CASE write = "CampaignSettled"
    <3>0. PICK n \in Int : n = r.returnable + amount
      BY <1>1 DEF Rows
    <3>1. s = [r EXCEPT !.status = "Settled", !.returnable = n]
      BY <2>9, <3>0 DEF Row
    <3> HIDE DEF s
    <3>2. /\ s \in Rows /\ s.known = r.known /\ s.status = "Settled"
          /\ s.totalFunded = r.totalFunded /\ s.refundable = r.refundable
          /\ s.returnable = r.returnable + amount
      BY <1>1, <3>0, <3>1 DEF Rows, CampaignStatus
    <3>3. QED
      BY <2>9, <3>2
  <2>10. CASE write \notin {"campaign", "increment", "CampaignFunded", "inProduction",
                            "HarvestReported", "CampaignFailed", "disputed", "resolved",
                            "CampaignSettled"}
    BY <1>1, <2>10 DEF Row
  <2>11. QED
    BY <2>1, <2>2, <2>3, <2>4, <2>5, <2>6, <2>7, <2>8, <2>9, <2>10
<1>3. w = [row |-> s, dispute |-> DisputeRow(v.dispute, write)]
  BY DEF Rewrite, r
<1> HIDE DEF s, w
<1>4. w.row = s /\ w.dispute = DisputeRow(v.dispute, write)
  BY <1>3
<1>5. w.dispute \in {"None", "Open", "Resolved"}
  BY <1>1, <1>4 DEF DisputeRow
<1>6. w \in Shown
  BY <1>2, <1>3, <1>4, <1>5 DEF Shown
<1> USE DEF w, r
<1>7. QED
  BY <1>2, <1>4, <1>6 DEF DisputeRow

\* What is shown after an event: a fold of its handler's writes, field by field.
LEMMA AfterEvent ==
  ASSUME NEW v \in Shown, NEW e, e.name \in EventName, e.amount \in Int
  PROVE  LET w == After(v, e) IN
         /\ w \in Shown
         /\ w.row.known <=> v.row.known \/ e.name = "CampaignCreated"
         /\ w.row.status =
              CASE e.name = "CampaignFunded"  -> "Funded"
                [] e.name = "TrancheReleased" ->
                     IF v.row.status = "Funded" THEN "InProduction" ELSE v.row.status
                [] e.name = "HarvestReported" -> "Harvested"
                [] e.name = "CampaignFailed"  -> "Failed"
                [] e.name = "DisputeOpened"   -> "Disputed"
                [] e.name = "DisputeResolved" -> "Resolved"
                [] e.name = "CampaignSettled" -> "Settled"
                [] OTHER                      -> v.row.status
         /\ w.row.totalFunded =
              CASE e.name \in {"ContribReceived", "ContribReconciled"} ->
                     v.row.totalFunded + e.amount
                [] e.name = "CampaignFunded" -> e.amount
                [] OTHER                     -> v.row.totalFunded
         /\ w.row.refundable =
              CASE e.name = "CampaignFailed"  -> e.amount
                [] e.name = "DisputeResolved" -> v.row.refundable + e.amount
                [] OTHER                      -> v.row.refundable
         /\ w.row.returnable = IF e.name = "CampaignSettled" THEN v.row.returnable + e.amount
                               ELSE v.row.returnable
         /\ w.dispute =
              CASE e.name = "DisputeOpened"   -> "Open"
                [] e.name = "DisputeResolved" ->
                     IF v.dispute = "Open" THEN "Resolved" ELSE v.dispute
                [] OTHER                      -> v.dispute
<1> DEFINE w == After(v, e)
           a == e.amount
<1>0. a \in Int /\ v.row \in Rows
  BY DEF Shown
<1>1. CASE e.name = "ContribReceived"
  <2>0. Writes(e.name) = <<"investment", "increment", "transaction">>
    BY <1>1, HandlerLists, ZenonT(60)
  <2>1. w = Rewrite(Rewrite(v, "investment", a), "increment", a)
    BY <2>0, AfterLists
  <2> HIDE DEF w, a
  <2>2. Rewrite(v, "investment", a) \in Shown
    BY <1>0, RewriteFields
  <2>3. QED
    BY <1>0, <1>1, <2>1, <2>2, RewriteFields DEF w, a
<1>2. CASE e.name = "ContribReconciled"
  <2>0. Writes(e.name) = <<"increment", "transaction">>
    BY <1>2, HandlerLists, ZenonT(60)
  <2>1. w = Rewrite(v, "increment", a)
    BY <2>0, AfterLists
  <2>2. QED
    BY <1>0, <1>2, <2>1, RewriteFields
<1>3. CASE e.name = "TrancheReleased"
  <2>0. Writes(e.name) = <<"tranche", "inProduction", "transaction">>
    BY <1>3, HandlerLists, ZenonT(60)
  <2>1. w = Rewrite(Rewrite(v, "tranche", a), "inProduction", a)
    BY <2>0, AfterLists
  <2>2. Rewrite(v, "tranche", a) \in Shown
    BY <1>0, RewriteFields
  <2>3. QED
    BY <1>0, <1>3, <2>1, <2>2, RewriteFields
<1>4. CASE e.name = "DisputeOpened"
  <2>0. Writes(e.name) = <<"dispute", "disputed", "transaction">>
    BY <1>4, HandlerLists, ZenonT(60)
  <2>1. w = Rewrite(Rewrite(v, "dispute", a), "disputed", a)
    BY <2>0, AfterLists
  <2>2. Rewrite(v, "dispute", a) \in Shown
    BY <1>0, RewriteFields
  <2>3. QED
    BY <1>0, <1>4, <2>1, <2>2, RewriteFields
<1>5. CASE e.name = "CampaignCreated"
  <2>0. Writes(e.name) = <<"campaign", "transaction">>
    BY <1>5, ExactLists, ZenonT(60)
  <2>1. w = Rewrite(v, "campaign", a)
    BY <2>0, AfterLists
  <2>2. QED
    BY <1>0, <1>5, <2>1, RewriteFields
<1>6. CASE e.name = "DisputeResolved"
  <2>0. Writes(e.name) = <<"verdict", "resolved", "transaction">>
    BY <1>6, ExactLists, ZenonT(60)
  <2>1. w = Rewrite(Rewrite(v, "verdict", a), "resolved", a)
    BY <2>0, AfterLists
  <2>2. Rewrite(v, "verdict", a) \in Shown
    BY <1>0, RewriteFields
  <2>3. QED
    BY <1>0, <1>6, <2>1, <2>2, RewriteFields
<1>7. CASE e.name \in {"RefundClaimed", "ReturnClaimed"}
  <2>1. w = v
    BY <1>7, ExactLists, AfterLists, ZenonT(60)
  <2>2. QED
    BY <1>7, <2>1
<1>8. CASE e.name \in {"CampaignFunded", "TranchesConfigured", "HarvestReported",
                       "CampaignFailed", "CampaignSettled"}
  <2>1. w = Rewrite(v, e.name, a)
    BY <1>8, ExactLists, AfterLists, ZenonT(60)
  <2>2. QED
    BY <1>0, <1>8, <2>1, RewriteFields
<1>9. QED
  BY <1>1, <1>2, <1>3, <1>4, <1>5, <1>6, <1>7, <1>8 DEF EventName

-----------------------------------------------------------------------------
(* What the events tell of the contract. *)

\* An event e takes a campaign from record c and dispute status s to d and t, and says so.
Tells(c, s, e, d, t) ==
  LET old == IF c.status = "Absent" THEN "Active" ELSE IndexedStatus(c.status) IN
  /\ e.name # "CampaignCreated" => c.status # "Absent"
  /\ e.name = "DisputeOpened" => s = "None"
  /\ d.status # "Absent"
  /\ IndexedStatus(d.status) =
       CASE e.name = "CampaignFunded"  -> "Funded"
         [] e.name = "TrancheReleased" -> IF old = "Funded" THEN "InProduction" ELSE old
         [] e.name = "HarvestReported" -> "Harvested"
         [] e.name = "CampaignFailed"  -> "Failed"
         [] e.name = "DisputeOpened"   -> "Disputed"
         [] e.name = "DisputeResolved" -> "Resolved"
         [] e.name = "CampaignSettled" -> "Settled"
         [] OTHER                      -> old
  /\ d.total_funded <= (CASE e.name \in {"ContribReceived", "ContribReconciled"} ->
                               c.total_funded + e.amount
                          [] e.name = "CampaignFunded" -> e.amount
                          [] OTHER                     -> c.total_funded)
  /\ d.refundable = CASE e.name = "CampaignFailed"  -> e.amount
                      [] e.name = "DisputeResolved" -> c.refundable + e.amount
                      [] OTHER                      -> c.refundable
  /\ d.returnable = IF e.name = "CampaignSettled" THEN c.returnable + e.amount
                    ELSE c.returnable
  /\ t = CASE e.name = "DisputeOpened"   -> "Open"
           [] e.name = "DisputeResolved" -> IF s = "Open" THEN "Resolved" ELSE s
           [] OTHER                      -> s

\* What is shown before the event turns into what is to be shown after it.
LEMMA ToldIsShown ==
  ASSUME NEW c, NEW s, NEW d, NEW t, NEW e, e.name \in EventName, e.amount \in Int,
         c.total_funded \in Nat, d.total_funded \in Nat,
         Tells(c, s, e, d, t), NEW v \in Shown, Agrees(v, c, s)
  PROVE  Expected(v, e) /\ After(v, e) \in Shown /\ Agrees(After(v, e), d, t)
<1> DEFINE w == After(v, e)
<1>1. Expected(v, e)
  BY DEF Tells, Agrees, Expected
<1>2. v.row.totalFunded \in Int
  BY DEF Shown, Rows
<1>3. w \in Shown /\ w.row.known
  BY AfterEvent DEF Tells, Agrees
<1>4. w.row.status = IndexedStatus(d.status)
  BY AfterEvent DEF Tells, Agrees
<1>5. w.row.totalFunded >= d.total_funded
  BY <1>2, AfterEvent DEF Tells, Agrees
<1>6. w.row.refundable = d.refundable /\ w.row.returnable = d.returnable
  BY AfterEvent DEF Tells, Agrees
<1>7. w.dispute = t
  BY AfterEvent DEF Tells, Agrees
<1> HIDE DEF w
<1>8. Agrees(w, d, t)
  BY <1>3, <1>4, <1>5, <1>6, <1>7 DEF Agrees, Tells
<1>9. QED
  BY <1>1, <1>3, <1>8 DEF w

\* The four fields an index shows, of the one record an action rewrites.
Stores(id, s, t, f, n) ==
  /\ \A o \in CampaignIds : o # id => campaign'[o] = campaign[o]
  /\ campaign'[id].status = s /\ campaign'[id].total_funded = t
  /\ campaign'[id].refundable = f /\ campaign'[id].returnable = n

\* The rewrites of the handlers, field by field.
LEMMA StoredFields ==
  ASSUME campaign \in [CampaignIds -> Campaign], NEW id \in CampaignIds,
         NEW s, NEW t, NEW r, NEW f, NEW n
  PROVE  LET c == campaign[id] IN
         /\ campaign' = [campaign EXCEPT ![id] = [c EXCEPT !.total_funded = t, !.status = s]]
              => Stores(id, s, t, c.refundable, c.returnable)
         /\ campaign' = [campaign EXCEPT ![id] = [c EXCEPT !.status = s]]
              => Stores(id, s, c.total_funded, c.refundable, c.returnable)
         /\ campaign' = [campaign EXCEPT ![id] = [c EXCEPT !.status = s, !.released = r]]
              => Stores(id, s, c.total_funded, c.refundable, c.returnable)
         /\ campaign' = [campaign EXCEPT ![id] =
                           [c EXCEPT !.released = r, !.refundable = f, !.status = s]]
              => Stores(id, s, c.total_funded, f, c.returnable)
         /\ campaign' = [campaign EXCEPT ![id] =
                           [c EXCEPT !.released = r, !.returnable = n, !.status = s]]
              => Stores(id, s, c.total_funded, c.refundable, n)
         /\ campaign' = [campaign EXCEPT ![id] = [c EXCEPT !.refundable = f, !.status = s]]
              => Stores(id, s, c.total_funded, f, c.returnable)
<1> DEFINE c == campaign[id]
<1>1. c \in Campaign
  OBVIOUS
<1>2. ASSUME NEW d, campaign' = [campaign EXCEPT ![id] = d]
      PROVE  Stores(id, d.status, d.total_funded, d.refundable, d.returnable)
  BY <1>2 DEF Stores
<1> HIDE DEF c
<1>3. LET d == [c EXCEPT !.total_funded = t, !.status = s] IN
      /\ d.status = s /\ d.total_funded = t
      /\ d.refundable = c.refundable /\ d.returnable = c.returnable
  BY <1>1 DEF Campaign
<1>4. LET d == [c EXCEPT !.status = s] IN
      /\ d.status = s /\ d.total_funded = c.total_funded
      /\ d.refundable = c.refundable /\ d.returnable = c.returnable
  BY <1>1 DEF Campaign
<1>5. LET d == [c EXCEPT !.status = s, !.released = r] IN
      /\ d.status = s /\ d.total_funded = c.total_funded
      /\ d.refundable = c.refundable /\ d.returnable = c.returnable
  BY <1>1 DEF Campaign
<1>6. LET d == [c EXCEPT !.released = r, !.refundable = f, !.status = s] IN
      /\ d.status = s /\ d.total_funded = c.total_funded
      /\ d.refundable = f /\ d.returnable = c.returnable
  BY <1>1 DEF Campaign
<1>7. LET d == [c EXCEPT !.released = r, !.returnable = n, !.status = s] IN
      /\ d.status = s /\ d.total_funded = c.total_funded
      /\ d.refundable = c.refundable /\ d.returnable = n
  BY <1>1 DEF Campaign
<1>8. LET d == [c EXCEPT !.refundable = f, !.status = s] IN
      /\ d.status = s /\ d.total_funded = c.total_funded
      /\ d.refundable = f /\ d.returnable = c.returnable
  BY <1>1 DEF Campaign
<1> DEFINE d3 == [c EXCEPT !.total_funded = t, !.status = s]
           d4 == [c EXCEPT !.status = s]
           d5 == [c EXCEPT !.status = s, !.released = r]
           d6 == [c EXCEPT !.released = r, !.refundable = f, !.status = s]
           d7 == [c EXCEPT !.released = r, !.returnable = n, !.status = s]
           d8 == [c EXCEPT !.refundable = f, !.status = s]
<1>9. /\ campaign' = [campaign EXCEPT ![id] = d3] => Stores(id, s, t, c.refundable, c.returnable)
      /\ campaign' = [campaign EXCEPT ![id] = d4]
           => Stores(id, s, c.total_funded, c.refundable, c.returnable)
      /\ campaign' = [campaign EXCEPT ![id] = d5]
           => Stores(id, s, c.total_funded, c.refundable, c.returnable)
      /\ campaign' = [campaign EXCEPT ![id] = d6] => Stores(id, s, c.total_funded, f, c.returnable)
      /\ campaign' = [campaign EXCEPT ![id] = d7] => Stores(id, s, c.total_funded, c.refundable, n)
      /\ campaign' = [campaign EXCEPT ![id] = d8] => Stores(id, s, c.total_funded, f, c.returnable)
  <2>1. ASSUME NEW d, NEW a, NEW b, NEW x, NEW y, d.status = a, d.total_funded = b,
               d.refundable = x, d.returnable = y, campaign' = [campaign EXCEPT ![id] = d]
        PROVE  Stores(id, a, b, x, y)
    <3>1. Stores(id, d.status, d.total_funded, d.refundable, d.returnable)
      BY <1>2, <2>1
    <3>2. QED
      BY <2>1, <3>1
  <2> HIDE DEF d3, d4, d5, d6, d7, d8
  <2>2. QED
    BY <1>3, <1>4, <1>5, <1>6, <1>7, <1>8, <2>1 DEF d3, d4, d5, d6, d7, d8
<1>10. QED
  BY <1>9 DEF c

\* Campaign id alone is paid an amount, and only its records change.
Concerns(id, amount) ==
  /\ \A o \in CampaignIds : o # id => campaign'[o] = campaign[o] /\ dispute'[o] = dispute[o]
  /\ \A o \in CampaignIds : Paid(o)' = Paid(o) + (IF o = id THEN amount ELSE 0)

\* A step with one event tells what it did to its campaign.
OneTold(id, e) ==
  /\ tx'.events = <<e>> /\ e.id = id
  /\ Tells(campaign[id], dispute[id].status, e, campaign'[id], dispute'[id].status)
  /\ Concerns(id, IF e.name = "ContribReceived" THEN e.amount ELSE 0)

\* The contribution that meets the target is told after the funding it completes.
TwoTold(id, e, f) ==
  /\ tx'.events = <<e, f>> /\ e.id = id /\ f.id = id
  /\ e.name = "CampaignFunded" /\ f.name = "ContribReceived"
  /\ Tells(campaign[id], dispute[id].status, e, campaign'[id], dispute'[id].status)
  /\ Tells(campaign'[id], dispute'[id].status, f, campaign'[id], dispute'[id].status)
  /\ Concerns(id, f.amount)

StepTold ==
  \/ tx'.events = <<>> /\ UNCHANGED <<campaign, dispute, audit>>
  \/ \E id \in CampaignIds, e \in Event : OneTold(id, e)
  \/ \E id \in CampaignIds, e \in Event, f \in Event : TwoTold(id, e, f)

\* What a handler stores is a record whose amounts are those stored.
LEMMA PaidMoves ==
  ASSUME IInv, NEW id \in CampaignIds, NEW s, NEW t \in Nat, NEW f, NEW n, Stores(id, s, t, f, n),
         NEW amount \in Int, UNCHANGED audit, t = campaign[id].total_funded + amount,
         \A o \in CampaignIds : o # id => dispute'[o] = dispute[o]
  PROVE  Concerns(id, amount)
<1>1. /\ \A o \in CampaignIds : campaign[o].total_funded \in Nat
      /\ audit \in [CampaignIds -> [redeemed : Nat, claimed : Nat, reconciled : Nat]]
  BY RecordFacts DEF IInv, TypeOK
<1>2. \A o \in CampaignIds : audit[o].reconciled \in Nat
  BY <1>1
<1>3. campaign'[id].total_funded = t
  BY DEF Stores
<1>4. QED
  BY <1>1, <1>2, <1>3 DEF Stores, Concerns, Paid

\* What is reconciled was not paid.
LEMMA ReconciledMoves ==
  ASSUME IInv, NEW id \in CampaignIds, NEW s, NEW t \in Nat, NEW f, NEW n, Stores(id, s, t, f, n),
         NEW amount \in Int, audit' = [audit EXCEPT ![id].reconciled = @ + amount],
         t = campaign[id].total_funded + amount, UNCHANGED dispute
  PROVE  Concerns(id, 0)
<1>1. /\ \A o \in CampaignIds : campaign[o].total_funded \in Nat
      /\ audit \in [CampaignIds -> [redeemed : Nat, claimed : Nat, reconciled : Nat]]
  BY RecordFacts DEF IInv, TypeOK
<1>2. \A o \in CampaignIds : audit[o].reconciled \in Nat
  BY <1>1
<1>3. /\ audit'[id].reconciled = audit[id].reconciled + amount
      /\ \A o \in CampaignIds : o # id => audit'[o] = audit[o]
  BY <1>1
<1>4. campaign'[id].total_funded = t
  BY DEF Stores
<1>5. QED
  BY <1>1, <1>2, <1>3, <1>4 DEF Stores, Concerns, Paid

\* One event after another.
LEMMA TwoInARow ==
  ASSUME NEW x, NEW y
  PROVE  <<x>> \o <<y>> = <<x, y>>
<1> DEFINE S == {x, y}
<1>1. x \in S /\ y \in S
  OBVIOUS
<1> HIDE DEF S
<1>2. <<x>> \in Seq(S) /\ <<y>> \in Seq(S) /\ <<x, y>> \in Seq(S)
  BY <1>1
<1>3. /\ <<x>> \o <<y>> \in Seq(S) /\ Len(<<x>> \o <<y>>) = 2
      /\ (<<x>> \o <<y>>)[1] = x /\ (<<x>> \o <<y>>)[2] = y
  BY <1>2, ConcatProperties
<1>4. \A i \in 1 .. 2 : (<<x>> \o <<y>>)[i] = <<x, y>>[i]
  BY <1>3
<1>5. QED
  BY <1>2, <1>3, <1>4, SeqEqual

\* Every invocation tells by its events what it did.
LEMMA EventsTold ==
  ASSUME IInv, IInv', Next
  PROVE  StepTold
<1>a. /\ campaign \in [CampaignIds -> Campaign] /\ dispute \in [CampaignIds -> Dispute]
      /\ tx'.events \in Seq(Event) /\ RecordsMatchStatus /\ Amounts \subseteq Int
      /\ audit \in [CampaignIds -> [redeemed : Nat, claimed : Nat, reconciled : Nat]]
  BY EscrowConstants DEF IInv, TypeOK
<1>b. ASSUME NEW id \in CampaignIds, NEW e, OneTold(id, e) PROVE StepTold
  <2>1. tx'.events = <<e>>
    BY <1>b DEF OneTold
  <2>2. e \in Event
    BY <1>a, <2>1
  <2>3. QED
    BY <1>b, <2>2 DEF StepTold
<1>c. ASSUME NEW id \in CampaignIds, NEW e, NEW f, TwoTold(id, e, f) PROVE StepTold
  <2>1. tx'.events = <<e, f>>
    BY <1>c DEF TwoTold
  <2>2. <<e, f>> \in Seq(Event)
    BY <1>a, <2>1
  <2>3. e \in Event /\ f \in Event
    BY <2>2
  <2>4. QED
    BY <1>c, <2>3 DEF StepTold
<1>d. ASSUME NEW id \in CampaignIds
      PROVE  /\ campaign[id] \in Campaign /\ PoolsAgree(campaign[id])
             /\ campaign[id].total_funded \in Nat /\ campaign'[id].total_funded \in Nat
             /\ campaign[id].refundable \in Nat /\ campaign[id].returnable \in Nat
             /\ dispute[id].status \in {"None", "Open", "Resolved"}
             /\ \A s \in CampaignStatus : IndexedStatus(s) # "Absent" /\ s # "Absent"
  <2>1. campaign'[id].total_funded \in Nat
    BY DEF IInv, TypeOK, Campaign
  <2>2. QED
    BY <1>a, <2>1, RecordFacts DEF IInv, GoodCampaign, Dispute, IndexedStatus, CampaignStatus
<1>e. ASSUME NEW id \in CampaignIds, NEW e, NEW s, NEW t \in Nat, NEW f, NEW n,
             Stores(id, s, t, f, n), t = campaign[id].total_funded,
             tx'.events = <<e>>, e.id = id, e.name # "ContribReceived", UNCHANGED audit,
             \A o \in CampaignIds : o # id => dispute'[o] = dispute[o],
             Tells(campaign[id], dispute[id].status, e, campaign'[id], dispute'[id].status)
      PROVE  StepTold
  <2>1. Concerns(id, 0)
    BY <1>e, PaidMoves
  <2>2. OneTold(id, e)
    BY <1>e, <2>1 DEF OneTold
  <2>3. QED
    BY <1>b, <2>2
<1>f. ASSUME NEW id \in CampaignIds, NEW e, campaign[id].status # "Absent",
             UNCHANGED <<campaign, dispute>>, tx'.events = <<e>>, e.id = id,
             \A o \in CampaignIds : audit'[o].reconciled = audit[o].reconciled,
             e.name \in {"TranchesConfigured", "RefundClaimed", "ReturnClaimed"}
      PROVE  StepTold
  <2>1. Tells(campaign[id], dispute[id].status, e, campaign'[id], dispute'[id].status)
    BY <1>d, <1>f DEF Tells, IndexedStatus
  <2>2. \A o \in CampaignIds : audit[o].reconciled \in Nat
    BY <1>a
  <2>3. Concerns(id, 0)
    BY <1>d, <1>f, <2>2 DEF Concerns, Paid
  <2>4. OneTold(id, e)
    BY <1>f, <2>1, <2>3 DEF OneTold
  <2>5. QED
    BY <1>b, <2>4
<1> USE DEF Sends, Emit
<1>1. ASSUME NEW id \in CampaignIds, NEW f \in Farmers, NEW target \in Amounts,
             NEW t \in Tokens, NEW dl \in 0 .. MaxTime, CreateCampaign(id, f, target, t, dl)
      PROVE  StepTold
  <2> DEFINE e == [name |-> "CampaignCreated", id |-> id, who |-> f, amount |-> target]
  <2>1. tx'.events = <<e>> /\ UNCHANGED <<audit, dispute>>
    BY <1>1 DEF CreateCampaign
  <2>2. Stores(id, "Active", 0, 0, 0)
    BY <1>1, <1>a DEF CreateCampaign, NewCampaign, Stores
  <2>3. campaign[id].status = "Absent"
    BY <1>1 DEF CreateCampaign, Exists
  <2>4. /\ campaign[id].total_funded = 0 /\ campaign[id].refundable = 0
        /\ campaign[id].returnable = 0
    BY <1>d, <2>3 DEF PoolsAgree
  <2>5. e.name = "CampaignCreated" /\ e.id = id
    OBVIOUS
  <2> HIDE DEF e
  <2>6. Tells(campaign[id], dispute[id].status, e, campaign'[id], dispute'[id].status)
    BY <2>1, <2>2, <2>3, <2>4, <2>5 DEF Tells, Stores, IndexedStatus
  <2>7. Concerns(id, 0)
    BY <2>1, <2>2, <2>4, PaidMoves
  <2>8. OneTold(id, e)
    BY <2>1, <2>5, <2>6, <2>7 DEF OneTold
  <2>9. QED
    BY <1>b, <2>8
<1>2. ASSUME NEW id \in CampaignIds, NEW i \in Investors, NEW amount \in Amounts,
             FundCampaign(id, i, amount)
      PROVE  StepTold
  <2> DEFINE c == campaign[id]
             t == c.total_funded + amount
             e == [name |-> "CampaignFunded", id |-> id, who |-> NoOne, amount |-> t]
             f == [name |-> "ContribReceived", id |-> id, who |-> i, amount |-> amount]
  <2>1. /\ c.status \in {"Active", "Funding"} /\ amount > 0 /\ amount \in Int /\ t \in Nat
        /\ UNCHANGED <<dispute, audit>>
    BY <1>2, <1>a, <1>d DEF FundCampaign, CanContribute, Accepting
  <2>2. /\ e.name = "CampaignFunded" /\ e.id = id /\ e.amount = t
        /\ f.name = "ContribReceived" /\ f.id = id /\ f.amount = amount
    OBVIOUS
  <2>3. CASE t >= c.target_amount
    <3>1. tx'.events = <<e>> \o <<f>>
      BY <1>2, <2>3 DEF FundCampaign
    <3>2. campaign' = [campaign EXCEPT ![id] = [c EXCEPT !.total_funded = t, !.status = "Funded"]]
      BY <1>2, <2>3 DEF FundCampaign
    <3>3. Stores(id, "Funded", t, c.refundable, c.returnable)
      BY <1>a, <3>2, StoredFields
    <3>4. <<e>> \o <<f>> = <<e, f>>
      BY TwoInARow
    <3> HIDE DEF e, f
    <3>5. Tells(c, dispute[id].status, e, campaign'[id], dispute'[id].status)
      BY <2>1, <2>2, <3>3 DEF Tells, Stores, IndexedStatus
    <3>6. Tells(campaign'[id], dispute'[id].status, f, campaign'[id], dispute'[id].status)
      BY <2>1, <2>2, <3>3 DEF Tells, Stores, IndexedStatus
    <3>7. Concerns(id, amount)
      BY <2>1, <3>3, PaidMoves
    <3>8. TwoTold(id, e, f)
      BY <2>2, <3>1, <3>4, <3>5, <3>6, <3>7 DEF TwoTold
    <3>9. QED
      BY <1>c, <3>8
  <2>4. CASE ~(t >= c.target_amount)
    <3>1. tx'.events = <<f>>
      BY <1>2, <2>4 DEF FundCampaign
    <3>2. campaign' = [campaign EXCEPT ![id] = [c EXCEPT !.total_funded = t, !.status = "Funding"]]
      BY <1>2, <2>4 DEF FundCampaign
    <3>3. Stores(id, "Funding", t, c.refundable, c.returnable)
      BY <1>a, <3>2, StoredFields
    <3> HIDE DEF e, f
    <3>4. Tells(c, dispute[id].status, f, campaign'[id], dispute'[id].status)
      BY <2>1, <2>2, <3>3 DEF Tells, Stores, IndexedStatus
    <3>5. Concerns(id, amount)
      BY <2>1, <3>3, PaidMoves
    <3>6. OneTold(id, f)
      BY <2>2, <3>1, <3>4, <3>5 DEF OneTold
    <3>7. QED
      BY <1>b, <3>6
  <2>5. QED
    BY <2>3, <2>4
<1>3. ASSUME NEW id \in CampaignIds, NEW i \in Investors, NEW amount \in Amounts,
             ReceiveContribution(id, i, amount)
      PROVE  StepTold
  <2> DEFINE c == campaign[id]
             t == c.total_funded + amount
             e == [name |-> "ContribReconciled", id |-> id, who |-> i, amount |-> amount]
  <2>1. /\ c.status \in {"Active", "Funding"} /\ amount > 0 /\ amount \in Int /\ t \in Nat
        /\ UNCHANGED dispute
        /\ audit' = [audit EXCEPT ![id].reconciled = @ + amount]
        /\ tx'.events = <<e>>
    BY <1>3, <1>a, <1>d DEF ReceiveContribution, CanContribute, Accepting
  <2>2. e.name = "ContribReconciled" /\ e.id = id /\ e.amount = amount
    OBVIOUS
  <2>3. campaign' = [campaign EXCEPT ![id] = [c EXCEPT !.total_funded = t, !.status = "Funding"]]
    BY <1>3 DEF ReceiveContribution
  <2>4. Stores(id, "Funding", t, c.refundable, c.returnable)
    BY <1>a, <2>3, StoredFields
  <2> HIDE DEF e
  <2>6. Tells(c, dispute[id].status, e, campaign'[id], dispute'[id].status)
    BY <2>1, <2>2, <2>4 DEF Tells, Stores, IndexedStatus
  <2>7. Concerns(id, 0)
    BY <2>1, <2>4, ReconciledMoves
  <2>8. OneTold(id, e)
    BY <2>1, <2>2, <2>6, <2>7 DEF OneTold
  <2>9. QED
    BY <1>b, <2>8
<1>4. ASSUME NEW id \in CampaignIds, NEW total \in Amounts, CompleteFunding(id, total)
      PROVE  StepTold
  <2> DEFINE c == campaign[id]
             e == [name |-> "CampaignFunded", id |-> id, who |-> NoOne, amount |-> total]
  <2>1. /\ c.status \in {"Active", "Funding"} /\ total = c.total_funded
        /\ UNCHANGED <<dispute, audit>> /\ tx'.events = <<e>>
    BY <1>4 DEF CompleteFunding, Accepting
  <2>2. e.name = "CampaignFunded" /\ e.id = id /\ e.amount = total
    OBVIOUS
  <2>3. campaign' = [campaign EXCEPT ![id] = [c EXCEPT !.status = "Funded"]]
    BY <1>4 DEF CompleteFunding
  <2>4. Stores(id, "Funded", c.total_funded, c.refundable, c.returnable)
    BY <1>a, <2>3, StoredFields
  <2> HIDE DEF e
  <2>5. Tells(c, dispute[id].status, e, campaign'[id], dispute'[id].status)
    BY <1>d, <2>1, <2>2, <2>4 DEF Tells, Stores, IndexedStatus
  <2>6. QED
    BY <1>d, <1>e, <2>1, <2>2, <2>4, <2>5
<1>5. ASSUME NEW id \in CampaignIds, NEW rcp \in Farmers, NEW amount \in Amounts,
             ReleaseTranche(id, rcp, amount)
      PROVE  StepTold
  <2> DEFINE c == campaign[id]
             e == [name |-> "TrancheReleased", id |-> id, who |-> rcp, amount |-> amount]
  <2>1. /\ c.status \in {"Funded", "InProduction"} /\ UNCHANGED <<dispute, audit>>
        /\ tx'.events = <<e>>
    BY <1>5 DEF ReleaseTranche
  <2>2. e.name = "TrancheReleased" /\ e.id = id
    OBVIOUS
  <2>3. PICK r : campaign' = [campaign EXCEPT ![id] =
                                [c EXCEPT !.status = "InProduction", !.released = r]]
    BY <1>5 DEF ReleaseTranche
  <2>4. Stores(id, "InProduction", c.total_funded, c.refundable, c.returnable)
    BY <1>a, <2>3, StoredFields
  <2> HIDE DEF e
  <2>5. Tells(c, dispute[id].status, e, campaign'[id], dispute'[id].status)
    BY <1>d, <2>1, <2>2, <2>4 DEF Tells, Stores, IndexedStatus
  <2>6. QED
    BY <1>d, <1>e, <2>1, <2>2, <2>4, <2>5
<1>6. ASSUME NEW id \in CampaignIds, NEW who \in Accounts, ReportHarvest(id, who)
      PROVE  StepTold
  <2> DEFINE c == campaign[id]
             e == [name |-> "HarvestReported", id |-> id, who |-> who, amount |-> 0]
  <2>1. /\ c.status \in {"Funded", "InProduction"} /\ UNCHANGED <<dispute, audit>>
        /\ tx'.events = <<e>>
    BY <1>6 DEF ReportHarvest
  <2>2. e.name = "HarvestReported" /\ e.id = id
    OBVIOUS
  <2>3. campaign' = [campaign EXCEPT ![id] = [c EXCEPT !.status = "Harvested"]]
    BY <1>6 DEF ReportHarvest
  <2>4. Stores(id, "Harvested", c.total_funded, c.refundable, c.returnable)
    BY <1>a, <2>3, StoredFields
  <2> HIDE DEF e
  <2>5. Tells(c, dispute[id].status, e, campaign'[id], dispute'[id].status)
    BY <1>d, <2>1, <2>2, <2>4 DEF Tells, Stores, IndexedStatus
  <2>6. QED
    BY <1>d, <1>e, <2>1, <2>2, <2>4, <2>5
<1>7. ASSUME NEW id \in CampaignIds, NEW payee \in Farmers, NEW payout \in Amounts,
             SettleCampaign(id, payee, payout)
      PROVE  StepTold
  <2> DEFINE c == campaign[id]
             a == EscrowHeld(c) - payout
             e == [name |-> "CampaignSettled", id |-> id, who |-> payee, amount |-> a]
             n == c.returnable + a
  <2>1. /\ c.status = "Harvested" /\ UNCHANGED <<dispute, audit>> /\ tx'.events = <<e>>
    BY <1>7 DEF SettleCampaign
  <2>2. e.name = "CampaignSettled" /\ e.id = id /\ e.amount = a
    OBVIOUS
  <2>3. PICK r : campaign' = [campaign EXCEPT ![id] =
                   [c EXCEPT !.released = r, !.returnable = n, !.status = "Settled"]]
    BY <1>7 DEF SettleCampaign
  <2>4. Stores(id, "Settled", c.total_funded, c.refundable, n)
    <3> HIDE DEF n
    <3>1. QED
      BY <1>a, <2>3, StoredFields
  <2> HIDE DEF e
  <2>5. Tells(c, dispute[id].status, e, campaign'[id], dispute'[id].status)
    BY <1>d, <2>1, <2>2, <2>4 DEF Tells, Stores, IndexedStatus
  <2>6. QED
    BY <1>d, <1>e, <2>1, <2>2, <2>4, <2>5
<1>8. ASSUME NEW id \in CampaignIds, NEW who \in Accounts, OpenDispute(id, who)
      PROVE  StepTold
  <2> DEFINE c == campaign[id]
             e == [name |-> "DisputeOpened", id |-> id, who |-> who, amount |-> 0]
  <2>1. /\ c.status \in {"Active", "Funding", "Funded", "InProduction"} /\ UNCHANGED audit
        /\ dispute' = [dispute EXCEPT ![id] = [status |-> "Open", resolution |-> "Pending"]]
        /\ tx'.events = <<e>>
    BY <1>8 DEF OpenDispute, InFlight
  <2>2. e.name = "DisputeOpened" /\ e.id = id
    OBVIOUS
  <2>3. campaign' = [campaign EXCEPT ![id] = [c EXCEPT !.status = "Disputed"]]
    BY <1>8 DEF OpenDispute
  <2>4. Stores(id, "Disputed", c.total_funded, c.refundable, c.returnable)
    BY <1>a, <2>3, StoredFields
  <2>5. /\ dispute[id].status = "None" /\ dispute'[id].status = "Open"
        /\ \A o \in CampaignIds : o # id => dispute'[o] = dispute[o]
    BY <1>a, <1>d, <2>1 DEF RecordsMatchStatus
  <2> HIDE DEF e
  <2>6. Tells(c, dispute[id].status, e, campaign'[id], dispute'[id].status)
    BY <1>d, <2>1, <2>2, <2>4, <2>5 DEF Tells, Stores, IndexedStatus
  <2>7. QED
    BY <1>d, <1>e, <2>1, <2>2, <2>4, <2>5, <2>6
<1>9. ASSUME NEW id \in CampaignIds, NEW r \in DisputeResolution, NEW p \in Amounts,
             ResolveDispute(id, r, p)
      PROVE  StepTold
  <2> DEFINE c == campaign[id]
             a == EscrowHeld(c) - FarmerShare(r, p, EscrowHeld(c))
             e == [name |-> "DisputeResolved", id |-> id, who |-> admin, amount |-> a]
             f == c.refundable + a
  <2>1. /\ c.status = "Disputed" /\ UNCHANGED audit /\ dispute[id].status = "Open"
        /\ dispute' = [dispute EXCEPT ![id] = [status |-> "Resolved", resolution |-> r]]
        /\ tx'.events = <<e>>
    BY <1>9 DEF ResolveDispute
  <2>2. e.name = "DisputeResolved" /\ e.id = id /\ e.amount = a
    OBVIOUS
  <2>3. PICK q : campaign' = [campaign EXCEPT ![id] =
                   [c EXCEPT !.released = q, !.refundable = f, !.status = "Resolved"]]
    BY <1>9 DEF ResolveDispute
  <2>4. Stores(id, "Resolved", c.total_funded, f, c.returnable)
    <3> HIDE DEF f
    <3>1. QED
      BY <1>a, <2>3, StoredFields
  <2>5. /\ dispute'[id].status = "Resolved"
        /\ \A o \in CampaignIds : o # id => dispute'[o] = dispute[o]
    BY <1>a, <2>1
  <2> HIDE DEF e
  <2>6. Tells(c, dispute[id].status, e, campaign'[id], dispute'[id].status)
    BY <1>d, <2>1, <2>2, <2>4, <2>5 DEF Tells, Stores, IndexedStatus
  <2>7. QED
    BY <1>d, <1>e, <2>1, <2>2, <2>4, <2>5, <2>6
<1>10. ASSUME NEW id \in CampaignIds, MarkFailed(id) \/ ExpireCampaign(id)
       PROVE  StepTold
  <2> DEFINE c == campaign[id]
             f == c.refundable + EscrowHeld(c)
             e == [name |-> "CampaignFailed", id |-> id, who |-> NoOne,
                   amount |-> campaign'[id].refundable]
  <2>1. /\ c.status \in {"Active", "Funding", "Funded", "InProduction"}
        /\ UNCHANGED <<dispute, audit>> /\ tx'.events = <<e>>
    BY <1>10 DEF MarkFailed, ExpireCampaign, InFlight, Accepting
  <2>2. e.name = "CampaignFailed" /\ e.id = id /\ e.amount = campaign'[id].refundable
    OBVIOUS
  <2>3. campaign' = [campaign EXCEPT ![id] = [c EXCEPT !.refundable = f, !.status = "Failed"]]
    BY <1>10 DEF MarkFailed, ExpireCampaign
  <2>4. Stores(id, "Failed", c.total_funded, f, c.returnable)
    <3> HIDE DEF f
    <3>1. QED
      BY <1>a, <2>3, StoredFields
  <2> HIDE DEF e, f
  <2>5. Tells(c, dispute[id].status, e, campaign'[id], dispute'[id].status)
    BY <1>d, <2>1, <2>2, <2>4 DEF Tells, Stores, IndexedStatus
  <2>6. QED
    BY <1>d, <1>e, <2>1, <2>2, <2>4, <2>5
<1>11. ASSUME NEW id \in CampaignIds, NEW list \in TrancheLists, ConfigureTranches(id, list)
       PROVE  StepTold
  <2> DEFINE e == [name |-> "TranchesConfigured", id |-> id, who |-> NoOne, amount |-> Len(list)]
  <2>1. /\ campaign[id].status = "Funded" /\ UNCHANGED <<campaign, dispute, audit>>
        /\ tx'.events = <<e>>
    BY <1>11 DEF ConfigureTranches
  <2>2. e.name = "TranchesConfigured" /\ e.id = id
    OBVIOUS
  <2> HIDE DEF e
  <2>3. QED
    BY <1>f, <2>1, <2>2
<1>12. ASSUME NEW id \in CampaignIds, NEW i \in Investors,
              ClaimRefund(id, i) \/ ClaimReturn(id, i)
       PROVE  StepTold
  <2>1. PICK n \in {"RefundClaimed", "ReturnClaimed"} : \E pool : PayShare(id, i, pool, n)
    BY <1>12 DEF ClaimRefund, ClaimReturn
  <2>0. PICK pool : PayShare(id, i, pool, n)
    BY <2>1
  <2> DEFINE share == ProRata(contribution[id][i], pool, campaign[id].total_funded)
  <2>2. tx'.events = <<[name |-> n, id |-> id, who |-> i, amount |-> share]>>
    BY <2>0 DEF PayShare
  <2> DEFINE e == [name |-> n, id |-> id, who |-> i, amount |-> share]
  <2>3. /\ campaign[id].status # "Absent" /\ UNCHANGED <<campaign, dispute>>
    BY <1>12 DEF ClaimRefund, ClaimReturn, PayShare
  <2>4. \A o \in CampaignIds : audit'[o].reconciled = audit[o].reconciled
    <3>1. audit' = [audit EXCEPT ![id].redeemed = @ + contribution[id][i],
                                 ![id].claimed = @ + Share(id, i)]
      BY <1>12, ClaimEffect DEF Claim
    <3>2. QED
      BY <1>a, <3>1
  <2>5. e.name = n /\ e.id = id
    OBVIOUS
  <2> HIDE DEF e
  <2>6. QED
    BY <1>f, <2>1, <2>2, <2>3, <2>4, <2>5 DEF e
<1>13. ASSUME tx' = NoTx, UNCHANGED <<campaign, dispute, audit>> PROVE StepTold
  BY <1>13 DEF NoTx, StepTold
<1>14. QED
  BY <1>1, <1>2, <1>3, <1>4, <1>5, <1>6, <1>7, <1>8, <1>9, <1>10, <1>11, <1>12, <1>13, ZenonT(60)
     DEF Next, Contribute, Manage, Unwind, Initialize, SetRegistry, Tick, Deposit

\* One more event makes one more of what is shown.
LEMMA OneMoreEvent ==
  ASSUME NEW c \in Seq(Entry), NEW V, Recounts(c, V), NEW e \in Entry,
         Expected(V[Len(c)][e.id], e), After(V[Len(c)][e.id], e) \in Shown
  PROVE  \E W : /\ Recounts(Append(c, e), W)
                /\ \A n \in 0 .. Len(c) : W[n] = V[n]
                /\ W[Len(c) + 1][e.id] = After(V[Len(c)][e.id], e)
                /\ \A id \in CampaignIds : id # e.id => W[Len(c) + 1][id] = V[Len(c)][id]
<1> DEFINE n == Len(c)
           d == Append(c, e)
           w == [V[n] EXCEPT ![e.id] = After(V[n][e.id], e)]
           W == [k \in 0 .. n + 1 |-> IF k <= n THEN V[k] ELSE w]
<1>1. n \in Nat /\ e.id \in CampaignIds
  BY LenProperties DEF Entry
<1>2. /\ Len(d) = n + 1 /\ d[n + 1] = e
      /\ \A k \in 1 .. n : d[k] = c[k]
  BY AppendProperties
<1>3. V \in [0 .. n -> [CampaignIds -> Shown]]
  BY DEF Recounts
<1>4. V[n] \in [CampaignIds -> Shown]
  BY <1>1, <1>3
<1>5. /\ w \in [CampaignIds -> Shown] /\ w[e.id] = After(V[n][e.id], e)
      /\ \A id \in CampaignIds : id # e.id => w[id] = V[n][id]
  BY <1>1, <1>4
<1> HIDE DEF w, d
<1>6. /\ W \in [0 .. n + 1 -> [CampaignIds -> Shown]]
      /\ \A k \in 0 .. n : W[k] = V[k]
      /\ W[n + 1] = w
  BY <1>1, <1>3, <1>5
<1> HIDE DEF W
<1>7. \A id \in CampaignIds : W[0][id] = NotShown
  BY <1>1, <1>6 DEF Recounts
<1>8. ASSUME NEW k \in 1 .. n + 1
      PROVE  /\ Expected(W[k - 1][d[k].id], d[k])
             /\ W[k][d[k].id] = After(W[k - 1][d[k].id], d[k])
             /\ \A id \in CampaignIds : id # d[k].id => W[k][id] = W[k - 1][id]
  <2>1. CASE k = n + 1
    <3>1. W[k - 1] = V[n] /\ W[k] = w /\ d[k] = e
      BY <1>1, <1>2, <1>6, <2>1
    <3>2. QED
      BY <1>5, <3>1
  <2>2. CASE k # n + 1
    <3>1. k \in 1 .. n /\ k - 1 \in 0 .. n /\ k \in 0 .. n
      BY <1>1, <2>2
    <3>2. W[k - 1] = V[k - 1] /\ W[k] = V[k] /\ d[k] = c[k]
      BY <1>2, <1>6, <3>1
    <3>3. QED
      BY <3>1, <3>2 DEF Recounts
  <2>3. QED
    BY <2>1, <2>2
<1>9. Recounts(d, W)
  BY <1>2, <1>6, <1>7, <1>8 DEF Recounts
<1>10. QED
  BY <1>5, <1>6, <1>9 DEF d

\* Event e tells all that took the records from r to q and the disputes from s to t.
TellsAll(e, r, s, q, t) ==
  /\ r[e.id].total_funded \in Nat /\ q[e.id].total_funded \in Nat
  /\ Tells(r[e.id], s[e.id].status, e, q[e.id], t[e.id].status)
  /\ \A o \in CampaignIds : o # e.id => q[o] = r[o] /\ t[o] = s[o]

\* An event that tells what was done is one more told.
LEMMA OneMoreTold ==
  ASSUME NEW c \in Seq(Entry), NEW V, NEW r, NEW s, ToldBy(c, V, r, s), NEW e \in Entry,
         NEW q, NEW t, TellsAll(e, r, s, q, t)
  PROVE  \E W : ToldBy(Append(c, e), W, q, t) /\ \A n \in 0 .. Len(c) : W[n] = V[n]
<1> DEFINE v == V[Len(c)][e.id]
<1>1. Len(c) \in Nat /\ e.id \in CampaignIds /\ e.name \in EventName /\ e.amount \in Int
  BY LenProperties DEF Entry
<1>2. V[Len(c)] \in [CampaignIds -> Shown]
  BY <1>1 DEF ToldBy, Recounts
<1>3. v \in Shown /\ Agrees(v, r[e.id], s[e.id].status)
  BY <1>1, <1>2 DEF ToldBy
<1>4. /\ Expected(v, e) /\ After(v, e) \in Shown
      /\ Agrees(After(v, e), q[e.id], t[e.id].status)
  BY <1>1, <1>3, ToldIsShown DEF TellsAll
<1>5. PICK W : /\ Recounts(Append(c, e), W)
               /\ \A n \in 0 .. Len(c) : W[n] = V[n]
               /\ W[Len(c) + 1][e.id] = After(V[Len(c)][e.id], e)
               /\ \A id \in CampaignIds : id # e.id => W[Len(c) + 1][id] = V[Len(c)][id]
  BY <1>4, OneMoreEvent DEF ToldBy
<1>6. Len(Append(c, e)) = Len(c) + 1
  BY AppendProperties
<1>7. \A id \in CampaignIds : Agrees(W[Len(c) + 1][id], q[id], t[id].status)
  BY <1>4, <1>5 DEF ToldBy, TellsAll
<1>8. QED
  BY <1>5, <1>6, <1>7 DEF ToldBy

\* What parseEvent keeps of an event tells as much.
LEMMA ParsedTells ==
  ASSUME NEW e \in Event, Tip \in Nat
  PROVE  /\ Parsed(e) \in Entry
         /\ Parsed(e).id = e.id /\ Parsed(e).name = e.name /\ Parsed(e).amount = e.amount
         /\ \A c, s, d, t : Tells(c, s, e, d, t) => Tells(c, s, Parsed(e), d, t)
<1>1. /\ Parsed(e).id = e.id /\ Parsed(e).name = e.name /\ Parsed(e).amount = e.amount
      /\ Parsed(e) \in Entry
  BY DEF Parsed, Entry, Event
<1>2. QED
  BY <1>1 DEF Tells

\* The chain after an invocation that emits no event, one event, or two.
LEMMA EmittedChain ==
  ASSUME chain \in Seq(Entry), Tip \in Nat, Invoke
  PROVE  /\ tx'.events = <<>> => chain' = chain
         /\ \A e \in Event : tx'.events = <<e>> => chain' = Append(chain, Parsed(e))
         /\ \A e, f \in Event : tx'.events = <<e, f>> =>
              chain' = Append(Append(chain, Parsed(e)), Parsed(f))
<1>1. chain' = chain \o [i \in DOMAIN tx'.events |-> Parsed(tx'.events[i])]
  BY DEF Invoke
<1>2. ASSUME tx'.events = <<>> PROVE chain' = chain
  <2>1. [i \in DOMAIN tx'.events |-> Parsed(tx'.events[i])] = <<>>
    BY <1>2
  <2>2. QED
    BY <1>1, <2>1, ConcatEmptySeq
<1>3. ASSUME NEW e \in Event, tx'.events = <<e>> PROVE chain' = Append(chain, Parsed(e))
  <2> DEFINE x == Parsed(e)
             more == [i \in DOMAIN tx'.events |-> Parsed(tx'.events[i])]
  <2>1. x \in Entry
    BY ParsedTells
  <2>2. more = <<x>>
    <3>1. DOMAIN more = {1} /\ more[1] = x
      BY <1>3
    <3> HIDE DEF x
    <3>2. QED
      BY <3>1
  <2> HIDE DEF x, more
  <2>3. chain' = chain \o <<x>>
    BY <1>1, <2>2 DEF more
  <2>4. QED
    BY <2>1, <2>3, AppendIsConcat DEF x
<1>4. ASSUME NEW e \in Event, NEW f \in Event, tx'.events = <<e, f>>
      PROVE  chain' = Append(Append(chain, Parsed(e)), Parsed(f))
  <2> DEFINE x == Parsed(e)
             y == Parsed(f)
             more == [i \in DOMAIN tx'.events |-> Parsed(tx'.events[i])]
  <2>1. x \in Entry /\ y \in Entry
    BY ParsedTells
  <2>2. more = <<x, y>>
    <3>1. DOMAIN more = {1, 2} /\ more[1] = x /\ more[2] = y
      BY <1>4
    <3> HIDE DEF x, y
    <3>2. QED
      BY <3>1
  <2> HIDE DEF x, y, more
  <2>3. chain' = chain \o (<<x>> \o <<y>>)
    BY <1>1, <2>2, TwoInARow DEF more
  <2>4. <<x>> \in Seq(Entry) /\ <<y>> \in Seq(Entry)
    BY <2>1
  <2>5. chain' = (chain \o <<x>>) \o <<y>>
    BY <2>3, <2>4, ConcatAssociative
  <2>6. chain \o <<x>> = Append(chain, x) /\ Append(chain, x) \in Seq(Entry)
    BY <2>1, AppendIsConcat, AppendProperties
  <2>7. QED
    BY <2>1, <2>5, <2>6, AppendIsConcat DEF x, y
<1>5. QED
  BY <1>2, <1>3, <1>4

\* Events have amounts, and the payments among them are finitely many.
LEMMA PaymentsOf ==
  ASSUME NEW c \in Seq(Entry), NEW id
  PROVE  /\ IsFiniteSet(Payments(c, id)) /\ Payments(c, id) \subseteq 1 .. Len(c)
         /\ \A k \in Payments(c, id) : AmountsOf(c)[k] = c[k].amount /\ c[k].amount \in Int
<1>1. /\ Len(c) \in Nat /\ DOMAIN c = 1 .. Len(c)
      /\ \A k \in 1 .. Len(c) : c[k] \in Entry
  BY LenProperties, ElementOfSeq
<1>2. IsFiniteSet(1 .. Len(c))
  BY <1>1, FS_Interval
<1>3. QED
  BY <1>1, <1>2, FS_Subset DEF Payments, AmountsOf, Entry

\* One more event pays its amount if it is a payment, to its campaign only.
LEMMA OneMorePayment ==
  ASSUME NEW c \in Seq(Entry), NEW e \in Entry, NEW id
  PROVE  /\ PaidBy(c, id) \in Int
         /\ PaidBy(Append(c, e), id) = PaidBy(c, id) +
              (IF e.name = "ContribReceived" /\ e.id = id THEN e.amount ELSE 0)
<1> DEFINE d == Append(c, e)
           S == Payments(c, id)
           T == Payments(d, id)
           f == AmountsOf(c)
           g == AmountsOf(d)
<1>1. /\ d \in Seq(Entry) /\ Len(d) = Len(c) + 1 /\ d[Len(c) + 1] = e
      /\ \A k \in 1 .. Len(c) : d[k] = c[k]
  BY AppendProperties
<1>2. Len(c) \in Nat
  BY LenProperties
<1> HIDE DEF d
<1>3. /\ IsFiniteSet(S) /\ S \subseteq 1 .. Len(c)
      /\ \A k \in S : f[k] = c[k].amount /\ c[k].amount \in Int
  BY PaymentsOf
<1>4. /\ IsFiniteSet(T) /\ T \subseteq 1 .. Len(d)
      /\ \A k \in T : g[k] = d[k].amount /\ d[k].amount \in Int
  BY <1>1, PaymentsOf
<1>5. T = IF e.name = "ContribReceived" /\ e.id = id THEN S \cup {Len(c) + 1} ELSE S
  BY <1>1, <1>2 DEF Payments
<1> HIDE DEF f, g, S, T
<1>6. \A k \in S : g[k] = f[k]
  BY <1>1, <1>3, <1>4, <1>5
<1>7. SumFunctionOnSet(f, S) = SumFunctionOnSet(g, S) /\ SumFunctionOnSet(f, S) \in Int
  BY <1>3, <1>6, SumCongruence, SumType
<1>8. SumFunctionOnSet(g, T) = SumFunctionOnSet(f, S) +
        (IF e.name = "ContribReceived" /\ e.id = id THEN e.amount ELSE 0)
  <2>1. CASE e.name = "ContribReceived" /\ e.id = id
    <3>1. Len(c) + 1 \in T /\ T \ {Len(c) + 1} = S
      BY <1>2, <1>3, <1>5, <2>1
    <3>2. SumFunctionOnSet(g, T) = g[Len(c) + 1] + SumFunctionOnSet(g, S)
      BY <1>4, <3>1, SumTakeOut
    <3>3. g[Len(c) + 1] = e.amount
      BY <1>1, <1>4, <3>1
    <3>4. e.amount \in Int
      BY DEF Entry
    <3>5. QED
      BY <1>7, <2>1, <3>2, <3>3, <3>4
  <2>2. CASE ~(e.name = "ContribReceived" /\ e.id = id)
    <3>1. T = S
      BY <1>5, <2>2
    <3>2. QED
      BY <1>7, <2>2, <3>1
  <2>3. QED
    BY <2>1, <2>2
<1>9. QED
  BY <1>7, <1>8 DEF PaidBy, d, S, T, f, g

\* An invocation goes on telling what the contract has come to, and what it was paid.
LEMMA InvokeTells ==
  ASSUME IInv, IInv', ChainInv, Invoke, NEW V, ToldSoFar(V), PaidIn
  PROVE  /\ PaidIn'
         /\ \E W : /\ ToldBy(chain', W, campaign', dispute')
                   /\ \A n \in 0 .. Len(chain) : W[n] = V[n]
<1>1. chain \in Seq(Entry) /\ Tip \in Nat /\ StepTold
  BY TipIsLast, EventsTold DEF ChainInv, TipOnTop, Invoke
<1>2. /\ \A id \in CampaignIds :
           campaign[id].total_funded \in Nat /\ campaign'[id].total_funded \in Nat
      /\ \A id \in CampaignIds : audit[id].reconciled \in Int
  <2>1. audit \in [CampaignIds -> [redeemed : Nat, claimed : Nat, reconciled : Nat]]
    BY DEF IInv, TypeOK
  <2>2. campaign \in [CampaignIds -> Campaign] /\ campaign' \in [CampaignIds -> Campaign]
    BY DEF IInv, TypeOK
  <2>3. QED
    BY <2>1, <2>2 DEF Campaign
<1>3. CASE tx'.events = <<>> /\ UNCHANGED <<campaign, dispute, audit>>
  <2>1. chain' = chain
    BY <1>1, <1>3, EmittedChain
  <2>2. QED
    BY <1>3, <2>1 DEF PaidIn, Paid, ToldSoFar
<1>4. ASSUME NEW id \in CampaignIds, NEW e \in Event, OneTold(id, e)
      PROVE  /\ PaidIn'
             /\ \E W : /\ ToldBy(chain', W, campaign', dispute')
                       /\ \A n \in 0 .. Len(chain) : W[n] = V[n]
  <2> DEFINE x == Parsed(e)
  <2>1. /\ x \in Entry /\ x.id = id /\ x.name = e.name /\ x.amount = e.amount
        /\ Tells(campaign[id], dispute[id].status, x, campaign'[id], dispute'[id].status)
    BY <1>1, <1>4, ParsedTells DEF OneTold
  <2>2. chain' = Append(chain, x)
    BY <1>1, <1>4, EmittedChain DEF OneTold
  <2> HIDE DEF x
  <2>3. \E W : /\ ToldBy(Append(chain, x), W, campaign', dispute')
               /\ \A n \in 0 .. Len(chain) : W[n] = V[n]
    <3>1. TellsAll(x, campaign, dispute, campaign', dispute') /\ ToldBy(chain, V, campaign, dispute)
      BY <1>2, <1>4, <2>1 DEF OneTold, Concerns, ToldSoFar, TellsAll
    <3>2. QED
      BY <1>1, <2>1, <3>1, OneMoreTold
  <2>4. ASSUME NEW o \in CampaignIds PROVE PaidBy(chain', o) = Paid(o)'
    <3>1. /\ PaidBy(chain, o) \in Int
          /\ PaidBy(chain', o) = PaidBy(chain, o) +
               (IF x.name = "ContribReceived" /\ x.id = o THEN x.amount ELSE 0)
      BY <1>1, <2>1, <2>2, OneMorePayment
    <3>2. Paid(o)' = Paid(o) + (IF o = id THEN IF e.name = "ContribReceived" THEN e.amount ELSE 0
                                ELSE 0)
      BY <1>4 DEF OneTold, Concerns
    <3>3. QED
      BY <1>2, <2>1, <3>1, <3>2 DEF PaidIn, Paid
  <2>5. PaidIn'
    BY <2>4 DEF PaidIn
  <2>6. QED
    BY <2>2, <2>3, <2>5
<1>5. ASSUME NEW id \in CampaignIds, NEW e \in Event, NEW f \in Event, TwoTold(id, e, f)
      PROVE  /\ PaidIn'
             /\ \E W : /\ ToldBy(chain', W, campaign', dispute')
                       /\ \A n \in 0 .. Len(chain) : W[n] = V[n]
  <2> DEFINE x == Parsed(e)
             y == Parsed(f)
             c == Append(chain, x)
  <2>1. /\ x \in Entry /\ x.id = id /\ x.name = "CampaignFunded"
        /\ Tells(campaign[id], dispute[id].status, x, campaign'[id], dispute'[id].status)
        /\ y \in Entry /\ y.id = id /\ y.name = "ContribReceived" /\ y.amount = f.amount
        /\ Tells(campaign'[id], dispute'[id].status, y, campaign'[id], dispute'[id].status)
    BY <1>1, <1>5, ParsedTells DEF TwoTold
  <2>2. chain' = Append(c, y)
    BY <1>1, <1>5, EmittedChain DEF TwoTold
  <2> HIDE DEF x, y
  <2>3. c \in Seq(Entry) /\ Len(c) = Len(chain) + 1 /\ Len(chain) \in Nat
    BY <1>1, <2>1, AppendProperties, LenProperties
  <2>4. PICK U : ToldBy(c, U, campaign', dispute') /\ \A n \in 0 .. Len(chain) : U[n] = V[n]
    <3>1. TellsAll(x, campaign, dispute, campaign', dispute') /\ ToldBy(chain, V, campaign, dispute)
      BY <1>2, <1>5, <2>1 DEF TwoTold, Concerns, ToldSoFar, TellsAll
    <3>2. QED
      BY <1>1, <2>1, <3>1, OneMoreTold
  <2>5. ASSUME NEW o \in CampaignIds PROVE PaidBy(chain', o) = Paid(o)'
    <3>1. /\ PaidBy(chain, o) \in Int /\ PaidBy(c, o) = PaidBy(chain, o) + 0
      BY <1>1, <2>1, OneMorePayment
    <3>2. PaidBy(chain', o) = PaidBy(c, o) + (IF o = id THEN f.amount ELSE 0)
      <4> HIDE DEF c
      <4>1. QED
        BY <2>1, <2>2, <2>3, OneMorePayment
    <3>3. Paid(o)' = Paid(o) + (IF o = id THEN f.amount ELSE 0)
      BY <1>5 DEF TwoTold, Concerns
    <3>4. QED
      BY <1>2, <3>1, <3>2, <3>3 DEF PaidIn, Paid
  <2> HIDE DEF c
  <2>6. PICK W : ToldBy(Append(c, y), W, campaign', dispute') /\ \A n \in 0 .. Len(c) : W[n] = U[n]
    <3>1. TellsAll(y, campaign', dispute', campaign', dispute')
      BY <1>2, <2>1 DEF TellsAll
    <3>2. QED
      BY <2>1, <2>3, <2>4, <3>1, OneMoreTold
  <2>7. \A n \in 0 .. Len(chain) : W[n] = V[n]
    BY <2>3, <2>4, <2>6
  <2>8. PaidIn'
    BY <2>5 DEF PaidIn
  <2>9. QED
    BY <2>2, <2>6, <2>7, <2>8
<1>6. QED
  BY <1>1, <1>3, <1>4, <1>5 DEF StepTold

-----------------------------------------------------------------------------
(* What the writes of a handler make of tables that hold the events before it. *)

\* The audit row changes nothing that is shown of the campaign.
LEMMA AuditRewrites ==
  ASSUME NEW v \in Shown, NEW a
  PROVE  Rewrite(v, "transaction", a) = v
<1>1. Row(v.row, "transaction", a) = v.row /\ DisputeRow(v.dispute, "transaction") = v.dispute
  BY DEF Row, DisputeRow
<1>2. v = [row |-> v.row, dispute |-> v.dispute]
  BY DEF Shown
<1>3. QED
  BY <1>1, <1>2 DEF Rewrite

\* Between two writes of a handler.
LEMMA BetweenWrites ==
  ASSUME NEW v \in Shown, NEW e, e.name \in EventName, e.amount \in Int,
         NEW i \in 1 .. Len(Writes(e.name))
  PROVE  /\ Before(v, e, i) \in Shown /\ Before(v, e, 1) = v
         /\ i < Len(Writes(e.name)) =>
              Before(v, e, i + 1) = Rewrite(Before(v, e, i), Writes(e.name)[i], e.amount)
         /\ v.row.known => Before(v, e, i).row.known
         /\ e.name = "CampaignCreated" =>
              Writes(e.name)[i] = "campaign" \/ Before(v, e, i).row.known
<1> DEFINE x == Writes(e.name)[1]
           y == Writes(e.name)[2]
           f == Rewrite(v, x, e.amount)
           g == Rewrite(f, y, e.amount)
<1>1. f \in Shown /\ (f.row.known <=> v.row.known \/ x = "campaign")
  BY RewriteFields
<1>2. g \in Shown /\ (g.row.known <=> f.row.known \/ y = "campaign")
  <2> HIDE DEF f
  <2>1. QED
    BY <1>1, RewriteFields
<1>3. Before(v, e, 1) = v /\ Before(v, e, 2) = f /\ Before(v, e, 3) = g
  BY DEF Before
<1>4. i \in {1, 2, 3}
  <2>1. PICK m \in 1 .. 3 : m = Len(Writes(e.name))
    BY ListsNotEmpty
  <2>2. i \in 1 .. m
    BY <2>1
  <2>3. QED
    BY <2>2
<1>5. e.name = "CampaignCreated" => Writes(e.name)[1] = "campaign"
  <2>1. ASSUME e.name = "CampaignCreated" PROVE Writes(e.name) = <<"campaign", "transaction">>
    BY <2>1, ExactLists, ZenonT(60)
  <2>2. QED
    BY <2>1
<1>6. Len(Writes(e.name)) \in 1 .. 3
  BY ListsNotEmpty
<1> HIDE DEF f, g
<1>7. CASE i = 1
  BY <1>3, <1>5, <1>7 DEF f
<1>8. CASE i = 2
  <2>1. i + 1 = 3 /\ Before(v, e, i) = f /\ Before(v, e, i + 1) = g
    BY <1>3, <1>8
  <2>2. g = Rewrite(f, Writes(e.name)[i], e.amount)
    BY <1>8 DEF g
  <2>3. e.name = "CampaignCreated" => f.row.known
    BY <1>1, <1>5
  <2>4. QED
    BY <1>1, <1>3, <2>1, <2>2, <2>3
<1>9. CASE i = 3
  <2> DEFINE len == Len(Writes(e.name))
  <2>0. len \in 1 .. 3
    BY <1>6
  <2>1. Before(v, e, i) = g /\ ~(i < len)
    <3> HIDE DEF len
    <3>1. ~(i < len)
      BY <1>9, <2>0
    <3>2. QED
      BY <1>3, <1>9, <3>1
  <2>2. e.name = "CampaignCreated" => g.row.known
    BY <1>1, <1>2, <1>5
  <2>3. QED
    BY <1>1, <1>2, <1>3, <2>1, <2>2
<1>10. QED
  BY <1>4, <1>7, <1>8, <1>9

\* What a write for event k makes of the tables: t.
Puts(t, tables, k, write) ==
  LET o == chain[k].id IN
  /\ t.transactions = IF write = "transaction" THEN tables.transactions \cup {k}
                      ELSE tables.transactions
  /\ t.investments = IF write = "investment" THEN tables.investments \cup {k}
                     ELSE tables.investments
  /\ t.tranches = IF write = "tranche" THEN tables.tranches \cup {k} ELSE tables.tranches
  /\ DOMAIN t.campaign = CampaignIds /\ DOMAIN t.disputes = CampaignIds
  /\ t.campaign[o] = Row(tables.campaign[o], write, chain[k].amount)
  /\ t.disputes[o] = DisputeRow(tables.disputes[o], write)
  /\ \A id \in CampaignIds : id # o => /\ t.campaign[id] = tables.campaign[id]
                                       /\ t.disputes[id] = tables.disputes[id]

\* That is what a write makes of them.
LEMMA TablesWritten ==
  ASSUME NEW tables, NEW k, NEW write,
         DOMAIN tables.campaign = CampaignIds, DOMAIN tables.disputes = CampaignIds,
         chain[k].id \in CampaignIds
  PROVE  Puts(Written(tables, k, write), tables, k, write)
<1> DEFINE t == Written(tables, k, write)
           o == chain[k].id
<1>1. /\ t.campaign = [tables.campaign EXCEPT ![o] = Row(@, write, chain[k].amount)]
      /\ t.investments = Put(tables.investments, k, write = "investment")
      /\ t.tranches = Put(tables.tranches, k, write = "tranche")
      /\ t.disputes = [tables.disputes EXCEPT ![o] = DisputeRow(@, write)]
      /\ t.transactions = Put(tables.transactions, k, write = "transaction")
  BY DEF Written
<1> HIDE DEF t
<1>2. QED
  BY <1>1 DEF Put, Puts, t

\* The payments among the first events.
LEMMA ReceivedNext ==
  ASSUME NEW n \in Nat
  PROVE  /\ Received(chain, n) \subseteq 1 .. n
         /\ Received(chain, n + 1) =
              Received(chain, n) \cup {k \in {n + 1} : chain[k].name = "ContribReceived"}
  BY DEF Received

\* A handler's next write finds what it needs, and the last of them, the audit row,
\* makes its event one that the tables hold.
LEMMA WriteMovesOn ==
  ASSUME ChainInv, NEW V, Recounts(chain, V), NEW tables, NEW n \in Nat, n + 1 \in DOMAIN chain,
         NEW i \in 1 .. Len(Writes(chain[n + 1].name)), HoldsPart(chain, tables, V, n, i)
  PROVE  LET list == Writes(chain[n + 1].name)
             next == Written(tables, n + 1, list[i])
         IN  /\ Accepted(tables, n + 1, list[i])
             /\ i < Len(list) => HoldsPart(chain, next, V, n, i + 1)
             /\ i = Len(list) => HoldsFirst(chain, next, V, n + 1)
<1> DEFINE k == n + 1
           e == chain[k]
           o == e.id
           v == V[n][o]
           list == Writes(e.name)
           write == list[i]
           b == Before(v, e, i)
           next == Written(tables, k, write)
<1>1. k \in 1 .. Len(chain) /\ Len(chain) \in Nat /\ e \in Entry
  BY LenProperties, ElementOfSeq DEF ChainInv
<1>2. e.name \in EventName /\ e.id \in CampaignIds /\ e.amount \in Int
  BY <1>1 DEF Entry
<1>3. V[n] \in [CampaignIds -> Shown] /\ V[n + 1] \in [CampaignIds -> Shown]
  BY <1>1 DEF Recounts
<1>4. v \in Shown
  BY <1>2, <1>3
<1>5. /\ Expected(v, e) /\ V[n + 1][o] = After(v, e)
      /\ \A id \in CampaignIds : id # o => V[n + 1][id] = V[n][id]
  <2>1. k - 1 = n
    OBVIOUS
  <2>2. QED
    BY <1>1, <2>1 DEF Recounts
<1>6. Len(list) \in 1 .. 3 /\ i \in 1 .. Len(list) /\ i \in Nat /\ i >= 1 /\ i <= Len(list)
  <2>1. Len(list) \in 1 .. 3
    BY <1>2, ListsNotEmpty
  <2>2. QED
    BY <2>1
<1>7. /\ b \in Shown /\ Before(v, e, 1) = v
      /\ i < Len(list) => Before(v, e, i + 1) = Rewrite(b, write, e.amount)
      /\ v.row.known => b.row.known
      /\ e.name = "CampaignCreated" => write = "campaign" \/ b.row.known
  <2> HIDE DEF v, e
  <2>1. QED
    BY <1>2, <1>4, <1>6, BetweenWrites
<1>8. Placed(e.name, list, i)
  <2> HIDE DEF e
  <2>1. QED
    BY <1>2, <1>6, PlaceOfWrite
<1>9. /\ DOMAIN tables.campaign = CampaignIds /\ DOMAIN tables.disputes = CampaignIds
      /\ tables.transactions = 1 .. n
      /\ tables.investments =
           Received(chain, n) \cup {j \in {n + 1} : i > 1 /\ chain[j].name = "ContribReceived"}
      /\ tables.tranches \subseteq 1 .. (n + (IF i > 1 THEN 1 ELSE 0))
  BY DEF HoldsPart
<1>10. tables.campaign[o] = b.row /\ tables.disputes[o] = b.dispute
  <2>1. LET w == IF i > 1 /\ o = chain[n + 1].id
                 THEN Before(V[n][o], chain[n + 1], i) ELSE V[n][o]
        IN  tables.campaign[o] = w.row /\ tables.disputes[o] = w.dispute
    BY <1>2 DEF HoldsPart
  <2>2. CASE i > 1
    BY <2>1, <2>2
  <2>3. CASE i = 1
    BY <1>7, <2>1, <2>3
  <2>4. QED
    BY <1>6, <2>2, <2>3
<1>11. \A id \in CampaignIds : id # o => /\ tables.campaign[id] = V[n][id].row
                                         /\ tables.disputes[id] = V[n][id].dispute
  BY DEF HoldsPart
<1>12. /\ next.transactions = IF write = "transaction" THEN tables.transactions \cup {k}
                              ELSE tables.transactions
       /\ next.investments = IF write = "investment" THEN tables.investments \cup {k}
                             ELSE tables.investments
       /\ next.tranches = IF write = "tranche" THEN tables.tranches \cup {k} ELSE tables.tranches
       /\ DOMAIN next.campaign = CampaignIds /\ DOMAIN next.disputes = CampaignIds
       /\ next.campaign[o] = Row(b.row, write, e.amount)
       /\ next.disputes[o] = DisputeRow(b.dispute, write)
       /\ \A id \in CampaignIds : id # o => /\ next.campaign[id] = tables.campaign[id]
                                            /\ next.disputes[id] = tables.disputes[id]
  <2> HIDE DEF write, b, k
  <2>1. DOMAIN tables.campaign = CampaignIds /\ DOMAIN tables.disputes = CampaignIds
    BY <1>9
  <2>2. Puts(next, tables, k, write)
    BY <1>2, <2>1, TablesWritten
  <2> HIDE DEF next
  <2>3. QED
    BY <1>10, <2>2 DEF Puts
<1>13. LET w == Rewrite(b, write, e.amount) IN
       next.campaign[o] = w.row /\ next.disputes[o] = w.dispute
  BY <1>12 DEF Rewrite
<1>14. Received(chain, n) \subseteq 1 .. n
       /\ Received(chain, n + 1) =
            Received(chain, n) \cup {j \in {n + 1} : chain[j].name = "ContribReceived"}
  BY ReceivedNext
<1> HIDE DEF b, list, write, next, v
<1>15. Accepted(tables, k, write)
  <2>1. write \in {"campaign", "inProduction", "verdict"} \/ b.row.known
    BY <1>5, <1>7 DEF Expected
  <2>2. write = "investment" => k \notin tables.investments
    BY <1>8, <1>9, <1>14 DEF Placed, write
  <2>3. write = "tranche" => k \notin tables.tranches
    BY <1>8, <1>9 DEF Placed, write
  <2>4. write = "dispute" => tables.disputes[o] = "None"
    <3>1. write = "dispute" => b = v /\ v.dispute = "None"
      BY <1>5, <1>7, <1>8 DEF Placed, write, Expected, b
    <3>2. QED
      BY <1>10, <3>1
  <2>5. write = "transaction" => k \notin tables.transactions
    BY <1>9
  <2>6. QED
    BY <1>10, <2>1, <2>2, <2>3, <2>4, <2>5 DEF Accepted
<1>16. ASSUME i < Len(list) PROVE HoldsPart(chain, next, V, n, i + 1)
  <2>1. write # "transaction" /\ i + 1 > 1
    BY <1>6, <1>8, <1>16 DEF Placed, write
  <2>2. next.transactions = 1 .. n
    BY <1>9, <1>12, <2>1
  <2>3. next.investments =
          Received(chain, n) \cup {j \in {n + 1} : i + 1 > 1 /\ chain[j].name = "ContribReceived"}
    BY <1>6, <1>8, <1>9, <1>12, <2>1 DEF Placed, write
  <2>4. next.tranches \subseteq 1 .. (n + (IF i + 1 > 1 THEN 1 ELSE 0))
    BY <1>9, <1>12, <2>1
  <2>5. ASSUME NEW id \in CampaignIds
        PROVE  LET w == IF i + 1 > 1 /\ id = chain[n + 1].id
                        THEN Before(V[n][id], chain[n + 1], i + 1) ELSE V[n][id]
               IN  next.campaign[id] = w.row /\ next.disputes[id] = w.dispute
    <3>1. CASE id = o
      BY <1>7, <1>13, <1>16, <2>1, <3>1 DEF v
    <3>2. CASE id # o
      BY <1>11, <1>12, <3>2
    <3>3. QED
      BY <3>1, <3>2
  <2>6. QED
    BY <1>12, <2>2, <2>3, <2>4, <2>5 DEF HoldsPart
<1>17. ASSUME i = Len(list) PROVE HoldsFirst(chain, next, V, n + 1)
  <2>1. write = "transaction"
    BY <1>8, <1>17 DEF Placed, write
  <2>2. next.transactions = 1 .. (n + 1)
    BY <1>9, <1>12, <2>1
  <2>3. next.investments = Received(chain, n + 1)
    BY <1>6, <1>8, <1>9, <1>12, <1>14, <1>17, <2>1 DEF Placed, write
  <2>4. next.tranches \subseteq 1 .. (n + 1)
    BY <1>9, <1>12, <2>1
  <2>5. Rewrite(b, write, e.amount) = V[n + 1][o]
    BY <1>5, <1>7, <1>17, <2>1, AuditRewrites DEF After, b, list
  <2>6. \A id \in CampaignIds : /\ next.campaign[id] = V[n + 1][id].row
                                /\ next.disputes[id] = V[n + 1][id].dispute
    BY <1>5, <1>11, <1>12, <1>13, <2>5
  <2>7. QED
    BY <1>12, <2>2, <2>3, <2>4, <2>6 DEF HoldsFirst, HoldsPart
<1>18. QED
  BY <1>15, <1>16, <1>17 DEF list, write, next

\* The numbers a poll keeps.
LEMMA LocalFields ==
  ASSUME NEW s \in Local
  PROVE  /\ s.latest \in Nat /\ s.from \in Nat /\ s.to \in Nat /\ s.pages \in Nat
         /\ s.event \in Nat /\ s.step \in Nat
BY DEF Local

\* What is left to show of a step of the one poll under way.
LEMMA PollStaysInStep ==
  ASSUME CursorTypes, UNCHANGED chain, NEW p \in Polls, NEW l \in Local, Steps(p, l),
         OthersIdle(p), NEW V, NEW n \in 0 .. Len(chain), processed' = 1 .. n,
         last' \in Nat, \A k \in DOMAIN chain : chain[k].ledger <= last' => k <= n,
         PollInStep(chain, db', V, n, l), l.at \notin Working => HoldsFirst(chain, db', V, n)
  PROVE  InStepNow(V, n)'
<1>1. poll'[p] = l /\ \A q \in Polls : q # p => poll'[q] = Idle
  BY OnePollMoves DEF OthersIdle
<1>2. \A q \in Polls : PollInStep(chain, db', V, n, poll'[q])
  <2>1. PollInStep(chain, db', V, n, Idle)
    BY LocalTypes DEF PollInStep, Working, OnPage
  <2>2. QED
    BY <1>1, <2>1
<1>3. OneAtATime(poll')
  BY <1>1 DEF OneAtATime
<1>4. (\A q \in Polls : poll'[q].at \notin Working) => HoldsFirst(chain, db', V, n)
  BY <1>1
<1>5. QED
  BY <1>2, <1>3, <1>4 DEF InStepNow, InStep

\* A poll under way is the only one; on its page, it knows where the page is.
LEMMA TheOnePoll ==
  ASSUME CursorInv, ChainInv, WorkInv, NEW V, NEW m, InStepNow(V, m),
         NEW p \in Polls, poll[p].at # "idle"
  PROVE  /\ OthersIdle(p) /\ poll[p] \in Local /\ PollInStep(chain, db, V, m, poll[p])
         /\ m \in 0 .. Len(chain) /\ Len(chain) \in Nat /\ m \in Nat
         /\ DOMAIN chain = 1 .. Len(chain) /\ processed = 1 .. m /\ last \in Nat
         /\ \A k \in DOMAIN chain : chain[k].ledger <= last => k <= m
         /\ poll[p].at \notin Working => HoldsFirst(chain, db, V, m)
<1>1. poll[p] # Idle
  BY LocalTypes
<1>2. OthersIdle(p)
  BY <1>1 DEF InStepNow, InStep, OneAtATime, OthersIdle
<1>3. poll[p].at \notin Working => HoldsFirst(chain, db, V, m)
  BY <1>2, LocalTypes DEF InStepNow, InStep, OthersIdle, Working
<1>4. poll[p] \in Local
  BY DEF CursorInv, CursorTypes
<1>5. Len(chain) \in Nat /\ DOMAIN chain = 1 .. Len(chain)
  BY LenProperties DEF ChainInv
<1>6. QED
  BY <1>2, <1>3, <1>4, <1>5 DEF InStepNow, InStep

\* A poll that starts.
LEMMA StartInStep ==
  ASSUME CursorInv, ChainInv, WorkInv, UNCHANGED chain, NEW V, NEW m, InStepNow(V, m),
         NEW p \in Polls, StartPoll(p), ~tally'.overlap
  PROVE  InStepNow(V, m)'
<1> DEFINE l == [Idle EXCEPT !.at = "started", !.latest = Tip]
<1>1. l \in Local /\ l.at = "started"
  BY LocalTypes, TipIsLast DEF At, TipOnTop
<1>2. Steps(p, l) /\ poll[p] = Idle /\ UNCHANGED <<db, cursor, last, processed>>
  BY DEF StartPoll
<1>3. OthersIdle(p)
  <2>1. CursorTypes /\ tally \in Tally
    BY DEF CursorInv, CursorTypes
  <2>2. tally' = [tally EXCEPT !.overlap = @ \/ \E q \in Polls \ {p} : poll[q] # Idle]
    BY DEF StartPoll
  <2>3. tally'.overlap = (tally.overlap \/ \E q \in Polls \ {p} : poll[q] # Idle)
    BY <2>1, <2>2 DEF Tally
  <2>4. QED
    BY <2>3 DEF OthersIdle
<1> HIDE DEF l
<1>4. \A q \in Polls : poll[q].at \notin Working
  BY <1>2, <1>3, LocalTypes DEF OthersIdle, Working
<1>5. /\ m \in 0 .. Len(chain) /\ processed = 1 .. m /\ last \in Nat
      /\ \A k \in DOMAIN chain : chain[k].ledger <= last => k <= m
      /\ HoldsFirst(chain, db, V, m)
  BY <1>4 DEF InStepNow, InStep
<1>6. PollInStep(chain, db', V, m, l)
  BY <1>1 DEF PollInStep, Working, OnPage
<1>7. CursorTypes
  BY DEF CursorInv
<1>8. QED
  BY <1>1, <1>2, <1>3, <1>5, <1>6, <1>7, PollStaysInStep

\* A poll that chooses where to start: not beyond the event after the last taken.
LEMMA ChooseInStep ==
  ASSUME CursorInv, ChainInv, WorkInv, UNCHANGED chain, NEW V, NEW m, InStepNow(V, m),
         NEW p \in Polls, ChooseStart(p)
  PROVE  InStepNow(V, m)'
<1> DEFINE s == poll[p]
           c == Cardinality({k \in DOMAIN chain : chain[k].ledger <= last})
           from == 1 + c
           l == [s EXCEPT !.at = "fetching", !.from = from]
<1>1. s.at = "started" /\ (Steps(p, Idle) \/ Steps(p, l)) /\ UNCHANGED <<db, last, processed>>
  BY DEF ChooseStart
<1>2. /\ OthersIdle(p) /\ s \in Local /\ PollInStep(chain, db, V, m, s)
      /\ m \in 0 .. Len(chain) /\ Len(chain) \in Nat /\ m \in Nat /\ DOMAIN chain = 1 .. Len(chain)
      /\ processed = 1 .. m /\ last \in Nat
      /\ \A k \in DOMAIN chain : chain[k].ledger <= last => k <= m
      /\ s.at \notin Working => HoldsFirst(chain, db, V, m)
  BY <1>1, TheOnePoll
<1>3. HoldsFirst(chain, db', V, m) /\ CursorTypes /\ Idle \in Local
  BY <1>1, <1>2, LocalTypes DEF Working, CursorInv
<1>4. c \in Nat /\ c <= m
  <2> HIDE DEF s, l, from
  <2>1. c \in Nat /\ c <= Len(chain) /\ \A k \in DOMAIN chain : k <= c => chain[k].ledger <= last
    <3>1. last \in Int
      BY <1>2
    <3>2. QED
      BY <3>1, StartOfPoll
  <2> HIDE DEF c
  <2>2. CASE c = 0
    BY <1>2, <2>2
  <2>3. CASE c # 0
    <3>1. c \in DOMAIN chain
      BY <1>2, <2>1, <2>3
    <3>2. QED
      BY <1>2, <2>1, <3>1
  <2>4. QED
    BY <2>2, <2>3
<1>5. from \in Nat /\ from <= m + 1
  BY <1>2, <1>4
<1> HIDE DEF c, from, s
<1>6. l \in Local /\ l.at = "fetching" /\ l.from = from
  BY <1>2, <1>5 DEF Local, At
<1> HIDE DEF l
<1>7. PollInStep(chain, db', V, m, l) /\ PollInStep(chain, db', V, m, Idle)
  BY <1>5, <1>6, LocalTypes DEF PollInStep, Working, OnPage
<1>8. QED
  BY <1>1, <1>2, <1>3, <1>6, <1>7, PollStaysInStep

\* A poll that fetches a page.
LEMMA FetchInStep ==
  ASSUME CursorInv, ChainInv, WorkInv, UNCHANGED chain, NEW V, NEW m, InStepNow(V, m),
         NEW p \in Polls, Fetch(p)
  PROVE  InStepNow(V, m)'
<1> DEFINE s == poll[p]
           e == s.from + PageLimit - 1
           to == IF e <= Len(chain) THEN e ELSE Len(chain)
           pages == s.pages + 1
           l == [s EXCEPT !.at = "choosing", !.pages = pages, !.to = to]
<1>1. s.at = "fetching" /\ Steps(p, l) /\ UNCHANGED <<db, last, processed>>
  BY DEF Fetch
<1>2. /\ OthersIdle(p) /\ s \in Local /\ PollInStep(chain, db, V, m, s)
      /\ m \in 0 .. Len(chain) /\ Len(chain) \in Nat /\ m \in Nat /\ DOMAIN chain = 1 .. Len(chain)
      /\ processed = 1 .. m /\ last \in Nat
      /\ \A k \in DOMAIN chain : chain[k].ledger <= last => k <= m
      /\ s.at \notin Working => HoldsFirst(chain, db, V, m)
  BY <1>1, TheOnePoll
<1>3. HoldsFirst(chain, db', V, m) /\ CursorTypes
  BY <1>1, <1>2 DEF Working, CursorInv
<1>4. 1 <= s.from
  BY <1>1 DEF CursorInv, PollKnows
<1>5. s.from \in Nat /\ s.pages \in Nat /\ PageLimit \in Nat /\ PageLimit > 0
  BY <1>2, IndexerConstants DEF Local
<1> HIDE DEF s
<1>6. to \in Nat /\ pages \in Nat
  BY <1>2, <1>4, <1>5
<1> HIDE DEF to, pages, e
<1>7. l \in Local /\ l.at = "choosing" /\ l.from = s.from
  BY <1>2, <1>6 DEF Local, At
<1> HIDE DEF l
<1>8. PollInStep(chain, db', V, m, l)
  BY <1>1, <1>2, <1>7 DEF PollInStep, Working, OnPage
<1>9. QED
  BY <1>1, <1>2, <1>3, <1>7, <1>8, PollStaysInStep

\* The next event a poll takes is the one after the last.
LEMMA TakeInStep ==
  ASSUME CursorInv, ChainInv, WorkInv, UNCHANGED chain, NEW V, NEW m, InStepNow(V, m),
         NEW p \in Polls, TakeEvent(p)
  PROVE  InStepNow(V, m + 1)'
<1> DEFINE s == poll[p]
<1>1. s.at = "choosing" /\ UNCHANGED <<db, cursor, last>>
  BY DEF TakeEvent
<1>2. PICK k \in Fresh(p) : /\ \A j \in Fresh(p) : k <= j
                            /\ processed' = processed \cup {k}
                            /\ Steps(p, [s EXCEPT !.at = "looking", !.event = k])
  BY DEF TakeEvent
<1>3. /\ OthersIdle(p) /\ s \in Local /\ PollInStep(chain, db, V, m, s)
      /\ m \in 0 .. Len(chain) /\ Len(chain) \in Nat /\ m \in Nat /\ DOMAIN chain = 1 .. Len(chain)
      /\ processed = 1 .. m /\ last \in Nat
      /\ \A j \in DOMAIN chain : chain[j].ledger <= last => j <= m
      /\ s.at \notin Working => HoldsFirst(chain, db, V, m)
  BY <1>1, TheOnePoll
<1>4. HoldsFirst(chain, db', V, m) /\ CursorTypes
  BY <1>1, <1>3 DEF Working, CursorInv
<1>5. 1 <= s.from /\ s.to <= Len(chain) /\ s.from <= m + 1
  BY <1>1, <1>3 DEF CursorInv, PollKnows, PageKnown, OnPage, PollInStep
<1>6. s.from \in Nat /\ s.to \in Nat /\ Fresh(p) = (s.from .. s.to) \ (1 .. m)
  BY <1>3 DEF Local, Fresh
<1> HIDE DEF s
<1>7. k \in Nat /\ k = m + 1 /\ k \in 0 .. Len(chain)
  <2>1. k \in Nat /\ s.from <= k /\ k <= s.to /\ ~(1 <= k /\ k <= m)
    BY <1>2, <1>3, <1>5, <1>6
  <2>2. k >= m + 1
    BY <1>3, <1>5, <1>6, <2>1
  <2>3. m + 1 \in Fresh(p)
    BY <1>3, <1>5, <1>6, <2>1, <2>2
  <2>4. k <= m + 1
    BY <1>2, <2>3
  <2>5. k = m + 1
    BY <1>3, <2>1, <2>2, <2>4
  <2>6. m + 1 <= Len(chain)
    BY <1>3, <1>5, <1>6, <2>1, <2>5
  <2>7. QED
    BY <1>3, <2>5, <2>6
<1> DEFINE l == [s EXCEPT !.at = "looking", !.event = k]
<1>8. Turned(l, s, "looking") /\ l.event = k
  <2>1. s \in Local /\ k \in Nat
    BY <1>3, <1>7
  <2>2. QED
    BY <2>1, EventLocals
<1>9. Steps(p, l)
  BY <1>2
<1> HIDE DEF l
<1>10. l \in Local /\ l.at = "looking" /\ l.from = s.from
  BY <1>8 DEF Turned
<1>11. k - 1 = m /\ k >= 1 /\ l.from <= k + 1
  BY <1>3, <1>5, <1>6, <1>7, <1>10
<1>12. PollInStep(chain, db', V, k, l)
  <2>1. HoldsFirst(chain, db', V, k - 1)
    BY <1>4, <1>11
  <2> HIDE DEF s
  <2>2. QED
    BY <1>8, <1>10, <1>11, <2>1 DEF PollInStep
<1>13. processed' = 1 .. k
  BY <1>2, <1>3, <1>7
<1>14. \A j \in DOMAIN chain : chain[j].ledger <= last' => j <= k
  BY <1>1, <1>3, <1>7
<1>15. last' \in Nat /\ (l.at \notin Working => HoldsFirst(chain, db', V, k))
  BY <1>1, <1>3, <1>10 DEF Working
<1>16. InStepNow(V, k)'
  BY <1>3, <1>4, <1>7, <1>9, <1>10, <1>12, <1>13, <1>14, <1>15, PollStaysInStep
<1>17. QED
  BY <1>7, <1>16

\* A drained page, whether more follow or the cursor moves: what it may claim was taken.
LEMMA EndInStep ==
  ASSUME CursorInv, ChainInv, WorkInv, UNCHANGED chain, NEW V, NEW m, InStepNow(V, m),
         NEW p \in Polls, EndPage(p)
  PROVE  InStepNow(V, m)'
<1> DEFINE s == poll[p]
           full == s.to - s.from + 1 = PageLimit
           saving(to) == [Idle EXCEPT !.at = "saving", !.latest = to]
           n == s.to + 1
           l == [s EXCEPT !.at = "fetching", !.from = n]
<1>1. s.at = "choosing" /\ Fresh(p) = {} /\ UNCHANGED <<db, cursor, processed>>
  BY DEF EndPage
<1>2. \/ ~full /\ last' = Reached(p) /\ Steps(p, saving(Reached(p)))
      \/ /\ full /\ last' = ResumeBefore(chain[s.to].ledger)
         /\ Steps(p, saving(ResumeBefore(chain[s.to].ledger)))
      \/ full /\ Steps(p, l) /\ UNCHANGED last
  BY DEF EndPage
<1>3. /\ OthersIdle(p) /\ s \in Local /\ PollInStep(chain, db, V, m, s)
      /\ m \in 0 .. Len(chain) /\ Len(chain) \in Nat /\ m \in Nat /\ DOMAIN chain = 1 .. Len(chain)
      /\ processed = 1 .. m /\ last \in Nat
      /\ \A j \in DOMAIN chain : chain[j].ledger <= last => j <= m
      /\ s.at \notin Working => HoldsFirst(chain, db, V, m)
  BY <1>1, TheOnePoll
<1>4. HoldsFirst(chain, db', V, m) /\ CursorTypes
  BY <1>1, <1>3 DEF Working, CursorInv
<1>5. 1 <= s.from /\ PageKnown(chain, s) /\ s.from <= m + 1
  BY <1>1, <1>3 DEF CursorInv, PollKnows, OnPage, PollInStep
<1>6. /\ s.from \in Nat /\ s.to \in Nat /\ s.latest \in Nat
      /\ PageLimit \in Nat /\ PageLimit > 0 /\ Fresh(p) = (s.from .. s.to) \ (1 .. m)
  <2>1. Fresh(p) = (s.from .. s.to) \ (1 .. m)
    BY <1>3 DEF Fresh
  <2>2. PageLimit \in Nat /\ PageLimit > 0
    BY IndexerConstants
  <2> HIDE DEF s
  <2>3. s.from \in Nat /\ s.to \in Nat /\ s.latest \in Nat
    BY <1>3, LocalFields
  <2>4. QED
    BY <2>1, <2>2, <2>3
<1> HIDE DEF s
<1>7. s.to <= m
  <2>1. CASE s.to < s.from
    BY <1>3, <1>5, <1>6, <2>1
  <2>2. CASE s.from <= s.to
    <3>1. s.to \in 1 .. m
      BY <1>1, <1>5, <1>6, <2>2
    <3>2. QED
      BY <1>3, <3>1
  <2>3. QED
    BY <1>6, <2>1, <2>2
<1>8. \A k \in DOMAIN chain : chain[k].ledger \in Nat /\ chain[k].ledger > 0
  BY EntryFields DEF ChainInv
<1>9. ASSUME NEW to \in Nat, \A k \in DOMAIN chain : chain[k].ledger <= to => k <= s.to,
             last' = to, Steps(p, saving(to))
      PROVE  InStepNow(V, m)'
  <2>1. saving(to) \in Local /\ saving(to).at = "saving"
    BY LocalTypes DEF At
  <2> HIDE DEF saving
  <2>2. PollInStep(chain, db', V, m, saving(to))
    BY <2>1 DEF PollInStep, OnPage, Working
  <2>3. \A k \in DOMAIN chain : chain[k].ledger <= last' => k <= m
    BY <1>3, <1>6, <1>7, <1>9
  <2>4. QED
    BY <1>1, <1>3, <1>4, <1>9, <2>1, <2>2, <2>3, PollStaysInStep
<1>10. CASE ~full /\ last' = Reached(p) /\ Steps(p, saving(Reached(p)))
  <2>1. Reached(p) = s.latest
    BY DEF Reached, s
  <2>2. \A k \in DOMAIN chain : chain[k].ledger <= s.latest => k <= s.to
    BY <1>5, <1>6, <1>10 DEF PageKnown
  <2>3. QED
    BY <1>6, <1>9, <1>10, <2>1, <2>2
<1>11. CASE /\ full /\ last' = ResumeBefore(chain[s.to].ledger)
            /\ Steps(p, saving(ResumeBefore(chain[s.to].ledger)))
  <2> DEFINE to == ResumeBefore(chain[s.to].ledger)
  <2>1. s.to \in DOMAIN chain
    BY <1>3, <1>5, <1>6, <1>11 DEF PageKnown
  <2>2. to \in Nat /\ to = chain[s.to].ledger - 1
    BY <1>8, <2>1 DEF ResumeBefore
  <2> HIDE DEF to
  <2>3. ASSUME NEW k \in DOMAIN chain, chain[k].ledger <= to PROVE k <= s.to
    <3>1. k \in Nat /\ s.to < k => chain[s.to].ledger <= chain[k].ledger
      BY <2>1 DEF ChainInv
    <3>2. k \in Nat /\ chain[k].ledger \in Nat /\ chain[s.to].ledger \in Nat
      BY <1>3, <1>8, <2>1
    <3>3. QED
      BY <1>6, <2>2, <2>3, <3>1, <3>2
  <2>4. last' = to /\ Steps(p, saving(to))
    BY <1>11 DEF to
  <2>5. QED
    BY <1>9, <2>2, <2>3, <2>4
<1>12. CASE full /\ Steps(p, l) /\ UNCHANGED last
  <2>1. n \in Nat /\ n <= m + 1
    BY <1>3, <1>6, <1>7
  <2> HIDE DEF n
  <2>2. l \in Local /\ l.at = "fetching" /\ l.from = n
    BY <1>3, <2>1 DEF Local, At
  <2>3. Steps(p, l)
    BY <1>12
  <2> HIDE DEF l
  <2>4. PollInStep(chain, db', V, m, l)
    BY <2>1, <2>2 DEF PollInStep, OnPage, Working
  <2>5. QED
    BY <1>1, <1>3, <1>4, <1>12, <2>2, <2>3, <2>4, PollStaysInStep
<1>13. QED
  BY <1>2, <1>10, <1>11, <1>12

\* A poll that has persisted the cursor.
LEMMA SaveInStep ==
  ASSUME CursorInv, ChainInv, WorkInv, UNCHANGED chain, NEW V, NEW m, InStepNow(V, m),
         NEW p \in Polls, SaveCursor(p)
  PROVE  InStepNow(V, m)'
<1>1. poll[p].at = "saving" /\ Steps(p, Idle) /\ UNCHANGED <<db, last, processed>>
  BY DEF SaveCursor
<1>2. /\ OthersIdle(p)
      /\ m \in 0 .. Len(chain) /\ processed = 1 .. m /\ last \in Nat
      /\ \A j \in DOMAIN chain : chain[j].ledger <= last => j <= m
      /\ poll[p].at \notin Working => HoldsFirst(chain, db, V, m)
  BY <1>1, TheOnePoll
<1>3. HoldsFirst(chain, db', V, m) /\ CursorTypes /\ Idle \in Local
  BY <1>1, <1>2, LocalTypes DEF Working, CursorInv
<1>4. PollInStep(chain, db', V, m, Idle)
  BY LocalTypes DEF PollInStep, OnPage, Working
<1>5. QED
  BY <1>1, <1>2, <1>3, <1>4, PollStaysInStep

\* A poll that looks its event up does not find it, and goes on to the first write.
LEMMA LookUpInStep ==
  ASSUME CursorInv, ChainInv, WorkInv, UNCHANGED chain, NEW V, NEW m, InStepNow(V, m),
         NEW p \in Polls, LookUp(p)
  PROVE  InStepNow(V, m)'
<1> DEFINE s == poll[p]
           l == [s EXCEPT !.at = "writing", !.step = 1]
<1>1. /\ s.at = "looking" /\ UNCHANGED <<db, last, processed>>
      /\ Steps(p, IF s.event \in db.transactions THEN Leave(p) ELSE l)
  BY DEF LookUp
<1>2. /\ OthersIdle(p) /\ s \in Local /\ PollInStep(chain, db, V, m, s)
      /\ m \in 0 .. Len(chain) /\ m \in Nat /\ processed = 1 .. m /\ last \in Nat
      /\ \A j \in DOMAIN chain : chain[j].ledger <= last => j <= m
  BY <1>1, TheOnePoll
<1>3. HoldsFirst(chain, db, V, m - 1) /\ s.event = m /\ m >= 1 /\ s.from <= m + 1
  BY <1>1, <1>2 DEF PollInStep, Working, OnPage
<1>4. db.transactions = 1 .. (m - 1)
  BY <1>3 DEF HoldsFirst, HoldsPart
<1>5. Steps(p, l)
  BY <1>1, <1>2, <1>3, <1>4
<1> HIDE DEF s
<1>6. Turned(l, s, "writing") /\ l.event = s.event /\ l.step = 1
  <2>1. s \in Local /\ 1 \in Nat
    BY <1>2
  <2>2. QED
    BY <2>1, EventLocals
<1> HIDE DEF l
<1>7. l \in Local /\ l.at = "writing" /\ l.from = s.from
  BY <1>6 DEF Turned
<1>8. PollInStep(chain, db', V, m, l)
  BY <1>1, <1>2, <1>3, <1>6, <1>7 DEF PollInStep, OnPage, Working, HoldsFirst
<1>9. CursorTypes /\ l.at \in Working
  BY <1>7 DEF CursorInv, Working
<1>10. QED
  BY <1>1, <1>2, <1>5, <1>7, <1>8, <1>9, PollStaysInStep

\* A write of an event's handler is accepted, and takes the index one write further.
LEMMA WriteInStep ==
  ASSUME CursorInv, ChainInv, WorkInv, UNCHANGED chain, NEW V, NEW m, InStepNow(V, m),
         Recounts(chain, V), NEW p \in Polls, Write(p)
  PROVE  InStepNow(V, m)'
<1> DEFINE s == poll[p]
           i == s.step
           list == Writes(chain[m].name)
           next == Written(db, m, list[i])
           l == [s EXCEPT !.step = i + 1]
<1>1. s.at = "writing" /\ UNCHANGED <<last, processed>>
  BY DEF Write
<1>2. /\ OthersIdle(p) /\ s \in Local /\ PollInStep(chain, db, V, m, s)
      /\ m \in 0 .. Len(chain) /\ Len(chain) \in Nat /\ m \in Nat /\ DOMAIN chain = 1 .. Len(chain)
      /\ processed = 1 .. m /\ last \in Nat
      /\ \A j \in DOMAIN chain : chain[j].ledger <= last => j <= m
  BY <1>1, TheOnePoll
<1>3. HoldsPart(chain, db, V, m - 1, i) /\ s.event = m /\ m >= 1 /\ s.from <= m + 1
  BY <1>1, <1>2 DEF PollInStep, Working, OnPage
<1>4. i \in 1 .. Len(list)
  BY <1>1, <1>3 DEF WorkInv, Working, WorkKnown
<1>5. /\ Accepted(db, m, list[i])
      /\ i < Len(list) => HoldsPart(chain, next, V, m - 1, i + 1)
      /\ i = Len(list) => HoldsFirst(chain, next, V, m)
  <2>1. m - 1 \in Nat /\ (m - 1) + 1 = m /\ m \in DOMAIN chain
    BY <1>2, <1>3
  <2> DEFINE n == m - 1
  <2>2. n \in Nat /\ n + 1 = m /\ HoldsPart(chain, db, V, n, i)
    BY <1>3, <2>1
  <2> HIDE DEF n
  <2>3. n + 1 \in DOMAIN chain /\ i \in 1 .. Len(Writes(chain[n + 1].name))
    BY <1>4, <2>1, <2>2
  <2>4. /\ Accepted(db, n + 1, Writes(chain[n + 1].name)[i])
        /\ i < Len(Writes(chain[n + 1].name)) =>
             HoldsPart(chain, Written(db, n + 1, Writes(chain[n + 1].name)[i]), V, n, i + 1)
        /\ i = Len(Writes(chain[n + 1].name)) =>
             HoldsFirst(chain, Written(db, n + 1, Writes(chain[n + 1].name)[i]), V, n + 1)
    <3> HIDE DEF i
    <3>1. QED
      BY <2>2, <2>3, WriteMovesOn
  <2>5. QED
    BY <2>2, <2>4 DEF n
<1>6. db' = next /\ Steps(p, IF i < Len(list) THEN l ELSE Leave(p))
  BY <1>1, <1>3, <1>5 DEF Write
<1>7. i \in Nat /\ i + 1 \in Nat
  BY <1>2 DEF Local
<1>8. Turned(l, s, s.at) /\ l.event = s.event /\ l.step = i + 1
  BY <1>2, <1>7, EventLocals
<1>9. Turned(Leave(p), s, "choosing")
  BY <1>2, LeaveLocal
<1>10. CursorTypes
  BY DEF CursorInv
<1> HIDE DEF next, l, s
<1>11. CASE i < Len(list)
  <2>1. l \in Local /\ l.at = "writing" /\ l.from = s.from
    BY <1>1, <1>8 DEF Turned
  <2>2. PollInStep(chain, db', V, m, l)
    BY <1>3, <1>5, <1>6, <1>8, <1>11, <2>1 DEF PollInStep, OnPage, Working
  <2>3. l.at \in Working /\ Steps(p, l)
    BY <1>6, <1>11, <2>1 DEF Working
  <2>4. QED
    BY <1>1, <1>2, <1>10, <2>1, <2>2, <2>3, PollStaysInStep
<1>12. CASE ~(i < Len(list))
  <2> DEFINE r == Leave(p)
  <2>1. r \in Local /\ r.at = "choosing" /\ r.from = s.from /\ Steps(p, r)
    BY <1>6, <1>9, <1>12 DEF Turned
  <2>2. i = Len(list)
    <3> DEFINE len == Len(list)
    <3>1. len \in Nat
      <4>1. chain[m].name \in EventName
        BY <1>2, <1>3, EntryFields DEF ChainInv
      <4>2. QED
        BY <4>1, ListsNotEmpty
    <3>2. i \in 1 .. len /\ ~(i < len)
      BY <1>4, <1>12
    <3> HIDE DEF len, list, i
    <3>3. i = len
      BY <3>1, <3>2
    <3>4. QED
      BY <3>3 DEF len
  <2>3. HoldsFirst(chain, db', V, m)
    BY <1>5, <1>6, <2>2
  <2> HIDE DEF r
  <2>4. PollInStep(chain, db', V, m, r)
    BY <1>3, <2>1 DEF PollInStep, OnPage, Working
  <2>5. QED
    BY <1>1, <1>2, <1>10, <2>1, <2>3, <2>4, PollStaysInStep
<1>13. QED
  BY <1>11, <1>12

\* What the chain grows by is not among the events that the tables hold.
LEMMA HoldsOn ==
  ASSUME ChainInv, ChainGrows, NEW t, NEW V, NEW W, NEW n \in 0 .. Len(chain), NEW i,
         i > 1 => n + 1 \in DOMAIN chain, W[n] = V[n], HoldsPart(chain, t, V, n, i)
  PROVE  HoldsPart(chain', t, W, n, i)
<1>1. DOMAIN chain = 1 .. Len(chain) /\ Len(chain) \in Nat
  BY LenProperties DEF ChainInv
<1>2. Received(chain', n) = Received(chain, n)
  <2>1. \A k \in 1 .. n : k \in DOMAIN chain
    BY <1>1
  <2>2. QED
    BY <2>1 DEF Received, ChainGrows
<1>3. i > 1 => chain'[n + 1] = chain[n + 1]
  BY DEF ChainGrows
<1>4. {k \in {n + 1} : i > 1 /\ chain'[k].name = "ContribReceived"}
        = {k \in {n + 1} : i > 1 /\ chain[k].name = "ContribReceived"}
  BY <1>3
<1>5. ASSUME NEW id \in CampaignIds
      PROVE  (IF i > 1 /\ id = chain'[n + 1].id
              THEN Before(W[n][id], chain'[n + 1], i) ELSE W[n][id])
             = (IF i > 1 /\ id = chain[n + 1].id
                THEN Before(V[n][id], chain[n + 1], i) ELSE V[n][id])
  BY <1>3
<1>6. QED
  BY <1>2, <1>4, <1>5 DEF HoldsPart

\* An invocation leaves the index in step, with an event more to take.
LEMMA InvokeInStep ==
  ASSUME ChainInv, ChainInv', ChainGrows, CursorInv, WorkInv, UNCHANGED indexVars,
         StartLedger <= 1, NEW V, NEW W, \A n \in 0 .. Len(chain) : W[n] = V[n],
         NEW m, InStepNow(V, m)
  PROVE  InStepNow(W, m)'
<1>1. db' = db /\ processed' = processed /\ last' = last /\ poll' = poll
  BY DEF indexVars
<1>2. /\ m \in 0 .. Len(chain) /\ processed = 1 .. m /\ last \in Nat
      /\ \A k \in DOMAIN chain : chain[k].ledger <= last => k <= m
      /\ OneAtATime(poll)
      /\ \A p \in Polls : PollInStep(chain, db, V, m, poll[p])
      /\ (\A p \in Polls : poll[p].at \notin Working) => HoldsFirst(chain, db, V, m)
  BY DEF InStepNow, InStep
<1>3. Len(chain) \in Nat /\ Len(chain') \in Nat /\ Len(chain) <= Len(chain')
      /\ DOMAIN chain = 1 .. Len(chain)
  BY LenProperties DEF ChainGrows, ChainInv
<1>4. last <= Tip
  <2>1. StartLedger \in Nat /\ Tip \in Nat
    BY IndexerConstants DEF ChainGrows
  <2>2. last <= Tip \/ last < StartLedger
    BY DEF CursorInv
  <2>3. QED
    BY <1>2, <2>1, <2>2
<1>5. \A k \in DOMAIN chain' : chain'[k].ledger <= last => k <= m
  <2>1. ASSUME NEW k \in DOMAIN chain', chain'[k].ledger <= last PROVE k \in DOMAIN chain
    <3>1. chain'[k].ledger \in Nat
      BY EntryFields DEF ChainInv
    <3>2. QED
      BY <1>2, <1>4, <2>1, <3>1 DEF ChainGrows
  <2>2. QED
    BY <1>2, <2>1 DEF ChainGrows
<1>6. ASSUME NEW n \in 0 .. Len(chain), HoldsFirst(chain, db, V, n)
      PROVE  HoldsFirst(chain', db, W, n)
  <2>1. W[n] = V[n] /\ HoldsPart(chain, db, V, n, 1) /\ ~(1 > 1)
    BY <1>6 DEF HoldsFirst
  <2>2. HoldsPart(chain', db, W, n, 1)
    BY <2>1, HoldsOn
  <2>3. QED
    BY <2>2 DEF HoldsFirst
<1>7. ASSUME NEW p \in Polls PROVE PollInStep(chain', db, W, m, poll[p])
  <2> DEFINE s == poll[p]
  <2>1. PollInStep(chain, db, V, m, s)
    BY <1>2
  <2> HIDE DEF s
  <2>2. ASSUME s.at = "looking" PROVE HoldsFirst(chain', db, W, m - 1)
    <3>1. HoldsFirst(chain, db, V, m - 1) /\ m >= 1
      BY <2>1, <2>2 DEF PollInStep, Working
    <3>2. m - 1 \in 0 .. Len(chain)
      BY <1>2, <1>3, <3>1
    <3>3. QED
      BY <1>6, <3>1, <3>2
  <2>3. ASSUME s.at = "writing" PROVE HoldsPart(chain', db, W, m - 1, s.step)
    <3>1. HoldsPart(chain, db, V, m - 1, s.step) /\ m >= 1
      BY <2>1, <2>3 DEF PollInStep, Working
    <3>2. m - 1 \in 0 .. Len(chain) /\ (m - 1) + 1 \in DOMAIN chain
      BY <1>2, <1>3, <3>1
    <3> DEFINE n == m - 1
    <3>3. n \in 0 .. Len(chain) /\ n + 1 \in DOMAIN chain /\ HoldsPart(chain, db, V, n, s.step)
      BY <3>1, <3>2
    <3> HIDE DEF n
    <3>4. W[n] = V[n]
      BY <3>3
    <3>5. HoldsPart(chain', db, W, n, s.step)
      BY <3>3, <3>4, HoldsOn
    <3>6. QED
      BY <3>5 DEF n
  <2>4. PollInStep(chain', db, W, m, s)
    BY <2>1, <2>2, <2>3 DEF PollInStep
  <2>5. QED
    BY <2>4 DEF s
<1>8. (\A p \in Polls : poll[p].at \notin Working) => HoldsFirst(chain', db, W, m)
  BY <1>2, <1>6
<1>9. m \in 0 .. Len(chain')
  BY <1>2, <1>3
<1>10. InStep(chain', db, processed, last, poll, W, m)
  BY <1>2, <1>5, <1>7, <1>8, <1>9 DEF InStep
<1>11. QED
  BY <1>1, <1>10 DEF InStepNow

\* What disturbs an index is not undone.
LEMMA UndisturbedSoFar ==
  ASSUME tally \in Tally, NEW p \in Polls, Progress(p), Undisturbed'
  PROVE  Undisturbed
<1>1. \/ tally' = tally
      \/ \E x : tally' = [tally EXCEPT !.met = x]
      \/ \E x : tally' = [tally EXCEPT !.counted = x]
      \/ \E x : tally' = [tally EXCEPT !.overlap = tally.overlap \/ x]
  <2>1. CASE StartPoll(p)
    BY <2>1 DEF StartPoll
  <2>2. CASE TakeEvent(p)
    BY <2>2 DEF TakeEvent
  <2>3. CASE Write(p)
    BY <2>3 DEF Write
  <2>4. CASE ChooseStart(p) \/ Fetch(p) \/ EndPage(p) \/ SaveCursor(p) \/ LookUp(p)
    BY <2>4 DEF ChooseStart, Fetch, EndPage, SaveCursor, LookUp
  <2>5. QED
    BY <2>1, <2>2, <2>3, <2>4 DEF Progress
<1>2. /\ tally'.faults = tally.faults /\ tally'.crashes = tally.crashes
      /\ tally.overlap => tally'.overlap
  BY <1>1 DEF Tally
<1>3. QED
  BY <1>2 DEF Undisturbed

\* A failing call and a crash do disturb it.
LEMMA Disturbs ==
  ASSUME tally \in Tally, Crash \/ \E p \in Polls : Fail(p)
  PROVE  ~Undisturbed'
<1>1. \/ tally' = [tally EXCEPT !.faults = @ + 1]
      \/ tally' = [tally EXCEPT !.crashes = @ + 1]
  BY DEF Crash, Fail
<1>2. tally'.faults = tally.faults + 1 \/ tally'.crashes = tally.crashes + 1
  BY <1>1 DEF Tally
<1>3. tally.faults \in Nat /\ tally.crashes \in Nat
  BY DEF Tally
<1>4. QED
  BY <1>2, <1>3 DEF Undisturbed

\* Whatever a poll does, an index that nothing disturbs stays in step.
LEMMA ProgressInStep ==
  ASSUME CursorInv, ChainInv, WorkInv, UNCHANGED chain, NEW V, Recounts(chain, V),
         NEW m, InStepNow(V, m), NEW p \in Polls, Progress(p), ~tally'.overlap
  PROVE  \E n : InStepNow(V, n)'
<1>1. CASE StartPoll(p)
  BY <1>1, StartInStep
<1>2. CASE ChooseStart(p)
  BY <1>2, ChooseInStep
<1>3. CASE Fetch(p)
  BY <1>3, FetchInStep
<1>4. CASE TakeEvent(p)
  BY <1>4, TakeInStep
<1>5. CASE EndPage(p)
  BY <1>5, EndInStep
<1>6. CASE SaveCursor(p)
  BY <1>6, SaveInStep
<1>7. CASE LookUp(p)
  BY <1>7, LookUpInStep
<1>8. CASE Write(p)
  BY <1>8, WriteInStep
<1>9. QED
  BY <1>1, <1>2, <1>3, <1>4, <1>5, <1>6, <1>7, <1>8 DEF Progress

-----------------------------------------------------------------------------
(* An index that is started beyond the first ledger. *)

\* The events up to a ledger lie before the place where pollEvents starts after it.
LEMMA StartIsBeyond ==
  ASSUME ChainInv, NEW n \in Int
  PROVE  LET m == Cardinality({k \in DOMAIN chain : chain[k].ledger <= n}) IN
         m \in Nat /\ \A k \in DOMAIN chain : chain[k].ledger <= n => k <= m
<1> DEFINE S == {k \in DOMAIN chain : chain[k].ledger <= n}
<1>1. DOMAIN chain = 1 .. Len(chain) /\ Len(chain) \in Nat
  BY LenProperties DEF ChainInv
<1>2. IsFiniteSet(S) /\ Cardinality(S) \in Nat
  <2>1. IsFiniteSet(1 .. Len(chain))
    BY <1>1, FS_Interval
  <2>2. S \subseteq 1 .. Len(chain)
    BY <1>1
  <2> HIDE DEF S
  <2>3. QED
    BY <2>1, <2>2, FS_Subset, FS_CardinalityType
<1>3. ASSUME NEW k \in DOMAIN chain, chain[k].ledger <= n PROVE k <= Cardinality(S)
  <2>1. k \in Nat /\ \A j \in DOMAIN chain : chain[j].ledger \in Nat
    BY <1>1, EntryFields DEF ChainInv
  <2>2. 1 .. k \subseteq S
    <3>1. ASSUME NEW j \in 1 .. k PROVE j \in DOMAIN chain /\ chain[j].ledger <= n
      <4>1. j \in DOMAIN chain /\ j <= k
        BY <1>1, <1>3
      <4>2. chain[j].ledger <= chain[k].ledger
        BY <1>1, <2>1, <4>1 DEF ChainInv
      <4>3. chain[j].ledger \in Nat /\ chain[k].ledger \in Nat
        BY <2>1, <4>1
      <4>4. QED
        BY <1>3, <4>1, <4>2, <4>3
    <3>2. QED
      BY <3>1
  <2>3. Cardinality(1 .. k) = k
    BY <2>1, FS_Interval
  <2> HIDE DEF S
  <2>4. Cardinality(1 .. k) <= Cardinality(S)
    BY <1>2, <2>2, FS_Subset
  <2>5. QED
    BY <2>3, <2>4
<1>4. QED
  BY <1>2, <1>3

\* What is left to show of a step of one poll.
LEMMA PollStaysLate ==
  ASSUME Late, CursorTypes, UNCHANGED chain, NEW p \in Polls, NEW l \in Local, Steps(p, l),
         PollBeyond(chain, l), last' = last \/ last' >= 1, cursor' = cursor \/ cursor' >= 1,
         1 \notin db'.transactions, chain = <<>> => db' = db
  PROVE  Late'
<1>1. \A q \in Polls : poll'[q] = IF q = p THEN l ELSE poll[q]
  BY OnePollMoves
<1>2. \A q \in Polls : PollBeyond(chain, poll'[q])
  BY <1>1 DEF Late
<1>3. QED
  BY <1>2 DEF Late

\* A poll that stays on its page, at an event beyond the first ledger or at none.
LEMMA TurnedBeyond ==
  ASSUME NEW c, NEW s, NEW at \in OnPage, NEW l, Turned(l, s, at), s.at \in OnPage,
         PollBeyond(c, s), at \in Working => Beyond(c, l.event)
  PROVE  PollBeyond(c, l)
BY DEF PollBeyond, Turned, OnPage, Working

\* A poll that reads the tip and chooses where to start from, or fetches a page.
LEMMA StartStaysLate ==
  ASSUME Late, CursorInv, ChainInv, UNCHANGED chain, NEW p \in Polls,
         StartPoll(p) \/ ChooseStart(p) \/ Fetch(p)
  PROVE  Late'
<1> DEFINE s == poll[p]
<1>0. /\ CursorTypes /\ s \in Local /\ last \in Int /\ last >= 1 /\ PollBeyond(chain, s)
      /\ 1 \notin db.transactions
  BY DEF CursorInv, CursorTypes, Late
<1>1. CASE StartPoll(p)
  <2> DEFINE l == [Idle EXCEPT !.at = "started", !.latest = Tip]
  <2>1. l \in Local /\ l.at = "started" /\ Steps(p, l) /\ UNCHANGED <<db, cursor, last>>
    BY <1>1, LocalTypes, TipIsLast DEF At, TipOnTop, StartPoll
  <2> HIDE DEF l
  <2>2. PollBeyond(chain, l)
    BY <2>1 DEF PollBeyond, OnPage, Working
  <2>3. QED
    BY <1>0, <2>1, <2>2, PollStaysLate
<1>2. CASE ChooseStart(p)
  <2> DEFINE c == Cardinality({k \in DOMAIN chain : chain[k].ledger <= last})
             from == 1 + c
             l == [s EXCEPT !.at = "fetching", !.from = from]
  <2>1. /\ s.at = "started" /\ UNCHANGED <<db, cursor, last>>
        /\ Steps(p, Idle) \/ (~(last + 1 > s.latest) /\ Steps(p, l))
    BY <1>2 DEF ChooseStart
  <2>2. CASE Steps(p, Idle)
    <3>1. PollBeyond(chain, Idle) /\ Idle \in Local
      BY LocalTypes DEF PollBeyond, OnPage, Working
    <3>2. QED
      BY <1>0, <2>1, <2>2, <3>1, PollStaysLate
  <2>3. CASE ~(last + 1 > s.latest) /\ Steps(p, l)
    <3>1. c \in Nat /\ \A k \in DOMAIN chain : chain[k].ledger <= last => k <= c
      BY <1>0, StartIsBeyond
    <3>2. s.latest \in Nat /\ s.latest >= 1
      BY <1>0, <2>3 DEF Local
    <3>3. Steps(p, l)
      BY <2>3
    <3> HIDE DEF c, s
    <3>4. from \in Nat /\ \A k \in DOMAIN chain : chain[k].ledger <= last => k < from
      <4>1. \A k \in DOMAIN chain : k \in Nat
        BY EntryFields DEF ChainInv
      <4>2. QED
        BY <3>1, <4>1
    <3>5. Beyond(chain, from)
      <4>1. \A k \in DOMAIN chain : chain[k].ledger \in Nat
        BY EntryFields DEF ChainInv
      <4> HIDE DEF from
      <4>2. QED
        BY <1>0, <3>4, <4>1 DEF Beyond
    <3> HIDE DEF from
    <3>6. l \in Local /\ l.at = "fetching" /\ l.from = from /\ l.latest = s.latest
      BY <1>0, <3>4 DEF Local, At
    <3> HIDE DEF l
    <3>7. PollBeyond(chain, l)
      BY <3>2, <3>5, <3>6 DEF PollBeyond, OnPage, Working
    <3>8. QED
      BY <1>0, <2>1, <3>3, <3>6, <3>7, PollStaysLate
  <2>4. QED
    BY <2>1, <2>2, <2>3
<1>3. CASE Fetch(p)
  <2> DEFINE e == s.from + PageLimit - 1
             to == IF e <= Len(chain) THEN e ELSE Len(chain)
             pages == s.pages + 1
             l == [s EXCEPT !.at = "choosing", !.pages = pages, !.to = to]
  <2>1. s.at = "fetching" /\ Steps(p, l) /\ UNCHANGED <<db, cursor, last>>
    BY <1>3 DEF Fetch
  <2>2. 1 <= s.from
    BY <2>1 DEF CursorInv, PollKnows
  <2>3. /\ s.from \in Nat /\ s.pages \in Nat /\ PageLimit \in Nat /\ PageLimit > 0
        /\ Len(chain) \in Nat
    BY <1>0, IndexerConstants, LenProperties DEF Local, ChainInv
  <2> HIDE DEF s
  <2>4. to \in Nat /\ pages \in Nat
    BY <2>2, <2>3
  <2> HIDE DEF to, pages, e
  <2>5. l \in Local /\ l.at = "choosing" /\ l.from = s.from /\ l.latest = s.latest
    BY <1>0, <2>4 DEF Local, At
  <2> HIDE DEF l
  <2>6. PollBeyond(chain, l)
    BY <1>0, <2>1, <2>5 DEF PollBeyond, OnPage, Working
  <2>7. QED
    BY <1>0, <2>1, <2>5, <2>6, PollStaysLate
<1>4. QED
  BY <1>1, <1>2, <1>3

\* A poll that ends a page: the ledger it may claim is not before the first.
LEMMA EndStaysLate ==
  ASSUME Late, CursorInv, ChainInv, UNCHANGED chain, NEW p \in Polls, EndPage(p)
  PROVE  Late'
<1> DEFINE s == poll[p]
           full == s.to - s.from + 1 = PageLimit
           saving(to) == [Idle EXCEPT !.at = "saving", !.latest = to]
           n == s.to + 1
           l == [s EXCEPT !.at = "fetching", !.from = n]
<1>0. /\ CursorTypes /\ s \in Local /\ last \in Int /\ last >= 1 /\ PollBeyond(chain, s)
      /\ 1 \notin db.transactions
  BY DEF CursorInv, CursorTypes, Late
<1>1. s.at = "choosing" /\ UNCHANGED <<db, cursor>>
  BY DEF EndPage
<1>2. \/ ~full /\ last' = Reached(p) /\ Steps(p, saving(Reached(p)))
      \/ /\ full /\ last' = ResumeBefore(chain[s.to].ledger)
         /\ Steps(p, saving(ResumeBefore(chain[s.to].ledger)))
      \/ full /\ Steps(p, l) /\ UNCHANGED last
  BY DEF EndPage
<1>3. /\ 1 <= s.from /\ PageKnown(chain, s) /\ s.latest >= 1 /\ Beyond(chain, s.from)
  BY <1>0, <1>1 DEF CursorInv, PollKnows, OnPage, PollBeyond
<1> HIDE DEF s
<1>4. /\ s.from \in Nat /\ s.to \in Nat /\ s.latest \in Nat /\ Len(chain) \in Nat
      /\ PageLimit \in Nat /\ PageLimit > 0 /\ DOMAIN chain = 1 .. Len(chain)
  <2>1. s.from \in Nat /\ s.to \in Nat /\ s.latest \in Nat
    BY <1>0, LocalFields
  <2>2. PageLimit \in Nat /\ PageLimit > 0
    BY IndexerConstants
  <2>3. Len(chain) \in Nat /\ DOMAIN chain = 1 .. Len(chain)
    BY LenProperties DEF ChainInv
  <2>4. QED
    BY <2>1, <2>2, <2>3
<1>5. \A k \in DOMAIN chain : chain[k].ledger \in Nat /\ chain[k].ledger > 0
  BY EntryFields DEF ChainInv
<1>6. ASSUME NEW to \in Nat, to >= 1, last' = to, Steps(p, saving(to))
      PROVE  Late'
  <2>1. saving(to) \in Local /\ saving(to).at = "saving" /\ saving(to).latest = to
    BY LocalTypes DEF At
  <2> HIDE DEF saving
  <2>2. PollBeyond(chain, saving(to))
    BY <1>6, <2>1 DEF PollBeyond, OnPage, Working
  <2>3. QED
    BY <1>0, <1>1, <1>6, <2>1, <2>2, PollStaysLate
<1>7. CASE ~full /\ last' = Reached(p) /\ Steps(p, saving(Reached(p)))
  <2>1. Reached(p) = s.latest
    BY DEF Reached, s
  <2>2. QED
    BY <1>3, <1>4, <1>6, <1>7, <2>1
<1>8. CASE /\ full /\ last' = ResumeBefore(chain[s.to].ledger)
           /\ Steps(p, saving(ResumeBefore(chain[s.to].ledger)))
  <2> DEFINE to == ResumeBefore(chain[s.to].ledger)
  <2>1. s.to \in DOMAIN chain /\ ~(s.to < s.from)
    BY <1>3, <1>4, <1>8 DEF PageKnown
  <2>2. to \in Nat /\ to >= 1
    <3>1. ~(chain[s.to].ledger <= 1)
      BY <1>3, <2>1 DEF Beyond
    <3>2. QED
      BY <1>5, <2>1, <3>1 DEF ResumeBefore
  <2> HIDE DEF to
  <2>3. last' = to /\ Steps(p, saving(to))
    BY <1>8 DEF to
  <2>4. QED
    BY <1>6, <2>2, <2>3
<1>9. CASE full /\ Steps(p, l) /\ UNCHANGED last
  <2>1. n \in Nat /\ n >= s.from
    BY <1>3, <1>4 DEF PageKnown
  <2> HIDE DEF n
  <2>2. l \in Local /\ l.at = "fetching" /\ l.from = n /\ l.latest = s.latest
    BY <1>0, <2>1 DEF Local, At
  <2>3. Steps(p, l)
    BY <1>9
  <2> HIDE DEF l
  <2>4. Beyond(chain, n)
    BY <1>3, <1>4, <2>1 DEF Beyond
  <2>5. PollBeyond(chain, l)
    BY <1>3, <2>2, <2>4 DEF PollBeyond, OnPage, Working
  <2>6. QED
    BY <1>0, <1>1, <1>9, <2>2, <2>3, <2>5, PollStaysLate
<1>10. QED
  BY <1>2, <1>7, <1>8, <1>9

\* A poll that works on an event, which is beyond the first ledger.
LEMMA WorkStaysLate ==
  ASSUME Late, CursorInv, ChainInv, WorkInv, UNCHANGED chain, NEW p \in Polls,
         TakeEvent(p) \/ LookUp(p) \/ Write(p)
  PROVE  Late'
<1> DEFINE s == poll[p]
           r == Leave(p)
<1>0. /\ CursorTypes /\ s \in Local /\ PollBeyond(chain, s) /\ 1 \notin db.transactions
  BY DEF CursorInv, CursorTypes, Late
<1>1. s.at \in OnPage
  BY DEF TakeEvent, LookUp, Write, OnPage
<1>2. Turned(r, s, "choosing")
  BY <1>0, LeaveLocal
<1>3. r \in Local /\ PollBeyond(chain, r)
  <2> HIDE DEF s, r
  <2>1. "choosing" \in OnPage /\ "choosing" \notin Working
    BY DEF OnPage, Working
  <2>2. QED
    BY <1>0, <1>1, <1>2, <2>1, TurnedBeyond DEF Turned
<1>4. CASE TakeEvent(p)
  <2>1. PICK k \in Fresh(p) : Steps(p, [s EXCEPT !.at = "looking", !.event = k])
    BY <1>4 DEF TakeEvent
  <2>2. s.at = "choosing" /\ UNCHANGED <<db, cursor, last>>
    BY <1>4 DEF TakeEvent
  <2>3. s.from \in Nat /\ s.to \in Nat
    BY <1>0 DEF Local
  <2>4. k \in Nat /\ k >= s.from
    BY <2>3 DEF Fresh
  <2>5. Beyond(chain, s.from) /\ \A j \in DOMAIN chain : j \in Nat
    BY <1>0, <1>1, EntryFields DEF PollBeyond, ChainInv
  <2>6. Beyond(chain, k)
    BY <2>3, <2>4, <2>5 DEF Beyond
  <2> DEFINE l == [s EXCEPT !.at = "looking", !.event = k]
  <2>7. Turned(l, s, "looking") /\ l.event = k /\ Steps(p, l)
    BY <1>0, <2>1, <2>4, EventLocals
  <2> HIDE DEF l, s
  <2>8. PollBeyond(chain, l) /\ l \in Local
    <3>1. "looking" \in OnPage
      BY DEF OnPage
    <3>2. QED
      BY <1>0, <1>1, <2>6, <2>7, <3>1, TurnedBeyond DEF Turned
  <2>9. QED
    BY <1>0, <2>2, <2>7, <2>8, PollStaysLate
<1>5. CASE LookUp(p)
  <2> DEFINE l == [s EXCEPT !.at = "writing", !.step = 1]
  <2>1. s.at = "looking" /\ UNCHANGED <<db, cursor, last>> /\ (Steps(p, r) \/ Steps(p, l))
    BY <1>5 DEF LookUp
  <2>2. Beyond(chain, s.event)
    BY <1>0, <2>1 DEF PollBeyond, Working
  <2>3. Turned(l, s, "writing") /\ l.event = s.event
    BY <1>0, EventLocals
  <2> HIDE DEF l, s, r
  <2>4. PollBeyond(chain, l) /\ l \in Local
    <3>1. "writing" \in OnPage
      BY DEF OnPage
    <3>2. QED
      BY <1>0, <1>1, <2>2, <2>3, <3>1, TurnedBeyond DEF Turned
  <2>5. QED
    BY <1>0, <1>3, <2>1, <2>4, PollStaysLate
<1>6. CASE Write(p)
  <2> DEFINE i == s.step + 1
             l == [s EXCEPT !.step = i]
             k == s.event
             write == Writes(chain[k].name)[s.step]
  <2>1. /\ s.at = "writing" /\ UNCHANGED <<cursor, last>> /\ (Steps(p, r) \/ Steps(p, l))
        /\ db' = Written(db, k, write) \/ db' = db
    BY <1>6 DEF Write
  <2>2. Beyond(chain, k) /\ k \in DOMAIN chain
    BY <1>0, <2>1 DEF PollBeyond, Working, WorkInv, WorkKnown
  <2>3. i \in Nat
    BY <1>0 DEF Local
  <2> HIDE DEF i
  <2>4. Turned(l, s, "writing") /\ l.event = k
    BY <1>0, <2>1, <2>3, EventLocals
  <2>5. chain # <<>> /\ 1 # k
    <3>1. DOMAIN chain = 1 .. Len(chain) /\ Len(chain) \in Nat
      BY LenProperties DEF ChainInv
    <3>2. chain # <<>> /\ 1 \in DOMAIN chain
      BY <2>2, <3>1
    <3>3. chain[1].ledger = 1
      BY <3>2 DEF Late
    <3>4. QED
      BY <2>2, <3>2, <3>3 DEF Beyond
  <2>6. 1 \notin db'.transactions
    <3> HIDE DEF k, write
    <3>1. Written(db, k, write).transactions = Put(db.transactions, k, write = "transaction")
      BY DEF Written
    <3>2. QED
      BY <1>0, <2>1, <2>5, <3>1 DEF Put
  <2> HIDE DEF l, s, r, k
  <2>7. PollBeyond(chain, l) /\ l \in Local
    <3>1. "writing" \in OnPage
      BY DEF OnPage
    <3>2. QED
      BY <1>0, <1>1, <2>2, <2>4, <3>1, TurnedBeyond DEF Turned
  <2>8. QED
    BY <1>0, <1>3, <2>1, <2>5, <2>6, <2>7, PollStaysLate
<1>7. QED
  BY <1>4, <1>5, <1>6

\* A poll that saves the cursor, fails, or dies with the process.
LEMMA SaveStaysLate ==
  ASSUME Late, CursorInv, ChainInv, UNCHANGED chain, StartLedger > 1,
         Crash \/ \E p \in Polls : SaveCursor(p) \/ Fail(p)
  PROVE  Late'
<1>0. CursorTypes /\ cursor \in Int /\ 1 \notin db.transactions
  BY DEF CursorInv, CursorTypes, Late
<1>1. PollBeyond(chain, Idle) /\ Idle \in Local
  BY LocalTypes DEF PollBeyond, OnPage, Working
<1>2. ASSUME NEW p \in Polls, SaveCursor(p) PROVE Late'
  <2>1. /\ poll[p].at = "saving" /\ cursor' = poll[p].latest
        /\ Steps(p, Idle) /\ UNCHANGED <<db, last>>
    BY <1>2 DEF SaveCursor
  <2>2. cursor' >= 1
    BY <2>1 DEF Late, PollBeyond
  <2>3. QED
    BY <1>0, <1>1, <2>1, <2>2, PollStaysLate
<1>3. ASSUME NEW p \in Polls, Fail(p) PROVE Late'
  <2> DEFINE s == poll[p]
             r == Leave(p)
  <2>1. /\ UNCHANGED <<db, cursor, last>>
        /\ (s.at \in {"looking", "writing"} /\ Steps(p, r)) \/ Steps(p, Idle)
    BY <1>3 DEF Fail
  <2>2. s \in Local /\ PollBeyond(chain, s)
    BY DEF CursorInv, CursorTypes, Late
  <2>3. Turned(r, s, "choosing")
    BY <2>2, LeaveLocal
  <2> HIDE DEF s, r
  <2>4. ASSUME s.at \in {"looking", "writing"} PROVE r \in Local /\ PollBeyond(chain, r)
    <3>1. "choosing" \in OnPage /\ "choosing" \notin Working /\ s.at \in OnPage
      BY <2>4 DEF OnPage, Working
    <3>2. QED
      BY <2>2, <2>3, <3>1, TurnedBeyond DEF Turned
  <2>5. QED
    BY <1>0, <1>1, <2>1, <2>4, PollStaysLate
<1>4. CASE Crash
  <2>1. /\ last' = Resumed /\ UNCHANGED <<db, cursor>>
        /\ poll' = [p \in Polls |-> Idle]
    BY <1>4 DEF Crash
  <2>2. last' >= 1
    <3>1. StartLedger \in Nat
      BY IndexerConstants
    <3>2. QED
      BY <2>1, <3>1 DEF Resumed, Late
  <2>3. \A p \in Polls : PollBeyond(chain, poll'[p])
    BY <1>1, <2>1
  <2>4. QED
    BY <2>1, <2>2, <2>3 DEF Late
<1>5. QED
  BY <1>2, <1>3, <1>4

\* An invocation: the first events come at the first ledger, and no poll is on its way.
LEMMA InvokeStaysLate ==
  ASSUME Late, IInv', CursorInv, ChainInv, ChainInv', ChainGrows, Invoke
  PROVE  Late'
<1>1. UNCHANGED <<db, cursor, last, poll>>
  BY DEF Invoke, indexVars
<1>2. \A k \in DOMAIN chain' : chain'[k].ledger \in Nat /\ chain'[k].ledger > 0 /\ k \in Nat
  BY EntryFields DEF ChainInv
<1>3. DOMAIN chain = 1 .. Len(chain) /\ Len(chain) \in Nat
      /\ DOMAIN chain' = 1 .. Len(chain') /\ Len(chain') \in Nat
  BY LenProperties DEF ChainInv
<1>4. chain # <<>> => Tip >= 1
  <2>1. ASSUME chain # <<>> PROVE 1 \in DOMAIN chain
    <3>1. Len(chain) # 0
      BY <2>1, EmptySeq DEF ChainInv
    <3>2. QED
      BY <1>3, <3>1
  <2>2. chain # <<>> => chain[1].ledger = 1
    BY DEF Late
  <2>3. QED
    BY <2>1, <2>2, TipIsLast DEF TipOnTop
<1>5. ASSUME NEW n, chain # <<>>, Beyond(chain, n) PROVE Beyond(chain', n)
  <2>1. Tip \in Nat /\ Tip >= 1
    BY <1>4, <1>5 DEF ChainGrows
  <2>2. \A k \in DOMAIN chain' : chain'[k].ledger <= 1 => k \in DOMAIN chain
    BY <1>2, <2>1 DEF ChainGrows
  <2>3. QED
    BY <1>5, <2>2 DEF Beyond, ChainGrows
<1>6. ASSUME NEW p \in Polls PROVE PollBeyond(chain', poll[p])
  <2> DEFINE s == poll[p]
  <2>1. s \in Local /\ PollBeyond(chain, s) /\ PollKnows(chain, Tip, tally.met, s)
    BY DEF CursorInv, CursorTypes, Late
  <2> HIDE DEF s
  <2>2. ASSUME chain = <<>> PROVE s.at \in {"idle", "started"}
    <3>1. Tip = 0
      BY <2>2 DEF Tip
    <3>2. QED
      BY <2>1, <3>1 DEF PollKnows, PollBeyond, Local
  <2>3. PollBeyond(chain', s)
    <3>1. CASE chain = <<>>
      BY <2>2, <3>1 DEF PollBeyond, OnPage, Working
    <3>2. CASE chain # <<>>
      BY <1>5, <2>1, <3>2 DEF PollBeyond
    <3>3. QED
      BY <3>1, <3>2
  <2>4. QED
    BY <2>3 DEF s
<1>7. chain' = <<>> => chain = <<>>
  <2>1. ASSUME chain' = <<>> PROVE Len(chain) = 0
    <3>1. Len(chain') = 0
      BY <2>1
    <3>2. QED
      BY <1>3, <3>1 DEF ChainGrows
  <2>2. QED
    BY <2>1, EmptySeq DEF ChainInv
<1>8. ASSUME chain' # <<>> PROVE chain'[1].ledger = 1
  <2>1. CASE chain # <<>>
    <3>1. Len(chain) # 0
      BY <2>1, EmptySeq DEF ChainInv
    <3>2. 1 \in DOMAIN chain
      BY <1>3, <3>1
    <3>3. QED
      BY <2>1, <3>2 DEF Late, ChainGrows
  <2>2. CASE chain = <<>>
    <3>1. PICK more : Extends(more)
      BY InvokeExtends
    <3>2. chain' = more /\ more \in Seq(Entry) /\ Tip = 0
      <4>1. more \in Seq(Entry) /\ chain' = <<>> \o more /\ Tip = 0
        BY <2>2, <3>1 DEF Extends, Tip
      <4>2. QED
        BY <4>1
    <3>3. 1 \in DOMAIN more
      <4>1. Len(more) # 0
        BY <1>8, <3>2, EmptySeq
      <4>2. QED
        BY <1>3, <3>2, <4>1
    <3>4. QED
      BY <3>1, <3>2, <3>3 DEF Extends
  <2>3. QED
    BY <2>1, <2>2
<1>9. QED
  BY <1>1, <1>6, <1>7, <1>8 DEF Late

\* The invariant of an index that is started beyond the first ledger.
LEMMA LateKept ==
  ASSUME Late, StartLedger > 1, IInv, ChainInv, CursorInv, WorkInv, [IndexNext]_indexerVars
  PROVE  Late'
<1>1. CASE Invoke
  BY <1>1, ChainStep, InvokeStaysLate
<1>2. CASE UNCHANGED chain /\ (Crash \/ \E p \in Polls : Progress(p) \/ Fail(p))
  BY <1>2, StartStaysLate, EndStaysLate, WorkStaysLate, SaveStaysLate DEF Progress
<1>3. CASE UNCHANGED indexerVars
  BY <1>3 DEF indexerVars, indexVars, Late
<1>4. QED
  BY <1>1, <1>2, <1>3 DEF IndexNext

-----------------------------------------------------------------------------
(* The index that has caught up. *)

\* Tables that hold all events agree with the contract that emitted them.
LEMMA HoldingAllAgrees ==
  ASSUME ChainInv, PaidIn, NEW V, ToldSoFar(V), HoldsFirst(chain, db, V, Len(chain))
  PROVE  FaithfulWhenUndisturbed
<1>1. chain \in Seq(Entry) /\ Len(chain) \in Nat /\ DOMAIN chain = 1 .. Len(chain)
  BY LenProperties DEF ChainInv
<1>2. db.investments = {k \in 1 .. Len(chain) : chain[k].name = "ContribReceived"}
  BY DEF HoldsFirst, HoldsPart, Received
<1>3. ASSUME NEW id \in CampaignIds
      PROVE  LET row == db.campaign[id] IN
             /\ row.known <=> Exists(id)
             /\ row.known => row.status = IndexedStatus(campaign[id].status)
             /\ row.refundable = campaign[id].refundable
             /\ row.returnable = campaign[id].returnable
             /\ db.disputes[id] = dispute[id].status
             /\ MapThenSumSet(LAMBDA k : chain[k].amount,
                              {k \in db.investments : chain[k].id = id})
                  = campaign[id].total_funded - audit[id].reconciled
  <2> DEFINE v == V[Len(chain)][id]
             S == {k \in db.investments : chain[k].id = id}
             f == AmountsOf(chain)
  <2>1. db.campaign[id] = v.row /\ db.disputes[id] = v.dispute
    BY DEF HoldsFirst, HoldsPart
  <2>2. Agrees(v, campaign[id], dispute[id].status)
    BY DEF ToldSoFar, ToldBy
  <2>3. S = Payments(chain, id)
    BY <1>2 DEF Payments
  <2>4. IsFiniteSet(S) /\ \A k \in S : f[k] = chain[k].amount
    BY <1>1, <2>3, PaymentsOf
  <2>5. SumFunctionOnSet(f, S) = campaign[id].total_funded - audit[id].reconciled
    BY <2>3 DEF PaidIn, PaidBy, Paid
  <2> HIDE DEF S, f, v
  <2>6. MapThenSumSet(LAMBDA k : chain[k].amount, S) = SumFunctionOnSet(f, S)
    BY <2>4, AmountsSum
  <2>7. /\ v.row.known <=> Exists(id)
        /\ v.row.known => v.row.status = IndexedStatus(campaign[id].status)
        /\ v.row.refundable = campaign[id].refundable
        /\ v.row.returnable = campaign[id].returnable
        /\ v.dispute = dispute[id].status
    BY <2>2 DEF Agrees, Exists
  <2>8. MapThenSumSet(LAMBDA k : chain[k].amount, S)
          = campaign[id].total_funded - audit[id].reconciled
    BY <2>5, <2>6
  <2>9. QED
    BY <2>1, <2>7, <2>8 DEF S
<1>4. QED
  BY <1>3, Zenon DEF FaithfulWhenUndisturbed

\* An index in step that has caught up holds all events.
LEMMA CaughtUpHoldsAll ==
  ASSUME ChainInv, NEW V, NEW m, InStepNow(V, m), CaughtUp
  PROVE  HoldsFirst(chain, db, V, Len(chain))
<1>1. /\ m \in 0 .. Len(chain) /\ Len(chain) \in Nat /\ m \in Nat
      /\ db.transactions = 1 .. Len(chain)
      /\ \A p \in Polls : PollInStep(chain, db, V, m, poll[p])
      /\ (\A p \in Polls : poll[p].at \notin Working) => HoldsFirst(chain, db, V, m)
  BY LenProperties DEF ChainInv, InStepNow, InStep, CaughtUp
<1>2. ASSUME NEW p \in Polls, poll[p].at \in Working PROVE FALSE
  <2>1. m >= 1 /\ db.transactions = 1 .. (m - 1)
    BY <1>1, <1>2 DEF PollInStep, Working, HoldsFirst, HoldsPart
  <2>2. Len(chain) \in 1 .. Len(chain) /\ Len(chain) \notin 1 .. (m - 1)
    BY <1>1, <2>1
  <2>3. QED
    BY <1>1, <2>1, <2>2
<1>3. HoldsFirst(chain, db, V, m)
  BY <1>1, <1>2
<1>4. m = Len(chain)
  <2>1. 1 .. Len(chain) = 1 .. m
    BY <1>1, <1>3 DEF HoldsFirst, HoldsPart
  <2>2. QED
    BY <1>1, <2>1
<1>5. QED
  BY <1>3, <1>4

\* No tables hold no events.
LEMMA EmptyHoldsNone ==
  ASSUME NEW V, Recounts(chain, V)
  PROVE  HoldsFirst(chain, EmptyDb, V, 0)
<1> DEFINE t == EmptyDb
<1>1. /\ t.transactions = {} /\ t.investments = {} /\ t.tranches = {}
      /\ t.campaign = [id \in CampaignIds |-> NewRow]
      /\ t.disputes = [id \in CampaignIds |-> "None"]
  BY DEF EmptyDb
<1>2. \A id \in CampaignIds : V[0][id].row = NewRow /\ V[0][id].dispute = "None"
  BY DEF Recounts, NotShown
<1>3. Received(chain, 0) = {} /\ 1 .. 0 = {} /\ ~(1 > 1)
  BY DEF Received
<1>4. {k \in {0 + 1} : 1 > 1 /\ chain[k].name = "ContribReceived"} = {}
  BY <1>3
<1>5. /\ t.transactions = 1 .. 0
      /\ t.investments = Received(chain, 0) \cup
           {k \in {0 + 1} : 1 > 1 /\ chain[k].name = "ContribReceived"}
      /\ t.tranches \subseteq 1 .. (0 + (IF 1 > 1 THEN 1 ELSE 0))
  BY <1>1, <1>3, <1>4
<1>6. /\ DOMAIN t.campaign = CampaignIds /\ DOMAIN t.disputes = CampaignIds
      /\ \A id \in CampaignIds : t.campaign[id] = NewRow /\ t.disputes[id] = "None"
  BY <1>1
<1> HIDE DEF t
<1>7. HoldsPart(chain, t, V, 0, 1)
  BY <1>2, <1>3, <1>5, <1>6 DEF HoldsPart
<1>8. QED
  BY <1>7 DEF HoldsFirst, t

\* The inductive invariant behind the agreement.  The events tell, campaign by campaign,
\* what the contract has come to, and every payment is among them.  An index that starts
\* at the first ledger and that nothing disturbs takes them one by one, and its tables
\* hold exactly those taken; one that starts later never has those of the first ledger.
FaithInv ==
  /\ PaidIn
  /\ \E V : /\ ToldSoFar(V)
            /\ Undisturbed /\ StartLedger <= 1 => \E m : InStepNow(V, m)
  /\ StartLedger > 1 => Late

\* No event has told anything yet, and the tables are empty.
LEMMA FaithInit == IndexInit => FaithInv
<1> SUFFICES ASSUME IndexInit PROVE FaithInv
  OBVIOUS
<1> DEFINE V == [n \in {0} |-> [id \in CampaignIds |-> NotShown]]
<1>1. /\ chain = <<>> /\ db = EmptyDb /\ processed = {} /\ cursor = NoRow /\ last = Resumed
      /\ poll = [p \in Polls |-> Idle] /\ StartLedger \in Nat
      /\ Len(chain) = 0 /\ DOMAIN chain = {}
  BY IndexerConstants DEF IndexInit
<1>2. last = IF StartLedger > 0 THEN StartLedger - 1 ELSE 0
  BY <1>1 DEF Resumed, Tip, NoRow
<1>3. PaidIn
  <2>1. ASSUME NEW id \in CampaignIds PROVE PaidBy(chain, id) = Paid(id)
    <3>1. Payments(chain, id) = {}
      BY <1>1 DEF Payments
    <3>2. PaidBy(chain, id) = 0
      BY <3>1, FS_EmptySet, SumType DEF PaidBy
    <3>3. campaign[id].total_funded = 0 /\ audit[id].reconciled = 0
      BY DEF IndexInit, Init, NoCampaign
    <3>4. QED
      BY <3>2, <3>3 DEF Paid
  <2>2. QED
    BY <2>1 DEF PaidIn
<1>4. ToldSoFar(V)
  <2>1. NotShown \in Shown
    BY DEF NotShown, Shown, NewRow, Rows, CampaignStatus
  <2>2. V \in [0 .. Len(chain) -> [CampaignIds -> Shown]]
    <3>1. 0 .. Len(chain) = {0}
      BY <1>1
    <3>2. QED
      BY <2>1, <3>1
  <2>3. \A id \in CampaignIds : V[0][id] = NotShown
    OBVIOUS
  <2>4. 1 .. Len(chain) = {}
    BY <1>1
  <2>5. ASSUME NEW id \in CampaignIds
        PROVE  Agrees(V[Len(chain)][id], campaign[id], dispute[id].status)
    <3>1. campaign[id] = NoCampaign /\ dispute[id].status = "None"
      BY DEF IndexInit, Init
    <3>2. V[Len(chain)][id] = NotShown
      BY <1>1
    <3>3. Agrees(NotShown, NoCampaign, "None")
      BY DEF Agrees, NotShown, NewRow, NoCampaign
    <3>4. QED
      BY <3>1, <3>2, <3>3
  <2> HIDE DEF V
  <2>6. QED
    BY <2>2, <2>3, <2>4, <2>5 DEF ToldSoFar, ToldBy, Recounts
<1> HIDE DEF V
<1>5. ASSUME StartLedger <= 1 PROVE InStepNow(V, 0)
  <2>1. Recounts(chain, V)
    BY <1>4 DEF ToldSoFar, ToldBy
  <2>2. HoldsFirst(chain, db, V, 0)
    BY <1>1, <2>1, EmptyHoldsNone
  <2>3. \A p \in Polls : poll[p] = Idle /\ PollInStep(chain, db, V, 0, poll[p])
    <3>1. PollInStep(chain, db, V, 0, Idle)
      BY LocalTypes DEF PollInStep, OnPage, Working
    <3>2. QED
      BY <1>1, <3>1
  <2>4. 0 \in 0 .. Len(chain) /\ processed = 1 .. 0 /\ last \in Nat
    BY <1>1, <1>2, <1>5
  <2>5. OneAtATime(poll)
    BY <2>3 DEF OneAtATime
  <2>6. QED
    BY <1>1, <2>2, <2>3, <2>4, <2>5 DEF InStepNow, InStep
<1>6. ASSUME StartLedger > 1 PROVE Late
  <2>1. last >= 1
    BY <1>1, <1>2, <1>6
  <2>2. \A p \in Polls : PollBeyond(chain, poll[p])
    BY <1>1, LocalTypes DEF PollBeyond, OnPage, Working
  <2>3. 1 \notin db.transactions
    BY <1>1 DEF EmptyDb
  <2>4. QED
    BY <1>1, <2>1, <2>2, <2>3 DEF Late
<1>7. QED
  BY <1>3, <1>4, <1>5, <1>6 DEF FaithInv

\* It is inductive, beside the invariants of the contract, the chain, the cursor and
\* the work under way.
LEMMA FaithKept ==
  ASSUME IInv, IInv', ChainInv, CursorInv, WorkInv, FaithInv, [IndexNext]_indexerVars
  PROVE  FaithInv'
<1>1. ChainInv' /\ ChainGrows
  BY ChainStep
<1>2. tally \in Tally
  BY DEF CursorInv, CursorTypes
<1>3. (StartLedger > 1 => Late)'
  BY LateKept DEF FaithInv
<1>4. PICK V : /\ ToldSoFar(V)
               /\ Undisturbed /\ StartLedger <= 1 => \E m : InStepNow(V, m)
  BY DEF FaithInv
<1>5. CASE Invoke
  <2>1. UNCHANGED indexVars
    BY <1>5 DEF Invoke
  <2>2. PICK W : /\ ToldBy(chain', W, campaign', dispute')
                 /\ \A n \in 0 .. Len(chain) : W[n] = V[n]
    BY <1>4, <1>5, InvokeTells DEF FaithInv
  <2>3. PaidIn'
    BY <1>4, <1>5, InvokeTells DEF FaithInv
  <2>4. Undisturbed' => Undisturbed
    BY <2>1 DEF indexVars, Undisturbed
  <2>5. ASSUME Undisturbed', StartLedger <= 1 PROVE \E m : InStepNow(W, m)'
    <3>1. PICK m : InStepNow(V, m)
      BY <1>4, <2>4, <2>5
    <3>2. InStepNow(W, m)'
      BY <1>1, <2>1, <2>2, <2>5, <3>1, InvokeInStep
    <3>3. QED
      BY <3>2
  <2>6. ToldSoFar(W)'
    BY <2>2 DEF ToldSoFar
  <2>7. QED
    BY <1>3, <2>3, <2>5, <2>6 DEF FaithInv
<1>6. CASE UNCHANGED <<vars, chain>>
  <2>1. UNCHANGED <<campaign, dispute, audit, chain>>
    BY <1>6 DEF vars
  <2>2. PaidIn' /\ ToldSoFar(V)'
    BY <1>4, <2>1 DEF FaithInv, PaidIn, Paid, ToldSoFar
  <2>3. ASSUME Undisturbed', StartLedger <= 1 PROVE \E m : InStepNow(V, m)'
    <3>1. CASE UNCHANGED indexVars
      <4>1. UNCHANGED <<db, processed, last, poll, tally>>
        BY <3>1 DEF indexVars
      <4>2. Undisturbed
        BY <2>3, <4>1 DEF Undisturbed
      <4>3. PICK m : InStepNow(V, m)
        BY <1>4, <2>3, <4>2
      <4>4. InStepNow(V, m)'
        BY <2>1, <4>1, <4>3 DEF InStepNow
      <4>5. QED
        BY <4>4
    <3>2. ASSUME NEW p \in Polls, Progress(p) PROVE \E m : InStepNow(V, m)'
      <4>1. Undisturbed /\ ~tally'.overlap
        BY <1>2, <2>3, <3>2, UndisturbedSoFar DEF Undisturbed
      <4>2. PICK m : InStepNow(V, m)
        BY <1>4, <2>3, <4>1
      <4>3. Recounts(chain, V)
        BY <1>4 DEF ToldSoFar, ToldBy
      <4>4. QED
        BY <2>1, <3>2, <4>1, <4>2, <4>3, ProgressInStep
    <3>3. ~(Crash \/ \E p \in Polls : Fail(p))
      BY <1>2, <2>3, Disturbs
    <3>4. ASSUME ~Invoke, ~UNCHANGED indexVars
          PROVE  Crash \/ \E p \in Polls : Progress(p) \/ Fail(p)
      BY <1>6, <3>4 DEF IndexNext, indexerVars
    <3>5. CASE Invoke
      <4>1. UNCHANGED indexVars
        BY <3>5 DEF Invoke
      <4>2. QED
        BY <3>1, <4>1
    <3>6. QED
      BY <3>1, <3>2, <3>3, <3>4, <3>5
  <2>4. QED
    BY <1>3, <2>2, <2>3 DEF FaithInv
<1>7. QED
  BY <1>5, <1>6 DEF IndexNext, indexerVars

\* And it gives the agreement: the index that has caught up holds all events.
LEMMA FaithMeansAgreement ==
  ASSUME ChainInv, FaithInv
  PROVE  FaithfulWhenUndisturbed
<1> SUFFICES ASSUME Undisturbed, CaughtUp PROVE FaithfulWhenUndisturbed
  BY DEF FaithfulWhenUndisturbed
<1>1. PICK V : /\ ToldSoFar(V)
               /\ Undisturbed /\ StartLedger <= 1 => \E m : InStepNow(V, m)
  BY DEF FaithInv
<1>2. CASE StartLedger <= 1
  BY <1>1, <1>2, CaughtUpHoldsAll, HoldingAllAgrees DEF FaithInv
<1>3. CASE StartLedger > 1
  <2>1. Late
    BY <1>3 DEF FaithInv
  <2>2. chain = <<>>
    <3>1. DOMAIN chain = 1 .. Len(chain) /\ Len(chain) \in Nat
      BY LenProperties DEF ChainInv
    <3>2. 1 \notin 1 .. Len(chain)
      BY <2>1, <3>1 DEF Late, CaughtUp
    <3>3. Len(chain) = 0
      BY <3>1, <3>2
    <3>4. QED
      BY <3>3, EmptySeq DEF ChainInv
  <2>3. db = EmptyDb /\ Recounts(chain, V)
    BY <1>1, <2>1, <2>2 DEF Late, ToldSoFar, ToldBy
  <2>4. HoldsFirst(chain, db, V, 0) /\ Len(chain) = 0
    BY <2>2, <2>3, EmptyHoldsNone
  <2>5. QED
    BY <1>1, <2>4, HoldingAllAgrees DEF FaithInv
<1>4. QED
  <2>1. StartLedger \in Nat
    BY IndexerConstants
  <2>2. QED
    BY <1>2, <1>3, <2>1

\* The events and the index of every reachable state fit the contract.
LEMMA FaithAlways == IndexSpec => [](IInv /\ ChainInv /\ FaithInv)
<1>1. /\ IInv /\ ChainInv /\ CursorInv /\ WorkInv
      /\ (IInv /\ ChainInv /\ CursorInv /\ WorkInv)'
      /\ FaithInv /\ [IndexNext]_indexerVars
      => FaithInv'
  BY FaithKept
<1>2. QED
  BY <1>1, FaithInit, IndexerConsistent, PTL DEF IndexSpec

\* FaithfulWhenUndisturbed, for any number of campaigns, events and polls and for any
\* page size and start ledger: an index that nothing has disturbed and that has caught
\* up agrees with the contract on status, pools, dispute and what was really paid in.
THEOREM IndexFaithful == IndexSpec => []FaithfulWhenUndisturbed
<1>1. ChainInv /\ FaithInv => FaithfulWhenUndisturbed
  BY FaithMeansAgreement
<1>2. QED
  BY <1>1, FaithAlways, PTL

-----------------------------------------------------------------------------
(* The client's console. *)

\* Whoever invokes the contract in the views is the escrow's own next-state relation.
LEMMA ViewsInvoke ==
  ASSUME [ViewNext]_viewVars
  PROVE  [Next]_vars
BY DEF ViewNext, viewVars, indexerVars, Invoke

\* The contract's invariant holds under the views, which only read.
LEMMA ViewAlways == ViewSpec => []IInv
<1>1. ViewInit => IInv
  BY InitIInv DEF ViewInit, IndexInit
<1>2. IInv /\ [ViewNext]_viewVars => IInv'
  BY ViewsInvoke, StepIInv
<1>3. QED
  BY <1>1, <1>2, PTL DEF ViewSpec

\* No campaign has funds released while its status is Funded, so the panel never
\* has to derive that it is in production.
LEMMA NothingDerived ==
  ASSUME NEW c, GoodCampaign(c)
  PROVE  StepShown(c) = StepOf(c.status)
<1>1. DOMAIN <<>> = {}
  OBVIOUS
<1>2. ~DerivedInProduction(c, <<>>)
  BY <1>1 DEF GoodCampaign, PoolsAgree, DerivedInProduction
<1>3. QED
  BY <1>2 DEF StepShown, LifecycleStepIndex

Forward(c, d) ==
  c.status # "Absent" /\ StepShown(d) < StepShown(c)
    => c.status = "InProduction" /\ d.status \in {"Disputed", "Failed"}

\* The stepper only moves backwards when a campaign in production is disputed or
\* fails: no other move of the lifecycle leads to an earlier step.
THEOREM StepperForward == ViewSpec => StepperMovesForward
<1>1. ASSUME IInv, IInv', [ViewNext]_viewVars
      PROVE  \A id \in CampaignIds :
               Exists(id) /\ StepShown(campaign'[id]) < StepShown(campaign[id])
                 => campaign[id].status = "InProduction"
                    /\ campaign'[id].status \in {"Disputed", "Failed"}
  <2> SUFFICES ASSUME NEW id \in CampaignIds PROVE Forward(campaign[id], campaign'[id])
    BY DEF Forward, Exists
  <2>1. GoodCampaign(campaign[id]) /\ GoodCampaign(campaign'[id])
    BY <1>1 DEF IInv
  <2>2. /\ StepShown(campaign[id]) = StepOf(campaign[id].status)
        /\ StepShown(campaign'[id]) = StepOf(campaign'[id].status)
    BY <2>1, NothingDerived
  <2>3. \/ campaign'[id].status = campaign[id].status
        \/ Follows(campaign[id].status, campaign'[id].status)
    BY <1>1, ViewsInvoke, LifecycleStep DEF LifecycleFollowed
  <2> DEFINE s == campaign[id].status
             t == campaign'[id].status
  <2>4. (s = t \/ Follows(s, t)) /\ s # "Absent" /\ StepOf(t) < StepOf(s)
          => s = "InProduction" /\ t \in {"Disputed", "Failed"}
    <3> HIDE DEF s, t
    <3> QED
      BY DEF Follows, StepOf, Accepting, InFlight
  <2>5. QED
    BY <2>2, <2>3, <2>4 DEF Forward
<1>2. QED
  BY <1>1, ViewAlways, PTL DEF ViewSpec, StepperMovesForward

\* What an event leaves alone of its campaign: only these say anything about stakes,
\* the schedule, the dispute and the harvest record; a claim and a schedule leave
\* the campaign's record as it is.
Claims == {"RefundClaimed", "ReturnClaimed"}
Stakes == {"ContribReceived", "ContribReconciled", "CampaignFunded"} \cup Claims

LeavesAlone(e) ==
  /\ e.name \in Claims \cup {"TranchesConfigured"} => campaign'[e.id] = campaign[e.id]
  /\ e.name \notin Stakes => contribution'[e.id] = contribution[e.id]
  /\ e.name \notin {"TranchesConfigured", "TrancheReleased"} => tranches'[e.id] = tranches[e.id]
  /\ e.name \notin {"DisputeOpened", "DisputeResolved"} => dispute'[e.id] = dispute[e.id]
  /\ e.name # "HarvestReported" => harvest'[e.id] = harvest[e.id]

EventsSay == \A i \in DOMAIN tx'.events : LeavesAlone(tx'.events[i])

\* A transaction that emits one event, or two.
LEMMA EmittedEvents ==
  ASSUME NEW n, NEW id, NEW w, NEW a, NEW m, NEW v, NEW b
  PROVE  /\ \A i \in DOMAIN Emit(n, id, w, a) :
              Emit(n, id, w, a)[i].name = n /\ Emit(n, id, w, a)[i].id = id
         /\ \A i \in DOMAIN (Emit(n, id, w, a) \o Emit(m, id, v, b)) :
              LET e == (Emit(n, id, w, a) \o Emit(m, id, v, b))[i]
              IN  e.name \in {n, m} /\ e.id = id
<1> DEFINE x == [name |-> n, id |-> id, who |-> w, amount |-> a]
           y == [name |-> m, id |-> id, who |-> v, amount |-> b]
<1>1. x.name = n /\ x.id = id /\ y.name = m /\ y.id = id
  OBVIOUS
<1>2. Emit(n, id, w, a) = <<x>> /\ Emit(m, id, v, b) = <<y>>
  BY DEF Emit
<1> HIDE DEF x, y
<1>3. \A i \in DOMAIN <<x>> : <<x>>[i] = x
  OBVIOUS
<1>4. \A i \in DOMAIN (<<x>> \o <<y>>) : (<<x>> \o <<y>>)[i] \in {x, y}
  OBVIOUS
<1>5. QED
  BY <1>1, <1>2, <1>3, <1>4

\* A transaction says what it changed by the events it emits.
LEMMA EventsTell ==
  ASSUME IInv, Next
  PROVE  EventsSay
<1>a. /\ campaign \in [CampaignIds -> Campaign] /\ dispute \in [CampaignIds -> Dispute]
      /\ contribution \in [CampaignIds -> [Investors -> Nat]]
  BY DEF IInv, TypeOK
<1>b. ASSUME NEW n, NEW id, NEW w, NEW b, tx'.events = Emit(n, id, w, b),
             LeavesAlone([name |-> n, id |-> id])
      PROVE  EventsSay
  <2> SUFFICES ASSUME NEW i \in DOMAIN tx'.events PROVE LeavesAlone(tx'.events[i])
    BY DEF EventsSay
  <2>1. tx'.events[i].name = n /\ tx'.events[i].id = id
    BY <1>b, EmittedEvents
  <2>2. QED
    BY <1>b, <2>1 DEF LeavesAlone
<1> USE DEF Sends
<1>1. ASSUME NEW id \in CampaignIds, NEW f \in Farmers, NEW target \in Amounts,
             NEW t \in Tokens, NEW dl \in 0 .. MaxTime, CreateCampaign(id, f, target, t, dl)
      PROVE  EventsSay
  <2>1. tx'.events = Emit("CampaignCreated", id, f, target)
    BY <1>1 DEF CreateCampaign
  <2>2. LeavesAlone([name |-> "CampaignCreated", id |-> id])
    BY <1>1 DEF CreateCampaign, LeavesAlone, Stakes, Claims
  <2>3. QED
    BY <1>b, <2>1, <2>2
<1>2. ASSUME NEW id \in CampaignIds, NEW i \in Investors, NEW amount \in Amounts,
             FundCampaign(id, i, amount) \/ ReceiveContribution(id, i, amount)
      PROVE  EventsSay
  <2>1. PICK total :
          \/ tx'.events = Emit("ContribReceived", id, i, amount)
          \/ tx'.events = Emit("ContribReconciled", id, i, amount)
          \/ tx'.events = Emit("CampaignFunded", id, NoOne, total)
                            \o Emit("ContribReceived", id, i, amount)
    BY <1>2 DEF FundCampaign, ReceiveContribution
  <2>2. UNCHANGED <<dispute, tranches, harvest>>
    BY <1>2 DEF FundCampaign, ReceiveContribution
  <2>3. ASSUME NEW k \in DOMAIN tx'.events
        PROVE  tx'.events[k].name \in {"ContribReceived", "ContribReconciled", "CampaignFunded"}
    <3>1. CASE tx'.events = Emit("ContribReceived", id, i, amount)
      BY <2>3, <3>1, EmittedEvents
    <3>2. CASE tx'.events = Emit("ContribReconciled", id, i, amount)
      BY <2>3, <3>2, EmittedEvents
    <3>3. CASE tx'.events = Emit("CampaignFunded", id, NoOne, total)
                              \o Emit("ContribReceived", id, i, amount)
      BY <2>3, <3>3, EmittedEvents
    <3>4. QED
      BY <2>1, <3>1, <3>2, <3>3
  <2>4. QED
    BY <2>2, <2>3 DEF EventsSay, LeavesAlone, Stakes, Claims
<1>3. ASSUME NEW id \in CampaignIds, NEW total \in Amounts, CompleteFunding(id, total)
      PROVE  EventsSay
  <2>1. tx'.events = Emit("CampaignFunded", id, NoOne, total)
    BY <1>3 DEF CompleteFunding
  <2>2. LeavesAlone([name |-> "CampaignFunded", id |-> id])
    BY <1>3 DEF CompleteFunding, LeavesAlone, Stakes, Claims
  <2>3. QED
    BY <1>b, <2>1, <2>2
<1>4. ASSUME NEW id \in CampaignIds, NEW rcp \in Farmers, NEW amount \in Amounts,
             ReleaseTranche(id, rcp, amount)
      PROVE  EventsSay
  <2>1. tx'.events = Emit("TrancheReleased", id, rcp, amount)
    BY <1>4 DEF ReleaseTranche
  <2>2. LeavesAlone([name |-> "TrancheReleased", id |-> id])
    BY <1>4 DEF ReleaseTranche, LeavesAlone, Stakes, Claims
  <2>3. QED
    BY <1>b, <2>1, <2>2
<1>5. ASSUME NEW id \in CampaignIds, NEW who \in Accounts, ReportHarvest(id, who)
      PROVE  EventsSay
  <2>1. tx'.events = Emit("HarvestReported", id, who, 0)
    BY <1>5 DEF ReportHarvest
  <2>2. LeavesAlone([name |-> "HarvestReported", id |-> id])
    BY <1>5 DEF ReportHarvest, LeavesAlone, Stakes, Claims
  <2>3. QED
    BY <1>b, <2>1, <2>2
<1>6. ASSUME NEW id \in CampaignIds, NEW payee \in Farmers, NEW payout \in Amounts,
             SettleCampaign(id, payee, payout)
      PROVE  EventsSay
  <2>1. tx'.events = Emit("CampaignSettled", id, payee, EscrowHeld(campaign[id]) - payout)
    BY <1>6 DEF SettleCampaign
  <2>2. LeavesAlone([name |-> "CampaignSettled", id |-> id])
    BY <1>6 DEF SettleCampaign, LeavesAlone, Stakes, Claims
  <2>3. QED
    BY <1>b, <2>1, <2>2
<1>7. ASSUME NEW id \in CampaignIds, NEW who \in Accounts, OpenDispute(id, who)
      PROVE  EventsSay
  <2>1. tx'.events = Emit("DisputeOpened", id, who, 0)
    BY <1>7 DEF OpenDispute
  <2>2. LeavesAlone([name |-> "DisputeOpened", id |-> id])
    BY <1>7 DEF OpenDispute, LeavesAlone, Stakes, Claims
  <2>3. QED
    BY <1>b, <2>1, <2>2
<1>8. ASSUME NEW id \in CampaignIds, NEW r \in DisputeResolution, NEW p \in Amounts,
             ResolveDispute(id, r, p)
      PROVE  EventsSay
  <2>1. PICK left : tx'.events = Emit("DisputeResolved", id, admin, left)
    BY <1>8 DEF ResolveDispute
  <2>2. LeavesAlone([name |-> "DisputeResolved", id |-> id])
    BY <1>8 DEF ResolveDispute, LeavesAlone, Stakes, Claims
  <2>3. QED
    BY <1>b, <2>1, <2>2
<1>9. ASSUME NEW id \in CampaignIds, MarkFailed(id) \/ ExpireCampaign(id)
      PROVE  EventsSay
  <2>1. tx'.events = Emit("CampaignFailed", id, NoOne, campaign'[id].refundable)
    BY <1>9 DEF MarkFailed, ExpireCampaign
  <2>2. LeavesAlone([name |-> "CampaignFailed", id |-> id])
    BY <1>9 DEF MarkFailed, ExpireCampaign, LeavesAlone, Stakes, Claims
  <2>3. QED
    BY <1>b, <2>1, <2>2
<1>10. ASSUME NEW id \in CampaignIds, NEW list \in TrancheLists, ConfigureTranches(id, list)
       PROVE  EventsSay
  <2>1. tx'.events = Emit("TranchesConfigured", id, NoOne, Len(list))
    BY <1>10 DEF ConfigureTranches
  <2>2. LeavesAlone([name |-> "TranchesConfigured", id |-> id])
    BY <1>10 DEF ConfigureTranches, LeavesAlone, Stakes, Claims
  <2>3. QED
    BY <1>b, <2>1, <2>2
<1>11. ASSUME NEW id \in CampaignIds, NEW i \in Investors,
              ClaimRefund(id, i) \/ ClaimReturn(id, i)
       PROVE  EventsSay
  <2>1. PICK n \in Claims : \E share : tx'.events = Emit(n, id, i, share)
    BY <1>11 DEF ClaimRefund, ClaimReturn, PayShare, Claims
  <2>2. UNCHANGED <<campaign, tranches, dispute, harvest>>
    BY <1>11 DEF ClaimRefund, ClaimReturn, PayShare
  <2>3. LeavesAlone([name |-> n, id |-> id])
    BY <2>2 DEF LeavesAlone, Stakes, Claims
  <2>4. QED
    BY <1>b, <2>1, <2>3
<1>12. ASSUME tx' = NoTx PROVE EventsSay
  BY <1>12 DEF NoTx, EventsSay
<1>13. QED
  BY <1>1, <1>2, <1>3, <1>4, <1>5, <1>6, <1>7, <1>8, <1>9, <1>10, <1>11, <1>12
     DEF Next, Contribute, Manage, Unwind, Initialize, SetRegistry, Tick, Deposit

\* What the hook of each method refreshes.
LEMMA HooksRefresh ==
  /\ DOMAIN FarmerAndInvestorHooks =
       {"CampaignCreated", "ContribReceived", "HarvestReported", "DisputeOpened"}
  /\ DOMAIN ClaimHooks = Claims
  /\ DOMAIN AdminHooks = {"TranchesConfigured", "TrancheReleased", "DisputeResolved",
                          "CampaignSettled", "CampaignFailed"}
  /\ Invalidated("CampaignCreated") = {"campaign"}
  /\ Invalidated("ContribReceived") = {"campaign", "contribution"}
  /\ Invalidated("HarvestReported") = {"campaign", "harvestRecord"}
  /\ Invalidated("DisputeOpened")   = {"campaign", "dispute"}
  /\ \A n \in Claims : Invalidated(n) = {"campaign", "contribution"}
  /\ Invalidated("TranchesConfigured") = {"tranches", "adminCampaignsOverview"}
  /\ Invalidated("TrancheReleased") = {"campaign", "tranches", "adminCampaignsOverview"}
  /\ Invalidated("DisputeResolved") = {"campaign", "dispute", "adminCampaignsOverview"}
  /\ \A n \in {"CampaignSettled", "CampaignFailed"} :
       Invalidated(n) = {"campaign", "adminCampaignsOverview"}
<1>1. /\ DOMAIN FarmerAndInvestorHooks =
            {"CampaignCreated", "ContribReceived", "HarvestReported", "DisputeOpened"}
      /\ DOMAIN ClaimHooks = Claims
      /\ DOMAIN AdminHooks = {"TranchesConfigured", "TrancheReleased", "DisputeResolved",
                              "CampaignSettled", "CampaignFailed"}
  BY DEF FarmerAndInvestorHooks, AdminHooks, ClaimHooks, Claims
<1>2. /\ \A n \in DOMAIN FarmerAndInvestorHooks : Invalidated(n) = FarmerAndInvestorHooks[n]
      /\ \A n \in DOMAIN ClaimHooks : Invalidated(n) = ClaimHooks[n]
      /\ \A n \in DOMAIN AdminHooks : Invalidated(n) = AdminHooks[n]
  BY <1>1 DEF Invalidated, Claims
<1>3. /\ FarmerAndInvestorHooks["CampaignCreated"] = {"campaign"}
      /\ FarmerAndInvestorHooks["ContribReceived"] = {"campaign", "contribution"}
      /\ FarmerAndInvestorHooks["HarvestReported"] = {"campaign", "harvestRecord"}
      /\ FarmerAndInvestorHooks["DisputeOpened"]   = {"campaign", "dispute"}
  BY DEF FarmerAndInvestorHooks
<1>4. \A n \in Claims : ClaimHooks[n] = {"campaign", "contribution"}
  BY DEF ClaimHooks, Claims
<1>5. /\ AdminHooks["TranchesConfigured"] = {"tranches", "adminCampaignsOverview"}
      /\ AdminHooks["TrancheReleased"] = {"campaign", "tranches", "adminCampaignsOverview"}
      /\ AdminHooks["DisputeResolved"] = {"campaign", "dispute", "adminCampaignsOverview"}
      /\ AdminHooks["CampaignSettled"] = {"campaign", "adminCampaignsOverview"}
      /\ AdminHooks["CampaignFailed"] = {"campaign", "adminCampaignsOverview"}
  BY DEF AdminHooks
<1>6. QED
  BY <1>1, <1>2, <1>3, <1>4, <1>5

IsWrite(e) ==
  e.name \in DOMAIN FarmerAndInvestorHooks \cup DOMAIN AdminHooks \cup DOMAIN ClaimHooks

Refreshed(e) ==
  IsWrite(e) =>
    /\ Outdated(e.id) \cap OfOneCampaign \subseteq Invalidated(e.name)
    /\ e.name \notin DOMAIN ClaimHooks =>
         Outdated(e.id) \cap ShownBySender(e.name) \subseteq Invalidated(e.name)

\* Of the page it was sent from, a write makes stale at most the campaign, the overview
\* and the portfolio: the first unless it schedules or claims, the next two by the
\* administrator's writes and the claims.
LEMMA PageStale ==
  ASSUME NEW e, LeavesAlone(e), IsWrite(e), e.name \notin Claims
  PROVE  Outdated(e.id) \cap ShownBySender(e.name) \subseteq Invalidated(e.name)
<1>1. CASE e.name \in DOMAIN AdminHooks
  <2>1. ShownBySender(e.name) = {"adminCampaignsOverview", "escrowAdmin"}
    BY <1>1, HooksRefresh DEF ShownBySender, Claims
  <2>2. "escrowAdmin" \notin Outdated(e.id)
    BY DEF Outdated
  <2>3. "adminCampaignsOverview" \in Invalidated(e.name)
    BY <1>1, HooksRefresh
  <2>4. QED
    BY <2>1, <2>2, <2>3
<1>2. CASE e.name \in {"ContribReceived", "DisputeOpened"}
  <2>1. ShownBySender(e.name) = {"campaign", "escrowAdmin"}
    BY <1>2, HooksRefresh DEF ShownBySender, Claims
  <2>2. "escrowAdmin" \notin Outdated(e.id)
    BY DEF Outdated
  <2>3. "campaign" \in Invalidated(e.name)
    BY <1>2, HooksRefresh
  <2>4. QED
    BY <2>1, <2>2, <2>3
<1>3. CASE e.name \in {"CampaignCreated", "HarvestReported"}
  <2>1. ShownBySender(e.name) = {}
    BY <1>3, HooksRefresh DEF ShownBySender, Claims
  <2>2. QED
    BY <2>1
<1>4. QED
  BY <1>1, <1>2, <1>3, HooksRefresh DEF IsWrite

\* An event that leaves alone what it should leaves nothing of its campaign stale
\* behind its hook, and nothing of its page but the portfolio.
LEMMA NothingStale ==
  ASSUME NEW e, LeavesAlone(e)
  PROVE  Refreshed(e)
<1> SUFFICES ASSUME IsWrite(e)
             PROVE  /\ Outdated(e.id) \cap OfOneCampaign \subseteq Invalidated(e.name)
                    /\ e.name \notin DOMAIN ClaimHooks =>
                         Outdated(e.id) \cap ShownBySender(e.name) \subseteq Invalidated(e.name)
  BY DEF Refreshed
<1>1. Outdated(e.id) \cap OfOneCampaign \subseteq
        (IF campaign'[e.id] # campaign[e.id] THEN {"campaign"} ELSE {})
        \cup (IF contribution'[e.id] # contribution[e.id] THEN {"contribution"} ELSE {})
        \cup (IF tranches'[e.id] # tranches[e.id] THEN {"tranches"} ELSE {})
        \cup (IF dispute'[e.id] # dispute[e.id] THEN {"dispute"} ELSE {})
        \cup (IF harvest'[e.id] # harvest[e.id] THEN {"harvestRecord"} ELSE {})
  BY DEF Outdated, OfOneCampaign
<1>2. Outdated(e.id) \cap OfOneCampaign \subseteq Invalidated(e.name)
  BY <1>1, HooksRefresh DEF LeavesAlone, IsWrite, Claims, Stakes
<1>3. QED
  BY <1>2, PageStale, HooksRefresh

\* Every write refreshes what it changed of its campaign, and every write but a claim
\* all that its page shows: what an event's handler leaves alone in the contract covers
\* what its hook leaves alone in the cache.
THEOREM WritesRefresh == ViewSpec => MutationsRefresh
<1>1. ASSUME IInv, [ViewNext]_viewVars
      PROVE  (\A i \in DOMAIN tx'.events : Refreshed(tx'.events[i])) \/ UNCHANGED viewVars
  <2>1. CASE UNCHANGED viewVars
    BY <2>1
  <2>2. CASE ViewNext
    BY <1>1, <2>2, EventsTell, NothingStale DEF ViewNext, Invoke, EventsSay
  <2>3. QED
    BY <1>1, <2>1, <2>2
<1>2. IInv /\ [ViewNext]_viewVars =>
        [\A i \in DOMAIN tx'.events :
          LET e == tx'.events[i] IN
          e.name \in DOMAIN FarmerAndInvestorHooks \cup DOMAIN AdminHooks \cup DOMAIN ClaimHooks
          =>
            /\ Outdated(e.id) \cap OfOneCampaign \subseteq Invalidated(e.name)
            /\ e.name \notin DOMAIN ClaimHooks =>
                 Outdated(e.id) \cap ShownBySender(e.name) \subseteq Invalidated(e.name)
        ]_viewVars
  BY <1>1 DEF Refreshed, IsWrite
<1>3. QED
  BY <1>2, ViewAlways, PTL DEF ViewSpec, MutationsRefresh
-----------------------------------------------------------------------------
(* The server's tables as the portfolio's check makes them: event after event. *)

Tables ==
  [campaign : [CampaignIds -> Rows], investments : SUBSET Nat, tranches : SUBSET Nat,
   disputes : [CampaignIds -> {"None", "Open", "Resolved"}], transactions : SUBSET Nat]

\* The tables after a write that may be refused.
Tried(t, k, write) == IF Accepted(t, k, write) THEN Written(t, k, write) ELSE t

\* Tables remain tables.
LEMMA TriedTables ==
  ASSUME ChainInv, NEW t \in Tables, NEW k \in DOMAIN chain, NEW write
  PROVE  Tried(t, k, write) \in Tables
<1> DEFINE o == chain[k].id
           a == chain[k].amount
           v == [row |-> t.campaign[o], dispute |-> t.disputes[o]]
<1>1. k \in Nat /\ o \in CampaignIds /\ a \in Int
  <2>1. k \in 1 .. Len(chain) /\ Len(chain) \in Nat /\ chain[k] \in Entry
    BY LenProperties, ElementOfSeq DEF ChainInv
  <2>2. QED
    BY <2>1 DEF Entry
<1>2. /\ t.campaign \in [CampaignIds -> Rows]
      /\ t.disputes \in [CampaignIds -> {"None", "Open", "Resolved"}]
      /\ t.investments \in SUBSET Nat /\ t.tranches \in SUBSET Nat
      /\ t.transactions \in SUBSET Nat
  BY DEF Tables
<1> HIDE DEF o, a
<1>3. v \in Shown
  BY <1>1, <1>2 DEF Shown
<1>4. Rewrite(v, write, a) \in Shown
  BY <1>1, <1>3, RewriteFields
<1>5. Row(t.campaign[o], write, a) \in Rows
      /\ DisputeRow(t.disputes[o], write) \in {"None", "Open", "Resolved"}
  <2> DEFINE r == Row(t.campaign[o], write, a)
             d == DisputeRow(t.disputes[o], write)
  <2>1. Rewrite(v, write, a) = [row |-> r, dispute |-> d]
    BY DEF Rewrite
  <2> HIDE DEF r, d
  <2>2. QED
    BY <1>4, <2>1 DEF Shown, r, d
<1>6. Written(t, k, write) \in Tables
  <2> DEFINE w == Written(t, k, write)
  <2>1. w = [campaign     |-> [t.campaign EXCEPT ![o] = Row(t.campaign[o], write, a)],
             investments  |-> Put(t.investments, k, write = "investment"),
             tranches     |-> Put(t.tranches, k, write = "tranche"),
             disputes     |-> [t.disputes EXCEPT ![o] = DisputeRow(t.disputes[o], write)],
             transactions |-> Put(t.transactions, k, write = "transaction")]
    BY DEF Written, o, a
  <2>2. \A S \in SUBSET Nat : \A here \in BOOLEAN : Put(S, k, here) \in SUBSET Nat
    BY <1>1 DEF Put
  <2>3. /\ [t.campaign EXCEPT ![o] = Row(t.campaign[o], write, a)] \in [CampaignIds -> Rows]
        /\ [t.disputes EXCEPT ![o] = DisputeRow(t.disputes[o], write)]
             \in [CampaignIds -> {"None", "Open", "Resolved"}]
    BY <1>1, <1>2, <1>5
  <2>4. /\ Put(t.investments, k, write = "investment") \in SUBSET Nat
        /\ Put(t.tranches, k, write = "tranche") \in SUBSET Nat
        /\ Put(t.transactions, k, write = "transaction") \in SUBSET Nat
    BY <1>2, <2>2
  <2> HIDE DEF w
  <2>5. w \in Tables
    BY <2>1, <2>3, <2>4 DEF Tables
  <2>6. QED
    BY <2>5 DEF w
<1>7. QED
  BY <1>6 DEF Tried

\* Persisted goes from one write to the next.
LEMMA PersistedRuns ==
  ASSUME ChainInv, NEW t \in Tables, NEW k \in DOMAIN chain
  PROVE  LET list == Writes(chain[k].name) IN
         \E h : /\ h[0] = t /\ h[Len(list)] = Persisted(t, k)
                /\ \A i \in 0 .. Len(list) : h[i] \in Tables
                /\ \A i \in 1 .. Len(list) : h[i] = Tried(h[i - 1], k, list[i])
<1> DEFINE list == Writes(chain[k].name)
           n == Len(list)
           F == [i \in 1 .. n |-> [s \in Tables |-> Tried(s, k, list[i])]]
           Totals(h) ==
             h = [s \in SUBSET DOMAIN list |->
                    IF s = {} THEN t
                    ELSE IF Accepted(h[s \ {Max(s)}], k, list[Max(s)])
                         THEN Written(h[s \ {Max(s)}], k, list[Max(s)]) ELSE h[s \ {Max(s)}]]
           c == CHOOSE h : Totals(h)
<1>1. n \in Nat /\ DOMAIN list = 1 .. n
  <2>1. chain[k] \in Entry
    BY LenProperties, ElementOfSeq DEF ChainInv
  <2>2. QED
    BY <2>1, ListsNotEmpty DEF Entry
<1>2. Persisted(t, k) = c[DOMAIN list]
  BY DEF Persisted, FoldLeft, MapThenFoldSet
<1> HIDE DEF n, list
<1>3. \A i \in 1 .. n : \A s \in Tables : F[i][s] = Tried(s, k, list[i]) /\ F[i][s] \in Tables
  BY TriedTables
<1> HIDE DEF F
<1>4. PICK g : IsFold(F, t, 1 .. n, g) /\ \A s \in SUBSET (1 .. n) : g[s] \in Tables
  BY <1>1, <1>3, FoldsExist
<1> DEFINE D(h, s) == IF s = {} THEN t
                ELSE IF Accepted(h[s \ {Max(s)}], k, list[Max(s)])
                     THEN Written(h[s \ {Max(s)}], k, list[Max(s)]) ELSE h[s \ {Max(s)}]
           E(h, s) == IF s = {} THEN t ELSE F[Max(s)][h[s \ {Max(s)}]]
<1>5. Totals(g)
  <2>1. \A s \in SUBSET (1 .. n) : D(g, s) = E(g, s)
    <3>1. \A s \in SUBSET (1 .. n) : s # {} => Max(s) \in 1 .. n /\ g[s \ {Max(s)}] \in Tables
      BY <1>1, <1>4, MaxIn
    <3>2. QED
      BY <1>3, <3>1 DEF Tried
  <2>2. g = [s \in SUBSET (1 .. n) |-> E(g, s)]
    BY <1>4 DEF IsFold
  <2> HIDE DEF D, E
  <2>3. g = [s \in SUBSET (1 .. n) |-> D(g, s)]
    BY <2>1, <2>2
  <2>4. QED
    BY <1>1, <2>3 DEF D
<1>6. Totals(c)
  BY <1>5
<1>7. c = [s \in SUBSET (1 .. n) |-> D(c, s)]
  BY <1>1, <1>6
<1> HIDE DEF c
<1>8. \A s \in SUBSET (1 .. n) : c[s] = D(c, s)
  <2> HIDE DEF D
  <2>1. QED
    BY <1>7
<1>9. c[1 .. 0] = t
  <2>1. 1 .. 0 = {} /\ {} \in SUBSET (1 .. n)
    OBVIOUS
  <2>2. QED
    BY <1>8, <2>1
<1>10. ASSUME NEW i \in 1 .. n PROVE c[1 .. i] = Tried(c[1 .. (i - 1)], k, list[i])
  <2>1. 1 .. i \in SUBSET (1 .. n) /\ 1 .. i # {} /\ (1 .. i) \ {i} = 1 .. (i - 1)
    BY <1>1, <1>10, FirstIndices
  <2>2. Max(1 .. i) = i
    BY <1>1, <1>10, MaxIn
  <2>3. c[1 .. i] = D(c, 1 .. i)
    BY <1>8, <2>1
  <2>4. QED
    BY <2>1, <2>2, <2>3 DEF Tried
<1> DEFINE h == [i \in 0 .. n |-> c[1 .. i]]
<1>11. h[0] = t /\ \A i \in 1 .. n : h[i] = Tried(h[i - 1], k, list[i])
  <2>1. \A i \in 1 .. n : h[i] = c[1 .. i] /\ h[i - 1] = c[1 .. (i - 1)]
    BY <1>1
  <2>2. h[0] = c[1 .. 0]
    BY <1>1
  <2> HIDE DEF h
  <2>3. QED
    BY <1>9, <1>10, <2>1, <2>2
<1>12. h[n] = Persisted(t, k)
  BY <1>1, <1>2
<1>13. \A i \in 0 .. n : h[i] \in Tables
  <2> DEFINE Bad == {i \in 0 .. n : h[i] \notin Tables}
  <2> HIDE DEF h
  <2>1. SUFFICES ASSUME Bad # {} PROVE FALSE
    OBVIOUS
  <2>2. PICK i \in Bad : \A j \in Bad : i <= j
    <3>1. Bad \subseteq Nat
      BY <1>1
    <3>2. QED
      BY <2>1, <3>1, LeastNat
  <2>3. CASE i = 0
    BY <1>11, <2>2, <2>3
  <2>4. CASE i # 0
    <3>1. i \in 1 .. n /\ i - 1 \in 0 .. n /\ ~(i <= i - 1)
      BY <1>1, <2>2, <2>4
    <3>2. h[i - 1] \in Tables
      BY <2>2, <3>1
    <3>3. QED
      BY <1>11, <2>2, <3>1, <3>2, TriedTables
  <2>5. QED
    BY <2>3, <2>4
<1> HIDE DEF h
<1>14. QED
  BY <1>11, <1>12, <1>13 DEF n, list

\* Of an event whose predecessors the tables hold, no write is refused.
LEMMA PersistedHolds ==
  ASSUME ChainInv, NEW V, Recounts(chain, V), NEW t \in Tables, NEW n \in Nat,
         n + 1 \in DOMAIN chain, HoldsFirst(chain, t, V, n)
  PROVE  Persisted(t, n + 1) \in Tables /\ HoldsFirst(chain, Persisted(t, n + 1), V, n + 1)
<1> DEFINE list == Writes(chain[n + 1].name)
           len == Len(list)
<1>1. PICK h : /\ h[0] = t /\ h[len] = Persisted(t, n + 1)
               /\ \A i \in 0 .. len : h[i] \in Tables
               /\ \A i \in 1 .. len : h[i] = Tried(h[i - 1], n + 1, list[i])
  BY PersistedRuns
<1>2. len \in 1 .. 3
  <2>1. chain[n + 1] \in Entry
    BY LenProperties, ElementOfSeq DEF ChainInv
  <2>2. QED
    BY <2>1, ListsNotEmpty DEF Entry
<1>3. ASSUME NEW i \in 1 .. len, HoldsPart(chain, h[i - 1], V, n, i)
      PROVE  /\ i < len => HoldsPart(chain, h[i], V, n, i + 1)
             /\ i = len => HoldsFirst(chain, h[i], V, n + 1)
  <2>1. h[i] = Tried(h[i - 1], n + 1, list[i])
    BY <1>1
  <2>2. /\ Accepted(h[i - 1], n + 1, list[i])
        /\ i < len => HoldsPart(chain, Written(h[i - 1], n + 1, list[i]), V, n, i + 1)
        /\ i = len => HoldsFirst(chain, Written(h[i - 1], n + 1, list[i]), V, n + 1)
    BY <1>3, WriteMovesOn
  <2>3. QED
    BY <2>1, <2>2 DEF Tried
<1> HIDE DEF len
<1>4. HoldsPart(chain, h[1 - 1], V, n, 1)
  BY <1>1 DEF HoldsFirst
<1>5. len = 1 => HoldsFirst(chain, h[len], V, n + 1)
  BY <1>2, <1>3, <1>4
<1>6. len > 1 => HoldsPart(chain, h[2 - 1], V, n, 2)
  BY <1>2, <1>3, <1>4
<1>7. len = 2 => HoldsFirst(chain, h[len], V, n + 1)
  BY <1>2, <1>3, <1>6
<1>8. len = 3 => HoldsFirst(chain, h[len], V, n + 1)
  <2>1. len = 3 => HoldsPart(chain, h[3 - 1], V, n, 3)
    BY <1>2, <1>3, <1>6
  <2>2. QED
    BY <1>2, <1>3, <2>1
<1>9. QED
  BY <1>1, <1>2, <1>5, <1>7, <1>8

\* Indexed goes from one event to the next.
LEMMA IndexedRuns ==
  ASSUME ChainInv
  PROVE  \E h : /\ h[0] = EmptyDb /\ h[Len(chain)] = Indexed
                /\ \A k \in 0 .. Len(chain) : h[k] \in Tables
                /\ \A k \in 1 .. Len(chain) : h[k] = Persisted(h[k - 1], k)
<1> DEFINE n == Len(chain)
           list == [k \in DOMAIN chain |-> k]
           F == [k \in 1 .. n |-> [t \in Tables |-> Persisted(t, k)]]
           Totals(h) ==
             h = [s \in SUBSET DOMAIN list |->
                    IF s = {} THEN EmptyDb ELSE Persisted(h[s \ {Max(s)}], list[Max(s)])]
           c == CHOOSE h : Totals(h)
           D(h, s) == IF s = {} THEN EmptyDb ELSE Persisted(h[s \ {Max(s)}], list[Max(s)])
           E(h, s) == IF s = {} THEN EmptyDb ELSE F[Max(s)][h[s \ {Max(s)}]]
<1>1. n \in Nat /\ DOMAIN chain = 1 .. n /\ DOMAIN list = 1 .. n
  BY LenProperties DEF ChainInv
<1>2. Indexed = c[DOMAIN list]
  BY DEF Indexed, FoldLeft, MapThenFoldSet
<1>3. \A k \in 1 .. n : list[k] = k
  BY <1>1
<1>4. ASSUME NEW k \in 1 .. n, NEW t \in Tables PROVE Persisted(t, k) \in Tables
  <2>1. PICK m \in Nat : m = Len(Writes(chain[k].name))
    <3>1. chain[k] \in Entry
      BY <1>1, ElementOfSeq DEF ChainInv
    <3>2. QED
      BY <3>1, ListsNotEmpty DEF Entry
  <2>2. m \in 0 .. m
    BY <2>1
  <2>3. QED
    BY <1>1, <2>1, <2>2, PersistedRuns
<1>5. EmptyDb \in Tables
  BY DEF EmptyDb, Tables, NewRow, Rows, CampaignStatus
<1>6. \A k \in 1 .. n : \A t \in Tables : F[k][t] = Persisted(t, k) /\ F[k][t] \in Tables
  BY <1>4
<1> HIDE DEF n, list, F
<1>7. PICK g : IsFold(F, EmptyDb, 1 .. n, g) /\ \A s \in SUBSET (1 .. n) : g[s] \in Tables
  BY <1>1, <1>5, <1>6, FoldsExist
<1>8. Totals(g)
  <2>1. \A s \in SUBSET (1 .. n) : D(g, s) = E(g, s)
    <3>1. \A s \in SUBSET (1 .. n) : s # {} => Max(s) \in 1 .. n /\ g[s \ {Max(s)}] \in Tables
      BY <1>1, <1>7, MaxIn
    <3>2. QED
      BY <1>3, <1>6, <3>1
  <2>2. g = [s \in SUBSET (1 .. n) |-> E(g, s)]
    BY <1>7 DEF IsFold
  <2> HIDE DEF D, E
  <2>3. g = [s \in SUBSET (1 .. n) |-> D(g, s)]
    BY <2>1, <2>2
  <2>4. QED
    BY <1>1, <2>3 DEF D
<1>9. Totals(c)
  BY <1>8
<1>10. c = [s \in SUBSET (1 .. n) |-> D(c, s)]
  BY <1>1, <1>9
<1> HIDE DEF c
<1>11. \A s \in SUBSET (1 .. n) : c[s] = D(c, s)
  <2> HIDE DEF D
  <2>1. QED
    BY <1>10
<1>12. c[1 .. 0] = EmptyDb
  <2>1. 1 .. 0 = {} /\ {} \in SUBSET (1 .. n)
    OBVIOUS
  <2>2. QED
    BY <1>11, <2>1
<1>13. ASSUME NEW k \in 1 .. n PROVE c[1 .. k] = Persisted(c[1 .. (k - 1)], k)
  <2>1. 1 .. k \in SUBSET (1 .. n) /\ 1 .. k # {} /\ (1 .. k) \ {k} = 1 .. (k - 1)
    BY <1>1, <1>13, FirstIndices
  <2>2. Max(1 .. k) = k
    BY <1>1, <1>13, MaxIn
  <2>3. c[1 .. k] = D(c, 1 .. k)
    BY <1>11, <2>1
  <2>4. QED
    BY <1>3, <2>1, <2>2, <2>3
<1> DEFINE h == [k \in 0 .. n |-> c[1 .. k]]
<1>14. h[0] = EmptyDb /\ \A k \in 1 .. n : h[k] = Persisted(h[k - 1], k)
  <2>1. \A k \in 1 .. n : h[k] = c[1 .. k] /\ h[k - 1] = c[1 .. (k - 1)]
    BY <1>1
  <2>2. h[0] = c[1 .. 0]
    BY <1>1
  <2> HIDE DEF h
  <2>3. QED
    BY <1>12, <1>13, <2>1, <2>2
<1>15. h[n] = Indexed
  BY <1>1, <1>2
<1>16. \A k \in 0 .. n : h[k] \in Tables
  <2> DEFINE Bad == {k \in 0 .. n : h[k] \notin Tables}
  <2> HIDE DEF h
  <2>1. SUFFICES ASSUME Bad # {} PROVE FALSE
    OBVIOUS
  <2>2. PICK k \in Bad : \A j \in Bad : k <= j
    <3>1. Bad \subseteq Nat
      BY <1>1
    <3>2. QED
      BY <2>1, <3>1, LeastNat
  <2>3. CASE k = 0
    BY <1>5, <1>14, <2>2, <2>3
  <2>4. CASE k # 0
    <3>1. k \in 1 .. n /\ k - 1 \in 0 .. n /\ ~(k <= k - 1)
      BY <1>1, <2>2, <2>4
    <3>2. h[k - 1] \in Tables
      BY <2>2, <3>1
    <3>3. QED
      BY <1>4, <1>14, <2>2, <3>1, <3>2
  <2>5. QED
    BY <2>3, <2>4
<1> HIDE DEF h
<1>17. QED
  BY <1>14, <1>15, <1>16 DEF n

\* Made so, the tables hold all events.
LEMMA IndexedHolds ==
  ASSUME ChainInv, NEW V, Recounts(chain, V)
  PROVE  HoldsFirst(chain, Indexed, V, Len(chain))
<1> DEFINE n == Len(chain)
<1>1. PICK h : /\ h[0] = EmptyDb /\ h[n] = Indexed
               /\ \A k \in 0 .. n : h[k] \in Tables
               /\ \A k \in 1 .. n : h[k] = Persisted(h[k - 1], k)
  BY IndexedRuns
<1>2. n \in Nat /\ DOMAIN chain = 1 .. n
  BY LenProperties DEF ChainInv
<1> HIDE DEF n
<1> DEFINE Bad == {k \in 0 .. n : ~HoldsFirst(chain, h[k], V, k)}
<1>3. Bad = {}
  <2> SUFFICES ASSUME Bad # {} PROVE FALSE
    OBVIOUS
  <2>1. PICK k \in Bad : \A j \in Bad : k <= j
    <3>1. Bad \subseteq Nat
      BY <1>2
    <3>2. QED
      BY <3>1, LeastNat
  <2>2. CASE k = 0
    BY <1>1, <2>1, <2>2, EmptyHoldsNone
  <2>3. CASE k # 0
    <3>1. k \in 1 .. n /\ k - 1 \in 0 .. n /\ ~(k <= k - 1) /\ k - 1 \in Nat /\ (k - 1) + 1 = k
      BY <1>2, <2>1, <2>3
    <3>2. HoldsFirst(chain, h[k - 1], V, k - 1)
      BY <2>1, <3>1
    <3>3. h[k - 1] \in Tables /\ h[k] = Persisted(h[k - 1], k)
      BY <1>1, <3>1
    <3>4. (k - 1) + 1 \in DOMAIN chain
      BY <1>2, <3>1
    <3>5. HoldsFirst(chain, Persisted(h[k - 1], (k - 1) + 1), V, (k - 1) + 1)
      BY <3>1, <3>2, <3>3, <3>4, PersistedHolds
    <3>6. QED
      BY <2>1, <3>1, <3>3, <3>5
  <2>4. QED
    BY <2>2, <2>3
<1>4. n \in 0 .. n
  BY <1>2
<1>5. QED
  BY <1>1, <1>3, <1>4 DEF n

-----------------------------------------------------------------------------
(* The feed, and what each investor is told to have paid. *)

FeedEntry ==
  [name : EventName, id : CampaignIds, who : Accounts \cup {NoOne}, amount : Int,
   ledger : Nat \ {0}, status : CampaignStatus \cup {"Absent"}]

\* The feed holds the chain's events, with what the indexer does not keep of them.
FeedInv ==
  /\ feed \in Seq(FeedEntry) /\ Len(feed) = Len(chain)
  /\ \A k \in DOMAIN chain : /\ feed[k].name = chain[k].name /\ feed[k].id = chain[k].id
                             /\ feed[k].amount = chain[k].amount
                             /\ feed[k].ledger = chain[k].ledger

\* A sequence and what is appended to it.
LEMMA TwoParts ==
  ASSUME NEW S, NEW a \in Seq(S), NEW b \in Seq(S)
  PROVE  /\ a \o b \in Seq(S) /\ Len(a \o b) = Len(a) + Len(b)
         /\ Len(a) \in Nat /\ Len(b) \in Nat
         /\ DOMAIN a = 1 .. Len(a) /\ DOMAIN b = 1 .. Len(b)
         /\ \A k \in 1 .. Len(a) : (a \o b)[k] = a[k]
         /\ \A k \in Len(a) + 1 .. Len(a) + Len(b) : (a \o b)[k] = b[k - Len(a)]
  BY LenProperties, ConcatProperties

\* what an invocation adds to the feed
MoreFed == [j \in DOMAIN tx'.events |-> Seen(tx'.events[j])]

\* An invocation adds typed events to the feed, those it adds to the chain.
LEMMA FeedStep ==
  ASSUME IInv, IInv', ChainInv, FeedInv, ViewNext
  PROVE  /\ FeedInv' /\ MoreFed \in Seq(FeedEntry) /\ feed' = feed \o MoreFed
         /\ DOMAIN MoreFed = DOMAIN tx'.events
         /\ \A j \in DOMAIN MoreFed : /\ MoreFed[j].name = tx'.events[j].name
                                      /\ MoreFed[j].id = tx'.events[j].id
                                      /\ MoreFed[j].who = tx'.events[j].who
                                      /\ MoreFed[j].amount = tx'.events[j].amount
<1> DEFINE ev == tx'.events
           more == [j \in DOMAIN ev |-> Parsed(ev[j])]
<1>1. ev \in Seq(Event) /\ campaign' \in [CampaignIds -> Campaign] /\ Tip \in Nat
  BY TipIsLast DEF IInv, TypeOK, TipOnTop
<1>2. Len(ev) \in Nat /\ DOMAIN ev = 1 .. Len(ev) /\ \A j \in DOMAIN ev : ev[j] \in Event
  BY <1>1, LenProperties, ElementOfSeq
<1>3. chain' = chain \o more /\ feed' = feed \o MoreFed /\ chain \in Seq(Entry)
  BY DEF ViewNext, Invoke, MoreFed, ChainInv
<1> HIDE DEF ev
<1>4. ASSUME NEW e \in Event
      PROVE  /\ Seen(e) \in FeedEntry /\ Seen(e).name = e.name /\ Seen(e).id = e.id
             /\ Seen(e).who = e.who /\ Seen(e).amount = e.amount /\ Seen(e).ledger = Tip + 1
             /\ Parsed(e) \in Entry /\ Parsed(e).name = e.name /\ Parsed(e).id = e.id
             /\ Parsed(e).amount = e.amount /\ Parsed(e).ledger = Tip + 1
  <2>1. campaign'[e.id].status \in CampaignStatus \cup {"Absent"}
    BY <1>1, <1>4 DEF Event, Campaign
  <2>2. Seen(e) = [name |-> e.name, id |-> e.id, who |-> e.who, amount |-> e.amount,
                   ledger |-> Tip + 1, status |-> campaign'[e.id].status]
    BY DEF Seen
  <2>3. Parsed(e) = [name |-> e.name, id |-> e.id, amount |-> e.amount, ledger |-> Tip + 1]
    BY DEF Parsed
  <2>4. /\ e.name \in EventName /\ e.id \in CampaignIds /\ e.who \in Accounts \cup {NoOne}
        /\ e.amount \in Int /\ Tip + 1 \in Nat \ {0}
    BY <1>1, <1>4 DEF Event
  <2>5. QED
    BY <2>1, <2>2, <2>3, <2>4 DEF FeedEntry, Entry
<1>5. DOMAIN MoreFed = DOMAIN ev /\ \A j \in DOMAIN ev : MoreFed[j] = Seen(ev[j])
  BY DEF MoreFed, ev
<1>6. MoreFed \in Seq(FeedEntry) /\ Len(MoreFed) = Len(ev)
  BY <1>2, <1>4, <1>5 DEF MoreFed, ev
<1>7. more \in Seq(Entry) /\ Len(more) = Len(ev)
  BY <1>2, <1>4
<1>8. \A j \in DOMAIN ev : more[j] = Parsed(ev[j])
  OBVIOUS
<1> HIDE DEF more
<1>9. /\ chain' \in Seq(Entry) /\ Len(chain') = Len(chain) + Len(ev)
      /\ feed' \in Seq(FeedEntry) /\ Len(feed') = Len(feed) + Len(ev)
  <2>1. feed \in Seq(FeedEntry)
    BY DEF FeedInv
  <2>2. chain \o more \in Seq(Entry) /\ Len(chain \o more) = Len(chain) + Len(ev)
    <3>1. chain \in Seq(Entry) /\ more \in Seq(Entry) /\ Len(more) = Len(ev)
      BY <1>3, <1>7
    <3>2. chain \o more \in Seq(Entry) /\ Len(chain \o more) = Len(chain) + Len(more)
      BY <3>1, TwoParts
    <3>3. QED
      BY <3>1, <3>2
  <2>3. feed \o MoreFed \in Seq(FeedEntry) /\ Len(feed \o MoreFed) = Len(feed) + Len(ev)
    <3>1. feed \o MoreFed \in Seq(FeedEntry) /\ Len(feed \o MoreFed) = Len(feed) + Len(MoreFed)
      BY <1>6, <2>1, TwoParts
    <3>2. QED
      BY <1>6, <3>1
  <2>4. QED
    BY <1>3, <2>2, <2>3
<1>10. Len(chain) \in Nat /\ Len(feed) = Len(chain) /\ DOMAIN chain = 1 .. Len(chain)
  BY <1>3, LenProperties DEF FeedInv
<1>11. ASSUME NEW k \in DOMAIN chain'
       PROVE  /\ feed'[k].name = chain'[k].name /\ feed'[k].id = chain'[k].id
              /\ feed'[k].amount = chain'[k].amount /\ feed'[k].ledger = chain'[k].ledger
  <2>1. k \in 1 .. (Len(chain) + Len(ev))
    BY <1>9, LenProperties
  <2>2. CASE k \in 1 .. Len(chain)
    <3>1. chain'[k] = chain[k] /\ feed'[k] = feed[k]
      BY <1>2, <1>3, <1>6, <1>7, <1>10, <2>2, ConcatProperties DEF FeedInv
    <3>2. QED
      BY <1>10, <2>2, <3>1 DEF FeedInv
  <2>3. CASE k \notin 1 .. Len(chain)
    <3> DEFINE j == k - Len(chain)
    <3>1. j \in 1 .. Len(ev) /\ k \in Len(chain) + 1 .. Len(chain) + Len(ev)
      BY <1>2, <1>10, <2>1, <2>3
    <3>2. chain'[k] = more[j] /\ feed'[k] = MoreFed[j]
      BY <1>2, <1>3, <1>6, <1>7, <1>10, <3>1, ConcatProperties DEF FeedInv
    <3>3. more[j] = Parsed(ev[j]) /\ MoreFed[j] = Seen(ev[j]) /\ ev[j] \in Event
      BY <1>2, <1>5, <1>8, <3>1
    <3>4. QED
      BY <1>4, <3>2, <3>3
  <2>4. QED
    BY <2>2, <2>3
<1>12. FeedInv'
  BY <1>9, <1>10, <1>11 DEF FeedInv
<1>13. \A j \in DOMAIN ev : /\ MoreFed[j].name = ev[j].name /\ MoreFed[j].id = ev[j].id
                            /\ MoreFed[j].who = ev[j].who /\ MoreFed[j].amount = ev[j].amount
  BY <1>2, <1>4, <1>5
<1>14. QED
  BY <1>3, <1>5, <1>6, <1>12, <1>13 DEF ev

\* Event e tells of a payment by investor i to campaign id.
IsGift(e, id, i) == e.name = "ContribReceived" /\ e.id = id /\ e.who = i

Gifts(f, id, i) == {k \in 1 .. Len(f) : IsGift(f[k], id, i)}

\* what the feed f tells that investor i has paid to campaign id
GivenBy(f, id, i) == SumFunctionOnSet(AmountsOf(f), Gifts(f, id, i))

\* The gifts are finitely many, with amounts.
LEMMA GiftsOf ==
  ASSUME NEW f \in Seq(FeedEntry), NEW id, NEW i
  PROVE  /\ IsFiniteSet(Gifts(f, id, i)) /\ Gifts(f, id, i) \subseteq 1 .. Len(f)
         /\ \A k \in Gifts(f, id, i) : AmountsOf(f)[k] = f[k].amount /\ f[k].amount \in Int
         /\ GivenBy(f, id, i) \in Int
<1>1. /\ Len(f) \in Nat /\ DOMAIN f = 1 .. Len(f)
      /\ \A k \in 1 .. Len(f) : f[k] \in FeedEntry
  BY LenProperties, ElementOfSeq
<1>2. IsFiniteSet(1 .. Len(f))
  BY <1>1, FS_Interval
<1>3. /\ IsFiniteSet(Gifts(f, id, i)) /\ Gifts(f, id, i) \subseteq 1 .. Len(f)
      /\ \A k \in Gifts(f, id, i) : AmountsOf(f)[k] = f[k].amount /\ f[k].amount \in Int
  BY <1>1, <1>2, FS_Subset DEF Gifts, AmountsOf, FeedEntry
<1>4. GivenBy(f, id, i) \in Int
  <2> DEFINE g == AmountsOf(f)
             S == Gifts(f, id, i)
  <2>1. IsFiniteSet(S) /\ \A k \in S : g[k] \in Int
    BY <1>3
  <2> HIDE DEF g, S
  <2>2. SumFunctionOnSet(g, S) \in Int
    BY <2>1, SumType
  <2>3. QED
    BY <2>2 DEF GivenBy, g, S
<1>5. QED
  BY <1>3, <1>4

\* More events add what the one gift among them tells, or nothing.
LEMMA MoreGiven ==
  ASSUME NEW f \in Seq(FeedEntry), NEW more \in Seq(FeedEntry), NEW id, NEW i
  PROVE  /\ (\A j \in DOMAIN more : ~IsGift(more[j], id, i)) =>
               GivenBy(f \o more, id, i) = GivenBy(f, id, i)
         /\ \A j \in DOMAIN more :
               IsGift(more[j], id, i) /\ (\A l \in DOMAIN more : l # j => ~IsGift(more[l], id, i))
               => GivenBy(f \o more, id, i) = GivenBy(f, id, i) + more[j].amount
<1> DEFINE c == f \o more
           n == Len(f)
           S == Gifts(f, id, i)
           T == Gifts(c, id, i)
           a == AmountsOf(f)
           b == AmountsOf(c)
<1>1. /\ c \in Seq(FeedEntry) /\ Len(c) = n + Len(more)
      /\ n \in Nat /\ Len(more) \in Nat /\ DOMAIN more = 1 .. Len(more)
      /\ \A k \in 1 .. n : c[k] = f[k]
      /\ \A k \in n + 1 .. n + Len(more) : c[k] = more[k - n]
  BY TwoParts
<1> HIDE DEF c
<1>2. /\ IsFiniteSet(S) /\ S \subseteq 1 .. n
      /\ \A k \in S : a[k] = f[k].amount /\ f[k].amount \in Int
      /\ IsFiniteSet(T) /\ T \subseteq 1 .. Len(c)
      /\ \A k \in T : b[k] = c[k].amount /\ c[k].amount \in Int
  BY <1>1, GiftsOf
<1>3. \A k \in 1 .. n : k \in T <=> k \in S
  BY <1>1 DEF Gifts
<1>4. \A k \in n + 1 .. n + Len(more) : k \in T <=> IsGift(more[k - n], id, i)
  BY <1>1 DEF Gifts
<1>5. \A k \in S : b[k] = a[k] /\ a[k] \in Int
  BY <1>1, <1>2, <1>3
<1> HIDE DEF a, b, S, T, n
<1>6. SumFunctionOnSet(b, S) = SumFunctionOnSet(a, S) /\ SumFunctionOnSet(a, S) \in Int
  BY <1>2, <1>5, SumCongruence, SumType
<1>7. ASSUME \A j \in DOMAIN more : ~IsGift(more[j], id, i)
      PROVE  SumFunctionOnSet(b, T) = SumFunctionOnSet(a, S)
  <2>1. ASSUME NEW k \in T PROVE k \in 1 .. n
    <3>1. k \in 1 .. n \/ (k \in n + 1 .. n + Len(more) /\ k - n \in DOMAIN more)
      BY <1>1, <1>2, <2>1
    <3>2. QED
      BY <1>4, <1>7, <2>1, <3>1
  <2>2. T = S
    BY <1>2, <1>3, <2>1
  <2>3. QED
    BY <1>6, <2>2
<1>8. ASSUME NEW j \in DOMAIN more, IsGift(more[j], id, i),
             \A l \in DOMAIN more : l # j => ~IsGift(more[l], id, i)
      PROVE  SumFunctionOnSet(b, T) = SumFunctionOnSet(a, S) + more[j].amount
  <2>1. /\ n + j \in n + 1 .. n + Len(more) /\ (n + j) - n = j /\ n + j \notin 1 .. n
    BY <1>1
  <2>2. n + j \in T /\ c[n + j] = more[j]
    BY <1>1, <1>4, <1>8, <2>1
  <2>3. ASSUME NEW k \in T, k # n + j PROVE k \in 1 .. n
    <3>1. k \in 1 .. n \/ (k \in n + 1 .. n + Len(more) /\ k - n \in DOMAIN more /\ k - n # j)
      BY <1>1, <1>2, <2>3
    <3>2. QED
      BY <1>4, <1>8, <2>3, <3>1
  <2>4. T \ {n + j} = S
    BY <1>2, <1>3, <2>1, <2>3
  <2>5. SumFunctionOnSet(b, T) = b[n + j] + SumFunctionOnSet(b, S)
    BY <1>2, <2>2, <2>4, SumTakeOut
  <2>6. b[n + j] = more[j].amount /\ more[j].amount \in Int
    BY <1>2, <2>2
  <2>7. QED
    BY <1>6, <2>5, <2>6
<1>9. QED
  BY <1>7, <1>8 DEF GivenBy, a, b, c, S, T

\* One event tells of a payment: amount, by investor i to campaign id.
OneGift(id, i, amount) ==
  \E j \in DOMAIN tx'.events :
    /\ tx'.events[j].name = "ContribReceived" /\ tx'.events[j].id = id
    /\ tx'.events[j].who = i /\ tx'.events[j].amount = amount
    /\ \A l \in DOMAIN tx'.events : l # j => tx'.events[l].name # "ContribReceived"

NoGift == \A j \in DOMAIN tx'.events : tx'.events[j].name # "ContribReceived"

\* A transaction tells of a payment exactly if it adds a stake that was paid for.
LEMMA GiftsTold ==
  ASSUME IInv, Next
  PROVE  \/ NoGift
         \/ \E id \in CampaignIds, i \in Investors, amount \in Nat :
              OneGift(id, i, amount) /\ StakeAdded(id, i, amount)
<1> DEFINE Goal == \/ NoGift
                   \/ \E id \in CampaignIds, i \in Investors, amount \in Nat :
                        OneGift(id, i, amount) /\ StakeAdded(id, i, amount)
<1>1. ASSUME NEW n, n # "ContribReceived", NEW id, NEW w, NEW a, tx'.events = Emit(n, id, w, a)
      PROVE  NoGift
  BY <1>1, EmittedEvents DEF NoGift
<1>2. ASSUME NEW id \in CampaignIds, NEW i \in Investors, NEW amount \in Amounts,
             FundCampaign(id, i, amount)
      PROVE  Goal
  <2> DEFINE t == campaign[id].total_funded + amount
             e == [name |-> "CampaignFunded", id |-> id, who |-> NoOne, amount |-> t]
             f == [name |-> "ContribReceived", id |-> id, who |-> i, amount |-> amount]
  <2>1. amount \in Nat /\ StakeAdded(id, i, amount)
    BY <1>2, ContributionAdds
  <2>2. tx'.events = <<e>> \o <<f>> \/ tx'.events = <<f>>
    BY <1>2 DEF FundCampaign, Sends, Emit
  <2>3. /\ e.name # "ContribReceived" /\ f.name = "ContribReceived" /\ f.id = id
        /\ f.who = i /\ f.amount = amount
    OBVIOUS
  <2> HIDE DEF e, f
  <2>4. CASE tx'.events = <<e>> \o <<f>>
    <3>1. tx'.events = <<e, f>>
      BY <2>4, TwoInARow
    <3>2. DOMAIN tx'.events = {1, 2} /\ tx'.events[1] = e /\ tx'.events[2] = f
      BY <3>1
    <3>3. OneGift(id, i, amount)
      BY <2>3, <3>2 DEF OneGift
    <3>4. QED
      BY <2>1, <3>3
  <2>5. CASE tx'.events = <<f>>
    <3>1. DOMAIN tx'.events = {1} /\ tx'.events[1] = f
      BY <2>5
    <3>2. OneGift(id, i, amount)
      BY <2>3, <3>1 DEF OneGift
    <3>3. QED
      BY <2>1, <3>2
  <2>6. QED
    BY <2>2, <2>4, <2>5
<1> USE DEF Sends
<1>3. ASSUME NEW id \in CampaignIds, Contribute(id) PROVE Goal
  <2>1. ASSUME NEW i \in Investors, NEW amount \in Amounts, ReceiveContribution(id, i, amount)
        PROVE  NoGift
    <3>1. tx'.events = Emit("ContribReconciled", id, i, amount)
      BY <2>1 DEF ReceiveContribution
    <3>2. QED
      BY <1>1, <3>1
  <2>2. QED
    BY <1>2, <1>3, <2>1 DEF Contribute
<1>4. ASSUME NEW id \in CampaignIds, Manage(id) PROVE NoGift
  <2>1. ASSUME NEW f \in Farmers, NEW target \in Amounts, NEW t \in Tokens,
               NEW dl \in 0 .. MaxTime, CreateCampaign(id, f, target, t, dl)
        PROVE  NoGift
    <3>1. tx'.events = Emit("CampaignCreated", id, f, target)
      BY <2>1 DEF CreateCampaign
    <3>2. QED
      BY <1>1, <3>1
  <2>2. ASSUME NEW total \in Amounts, CompleteFunding(id, total)
        PROVE  NoGift
    <3>1. tx'.events = Emit("CampaignFunded", id, NoOne, total)
      BY <2>2 DEF CompleteFunding
    <3>2. QED
      BY <1>1, <3>1
  <2>3. ASSUME NEW list \in TrancheLists, ConfigureTranches(id, list)
        PROVE  NoGift
    <3>1. tx'.events = Emit("TranchesConfigured", id, NoOne, Len(list))
      BY <2>3 DEF ConfigureTranches
    <3>2. QED
      BY <1>1, <3>1
  <2>4. ASSUME NEW r \in Farmers, NEW amount \in Amounts, ReleaseTranche(id, r, amount)
        PROVE  NoGift
    <3>1. tx'.events = Emit("TrancheReleased", id, r, amount)
      BY <2>4 DEF ReleaseTranche
    <3>2. QED
      BY <1>1, <3>1
  <2>5. ASSUME NEW r \in Accounts, ReportHarvest(id, r)
        PROVE  NoGift
    <3>1. tx'.events = Emit("HarvestReported", id, r, 0)
      BY <2>5 DEF ReportHarvest
    <3>2. QED
      BY <1>1, <3>1
  <2>6. ASSUME NEW payee \in Farmers, NEW payout \in Amounts, SettleCampaign(id, payee, payout)
        PROVE  NoGift
    <3>1. tx'.events = Emit("CampaignSettled", id, payee,
                           EscrowHeld(campaign[id]) - payout)
      BY <2>6 DEF SettleCampaign
    <3>2. QED
      BY <1>1, <3>1
  <2>7. QED
    BY <1>4, <2>1, <2>2, <2>3, <2>4, <2>5, <2>6 DEF Manage
<1>5. ASSUME NEW id \in CampaignIds, Unwind(id) PROVE NoGift
  <2>1. ASSUME NEW opener \in Accounts, OpenDispute(id, opener)
        PROVE  NoGift
    <3>1. tx'.events = Emit("DisputeOpened", id, opener, 0)
      BY <2>1 DEF OpenDispute
    <3>2. QED
      BY <1>1, <3>1
  <2>2. ASSUME MarkFailed(id) \/ ExpireCampaign(id)
        PROVE  NoGift
    <3>1. tx'.events = Emit("CampaignFailed", id, NoOne, campaign'[id].refundable)
      BY <2>2 DEF MarkFailed, ExpireCampaign
    <3>2. QED
      BY <1>1, <3>1
  <2>3. ASSUME NEW r \in DisputeResolution, NEW p \in Amounts, ResolveDispute(id, r, p)
        PROVE  NoGift
    <3>1. PICK left : tx'.events = Emit("DisputeResolved", id, admin, left)
      BY <2>3 DEF ResolveDispute
    <3>2. QED
      BY <1>1, <3>1
  <2>4. ASSUME NEW i \in Investors, ClaimRefund(id, i) \/ ClaimReturn(id, i)
        PROVE  NoGift
    <3>1. PICK n \in Claims : \E share : tx'.events = Emit(n, id, i, share)
      BY <2>4 DEF ClaimRefund, ClaimReturn, PayShare, Claims
    <3>2. QED
      BY <1>1, <3>1 DEF Claims
  <2>5. QED
    BY <1>5, <2>1, <2>2, <2>3, <2>4 DEF Unwind
<1>6. ASSUME tx' = NoTx PROVE NoGift
  BY <1>6 DEF NoTx, NoGift
<1>7. QED
  BY <1>3, <1>4, <1>5, <1>6 DEF Next, Initialize, SetRegistry, Tick, Deposit

\* what each investor is told to have paid to campaign id
Givers(f, id) == [i \in Investors |-> GivenBy(f, id, i)]

\* Payments are no negative amounts.  Until a campaign is divided, and after that as long
\* as a stake is not redeemed, its investor's payments are within it; all that was ever
\* paid is within what was raised.
GivenInv ==
  /\ \A k \in DOMAIN feed : feed[k].name = "ContribReceived" => feed[k].amount \in Nat
  /\ \A id \in CampaignIds :
       /\ \A i \in Investors :
            contribution[id][i] > 0 \/ ~Divided(id)
              => GivenBy(feed, id, i) <= contribution[id][i]
       /\ SumFunctionOnSet(Givers(feed, id), Investors) <= campaign[id].total_funded

\* Nothing was told.
LEMMA GivenInit == ViewInit => FeedInv /\ GivenInv
<1> SUFFICES ASSUME ViewInit PROVE FeedInv /\ GivenInv
  OBVIOUS
<1>1. /\ feed = <<>> /\ chain = <<>> /\ campaign = [id \in CampaignIds |-> NoCampaign]
      /\ contribution = [id \in CampaignIds |-> [i \in Investors |-> 0]]
  BY DEF ViewInit, IndexInit, Init
<1>2. FeedInv /\ Len(feed) = 0
  BY <1>1 DEF FeedInv
<1>3. ASSUME NEW id, NEW i PROVE GivenBy(feed, id, i) = 0
  <2> DEFINE g == AmountsOf(feed)
             S == Gifts(feed, id, i)
  <2>1. S = {}
    BY <1>2 DEF Gifts
  <2> HIDE DEF g, S
  <2>2. SumFunctionOnSet(g, S) = 0
    BY <2>1, SumType, FS_EmptySet
  <2>3. QED
    BY <2>2 DEF GivenBy, g, S
<1>4. ASSUME NEW id \in CampaignIds PROVE SumFunctionOnSet(Givers(feed, id), Investors) = 0
  <2> DEFINE f == Givers(feed, id)
  <2>1. \A i \in Investors : f[i] = 0
    BY <1>3 DEF Givers
  <2> HIDE DEF f
  <2>2. SumFunctionOnSet(f, Investors) = 0
    BY <2>1, SumOfZeros, FiniteScope
  <2>3. QED
    BY <2>2 DEF f
<1>5. \A id \in CampaignIds : campaign[id].total_funded = 0
  BY <1>1 DEF NoCampaign
<1>6. \A id \in CampaignIds : \A i \in Investors : contribution[id][i] = 0
  BY <1>1
<1>7. QED
  BY <1>1, <1>2, <1>3, <1>4, <1>5, <1>6 DEF GivenInv

\* The gift of an invocation adds to what its investor is told to have paid, to its
\* campaign only.
GiftAdded(id, i, amount) ==
  \A o \in CampaignIds, m \in Investors :
    GivenBy(feed', o, m) = GivenBy(feed, o, m) + (IF o = id /\ m = i THEN amount ELSE 0)

\* What the events of an invocation add to what is told.
LEMMA FeedGiven ==
  ASSUME IInv, IInv', ChainInv, FeedInv, ViewNext
  PROVE  /\ NoGift => \A id, i : GivenBy(feed', id, i) = GivenBy(feed, id, i)
         /\ \A id \in CampaignIds, i \in Investors, amount \in Nat :
              OneGift(id, i, amount) => GiftAdded(id, i, amount)
<1>1. /\ MoreFed \in Seq(FeedEntry) /\ feed' = feed \o MoreFed /\ feed \in Seq(FeedEntry)
      /\ DOMAIN MoreFed = DOMAIN tx'.events
      /\ \A j \in DOMAIN MoreFed : /\ MoreFed[j].name = tx'.events[j].name
                                   /\ MoreFed[j].id = tx'.events[j].id
                                   /\ MoreFed[j].who = tx'.events[j].who
                                   /\ MoreFed[j].amount = tx'.events[j].amount
  BY FeedStep DEF FeedInv
<1>2. ASSUME NoGift, NEW id, NEW i PROVE GivenBy(feed', id, i) = GivenBy(feed, id, i)
  <2>1. \A j \in DOMAIN MoreFed : ~IsGift(MoreFed[j], id, i)
    BY <1>1, <1>2 DEF NoGift, IsGift
  <2>2. QED
    BY <1>1, <2>1, MoreGiven
<1>3. ASSUME NEW id \in CampaignIds, NEW i \in Investors, NEW amount \in Nat,
             OneGift(id, i, amount), NEW o \in CampaignIds, NEW m \in Investors
      PROVE  GivenBy(feed', o, m)
               = GivenBy(feed, o, m) + (IF o = id /\ m = i THEN amount ELSE 0)
  <2>0. PICK j \in DOMAIN tx'.events :
          /\ tx'.events[j].name = "ContribReceived" /\ tx'.events[j].id = id
          /\ tx'.events[j].who = i /\ tx'.events[j].amount = amount
          /\ \A l \in DOMAIN tx'.events : l # j => tx'.events[l].name # "ContribReceived"
    BY <1>3 DEF OneGift
  <2>1. /\ j \in DOMAIN MoreFed
        /\ MoreFed[j].name = "ContribReceived" /\ MoreFed[j].id = id
        /\ MoreFed[j].who = i /\ MoreFed[j].amount = amount
        /\ \A l \in DOMAIN MoreFed : l # j => MoreFed[l].name # "ContribReceived"
    BY <1>1, <2>0
  <2>2. GivenBy(feed, o, m) \in Int
    BY <1>1, GiftsOf
  <2>3. CASE o = id /\ m = i
    <3>1. /\ IsGift(MoreFed[j], o, m)
          /\ \A l \in DOMAIN MoreFed : l # j => ~IsGift(MoreFed[l], o, m)
      BY <2>1, <2>3 DEF IsGift
    <3>2. GivenBy(feed \o MoreFed, o, m) = GivenBy(feed, o, m) + MoreFed[j].amount
      BY <1>1, <3>1, MoreGiven
    <3>3. QED
      BY <1>1, <2>1, <2>3, <3>2
  <2>4. CASE ~(o = id /\ m = i)
    <3>1. \A l \in DOMAIN MoreFed : ~IsGift(MoreFed[l], o, m)
      BY <2>1, <2>4 DEF IsGift
    <3>2. GivenBy(feed \o MoreFed, o, m) = GivenBy(feed, o, m)
      BY <1>1, <3>1, MoreGiven
    <3>3. QED
      BY <1>1, <2>2, <2>4, <3>2
  <2>5. QED
    BY <2>3, <2>4
<1>4. QED
  BY <1>2, <1>3 DEF GiftAdded

\* What is told of the payments remains within stakes and totals.
LEMMA GivenKept ==
  ASSUME IInv, IInv', ChainInv, FeedInv, GivenInv, [ViewNext]_viewVars
  PROVE  FeedInv' /\ GivenInv'
<1>1. CASE UNCHANGED viewVars
  BY <1>1 DEF viewVars, indexerVars, vars, FeedInv, GivenInv, Divided
<1>2. CASE ViewNext
  <2>1. /\ FeedInv' /\ feed \in Seq(FeedEntry) /\ MoreFed \in Seq(FeedEntry)
        /\ feed' = feed \o MoreFed /\ DOMAIN MoreFed = DOMAIN tx'.events
        /\ \A j \in DOMAIN MoreFed : /\ MoreFed[j].name = tx'.events[j].name
                                     /\ MoreFed[j].amount = tx'.events[j].amount
    BY <1>2, FeedStep DEF FeedInv
  <2>2. \A id, i : GivenBy(feed, id, i) \in Int
    BY <2>1, GiftsOf
  <2>3. BookTypes /\ BookTypes'
    <3>1. campaign' \in [CampaignIds -> Campaign]
          /\ contribution' \in [CampaignIds -> [Investors -> Nat]]
          /\ audit' \in [CampaignIds -> [redeemed : Nat, claimed : Nat, reconciled : Nat]]
      BY DEF IInv, TypeOK
    <3>2. QED
      BY <3>1, BooksTyped, PTL DEF BookTypes
  <2>4. Next
    BY <1>2 DEF ViewNext, Invoke
  <2> DEFINE Amounted(f) ==
               \A k \in DOMAIN f : f[k].name = "ContribReceived" => f[k].amount \in Nat
             Within(id, i, g, c) == c[id][i] > 0 \/ ~Divided(id) => g <= c[id][i]
  <2>5. (\A j \in DOMAIN tx'.events :
           tx'.events[j].name = "ContribReceived" => tx'.events[j].amount \in Nat)
        => Amounted(feed')
    <3> SUFFICES ASSUME \A j \in DOMAIN MoreFed :
                          MoreFed[j].name = "ContribReceived" => MoreFed[j].amount \in Nat,
                        NEW k \in DOMAIN feed', feed'[k].name = "ContribReceived"
                 PROVE  feed'[k].amount \in Nat
      BY <2>1
    <3>1. /\ Len(feed) \in Nat /\ Len(MoreFed) \in Nat /\ DOMAIN feed = 1 .. Len(feed)
          /\ DOMAIN MoreFed = 1 .. Len(MoreFed)
          /\ k \in 1 .. Len(feed) + Len(MoreFed)
      BY <2>1, TwoParts DEF FeedInv
    <3>2. CASE k \in 1 .. Len(feed)
      BY <2>1, <3>1, <3>2, TwoParts DEF GivenInv
    <3>3. CASE k \notin 1 .. Len(feed)
      <4>1. k \in Len(feed) + 1 .. Len(feed) + Len(MoreFed) /\ k - Len(feed) \in DOMAIN MoreFed
        BY <3>1, <3>3
      <4>2. feed'[k] = MoreFed[k - Len(feed)]
        BY <2>1, <4>1, TwoParts
      <4>3. QED
        BY <4>1, <4>2
    <3>4. QED
      BY <3>2, <3>3
  <2>6. CASE NoGift
    <3>1. \A id, i : GivenBy(feed', id, i) = GivenBy(feed, id, i)
      BY <1>2, <2>6, FeedGiven
    <3>2. \A id \in CampaignIds : Givers(feed', id) = Givers(feed, id)
      BY <3>1 DEF Givers
    <3>3. Amounted(feed')
      BY <2>5, <2>6 DEF NoGift
    <3>4. ASSUME NEW id \in CampaignIds
          PROVE  /\ campaign'[id].total_funded >= campaign[id].total_funded
                 /\ \A i \in Investors :
                      contribution'[id][i] > 0 \/ ~Divided(id)' =>
                        /\ contribution[id][i] > 0 \/ ~Divided(id)
                        /\ contribution'[id][i] >= contribution[id][i]
      <4>1. /\ \A i \in Investors : contribution[id][i] \in Nat /\ contribution'[id][i] \in Nat
            /\ campaign[id].total_funded \in Nat
        BY <2>3 DEF BookTypes, Campaign
      <4>2. CASE BooksKept
        BY <4>1, <4>2 DEF BooksKept, Divided
      <4>3. ASSUME NEW o \in CampaignIds, NEW m \in Investors, NEW amount \in Nat,
                   StakeAdded(o, m, amount)
            PROVE  /\ campaign'[id].total_funded >= campaign[id].total_funded
                   /\ \A i \in Investors :
                        contribution'[id][i] > 0 \/ ~Divided(id)' =>
                          /\ contribution[id][i] > 0 \/ ~Divided(id)
                          /\ contribution'[id][i] >= contribution[id][i]
        <5>1. \A i \in Investors :
                contribution'[id][i] = contribution[id][i] + (IF id = o /\ i = m THEN amount ELSE 0)
          BY <2>3, <4>1, <4>3 DEF StakeAdded, BookTypes
        <5>2. /\ campaign'[id].total_funded >= campaign[id].total_funded
              /\ ~Divided(o) /\ (Divided(id) => campaign'[id] = campaign[id])
          BY <4>1, <4>3 DEF StakeAdded
        <5>3. ~Divided(id)' => ~Divided(id)
          BY <5>2 DEF Divided
        <5>4. QED
          BY <4>1, <5>1, <5>2, <5>3
      <4>4. ASSUME NEW o \in CampaignIds, NEW m \in Investors, StakeRedeemed(o, m)
            PROVE  /\ campaign'[id].total_funded >= campaign[id].total_funded
                   /\ \A i \in Investors :
                        contribution'[id][i] > 0 \/ ~Divided(id)' =>
                          /\ contribution[id][i] > 0 \/ ~Divided(id)
                          /\ contribution'[id][i] >= contribution[id][i]
        <5>1. \A i \in Investors :
                contribution'[id][i] = IF id = o /\ i = m THEN 0 ELSE contribution[id][i]
          BY <2>3, <4>4 DEF StakeRedeemed, BookTypes
        <5>2. campaign' = campaign /\ Divided(o)
          BY <4>4 DEF StakeRedeemed
        <5>3. QED
          BY <4>1, <5>1, <5>2 DEF Divided
      <4>5. QED
        BY <2>4, <4>2, <4>3, <4>4, BooksStep
    <3>5. ASSUME NEW id \in CampaignIds
          PROVE  /\ \A i \in Investors :
                      contribution'[id][i] > 0 \/ ~Divided(id)'
                        => GivenBy(feed', id, i) <= contribution'[id][i]
                 /\ SumFunctionOnSet(Givers(feed', id), Investors) <= campaign'[id].total_funded
      <4>1. /\ \A i \in Investors : contribution[id][i] \in Nat /\ contribution'[id][i] \in Nat
            /\ campaign[id].total_funded \in Nat /\ campaign'[id].total_funded \in Nat
        BY <2>3 DEF BookTypes, Campaign
      <4>2. SumFunctionOnSet(Givers(feed, id), Investors) \in Int
        <5> DEFINE f == Givers(feed, id)
        <5>1. \A i \in Investors : f[i] \in Int
          BY <2>2 DEF Givers
        <5> HIDE DEF f
        <5>2. SumFunctionOnSet(f, Investors) \in Int
          BY <5>1, SumType, FiniteScope
        <5>3. QED
          BY <5>2 DEF f
      <4>3. \A i \in Investors :
              contribution'[id][i] > 0 \/ ~Divided(id)'
                => GivenBy(feed', id, i) <= contribution'[id][i]
        BY <2>2, <3>1, <3>4, <4>1 DEF GivenInv
      <4>4. SumFunctionOnSet(Givers(feed', id), Investors) <= campaign'[id].total_funded
        BY <3>2, <3>4, <4>1, <4>2 DEF GivenInv
      <4>5. QED
        BY <4>3, <4>4
    <3>6. QED
      BY <2>1, <3>3, <3>5 DEF GivenInv
  <2>7. ASSUME NEW id \in CampaignIds, NEW i \in Investors, NEW amount \in Nat,
               OneGift(id, i, amount), StakeAdded(id, i, amount)
        PROVE  GivenInv'
    <3>1. GiftAdded(id, i, amount)
      BY <1>2, <2>7, FeedGiven
    <3>2. Amounted(feed')
      BY <2>5, <2>7 DEF OneGift
    <3>3. ASSUME NEW o \in CampaignIds
          PROVE  /\ \A m \in Investors :
                      contribution'[o][m] > 0 \/ ~Divided(o)'
                        => GivenBy(feed', o, m) <= contribution'[o][m]
                 /\ SumFunctionOnSet(Givers(feed', o), Investors) <= campaign'[o].total_funded
      <4>1. /\ \A m \in Investors : contribution[o][m] \in Nat /\ contribution'[o][m] \in Nat
            /\ campaign[o].total_funded \in Nat /\ campaign'[o].total_funded \in Nat
        BY <2>3 DEF BookTypes, Campaign
      <4>2. /\ \A m \in Investors :
                 contribution'[o][m] = contribution[o][m] + (IF o = id /\ m = i THEN amount ELSE 0)
            /\ campaign'[o].total_funded
                 = campaign[o].total_funded + (IF o = id THEN amount ELSE 0)
        BY <2>3, <2>7, <4>1 DEF StakeAdded, BookTypes
      <4>3. ~Divided(id) /\ (~Divided(o)' => ~Divided(o))
        BY <2>7 DEF StakeAdded, Divided
      <4>4. \A m \in Investors :
              contribution'[o][m] > 0 \/ ~Divided(o)'
                => GivenBy(feed', o, m) <= contribution'[o][m]
        BY <2>2, <3>1, <4>1, <4>2, <4>3 DEF GivenInv, GiftAdded
      <4> DEFINE f == Givers(feed, o)
                 e == Givers(feed', o)
      <4>5. \A m \in Investors :
              f[m] \in Int /\ e[m] = f[m] + (IF o = id /\ m = i THEN amount ELSE 0)
        BY <2>2, <3>1 DEF Givers, GiftAdded
      <4>6. SumFunctionOnSet(f, Investors) <= campaign[o].total_funded
        BY DEF GivenInv
      <4> HIDE DEF f, e
      <4>7. SumFunctionOnSet(f, Investors) \in Int
        BY <4>5, SumType, FiniteScope
      <4>8. SumFunctionOnSet(e, Investors)
              = SumFunctionOnSet(f, Investors) + (IF o = id THEN amount ELSE 0)
        <5>1. CASE o = id
          <6>1. /\ \A m \in Investors : f[m] \in Int /\ e[m] \in Int
                /\ \A m \in Investors \ {i} : e[m] = f[m]
                /\ e[i] - f[i] = amount
            BY <4>5, <5>1
          <6>2. SumFunctionOnSet(e, Investors) = SumFunctionOnSet(f, Investors) + (e[i] - f[i])
            BY <6>1, SumUpdate, FiniteScope
          <6>3. QED
            BY <5>1, <6>1, <6>2
        <5>2. CASE o # id
          <6>1. \A m \in Investors : f[m] = e[m]
            BY <4>5, <5>2
          <6>2. SumFunctionOnSet(f, Investors) = SumFunctionOnSet(e, Investors)
            BY <6>1, SumCongruence, FiniteScope
          <6>3. QED
            BY <4>7, <5>2, <6>2
        <5>3. QED
          BY <5>1, <5>2
      <4>9. SumFunctionOnSet(e, Investors) <= campaign'[o].total_funded
        BY <4>1, <4>2, <4>6, <4>7, <4>8
      <4>10. QED
        BY <4>4, <4>9 DEF e
    <3>4. QED
      BY <3>2, <3>3 DEF GivenInv
  <2>8. QED
    BY <2>1, <2>4, <2>6, <2>7, GiftsTold
<1>3. QED
  BY <1>1, <1>2

-----------------------------------------------------------------------------
(* What the portfolio promises. *)

\* what the portfolio makes of every payment to campaign id
Positions(tables, id) ==
  [k \in 1 .. Len(chain) |-> Position(tables.campaign[id], chain[k].amount)]

\* the payments it finds of an investor
Found(tables, investor, id) ==
  {k \in tables.investments : chain[k].id = id /\ feed[k].who = investor}

\* what it shows every investor, and all of them together
Estimates(tables, id) == [i \in Investors |-> TotalClaimable(tables, i, id)]

AllClaimable(tables, id) == MapThenSumSet(LAMBDA i : TotalClaimable(tables, i, id), Investors)

\* The positions of the payments found add up as the values of a function do.
LEMMA PositionsSum ==
  ASSUME NEW tables, NEW investor, NEW id, IsFiniteSet(Found(tables, investor, id)),
         NEW f, \A k \in Found(tables, investor, id) :
                  f[k] = Position(tables.campaign[id], chain[k].amount)
  PROVE  TotalClaimable(tables, investor, id) = SumFunctionOnSet(f, Found(tables, investor, id))
<1> DEFINE S == Found(tables, investor, id)
           Totals(h) ==
             h = [s \in SUBSET S |->
                    IF s = {} THEN 0
                    ELSE Position(tables.campaign[id], chain[Pick(s)].amount)
                           + h[s \ {Pick(s)}]]
           c == CHOOSE h : Totals(h)
<1>1. PICK g : IsSum(f, S, g) /\ SumFunctionOnSet(f, S) = g[S]
  BY SumUnfolds
<1>2. \A s \in SUBSET S : s # {} => Pick(s) \in S
  BY PickIn
<1>3. Totals(g)
  BY <1>1, <1>2 DEF IsSum
<1>4. Totals(c)
  BY <1>3
<1>5. TotalClaimable(tables, investor, id) = c[S]
  BY DEF TotalClaimable, Found, MapThenSumSet, MapThenFoldSet, Pick
<1> HIDE DEF c
<1>6. IsSum(f, S, c)
  BY <1>2, <1>4 DEF IsSum
<1>7. g[S] = c[S]
  BY <1>1, <1>6, SumSame
<1>8. QED
  BY <1>1, <1>5, <1>7

\* So do the estimates of all investors.
LEMMA EstimatesSum ==
  ASSUME NEW tables, NEW id
  PROVE  AllClaimable(tables, id) = SumFunctionOnSet(Estimates(tables, id), Investors)
<1> DEFINE f == Estimates(tables, id)
           Totals(h) ==
             h = [s \in SUBSET Investors |-> IF s = {} THEN 0
                                              ELSE TotalClaimable(tables, Pick(s), id)
                                                     + h[s \ {Pick(s)}]]
           c == CHOOSE h : Totals(h)
<1>1. PICK g : IsSum(f, Investors, g) /\ SumFunctionOnSet(f, Investors) = g[Investors]
  BY SumUnfolds, FiniteScope
<1>2. \A s \in SUBSET Investors : s # {} => Pick(s) \in Investors
  BY PickIn
<1>3. \A i \in Investors : f[i] = TotalClaimable(tables, i, id)
  BY DEF Estimates
<1> HIDE DEF f
<1>4. Totals(g)
  BY <1>1, <1>2, <1>3 DEF IsSum
<1>5. Totals(c)
  BY <1>4
<1>6. AllClaimable(tables, id) = c[Investors]
  BY DEF AllClaimable, MapThenSumSet, MapThenFoldSet, Pick
<1> HIDE DEF c
<1>7. IsSum(f, Investors, c)
  BY <1>2, <1>3, <1>5 DEF IsSum
<1>8. g[Investors] = c[Investors]
  BY <1>1, <1>7, SumSame, FiniteScope
<1>9. QED
  BY <1>1, <1>6, <1>8 DEF f

\* The row that the indexed events make of campaign id, against the contract's record.
RowTells(row, id) ==
  /\ row.totalFunded \in Int /\ row.totalFunded >= campaign[id].total_funded
  /\ PoolOfRow(row) = Pool(id)

\* The index made of every event in order holds all payments, and rows that agree with
\* the contract's records.
LEMMA IndexTells ==
  ASSUME IInv, ChainInv, FaithInv, FeedInv
  PROVE  /\ Indexed.investments = Received(chain, Len(chain))
         /\ \A id \in CampaignIds : RowTells(Indexed.campaign[id], id)
<1> DEFINE tables == Indexed
           n == Len(chain)
<1>1. PICK V : ToldSoFar(V)
  BY DEF FaithInv
<1>2. /\ Recounts(chain, V)
      /\ \A id \in CampaignIds : Agrees(V[n][id], campaign[id], dispute[id].status)
  BY <1>1 DEF ToldSoFar, ToldBy
<1>3. HoldsFirst(chain, tables, V, n)
  BY <1>2, IndexedHolds
<1>4. n \in Nat
  BY LenProperties DEF ChainInv
<1> HIDE DEF tables, n
<1>5. /\ tables.investments = Received(chain, n)
      /\ \A id \in CampaignIds : tables.campaign[id] = V[n][id].row
  BY <1>3 DEF HoldsFirst, HoldsPart
<1>6. ASSUME NEW id \in CampaignIds PROVE RowTells(tables.campaign[id], id)
  <2> DEFINE c == campaign[id]
             row == tables.campaign[id]
  <2>1. /\ row.status = IF c.status = "Absent" THEN "Active" ELSE IndexedStatus(c.status)
        /\ row.refundable = c.refundable /\ row.returnable = c.returnable
        /\ row.totalFunded >= c.total_funded
    BY <1>2, <1>5 DEF Agrees
  <2>2. row.totalFunded \in Int
    <3>1. V[n][id] \in Shown
      BY <1>2, <1>4 DEF Recounts, n
    <3>2. QED
      BY <1>5, <3>1 DEF Shown, Rows
  <2>3. c \in Campaign /\ PoolsAgree(c) /\ Pool(id) = c.refundable + c.returnable
    BY DEF IInv, GoodCampaign, Pool
  <2> HIDE DEF c, row
  <2>4. PoolOfRow(row) = c.refundable + c.returnable
    BY <2>1, <2>3 DEF PoolOfRow, PoolsAgree, IndexedStatus, Campaign, CampaignStatus
  <2>5. QED
    BY <2>1, <2>2, <2>3, <2>4 DEF RowTells, c, row
<1>7. QED
  BY <1>5, <1>6 DEF tables, n

\* The total a position is a share of; the position in an unfunded campaign is nothing.
Divisor(row) == IF row.totalFunded > 0 THEN row.totalFunded ELSE 1

\* What is shown of one payment is no more than its share.
LEMMA PositionWithin ==
  ASSUME NEW row, row.totalFunded \in Int, PoolOfRow(row) \in Nat, NEW amount \in Nat
  PROVE  /\ Position(row, amount) \in Nat
         /\ Position(row, amount) * Divisor(row) <= amount * PoolOfRow(row)
<1> DEFINE r == row.totalFunded
           p == PoolOfRow(row)
<1>1. amount * p \in Nat
  OBVIOUS
<1>2. CASE r > 0
  <2>1. Position(row, amount) = (amount * p) \div r /\ Divisor(row) = r /\ r \in Nat \ {0}
    BY <1>2 DEF Position, Divisor
  <2> HIDE DEF r, p
  <2>2. (amount * p) \div r \in Nat /\ ((amount * p) \div r) * r <= amount * p
    BY <1>1, <2>1, DivBounds
  <2>3. QED
    BY <2>1, <2>2 DEF p
<1>3. CASE ~(r > 0)
  <2>1. Position(row, amount) = 0 /\ Divisor(row) = 1
    BY <1>3 DEF Position, Divisor
  <2>2. QED
    BY <1>1, <2>1
<1>4. QED
  BY <1>2, <1>3

\* What is shown of all that an investor has paid is no more than its share.
LEMMA EstimateWithin ==
  ASSUME IInv, ChainInv, FaithInv, FeedInv, GivenInv,
         NEW id \in CampaignIds, NEW i \in Investors
  PROVE  /\ TotalClaimable(Indexed, i, id) \in Nat
         /\ TotalClaimable(Indexed, i, id) * Divisor(Indexed.campaign[id])
              <= GivenBy(feed, id, i) * Pool(id)
<1> DEFINE tables == Indexed
           row == tables.campaign[id]
           S == Gifts(feed, id, i)
           T == Found(tables, i, id)
           f == Positions(tables, id)
           g == AmountsOf(feed)
<1>1. /\ tables.investments = Received(chain, Len(chain)) /\ RowTells(row, id)
  BY IndexTells
<1>2. /\ Len(chain) \in Nat /\ DOMAIN chain = 1 .. Len(chain) /\ Len(feed) = Len(chain)
      /\ DOMAIN feed = 1 .. Len(feed) /\ feed \in Seq(FeedEntry)
      /\ \A k \in 1 .. Len(chain) :
           /\ feed[k].name = chain[k].name /\ feed[k].id = chain[k].id
           /\ feed[k].amount = chain[k].amount
  BY LenProperties DEF FeedInv, ChainInv
<1>3. T = S
  BY <1>1, <1>2 DEF Found, Received, Gifts, IsGift
<1>4. /\ IsFiniteSet(S) /\ S \subseteq 1 .. Len(chain)
      /\ \A k \in S : g[k] = chain[k].amount /\ g[k] \in Nat
  <2>1. /\ IsFiniteSet(S) /\ S \subseteq 1 .. Len(feed)
        /\ \A k \in S : g[k] = feed[k].amount
    BY <1>2, GiftsOf
  <2>2. \A k \in S : feed[k].amount \in Nat
    BY <1>2, <2>1 DEF GivenInv, Gifts, IsGift
  <2>3. QED
    BY <1>2, <2>1, <2>2
<1>5. \A k \in S : f[k] = Position(row, chain[k].amount)
  BY <1>4 DEF Positions
<1>6. TotalClaimable(tables, i, id) = SumFunctionOnSet(f, S)
  <2> HIDE DEF f, S, tables
  <2>1. SUFFICES TotalClaimable(tables, i, id) = SumFunctionOnSet(f, T)
    BY <1>3
  <2>2. QED
    BY <1>3, <1>4, <1>5, PositionsSum
<1>7. /\ row.totalFunded \in Int /\ PoolOfRow(row) = Pool(id) /\ Pool(id) \in Nat
  BY <1>1, RecordFacts DEF RowTells, Pool
<1>8. Divisor(row) \in Int
  BY <1>7 DEF Divisor
<1>9. GivenBy(feed, id, i) = SumFunctionOnSet(g, S)
  BY DEF GivenBy
<1> HIDE DEF f, g, S, T, row, tables
<1>10. \A k \in S : f[k] \in Nat /\ f[k] * Divisor(row) <= g[k] * Pool(id)
  BY <1>4, <1>5, <1>7, PositionWithin
<1>11. SumFunctionOnSet(f, S) \in Nat
  BY <1>4, <1>10, SumType
<1>12. SumFunctionOnSet(f, S) * Divisor(row) <= SumFunctionOnSet(g, S) * Pool(id)
  <2> DEFINE p == Pool(id)
             q == Divisor(row)
  <2>1. p \in Int /\ q \in Int
    BY <1>7, <1>8
  <2>2. \A k \in S : f[k] \in Int /\ g[k] \in Int /\ f[k] * q <= g[k] * p
    BY <1>4, <1>10
  <2> HIDE DEF p, q
  <2>3. SumFunctionOnSet(f, S) * q <= SumFunctionOnSet(g, S) * p
    BY <1>4, <2>1, <2>2, SumScaled
  <2>4. QED
    BY <2>3 DEF p, q
<1>13. QED
  BY <1>6, <1>9, <1>11, <1>12 DEF row, tables

\* A stake's estimate is within the claim it has, and all estimates are within the pool.
LEMMA EstimatesWithin ==
  ASSUME IInv, ChainInv, FaithInv, FeedInv, GivenInv, NEW id \in CampaignIds
  PROVE  /\ \A i \in Investors :
              contribution[id][i] > 0 =>
                TotalClaimable(Indexed, i, id)
                  <= ProRata(contribution[id][i], Pool(id), campaign[id].total_funded)
         /\ AllClaimable(Indexed, id) <= Pool(id)
<1> DEFINE t == campaign[id].total_funded
           p == Pool(id)
           q == Divisor(Indexed.campaign[id])
           f == Estimates(Indexed, id)
           g == Givers(feed, id)
<1>1. t \in Nat /\ p \in Nat /\ p <= t
  BY RecordFacts DEF Pool
<1>2. q \in Nat \ {0} /\ t <= q
  BY <1>1, IndexTells DEF RowTells, Divisor
<1>3. \A i \in Investors : contribution[id][i] \in Nat /\ contribution[id][i] <= t
  BY DEF IInv, TypeOK, StakesWithinTotal
<1>4. ASSUME NEW i \in Investors
      PROVE  /\ f[i] = TotalClaimable(Indexed, i, id) /\ f[i] \in Nat
             /\ g[i] = GivenBy(feed, id, i) /\ g[i] \in Int
             /\ f[i] * q <= g[i] * p
             /\ contribution[id][i] > 0 => g[i] <= contribution[id][i]
  <2>1. /\ TotalClaimable(Indexed, i, id) \in Nat
        /\ TotalClaimable(Indexed, i, id) * q <= GivenBy(feed, id, i) * p
    BY EstimateWithin
  <2>2. GivenBy(feed, id, i) \in Int
    BY GiftsOf DEF FeedInv
  <2>3. f[i] = TotalClaimable(Indexed, i, id) /\ g[i] = GivenBy(feed, id, i)
    BY DEF Estimates, Givers
  <2>4. contribution[id][i] > 0 => GivenBy(feed, id, i) <= contribution[id][i]
    BY DEF GivenInv
  <2> HIDE DEF f, g, p, q
  <2>5. QED
    BY <2>1, <2>2, <2>3, <2>4
<1>5. AllClaimable(Indexed, id) = SumFunctionOnSet(f, Investors)
  BY EstimatesSum
<1>6. SumFunctionOnSet(g, Investors) <= t
  BY DEF GivenInv
<1>7. ASSUME NEW i \in Investors, contribution[id][i] > 0
      PROVE  f[i] <= ProRata(contribution[id][i], p, t)
  <2> DEFINE c == contribution[id][i]
             e == f[i]
             d == g[i]
  <2>1. /\ c \in Nat /\ t \in Nat \ {0} /\ e \in Nat /\ d \in Int /\ d <= c
        /\ e * q <= d * p
    BY <1>1, <1>3, <1>4, <1>7
  <2> HIDE DEF c, e, d, f, g, p, q, t
  <2>2. c * p \in Nat
    BY <1>1, <2>1
  <2> DEFINE s == (c * p) \div t
  <2>3. s \in Nat /\ c * p < s * t + t
    BY <2>1, <2>2, DivBounds
  <2> HIDE DEF s
  <2>4. e * t <= e * q /\ d * p <= c * p
    BY <1>1, <1>2, <2>1
  <2>5. e * t < s * t + t
    BY <1>1, <1>2, <2>1, <2>2, <2>3, <2>4
  <2>6. e <= s
    BY <2>1, <2>3, <2>5
  <2>7. QED
    BY <2>6 DEF s, ProRata, c, e
<1>8. SumFunctionOnSet(f, Investors) <= p
  <2> DEFINE F == SumFunctionOnSet(f, Investors)
             G == SumFunctionOnSet(g, Investors)
  <2> HIDE DEF f, g, p, q, t
  <2>1. F \in Nat /\ G \in Int
    BY <1>4, SumType, FiniteScope
  <2>2. F * q <= G * p
    <3>1. /\ p \in Int /\ q \in Int
          /\ \A i \in Investors : f[i] \in Int /\ g[i] \in Int /\ f[i] * q <= g[i] * p
      BY <1>1, <1>2, <1>4
    <3>2. QED
      BY <3>1, SumScaled, FiniteScope
  <2>3. G <= t
    BY <1>6
  <2> HIDE DEF F, G
  <2>4. G * p <= q * p
    BY <1>1, <1>2, <2>1, <2>3
  <2>5. F * q <= p * q
    BY <1>1, <1>2, <2>1, <2>2, <2>4
  <2>6. F <= p
    BY <1>1, <1>2, <2>1, <2>5
  <2>7. QED
    BY <2>6 DEF F
<1>9. QED
  <2>1. \A i \in Investors :
          contribution[id][i] > 0 =>
            TotalClaimable(Indexed, i, id) <= ProRata(contribution[id][i], p, t)
    <3>1. \A i \in Investors : f[i] = TotalClaimable(Indexed, i, id)
      BY <1>4
    <3> HIDE DEF f, g, p, q, t
    <3>2. QED
      BY <1>7, <3>1
  <2>2. AllClaimable(Indexed, id) <= p
    BY <1>5, <1>8
  <2>3. QED
    BY <2>1, <2>2 DEF p, t

\* The views only read: nothing they do is a step the indexer could not see.
LEMMA ViewFollows == ViewSpec => IndexSpec
<1>1. ViewInit => IndexInit
  BY DEF ViewInit
<1>2. [ViewNext]_viewVars => [IndexNext]_indexerVars
  BY DEF ViewNext, viewVars, IndexNext
<1>3. QED
  BY <1>1, <1>2, PTL DEF ViewSpec, IndexSpec

\* PortfolioNeverOverstates, for any number of campaigns, investors and payments of any
\* size: an investor who has yet to claim is never promised more than the contract would
\* pay, nor are all of them together more than there is, although each row is rounded by
\* itself and the index divides by a total that may be higher than the contract's.
THEOREM EstimatesCovered == ViewSpec => []PortfolioNeverOverstates
<1>1. /\ IInv /\ ChainInv /\ FaithInv
      /\ (IInv /\ ChainInv /\ FaithInv)'
      /\ FeedInv /\ GivenInv /\ [ViewNext]_viewVars
      => (FeedInv /\ GivenInv)'
  BY GivenKept
<1>2. IInv /\ ChainInv /\ FaithInv /\ FeedInv /\ GivenInv => PortfolioNeverOverstates
  BY EstimatesWithin DEF PortfolioNeverOverstates, AllClaimable
<1>3. QED
  BY <1>1, <1>2, GivenInit, ViewFollows, FaithAlways, PTL DEF ViewSpec

-----------------------------------------------------------------------------
(* What the client's metrics replay. *)

Raising == {"Active", "Funding"}

\* An event named n leads a campaign from status s to d.
Moves(s, n, d) ==
  CASE n = "CampaignCreated"   -> s = "Absent" /\ d = "Active"
    [] n = "ContribReceived"   -> \/ s \in Raising /\ d = "Funding"
                                  \/ s = "Funded" /\ d = "Funded"
    [] n = "ContribReconciled" -> s \in Raising /\ d = "Funding"
    [] n = "CampaignFunded"    -> s # "Absent" /\ d = "Funded"
    [] n = "TrancheReleased"   -> s \in {"Funded", "InProduction"} /\ d = "InProduction"
    [] n = "HarvestReported"   -> s # "Absent" /\ d = "Harvested"
    [] n = "CampaignFailed"    -> s # "Absent" /\ d = "Failed"
    [] n = "DisputeOpened"     -> s # "Absent" /\ d = "Disputed"
    [] n = "DisputeResolved"   -> s # "Absent" /\ d = "Resolved"
    [] n = "CampaignSettled"   -> s # "Absent" /\ d = "Settled"
    [] OTHER                   -> s \notin Raising \cup {"Absent"} /\ d = s

\* A campaign that is still raising lacks money, or was helped by reconciled funds.
Unmet(id) ==
  campaign[id].status \in Raising =>
    campaign[id].total_funded < campaign[id].target_amount \/ audit[id].reconciled > 0

\* The one event e of campaign id moves it as its name says.
MovesAsTold(id, e) ==
  Moves(campaign[id].status, e.name, campaign'[id].status) /\ Unmet(id)'

\* An action that emits one event moves its campaign as the event's name says.
LEMMA OneMoves ==
  ASSUME IInv, IInv', Next, NEW c \in CampaignIds, NEW e, tx'.events = <<e>>, e.id = c
  PROVE  MovesAsTold(c, e)
<1>a. /\ campaign \in [CampaignIds -> Campaign]
      /\ campaign[c].status \in CampaignStatus \cup {"Absent"}
      /\ audit \in [CampaignIds -> [redeemed : Nat, claimed : Nat, reconciled : Nat]]
      /\ Amounts \subseteq Int
      /\ campaign[c].total_funded \in Nat /\ campaign[c].target_amount \in Nat
  BY EscrowConstants DEF IInv, TypeOK, Campaign
<1>1. ASSUME NEW n, NEW id, NEW w, NEW a, tx'.events = Emit(n, id, w, a)
      PROVE  e.name = n /\ c = id
  <2> DEFINE x == [name |-> n, id |-> id, who |-> w, amount |-> a]
  <2>1. <<e>> = <<x>>
    BY <1>1 DEF Emit
  <2>2. x.name = n /\ x.id = id
    OBVIOUS
  <2> HIDE DEF x
  <2>3. QED
    BY <2>1, <2>2
<1>2. ASSUME NEW n, Moves(campaign[c].status, n, campaign'[c].status), e.name = n,
             Unmet(c)'
      PROVE  MovesAsTold(c, e)
  BY <1>2 DEF MovesAsTold
<1>3. ASSUME campaign'[c].status \notin Raising PROVE Unmet(c)'
  BY <1>3 DEF Unmet
<1> USE DEF Sends
<1>4. ASSUME NEW id \in CampaignIds, Contribute(id) PROVE MovesAsTold(c, e)
  <2>1. ASSUME NEW i \in Investors, NEW amount \in Amounts, FundCampaign(id, i, amount)
        PROVE  MovesAsTold(c, e)
    <3> DEFINE t == campaign[id].total_funded + amount
               x == [name |-> "CampaignFunded", id |-> id, who |-> NoOne, amount |-> t]
               y == [name |-> "ContribReceived", id |-> id, who |-> i, amount |-> amount]
    <3>1. CASE t >= campaign[id].target_amount
      <4>1. tx'.events = <<x>> \o <<y>>
        BY <2>1, <3>1 DEF FundCampaign, Emit
      <4> HIDE DEF x, y
      <4>2. Len(<<e>>) = 1 /\ Len(<<x, y>>) = 2
        OBVIOUS
      <4>3. <<e>> = <<x, y>>
        BY <4>1, TwoInARow
      <4>4. QED
        BY <4>2, <4>3
    <3>2. CASE ~(t >= campaign[id].target_amount)
      <4>0. campaign[id].status \in Raising
        BY <2>1 DEF FundCampaign, CanContribute, Accepting, Raising
      <4>1. tx'.events = Emit("ContribReceived", id, i, amount)
        <5>1. tx'.events = <<y>>
          BY <2>1, <3>2 DEF FundCampaign, Emit
        <5>2. QED
          BY <5>1 DEF Emit
      <4>2. e.name = "ContribReceived" /\ c = id
        BY <1>1, <4>1
      <4> DEFINE s == IF t >= campaign[id].target_amount THEN "Funded" ELSE "Funding"
      <4>a. campaign' = [campaign EXCEPT ![id] = [campaign[id] EXCEPT
                           !.total_funded = t, !.status = s]]
        BY <2>1 DEF FundCampaign
      <4>b. s = "Funding"
        BY <3>2
      <4> HIDE DEF s, t
      <4>3. /\ campaign'[c].status = "Funding" /\ campaign'[c].total_funded = t
            /\ campaign'[c].target_amount = campaign[c].target_amount
        BY <1>a, <4>a, <4>b, <4>2 DEF Campaign
      <4>4. Unmet(c)'
        BY <1>a, <3>2, <4>2, <4>3 DEF Unmet, t
      <4>5. QED
        BY <4>0, <4>2, <4>3, <4>4 DEF MovesAsTold, Moves
    <3>3. QED
      BY <3>1, <3>2
  <2>2. ASSUME NEW i \in Investors, NEW amount \in Amounts, ReceiveContribution(id, i, amount)
        PROVE  MovesAsTold(c, e)
    <3>1. /\ tx'.events = Emit("ContribReconciled", id, i, amount)
          /\ campaign' = [campaign EXCEPT ![id] = [campaign[id] EXCEPT
                            !.total_funded = @ + amount, !.status = "Funding"]]
          /\ audit' = [audit EXCEPT ![id].reconciled = @ + amount]
          /\ campaign[id].status \in Raising /\ amount > 0
      BY <2>2 DEF ReceiveContribution, CanContribute, Accepting, Raising
    <3>2. e.name = "ContribReconciled" /\ c = id
      BY <1>1, <3>1
    <3>3. campaign'[c].status = "Funding" /\ audit'[c].reconciled > 0
      BY <1>a, <3>1, <3>2 DEF Campaign
    <3>4. QED
      BY <3>1, <3>2, <3>3 DEF MovesAsTold, Moves, Unmet
  <2>3. QED
    BY <1>4, <2>1, <2>2 DEF Contribute
<1>5. ASSUME NEW id \in CampaignIds, Manage(id) PROVE MovesAsTold(c, e)
  <2>1. ASSUME NEW f \in Farmers, NEW target \in Amounts, NEW t \in Tokens,
               NEW dl \in 0 .. MaxTime, CreateCampaign(id, f, target, t, dl)
        PROVE  MovesAsTold(c, e)
    <3>1. /\ tx'.events = Emit("CampaignCreated", id, f, target)
          /\ campaign' = [campaign EXCEPT ![id] = NewCampaign(f, target, t, dl)]
          /\ campaign[id].status = "Absent" /\ target > 0
      BY <2>1 DEF CreateCampaign, Exists, ValidTarget
    <3>2. e.name = "CampaignCreated" /\ c = id
      BY <1>1, <3>1
    <3>3. /\ campaign'[c].status = "Active" /\ campaign'[c].total_funded = 0
          /\ campaign'[c].target_amount = target
      BY <1>a, <3>1, <3>2 DEF NewCampaign
    <3>4. QED
      BY <3>1, <3>2, <3>3 DEF MovesAsTold, Moves, Unmet
  <2>2. ASSUME NEW total \in Amounts, CompleteFunding(id, total)
        PROVE  MovesAsTold(c, e)
    <3>1. /\ tx'.events = Emit("CampaignFunded", id, NoOne, total)
          /\ campaign' = [campaign EXCEPT ![id].status = "Funded"]
          /\ campaign[id].status # "Absent"
      BY <2>2 DEF CompleteFunding, Accepting
    <3>2. e.name = "CampaignFunded" /\ c = id
      BY <1>1, <3>1
    <3>3. campaign'[c].status = "Funded"
      BY <1>a, <3>1, <3>2 DEF Campaign
    <3>4. QED
      BY <1>3, <3>1, <3>2, <3>3 DEF MovesAsTold, Moves, Raising
  <2>3. ASSUME NEW list \in TrancheLists, ConfigureTranches(id, list)
        PROVE  MovesAsTold(c, e)
    <3>1. /\ tx'.events = Emit("TranchesConfigured", id, NoOne, Len(list))
          /\ campaign' = campaign /\ campaign[id].status = "Funded"
      BY <2>3 DEF ConfigureTranches
    <3>2. e.name = "TranchesConfigured" /\ c = id
      BY <1>1, <3>1
    <3>3. QED
      BY <1>3, <3>1, <3>2 DEF MovesAsTold, Moves, Raising
  <2>4. ASSUME NEW r \in Farmers, NEW amount \in Amounts, ReleaseTranche(id, r, amount)
        PROVE  MovesAsTold(c, e)
    <3>1. /\ tx'.events = Emit("TrancheReleased", id, r, amount)
          /\ campaign' = [campaign EXCEPT ![id].status = "InProduction",
                                          ![id].released = @ + amount]
          /\ campaign[id].status \in {"Funded", "InProduction"}
      BY <2>4 DEF ReleaseTranche
    <3>2. e.name = "TrancheReleased" /\ c = id
      BY <1>1, <3>1
    <3>3. campaign'[c].status = "InProduction"
      BY <1>a, <3>1, <3>2 DEF Campaign
    <3>4. QED
      BY <1>3, <3>1, <3>2, <3>3 DEF MovesAsTold, Moves, Raising
  <2>5. ASSUME NEW r \in Accounts, ReportHarvest(id, r)
        PROVE  MovesAsTold(c, e)
    <3>1. /\ tx'.events = Emit("HarvestReported", id, r, 0)
          /\ campaign' = [campaign EXCEPT ![id].status = "Harvested"]
          /\ campaign[id].status # "Absent"
      BY <2>5 DEF ReportHarvest
    <3>2. e.name = "HarvestReported" /\ c = id
      BY <1>1, <3>1
    <3>3. campaign'[c].status = "Harvested"
      BY <1>a, <3>1, <3>2 DEF Campaign
    <3>4. QED
      BY <1>3, <3>1, <3>2, <3>3 DEF MovesAsTold, Moves, Raising
  <2>6. ASSUME NEW payee \in Farmers, NEW payout \in Amounts, SettleCampaign(id, payee, payout)
        PROVE  MovesAsTold(c, e)
    <3>1. /\ tx'.events = Emit("CampaignSettled", id, payee,
                               EscrowHeld(campaign[id]) - payout)
          /\ campaign' = [campaign EXCEPT
               ![id].released = @ + payout,
               ![id].returnable = @ + (EscrowHeld(campaign[id]) - payout),
               ![id].status = "Settled"]
          /\ campaign[id].status # "Absent"
      BY <2>6 DEF SettleCampaign
    <3>2. e.name = "CampaignSettled" /\ c = id
      BY <1>1, <3>1
    <3>3. campaign'[c].status = "Settled"
      BY <1>a, <3>1, <3>2 DEF Campaign
    <3>4. QED
      BY <1>3, <3>1, <3>2, <3>3 DEF MovesAsTold, Moves, Raising
  <2>7. QED
    BY <1>5, <2>1, <2>2, <2>3, <2>4, <2>5, <2>6 DEF Manage
<1>6. ASSUME NEW id \in CampaignIds, Unwind(id) PROVE MovesAsTold(c, e)
  <2>1. ASSUME NEW opener \in Accounts, OpenDispute(id, opener)
        PROVE  MovesAsTold(c, e)
    <3>1. /\ tx'.events = Emit("DisputeOpened", id, opener, 0)
          /\ campaign' = [campaign EXCEPT ![id].status = "Disputed"]
          /\ campaign[id].status # "Absent"
      BY <2>1 DEF OpenDispute, InFlight
    <3>2. e.name = "DisputeOpened" /\ c = id
      BY <1>1, <3>1
    <3>3. campaign'[c].status = "Disputed"
      BY <1>a, <3>1, <3>2 DEF Campaign
    <3>4. QED
      BY <1>3, <3>1, <3>2, <3>3 DEF MovesAsTold, Moves, Raising
  <2>2. ASSUME MarkFailed(id) \/ ExpireCampaign(id)
        PROVE  MovesAsTold(c, e)
    <3>1. /\ tx'.events = Emit("CampaignFailed", id, NoOne, campaign'[id].refundable)
          /\ campaign' = [campaign EXCEPT ![id].refundable = @ + EscrowHeld(campaign[id]),
                                          ![id].status = "Failed"]
          /\ campaign[id].status # "Absent"
      <4>1. CASE MarkFailed(id)
        BY <4>1 DEF MarkFailed, InFlight
      <4>2. CASE ExpireCampaign(id)
        BY <4>2 DEF ExpireCampaign, Accepting
      <4>3. QED
        BY <2>2, <4>1, <4>2
    <3>2. e.name = "CampaignFailed" /\ c = id
      BY <1>1, <3>1
    <3>3. campaign'[c].status = "Failed"
      BY <1>a, <3>1, <3>2 DEF Campaign
    <3>4. QED
      BY <1>3, <3>1, <3>2, <3>3 DEF MovesAsTold, Moves, Raising
  <2>3. ASSUME NEW r \in DisputeResolution, NEW p \in Amounts, ResolveDispute(id, r, p)
        PROVE  MovesAsTold(c, e)
    <3>1. PICK given, left :
            /\ tx'.events = Emit("DisputeResolved", id, admin, left)
            /\ campaign' = [campaign EXCEPT ![id].released = @ + given,
                                            ![id].refundable = @ + left,
                                            ![id].status = "Resolved"]
            /\ campaign[id].status # "Absent"
      BY <2>3 DEF ResolveDispute
    <3>2. e.name = "DisputeResolved" /\ c = id
      BY <1>1, <3>1
    <3>3. campaign'[c].status = "Resolved"
      BY <1>a, <3>1, <3>2 DEF Campaign
    <3>4. QED
      BY <1>3, <3>1, <3>2, <3>3 DEF MovesAsTold, Moves, Raising
  <2>4. ASSUME NEW i \in Investors, ClaimRefund(id, i) \/ ClaimReturn(id, i)
        PROVE  MovesAsTold(c, e)
    <3>1. e.name \in Claims /\ c = id
      <4>1. CASE ClaimRefund(id, i)
        <5>1. PICK share : tx'.events = Emit("RefundClaimed", id, i, share)
          BY <4>1 DEF ClaimRefund, PayShare
        <5>2. QED
          BY <1>1, <5>1 DEF Claims
      <4>2. CASE ClaimReturn(id, i)
        <5>1. PICK share : tx'.events = Emit("ReturnClaimed", id, i, share)
          BY <4>2 DEF ClaimReturn, PayShare
        <5>2. QED
          BY <1>1, <5>1 DEF Claims
      <4>3. QED
        BY <2>4, <4>1, <4>2
    <3>3. campaign' = campaign /\ campaign[id].status \in {"Resolved", "Failed", "Settled"}
      BY <2>4 DEF ClaimRefund, ClaimReturn, PayShare
    <3>4. QED
      BY <1>3, <3>1, <3>3 DEF MovesAsTold, Moves, Raising, Claims
  <2>5. QED
    BY <1>6, <2>1, <2>2, <2>3, <2>4 DEF Unwind
<1>7. ASSUME tx' = NoTx PROVE FALSE
  <2>1. tx'.events = <<>>
    BY <1>7 DEF NoTx
  <2>2. Len(<<e>>) = 1 /\ Len(<<>>) = 0
    OBVIOUS
  <2>3. QED
    BY <2>1, <2>2
<1>8. QED
  BY <1>4, <1>5, <1>6, <1>7 DEF Next, Initialize, SetRegistry, Tick, Deposit

\* What is told of a campaign: its status, and whether anyone is said to have paid.
Told == {v \in [status : CampaignStatus \cup {"Absent"}, paid : BOOLEAN] :
           v.status \in {"Absent", "Active"} => ~v.paid}

Untold == [status |-> "Absent", paid |-> FALSE]

Volume(e) == IF e.name = "ContribReceived" THEN e.amount ELSE 0

\* Event e takes what is told from x to y.
Retold(x, y, e) ==
  /\ Moves(x[e.id].status, e.name, e.status)
  /\ y[e.id] = [status |-> e.status, paid |-> x[e.id].paid \/ e.name = "ContribReceived"]
  /\ \A id \in CampaignIds : id # e.id => y[id] = x[id]

\* V and U give what the feed f tells, after each number of its events: of every campaign,
\* and of the money paid.
Account(f, V, U) ==
  /\ V \in [0 .. Len(f) -> [CampaignIds -> Told]] /\ U \in [0 .. Len(f) -> Int]
  /\ U[0] = 0 /\ \A id \in CampaignIds : V[0][id] = Untold
  /\ \A k \in 1 .. Len(f) : Retold(V[k - 1], V[k], f[k]) /\ U[k] = U[k - 1] + Volume(f[k])

\* It comes to these records, and to this volume.
ComesTo(f, V, U, records, volume) ==
  /\ Account(f, V, U) /\ U[Len(f)] = volume
  /\ \A id \in CampaignIds : V[Len(f)][id].status = records[id].status

\* One more event of the feed goes on with the account.
LEMMA OneMoreAccounted ==
  ASSUME NEW f \in Seq(FeedEntry), NEW V, NEW U, NEW r, NEW u, ComesTo(f, V, U, r, u),
         NEW e \in FeedEntry, NEW q, Moves(r[e.id].status, e.name, e.status),
         q[e.id].status = e.status, \A o \in CampaignIds : o # e.id => q[o] = r[o]
  PROVE  \E W, X : ComesTo(Append(f, e), W, X, q, u + Volume(e))
<1> DEFINE n == Len(f)
           g == Append(f, e)
           w == [status |-> e.status, paid |-> V[n][e.id].paid \/ e.name = "ContribReceived"]
           W == [k \in 0 .. n + 1 |-> IF k <= n THEN V[k] ELSE [V[n] EXCEPT ![e.id] = w]]
           X == [k \in 0 .. n + 1 |-> IF k <= n THEN U[k] ELSE u + Volume(e)]
<1>1. /\ n \in Nat /\ e.id \in CampaignIds /\ e.amount \in Int /\ e.name \in EventName
      /\ e.status \in CampaignStatus \cup {"Absent"}
  BY LenProperties DEF FeedEntry
<1>2. /\ Len(g) = n + 1 /\ g[n + 1] = e
      /\ \A k \in 1 .. n : g[k] = f[k]
  BY AppendProperties
<1>3. /\ V \in [0 .. n -> [CampaignIds -> Told]] /\ U \in [0 .. n -> Int] /\ U[n] = u
      /\ V[n][e.id].status = r[e.id].status
  BY <1>1 DEF ComesTo, Account
<1>4. V[n] \in [CampaignIds -> Told] /\ V[n][e.id] \in Told /\ u \in Int /\ Volume(e) \in Int
  BY <1>1, <1>3 DEF Volume
<1>5. w \in Told
  <2>1. V[n][e.id].paid \in BOOLEAN
    BY <1>4 DEF Told
  <2>2. (e.status \in {"Absent", "Active"}) =>
          V[n][e.id].status = "Absent" /\ e.name # "ContribReceived"
    BY <1>1, <1>3 DEF Moves, Raising
  <2>3. V[n][e.id].status = "Absent" => ~V[n][e.id].paid
    BY <1>4 DEF Told
  <2>4. QED
    BY <1>1, <2>1, <2>2, <2>3 DEF Told
<1>6. w.status = e.status
  OBVIOUS
<1> HIDE DEF w, g
<1>7. /\ W \in [0 .. n + 1 -> [CampaignIds -> Told]] /\ X \in [0 .. n + 1 -> Int]
      /\ \A k \in 0 .. n : W[k] = V[k] /\ X[k] = U[k]
      /\ X[n + 1] = u + Volume(e) /\ W[n + 1][e.id] = w
      /\ \A id \in CampaignIds : id # e.id => W[n + 1][id] = V[n][id]
  <2>1. [V[n] EXCEPT ![e.id] = w] \in [CampaignIds -> Told]
    BY <1>4, <1>5
  <2>2. W \in [0 .. n + 1 -> [CampaignIds -> Told]]
    BY <1>1, <1>3, <2>1
  <2>3. X \in [0 .. n + 1 -> Int]
    BY <1>1, <1>3, <1>4
  <2>4. /\ \A k \in 0 .. n : W[k] = V[k] /\ X[k] = U[k]
        /\ X[n + 1] = u + Volume(e) /\ W[n + 1] = [V[n] EXCEPT ![e.id] = w]
    BY <1>1
  <2> HIDE DEF W, X
  <2>5. QED
    BY <1>1, <1>4, <2>2, <2>3, <2>4
<1> HIDE DEF W, X
<1>8. X[0] = 0 /\ \A id \in CampaignIds : W[0][id] = Untold
  BY <1>1, <1>7 DEF ComesTo, Account
<1>9. ASSUME NEW k \in 1 .. n + 1
      PROVE  Retold(W[k - 1], W[k], g[k]) /\ X[k] = X[k - 1] + Volume(g[k])
  <2>1. CASE k = n + 1
    <3>1. W[k - 1] = V[n] /\ X[k - 1] = u /\ g[k] = e
      BY <1>1, <1>2, <1>3, <1>7, <2>1
    <3>2. Retold(V[n], W[n + 1], e)
      BY <1>3, <1>7 DEF Retold, w
    <3>3. QED
      BY <1>7, <2>1, <3>1, <3>2
  <2>2. CASE k # n + 1
    <3>1. k \in 1 .. n /\ k - 1 \in 0 .. n /\ k \in 0 .. n
      BY <1>1, <2>2
    <3>2. W[k - 1] = V[k - 1] /\ W[k] = V[k] /\ X[k - 1] = U[k - 1] /\ X[k] = U[k] /\ g[k] = f[k]
      BY <1>2, <1>7, <3>1
    <3>3. QED
      BY <3>1, <3>2 DEF ComesTo, Account
  <2>3. QED
    BY <2>1, <2>2
<1>10. Account(g, W, X)
  BY <1>2, <1>7, <1>8, <1>9 DEF Account
<1>11. \A id \in CampaignIds : W[Len(g)][id].status = q[id].status
  BY <1>2, <1>6, <1>7 DEF ComesTo
<1>12. ComesTo(g, W, X, q, u + Volume(e))
  BY <1>2, <1>7, <1>10, <1>11 DEF ComesTo
<1>13. QED
  BY <1>12 DEF g

\* The feed after an invocation that emits no event, one event, or two.
LEMMA EmittedFeed ==
  ASSUME feed \in Seq(FeedEntry), ViewNext, NEW S, \A e \in S : Seen(e) \in FeedEntry
  PROVE  /\ tx'.events = <<>> => feed' = feed
         /\ \A e \in S : tx'.events = <<e>> => feed' = Append(feed, Seen(e))
         /\ \A e, f \in S : tx'.events = <<e, f>> =>
              feed' = Append(Append(feed, Seen(e)), Seen(f))
<1>1. feed' = feed \o MoreFed
  BY DEF ViewNext, MoreFed
<1>2. ASSUME tx'.events = <<>> PROVE feed' = feed
  <2>1. MoreFed = <<>>
    BY <1>2 DEF MoreFed
  <2>2. QED
    BY <1>1, <2>1, ConcatEmptySeq
<1>3. ASSUME NEW e \in S, tx'.events = <<e>> PROVE feed' = Append(feed, Seen(e))
  <2> DEFINE x == Seen(e)
  <2>1. x \in FeedEntry
    OBVIOUS
  <2>2. MoreFed = <<x>>
    <3>1. DOMAIN MoreFed = {1} /\ MoreFed[1] = x /\ MoreFed = [j \in {1} |-> MoreFed[j]]
      BY <1>3 DEF MoreFed
    <3> HIDE DEF x
    <3>2. QED
      BY <3>1
  <2> HIDE DEF x
  <2>3. feed' = feed \o <<x>>
    BY <1>1, <2>2
  <2>4. QED
    BY <2>1, <2>3, AppendIsConcat DEF x
<1>4. ASSUME NEW e \in S, NEW f \in S, tx'.events = <<e, f>>
      PROVE  feed' = Append(Append(feed, Seen(e)), Seen(f))
  <2> DEFINE x == Seen(e)
             y == Seen(f)
  <2>1. x \in FeedEntry /\ y \in FeedEntry
    OBVIOUS
  <2>2. MoreFed = <<x, y>>
    <3>1. /\ DOMAIN MoreFed = {1, 2} /\ MoreFed[1] = x /\ MoreFed[2] = y
          /\ MoreFed = [j \in {1, 2} |-> MoreFed[j]]
      BY <1>4 DEF MoreFed
    <3> HIDE DEF x, y
    <3>2. QED
      BY <3>1
  <2> HIDE DEF x, y
  <2>3. feed' = feed \o (<<x>> \o <<y>>)
    BY <1>1, <2>2, TwoInARow
  <2>4. <<x>> \in Seq(FeedEntry) /\ <<y>> \in Seq(FeedEntry)
    BY <2>1
  <2>5. feed' = (feed \o <<x>>) \o <<y>>
    BY <2>3, <2>4, ConcatAssociative
  <2>6. feed \o <<x>> = Append(feed, x) /\ Append(feed, x) \in Seq(FeedEntry)
    BY <2>1, AppendIsConcat, AppendProperties
  <2>7. QED
    BY <2>1, <2>5, <2>6, AppendIsConcat DEF x, y
<1>5. QED
  BY <1>2, <1>3, <1>4

PaidTotal == SumFunctionOnSet([id \in CampaignIds |-> Paid(id)], CampaignIds)

\* The feed tells every campaign's status and the money really paid in.
ReplayInv ==
  /\ \E V, U : ComesTo(feed, V, U, campaign, PaidTotal)
  /\ \A id \in CampaignIds : Unmet(id)

\* Nothing was told, and no campaign is raising.
LEMMA ReplayInit == ViewInit => ReplayInv
<1> SUFFICES ASSUME ViewInit PROVE ReplayInv
  OBVIOUS
<1> DEFINE V == [k \in {0} |-> [id \in CampaignIds |-> Untold]]
           U == [k \in {0} |-> 0]
           f == [id \in CampaignIds |-> Paid(id)]
<1>1. /\ feed = <<>> /\ Len(feed) = 0 /\ campaign = [id \in CampaignIds |-> NoCampaign]
      /\ audit = [id \in CampaignIds |-> [redeemed |-> 0, claimed |-> 0, reconciled |-> 0]]
  BY DEF ViewInit, IndexInit, Init
<1>2. \A id \in CampaignIds : campaign[id].status = "Absent" /\ f[id] = 0
  BY <1>1 DEF NoCampaign, Paid
<1> HIDE DEF f
<1>3. SumFunctionOnSet(f, CampaignIds) = 0
  BY <1>2, SumOfZeros, FiniteScope
<1>4. PaidTotal = 0
  BY <1>3 DEF PaidTotal, f
<1>5. Untold \in Told /\ Untold.status = "Absent"
  BY DEF Told, Untold
<1>6. 0 .. Len(feed) = {0}
  BY <1>1
<1>7. /\ V \in [{0} -> [CampaignIds -> Told]] /\ U \in [{0} -> Int] /\ U[0] = 0
      /\ \A id \in CampaignIds : V[0][id] = Untold
  BY <1>5
<1> HIDE DEF V, U
<1>8. ComesTo(feed, V, U, campaign, PaidTotal)
  BY <1>1, <1>2, <1>4, <1>5, <1>6, <1>7 DEF ComesTo, Account
<1>9. \A id \in CampaignIds : Unmet(id)
  BY <1>2 DEF Unmet, Raising
<1>10. QED
  BY <1>8, <1>9 DEF ReplayInv

\* A payment to one campaign adds to the total, and does nothing to the others.
LEMMA PaidTotalMoves ==
  ASSUME IInv, IInv', NEW id \in CampaignIds, NEW amount \in Int, Concerns(id, amount)
  PROVE  /\ PaidTotal' = PaidTotal + amount /\ PaidTotal \in Int
         /\ \A o \in CampaignIds : o # id /\ Unmet(o) => Unmet(o)'
<1> DEFINE f == [o \in CampaignIds |-> Paid(o)]
           g == [o \in CampaignIds |-> Paid(o)']
<1>1. \A o \in CampaignIds :
        /\ campaign[o].total_funded \in Nat /\ campaign'[o].total_funded \in Nat
        /\ audit[o].reconciled \in Nat /\ audit'[o].reconciled \in Nat
  BY DEF IInv, TypeOK, Campaign
<1>2. \A o \in CampaignIds :
        f[o] \in Int /\ g[o] \in Int /\ g[o] = f[o] + (IF o = id THEN amount ELSE 0)
  BY <1>1 DEF Concerns, Paid
<1>3. PaidTotal = SumFunctionOnSet(f, CampaignIds)
  BY DEF PaidTotal
<1>4. PaidTotal' = SumFunctionOnSet(g, CampaignIds)
  BY DEF PaidTotal
<1> HIDE DEF f, g
<1>5. SumFunctionOnSet(f, CampaignIds) \in Int
  BY <1>2, SumType, FiniteScope
<1>6. SumFunctionOnSet(g, CampaignIds) = SumFunctionOnSet(f, CampaignIds) + (g[id] - f[id])
  <2>1. \A o \in CampaignIds \ {id} : g[o] = f[o]
    BY <1>2
  <2>2. QED
    BY <1>2, <2>1, SumUpdate, FiniteScope
<1>7. g[id] - f[id] = amount
  BY <1>2
<1>8. ASSUME NEW o \in CampaignIds, o # id, Unmet(o) PROVE Unmet(o)'
  <2>1. campaign'[o] = campaign[o] /\ Paid(o)' = Paid(o) + 0
    BY <1>8 DEF Concerns
  <2>2. audit'[o].reconciled = audit[o].reconciled
    BY <1>1, <2>1 DEF Paid
  <2>3. QED
    BY <1>8, <2>1, <2>2 DEF Unmet
<1>9. QED
  BY <1>3, <1>4, <1>5, <1>6, <1>7, <1>8

\* What the feed keeps of an event.
LEMMA SeenFields ==
  ASSUME IInv', Tip \in Nat, NEW e \in Event
  PROVE  /\ Seen(e) \in FeedEntry /\ Seen(e).name = e.name /\ Seen(e).id = e.id
         /\ Seen(e).status = campaign'[e.id].status /\ Volume(Seen(e)) = Volume(e)
<1>1. /\ e.name \in EventName /\ e.id \in CampaignIds /\ e.who \in Accounts \cup {NoOne}
      /\ e.amount \in Int /\ Tip + 1 \in Nat \ {0}
  BY DEF Event
<1>2. campaign'[e.id].status \in CampaignStatus \cup {"Absent"}
  BY <1>1 DEF IInv, TypeOK, Campaign
<1>3. Seen(e) = [name |-> e.name, id |-> e.id, who |-> e.who, amount |-> e.amount,
                 ledger |-> Tip + 1, status |-> campaign'[e.id].status]
  BY DEF Seen
<1>4. QED
  BY <1>1, <1>2, <1>3 DEF FeedEntry, Volume

\* Every step of the views goes on telling it.
LEMMA ReplayKept ==
  ASSUME IInv, IInv', ChainInv, FeedInv, ReplayInv, [ViewNext]_viewVars
  PROVE  ReplayInv'
<1>1. PICK V, U : ComesTo(feed, V, U, campaign, PaidTotal)
  BY DEF ReplayInv
<1>2. CASE UNCHANGED viewVars
  <2>1. UNCHANGED <<feed, campaign, audit>>
    BY <1>2 DEF viewVars, indexerVars, vars
  <2>2. PaidTotal' = PaidTotal
    BY <2>1 DEF PaidTotal, Paid
  <2>3. ComesTo(feed', V, U, campaign', PaidTotal')
    BY <1>1, <2>1, <2>2
  <2>4. QED
    BY <2>1, <2>3 DEF ReplayInv, Unmet
<1>3. CASE ViewNext
  <2>1. /\ feed \in Seq(FeedEntry) /\ Tip \in Nat /\ StepTold /\ Next
        /\ \A id \in CampaignIds : Unmet(id)
    BY <1>3, TipIsLast, EventsTold DEF FeedInv, TipOnTop, ViewNext, Invoke, ReplayInv
  <2>2. \A e \in Event : Seen(e) \in FeedEntry
    BY <2>1, SeenFields
  <2>3. CASE tx'.events = <<>> /\ UNCHANGED <<campaign, dispute, audit>>
    <3>1. feed' = feed
      BY <1>3, <2>1, <2>2, <2>3, EmittedFeed
    <3>2. PaidTotal' = PaidTotal
      BY <2>3 DEF PaidTotal, Paid
    <3>3. ComesTo(feed', V, U, campaign', PaidTotal')
      BY <1>1, <2>3, <3>1, <3>2
    <3>4. QED
      BY <2>1, <2>3, <3>3 DEF ReplayInv, Unmet
  <2>4. ASSUME NEW id \in CampaignIds, NEW e \in Event, OneTold(id, e)
        PROVE  ReplayInv'
    <3>1. feed' = Append(feed, Seen(e))
      <4>1. tx'.events = <<e>>
        BY <2>4 DEF OneTold
      <4>2. QED
        BY <1>3, <2>1, <2>2, <4>1, EmittedFeed
    <3>2. /\ Moves(campaign[id].status, e.name, campaign'[id].status) /\ Unmet(id)'
      BY <2>1, <2>4, OneMoves DEF OneTold, MovesAsTold
    <3>3. /\ e.id = id /\ Concerns(id, Volume(e)) /\ Volume(e) \in Int
      BY <2>4 DEF OneTold, Volume, Event
    <3>4. PaidTotal' = PaidTotal + Volume(e) /\ \A o \in CampaignIds : Unmet(o)'
      BY <2>1, <3>2, <3>3, PaidTotalMoves
    <3> DEFINE x == Seen(e)
    <3>5. /\ x \in FeedEntry /\ x.id = id /\ Volume(x) = Volume(e)
          /\ x.status = campaign'[id].status
          /\ Moves(campaign[id].status, x.name, x.status)
      BY <2>1, <3>2, <3>3, SeenFields
    <3>6. \A o \in CampaignIds : o # id => campaign'[o] = campaign[o]
      BY <3>3 DEF Concerns
    <3> HIDE DEF x
    <3>7. \E W, X : ComesTo(Append(feed, x), W, X, campaign', PaidTotal + Volume(x))
      <4>1. /\ Moves(campaign[x.id].status, x.name, x.status)
            /\ campaign'[x.id].status = x.status
            /\ \A o \in CampaignIds : o # x.id => campaign'[o] = campaign[o]
        BY <3>5, <3>6
      <4>2. QED
        BY <1>1, <2>1, <3>5, <4>1, OneMoreAccounted
    <3>8. \E W, X : ComesTo(feed', W, X, campaign', PaidTotal')
      BY <3>1, <3>4, <3>5, <3>7 DEF x
    <3>9. QED
      BY <3>4, <3>8 DEF ReplayInv
  <2>5. ASSUME NEW id \in CampaignIds, NEW e \in Event, NEW f \in Event, TwoTold(id, e, f)
        PROVE  ReplayInv'
    <3>1. feed' = Append(Append(feed, Seen(e)), Seen(f))
      <4>1. tx'.events = <<e, f>>
        BY <2>5 DEF TwoTold
      <4>2. QED
        BY <1>3, <2>1, <2>2, <4>1, EmittedFeed
    <3>2. campaign[id].status # "Absent" /\ campaign'[id].status = "Funded"
      <4>1. Tells(campaign[id], dispute[id].status, e, campaign'[id], dispute'[id].status)
            /\ e.name = "CampaignFunded"
        BY <2>5 DEF TwoTold
      <4>2. QED
        BY <4>1 DEF Tells, IndexedStatus
    <3>3. /\ e.id = id /\ f.id = id /\ e.name = "CampaignFunded" /\ f.name = "ContribReceived"
          /\ Concerns(id, Volume(f)) /\ Volume(f) \in Int /\ Volume(e) = 0
      BY <2>5 DEF TwoTold, Volume, Event
    <3>4. PaidTotal' = PaidTotal + Volume(f) /\ PaidTotal \in Int
          /\ \A o \in CampaignIds : Unmet(o)'
      <4>1. Unmet(id)'
        BY <3>2 DEF Unmet, Raising
      <4>2. QED
        BY <2>1, <3>3, <4>1, PaidTotalMoves
    <3> DEFINE x == Seen(e)
               y == Seen(f)
    <3>5. /\ x \in FeedEntry /\ x.id = id /\ Volume(x) = 0 /\ x.status = "Funded"
          /\ y \in FeedEntry /\ y.id = id /\ Volume(y) = Volume(f) /\ y.status = "Funded"
          /\ x.name = "CampaignFunded" /\ y.name = "ContribReceived"
      BY <2>1, <3>2, <3>3, SeenFields
    <3>6. \A o \in CampaignIds : o # id => campaign'[o] = campaign[o]
      BY <3>3 DEF Concerns
    <3> HIDE DEF x, y
    <3>7. PICK W, X : ComesTo(Append(feed, x), W, X, campaign', PaidTotal + Volume(x))
      <4>1. /\ Moves(campaign[x.id].status, x.name, x.status)
            /\ campaign'[x.id].status = x.status
            /\ \A o \in CampaignIds : o # x.id => campaign'[o] = campaign[o]
        BY <3>2, <3>5, <3>6 DEF Moves
      <4>2. QED
        BY <1>1, <2>1, <3>5, <4>1, OneMoreAccounted
    <3>8. \E Y, Z : ComesTo(Append(Append(feed, x), y), Y, Z, campaign',
                            PaidTotal + Volume(x) + Volume(y))
      <4>1. /\ Moves(campaign'[y.id].status, y.name, y.status)
            /\ campaign'[y.id].status = y.status
            /\ \A o \in CampaignIds : o # y.id => campaign'[o] = campaign'[o]
        BY <3>2, <3>5 DEF Moves
      <4>2. Append(feed, x) \in Seq(FeedEntry)
        BY <2>1, <3>5, AppendProperties
      <4>3. QED
        BY <3>5, <3>7, <4>1, <4>2, OneMoreAccounted
    <3>9. PaidTotal + Volume(x) + Volume(y) = PaidTotal'
      BY <3>3, <3>4, <3>5
    <3>10. \E Y, Z : ComesTo(feed', Y, Z, campaign', PaidTotal')
      BY <3>1, <3>8, <3>9 DEF x, y
    <3>11. QED
      BY <3>4, <3>10 DEF ReplayInv
  <2>6. QED
    BY <2>1, <2>3, <2>4, <2>5 DEF StepTold
<1>4. QED
  BY <1>2, <1>3

Replays == CampaignStatus \cup {"Unseen"}

\* What event e does to the replayed status of campaign id.
Heard(status, id, e) == IF e.id = id THEN ReplayStep(status, e.name) ELSE status

\* Replayed goes from one event to the next.
LEMMA ReplayedRuns ==
  ASSUME NEW events, NEW n \in Nat, DOMAIN events = 1 .. n, NEW id
  PROVE  \E h : /\ h[0] = "Unseen" /\ h[n] = Replayed(events, id)
                /\ \A i \in 1 .. n : h[i] = Heard(h[i - 1], id, events[i])
<1> DEFINE F == [i \in 1 .. n |-> [s \in Replays |-> Heard(s, id, events[i])]]
           Totals(h) ==
             h = [s \in SUBSET DOMAIN events |->
                    IF s = {} THEN "Unseen"
                    ELSE IF events[Max(s)].id = id
                         THEN ReplayStep(h[s \ {Max(s)}], events[Max(s)].name)
                         ELSE h[s \ {Max(s)}]]
           c == CHOOSE h : Totals(h)
<1>1. Replayed(events, id) = c[DOMAIN events]
  BY DEF Replayed, FoldLeft, MapThenFoldSet
<1>2. \A s \in Replays : \A e : Heard(s, id, e) \in Replays
  BY DEF Heard, ReplayStep, Replays, CampaignStatus
<1>3. \A i \in 1 .. n : \A s \in Replays :
        F[i][s] = Heard(s, id, events[i]) /\ F[i][s] \in Replays
  BY <1>2
<1> HIDE DEF F
<1>4. PICK g : IsFold(F, "Unseen", 1 .. n, g) /\ \A s \in SUBSET (1 .. n) : g[s] \in Replays
  <2>1. "Unseen" \in Replays
    BY DEF Replays
  <2>2. QED
    BY <1>3, <2>1, FoldsExist
<1> DEFINE D(h, s) == IF s = {} THEN "Unseen"
                ELSE IF events[Max(s)].id = id
                     THEN ReplayStep(h[s \ {Max(s)}], events[Max(s)].name)
                     ELSE h[s \ {Max(s)}]
           E(h, s) == IF s = {} THEN "Unseen" ELSE F[Max(s)][h[s \ {Max(s)}]]
<1>5. Totals(g)
  <2>1. \A s \in SUBSET (1 .. n) : D(g, s) = E(g, s)
    <3>1. \A s \in SUBSET (1 .. n) : s # {} => Max(s) \in 1 .. n /\ g[s \ {Max(s)}] \in Replays
      BY <1>4, MaxIn
    <3>2. QED
      BY <1>3, <3>1 DEF Heard
  <2>2. g = [s \in SUBSET (1 .. n) |-> E(g, s)]
    BY <1>4 DEF IsFold
  <2> HIDE DEF D, E
  <2>3. g = [s \in SUBSET (1 .. n) |-> D(g, s)]
    BY <2>1, <2>2
  <2>4. QED
    BY <2>3 DEF D
<1>6. Totals(c)
  BY <1>5
<1>7. c = [s \in SUBSET (1 .. n) |-> D(c, s)]
  BY <1>6
<1> HIDE DEF c
<1>8. \A s \in SUBSET (1 .. n) : c[s] = D(c, s)
  <2> HIDE DEF D
  <2>1. QED
    BY <1>7
<1>9. c[1 .. 0] = "Unseen"
  <2>1. 1 .. 0 = {} /\ {} \in SUBSET (1 .. n)
    OBVIOUS
  <2>2. QED
    BY <1>8, <2>1
<1>10. ASSUME NEW i \in 1 .. n PROVE c[1 .. i] = Heard(c[1 .. (i - 1)], id, events[i])
  <2>1. 1 .. i \in SUBSET (1 .. n) /\ 1 .. i # {} /\ (1 .. i) \ {i} = 1 .. (i - 1)
    BY <1>10, FirstIndices
  <2>2. Max(1 .. i) = i
    BY <1>10, MaxIn
  <2>3. c[1 .. i] = D(c, 1 .. i)
    BY <1>8, <2>1
  <2>4. QED
    BY <2>1, <2>2, <2>3 DEF Heard
<1> DEFINE h == [i \in 0 .. n |-> c[1 .. i]]
<1>11. h[0] = "Unseen" /\ \A i \in 1 .. n : h[i] = Heard(h[i - 1], id, events[i])
  <2>1. \A i \in 1 .. n : h[i] = c[1 .. i] /\ h[i - 1] = c[1 .. (i - 1)]
    OBVIOUS
  <2>2. h[0] = c[1 .. 0]
    OBVIOUS
  <2> HIDE DEF h
  <2>3. QED
    BY <1>9, <1>10, <2>1, <2>2
<1>12. h[n] = Replayed(events, id)
  BY <1>1
<1> HIDE DEF h
<1>13. QED
  BY <1>11, <1>12

\* What event e does to the volume.
Counted(sum, e) == IF e.name = "ContribReceived" THEN sum + e.amount ELSE sum

\* TotalVolume goes from one event to the next.
LEMMA VolumeRuns ==
  ASSUME NEW events, NEW n \in Nat, DOMAIN events = 1 .. n,
         \A i \in 1 .. n : events[i].amount \in Int
  PROVE  \E h : /\ h[0] = 0 /\ h[n] = TotalVolume(events)
                /\ \A i \in 1 .. n : h[i] = Counted(h[i - 1], events[i])
<1> DEFINE F == [i \in 1 .. n |-> [s \in Int |-> Counted(s, events[i])]]
           Totals(h) ==
             h = [s \in SUBSET DOMAIN events |->
                    IF s = {} THEN 0
                    ELSE IF events[Max(s)].name = "ContribReceived"
                         THEN h[s \ {Max(s)}] + events[Max(s)].amount
                         ELSE h[s \ {Max(s)}]]
           c == CHOOSE h : Totals(h)
<1>1. TotalVolume(events) = c[DOMAIN events]
  BY DEF TotalVolume, FoldLeft, MapThenFoldSet
<1>2. \A i \in 1 .. n : \A s \in Int : Counted(s, events[i]) \in Int
  BY DEF Counted
<1>3. \A i \in 1 .. n : \A s \in Int : F[i][s] = Counted(s, events[i]) /\ F[i][s] \in Int
  BY <1>2
<1> HIDE DEF F
<1>4. PICK g : IsFold(F, 0, 1 .. n, g) /\ \A s \in SUBSET (1 .. n) : g[s] \in Int
  <2>1. 0 \in Int
    OBVIOUS
  <2>2. QED
    BY <1>3, <2>1, FoldsExist
<1> DEFINE D(h, s) == IF s = {} THEN 0
                ELSE IF events[Max(s)].name = "ContribReceived"
                     THEN h[s \ {Max(s)}] + events[Max(s)].amount
                     ELSE h[s \ {Max(s)}]
           E(h, s) == IF s = {} THEN 0 ELSE F[Max(s)][h[s \ {Max(s)}]]
<1>5. Totals(g)
  <2>1. \A s \in SUBSET (1 .. n) : D(g, s) = E(g, s)
    <3>1. \A s \in SUBSET (1 .. n) : s # {} => Max(s) \in 1 .. n /\ g[s \ {Max(s)}] \in Int
      BY <1>4, MaxIn
    <3>2. QED
      BY <1>3, <3>1 DEF Counted
  <2>2. g = [s \in SUBSET (1 .. n) |-> E(g, s)]
    BY <1>4 DEF IsFold
  <2> HIDE DEF D, E
  <2>3. g = [s \in SUBSET (1 .. n) |-> D(g, s)]
    BY <2>1, <2>2
  <2>4. QED
    BY <2>3 DEF D
<1>6. Totals(c)
  BY <1>5
<1>7. c = [s \in SUBSET (1 .. n) |-> D(c, s)]
  BY <1>6
<1> HIDE DEF c
<1>8. \A s \in SUBSET (1 .. n) : c[s] = D(c, s)
  <2> HIDE DEF D
  <2>1. QED
    BY <1>7
<1>9. c[1 .. 0] = 0
  <2>1. 1 .. 0 = {} /\ {} \in SUBSET (1 .. n)
    OBVIOUS
  <2>2. QED
    BY <1>8, <2>1
<1>10. ASSUME NEW i \in 1 .. n PROVE c[1 .. i] = Counted(c[1 .. (i - 1)], events[i])
  <2>1. 1 .. i \in SUBSET (1 .. n) /\ 1 .. i # {} /\ (1 .. i) \ {i} = 1 .. (i - 1)
    BY <1>10, FirstIndices
  <2>2. Max(1 .. i) = i
    BY <1>10, MaxIn
  <2>3. c[1 .. i] = D(c, 1 .. i)
    BY <1>8, <2>1
  <2>4. QED
    BY <2>1, <2>2, <2>3 DEF Counted
<1> DEFINE h == [i \in 0 .. n |-> c[1 .. i]]
<1>11. h[0] = 0 /\ \A i \in 1 .. n : h[i] = Counted(h[i - 1], events[i])
  <2>1. \A i \in 1 .. n : h[i] = c[1 .. i] /\ h[i - 1] = c[1 .. (i - 1)]
    OBVIOUS
  <2>2. h[0] = c[1 .. 0]
    OBVIOUS
  <2> HIDE DEF h
  <2>3. QED
    BY <1>9, <1>10, <2>1, <2>2
<1>12. h[n] = TotalVolume(events)
  BY <1>1
<1> HIDE DEF h
<1>13. QED
  BY <1>11, <1>12

\* What a reader of the events would show of what they tell.
Show(v) ==
  CASE v.status = "Absent"              -> "Unseen"
    [] v.status = "Funding" /\ ~v.paid  -> "Active"
    [] OTHER                            -> v.status

\* X is what n events tell of campaign id, one after the other.
Story(X, events, n, id) ==
  /\ X \in [0 .. n -> Told]
  /\ \A j \in 1 .. n :
       IF events[j].id = id
       THEN /\ Moves(X[j - 1].status, events[j].name, events[j].status)
            /\ X[j].status = events[j].status
            /\ X[j].paid <=> X[j - 1].paid \/ events[j].name = "ContribReceived"
       ELSE X[j] = X[j - 1]

\* The client's switch shows what an event tells.
LEMMA ShowStep ==
  ASSUME NEW v \in Told, NEW w \in Told, NEW e, Moves(v.status, e.name, e.status),
         w.status = e.status, w.paid <=> v.paid \/ e.name = "ContribReceived"
  PROVE  ReplayStep(Show(v), e.name) = Show(w) /\ w.status # "Absent"
<1>1. /\ v.status \in CampaignStatus \cup {"Absent"} /\ v.paid \in BOOLEAN
      /\ w.status \in CampaignStatus \cup {"Absent"} /\ w.paid \in BOOLEAN
      /\ v.status \in {"Absent", "Active"} => ~v.paid
  BY DEF Told
<1>2. w.status # "Absent"
  BY DEF Moves, Raising
<1>3. CASE v.status = "Absent"
  <2>1. e.name = "CampaignCreated" /\ w.status = "Active"
    BY <1>3 DEF Moves, Raising
  <2>2. Show(w) = "Active"
    BY <2>1 DEF Show
  <2>3. ReplayStep(Show(v), e.name) = "Active"
    BY <2>1 DEF ReplayStep
  <2>4. QED
    BY <1>2, <2>2, <2>3
<1>4. CASE v.status # "Absent"
  <2>1. Show(v) # "Unseen" /\ e.name # "CampaignCreated"
    BY <1>1, <1>4 DEF Show, CampaignStatus, Moves
  <2>2. CASE e.name = "ContribReceived"
    <3>1. \/ v.status \in Raising /\ w.status = "Funding"
          \/ v.status = "Funded" /\ w.status = "Funded"
      BY <2>2 DEF Moves
    <3>2. \/ Show(v) \in {"Active", "Funding"} /\ Show(w) = "Funding"
          \/ Show(v) = "Funded" /\ Show(w) = "Funded"
      BY <1>1, <2>2, <3>1 DEF Show, Raising
    <3>3. QED
      BY <1>2, <2>2, <3>2 DEF ReplayStep
  <2>3. CASE e.name = "ContribReconciled"
    <3>1. v.status \in Raising /\ w.status = "Funding" /\ (w.paid <=> v.paid)
      BY <2>3 DEF Moves
    <3>2. Show(v) = Show(w)
      BY <1>1, <3>1 DEF Show, Raising
    <3>3. ReplayStep(Show(v), e.name) = Show(v)
      BY <2>1, <2>3 DEF ReplayStep
    <3>4. QED
      BY <1>2, <3>2, <3>3
  <2>4. CASE e.name = "TrancheReleased"
    <3>1. v.status \in {"Funded", "InProduction"} /\ w.status = "InProduction"
      BY <2>4 DEF Moves
    <3>2. Show(v) = v.status /\ Show(w) = "InProduction"
      BY <3>1 DEF Show
    <3>3. QED
      BY <1>2, <2>4, <3>1, <3>2 DEF ReplayStep
  <2>5. CASE e.name \in {"CampaignFunded", "CampaignFailed", "HarvestReported",
                         "DisputeOpened", "DisputeResolved", "CampaignSettled"}
    <3>1. ReplayStep(Show(v), e.name) = w.status
      BY <2>1, <2>5 DEF Moves, ReplayStep
    <3>2. w.status # "Funding"
      BY <2>5 DEF Moves
    <3>3. QED
      BY <1>2, <3>1, <3>2 DEF Show
  <2>6. CASE e.name \notin {"CampaignCreated", "ContribReceived", "ContribReconciled",
                            "TrancheReleased", "CampaignFunded", "CampaignFailed",
                            "HarvestReported", "DisputeOpened", "DisputeResolved",
                            "CampaignSettled"}
    <3>1. w.status = v.status /\ v.status \notin Raising
      BY <2>6 DEF Moves
    <3>2. ReplayStep(Show(v), e.name) = Show(v)
      BY <2>1, <2>6 DEF ReplayStep
    <3>3. QED
      BY <1>4, <3>1, <3>2 DEF Show, Raising
  <2>7. QED
    BY <2>1, <2>2, <2>3, <2>4, <2>5, <2>6
<1>5. QED
  BY <1>2, <1>3, <1>4

\* Where a story begins before the campaign, the client's replay shows its end.
LEMMA ReplayShows ==
  ASSUME NEW X, NEW events, NEW n \in Nat, DOMAIN events = 1 .. n, NEW id,
         Story(X, events, n, id), X[0].status = "Absent"
  PROVE  Replayed(events, id) = Show(X[n])
<1>1. PICK h : /\ h[0] = "Unseen" /\ h[n] = Replayed(events, id)
               /\ \A i \in 1 .. n : h[i] = Heard(h[i - 1], id, events[i])
  BY ReplayedRuns
<1> DEFINE Bad == {j \in 0 .. n : h[j] # Show(X[j])}
<1>2. ASSUME Bad # {} PROVE FALSE
  <2>1. PICK j \in Bad : \A k \in Bad : j <= k
    <3>1. Bad \subseteq Nat
      OBVIOUS
    <3>2. QED
      BY <1>2, <3>1, LeastNat
  <2>2. j # 0
    BY <1>1, <2>1 DEF Show
  <2>3. j \in 1 .. n /\ j - 1 \in 0 .. n /\ ~(j <= j - 1)
    BY <2>1, <2>2
  <2>4. h[j - 1] = Show(X[j - 1])
    BY <2>1, <2>3
  <2>5. h[j] = Heard(h[j - 1], id, events[j]) /\ X[j] \in Told /\ X[j - 1] \in Told
    BY <1>1, <2>3 DEF Story
  <2>6. CASE events[j].id = id
    <3>1. /\ Moves(X[j - 1].status, events[j].name, events[j].status)
          /\ X[j].status = events[j].status
          /\ X[j].paid <=> X[j - 1].paid \/ events[j].name = "ContribReceived"
      BY <2>3, <2>6 DEF Story
    <3>2. ReplayStep(Show(X[j - 1]), events[j].name) = Show(X[j])
      BY <2>5, <3>1, ShowStep
    <3>3. QED
      BY <2>1, <2>4, <2>5, <2>6, <3>2 DEF Heard
  <2>7. CASE events[j].id # id
    <3>1. X[j] = X[j - 1]
      BY <2>3, <2>7 DEF Story
    <3>2. QED
      BY <2>1, <2>4, <2>5, <2>7, <3>1 DEF Heard
  <2>8. QED
    BY <2>6, <2>7
<1>3. n \in 0 .. n
  OBVIOUS
<1>4. QED
  BY <1>1, <1>2, <1>3

\* Nothing is told between two events of a campaign.
LEMMA Quiet ==
  ASSUME NEW X, NEW events, NEW n \in Nat, NEW id, Story(X, events, n, id),
         NEW a \in 0 .. n, NEW b \in a .. n, \A k \in a + 1 .. b : events[k].id # id
  PROVE  X[b] = X[a]
<1> DEFINE Bad == {j \in a .. b : X[j] # X[a]}
<1>1. ASSUME Bad # {} PROVE FALSE
  <2>1. PICK j \in Bad : \A k \in Bad : j <= k
    <3>1. Bad \subseteq Nat
      OBVIOUS
    <3>2. QED
      BY <1>1, <3>1, LeastNat
  <2>2. j \in a + 1 .. b /\ j \in 1 .. n /\ j - 1 \in a .. b /\ ~(j <= j - 1)
    BY <2>1
  <2>3. X[j - 1] = X[a]
    BY <2>1, <2>2
  <2>4. X[j] = X[j - 1]
    BY <2>2 DEF Story
  <2>5. QED
    BY <2>1, <2>3, <2>4
<1>2. b \in a .. b
  OBVIOUS
<1>3. QED
  BY <1>1, <1>2

\* One of the first n events is a payment to campaign id.
SaysPaid(events, n, id) ==
  \E k \in 1 .. n : events[k].id = id /\ events[k].name = "ContribReceived"

\* Someone is said to have paid when an event says so.
LEMMA PaidIsTold ==
  ASSUME NEW X, NEW events, NEW n \in Nat, NEW id, Story(X, events, n, id), ~X[0].paid
  PROVE  X[n].paid <=> SaysPaid(events, n, id)
<1> DEFINE Said(j) == SaysPaid(events, j, id)
           Bad == {j \in 0 .. n : ~(X[j].paid <=> Said(j))}
<1>1. ASSUME Bad # {} PROVE FALSE
  <2>1. PICK j \in Bad : \A k \in Bad : j <= k
    <3>1. Bad \subseteq Nat
      OBVIOUS
    <3>2. QED
      BY <1>1, <3>1, LeastNat
  <2>2. j # 0
    BY <2>1 DEF SaysPaid
  <2>3. j \in 1 .. n /\ j - 1 \in 0 .. n /\ ~(j <= j - 1)
    BY <2>1, <2>2
  <2>4. X[j - 1].paid <=> Said(j - 1)
    BY <2>1, <2>3
  <2>5. Said(j) <=> \/ Said(j - 1)
                    \/ events[j].id = id /\ events[j].name = "ContribReceived"
    <3>1. 1 .. j = (1 .. (j - 1)) \cup {j}
      BY <2>3
    <3>2. QED
      BY <3>1 DEF SaysPaid
  <2>6. X[j].paid <=> \/ X[j - 1].paid
                      \/ events[j].id = id /\ events[j].name = "ContribReceived"
    BY <2>3 DEF Story
  <2> HIDE DEF Said
  <2>7. QED
    BY <2>1, <2>4, <2>5, <2>6
<1> HIDE DEF Said
<1>2. X[n].paid <=> Said(n)
  <2>1. n \in 0 .. n /\ n \notin Bad
    BY <1>1
  <2>2. QED
    BY <2>1
<1>3. QED
  BY <1>2 DEF Said

\* A campaign whose opening is among the events is shown as they leave it.
LEMMA ShownAsTold ==
  ASSUME NEW X, NEW events, NEW n \in Nat, DOMAIN events = 1 .. n, NEW id,
         Story(X, events, n, id), NEW opening \in 1 .. n, NEW latest \in 1 .. n,
         events[opening].id = id, events[latest].id = id,
         \A k \in 1 .. n : events[k].id = id => opening <= k /\ k <= latest,
         events[opening].name = "CampaignCreated"
  PROVE  Replayed(events, id) =
           IF events[latest].status = "Funding" /\ ~SaysPaid(events, n, id) THEN "Active"
           ELSE events[latest].status
<1>q. \A a \in 0 .. n : \A b \in a .. n :
        (\A k \in a + 1 .. b : events[k].id # id) => X[b] = X[a]
  BY Quiet
<1>1. X[opening - 1] = X[0]
  <2>1. 0 \in 0 .. n /\ opening - 1 \in 0 .. n
    OBVIOUS
  <2>2. \A k \in 0 + 1 .. opening - 1 : events[k].id # id
    OBVIOUS
  <2>3. QED
    BY <2>1, <2>2, <1>q
<1>2. X[0].status = "Absent"
  <2>1. Moves(X[opening - 1].status, events[opening].name, events[opening].status)
    BY DEF Story
  <2>2. QED
    BY <1>1, <2>1 DEF Moves
<1>3. Replayed(events, id) = Show(X[n])
  BY <1>2, ReplayShows
<1>4. X[n] = X[latest]
  <2>1. latest \in 0 .. n /\ n \in latest .. n
    OBVIOUS
  <2>2. \A k \in latest + 1 .. n : events[k].id # id
    OBVIOUS
  <2>3. QED
    BY <2>1, <2>2, <1>q
<1>5. X[latest].status = events[latest].status /\ events[latest].status # "Absent"
  <2>1. /\ Moves(X[latest - 1].status, events[latest].name, events[latest].status)
        /\ X[latest].status = events[latest].status
    BY DEF Story
  <2>2. QED
    BY <2>1 DEF Moves, Raising
<1>6. ~X[0].paid
  <2>1. X[0] \in Told
    BY DEF Story
  <2>2. QED
    BY <1>2, <2>1 DEF Told
<1>7. X[n].paid <=> SaysPaid(events, n, id)
  BY <1>6, PaidIsTold
<1>8. QED
  BY <1>3, <1>4, <1>5, <1>7 DEF Show

\* What the window loads of the feed: n events in a row, from the a-th on.
LEMMA Loaded ==
  ASSUME FeedInv
  PROVE  \E a \in 1 .. Len(feed) + 1 : \E n \in Nat :
           /\ a + n - 1 <= Len(feed) /\ RecentEvents = SubSeq(feed, a, a + n - 1)
           /\ DOMAIN RecentEvents = 1 .. n
           /\ \A j \in 1 .. n : RecentEvents[j] = feed[a + j - 1]
<1> DEFINE Firsts == {k \in DOMAIN feed : feed[k].ledger >= Tip - Lookback} \cup {Len(feed) + 1}
           a == FirstLoaded
           Lasts == {Len(feed), a + LoadCap - 1}
           b == Min(Lasts)
<1>1. feed \in Seq(FeedEntry) /\ Len(feed) \in Nat /\ DOMAIN feed = 1 .. Len(feed)
  BY LenProperties DEF FeedInv
<1>2. a \in 1 .. Len(feed) + 1
  <2>1. Firsts \subseteq 1 .. Len(feed) + 1 /\ Firsts # {}
    BY <1>1
  <2>2. Firsts \subseteq Nat
    BY <1>1, <2>1
  <2>3. a = Min(Firsts)
    BY DEF FirstLoaded
  <2> HIDE DEF Firsts, a
  <2>4. \E m \in Firsts : \A k \in Firsts : m <= k
    BY <2>1, <2>2, LeastNat
  <2>5. Min(Firsts) \in Firsts
    BY <2>4 DEF Min
  <2>6. QED
    BY <2>1, <2>3, <2>5
<1> HIDE DEF a
<1>3. b \in Int /\ a - 1 <= b /\ b <= Len(feed)
  <2>1. LoadCap \in Nat /\ LoadCap >= 1
    BY ViewConstants
  <2>2. \A x \in Lasts : x \in Nat /\ a - 1 <= x
    BY <1>1, <1>2, <2>1
  <2>3. \E m \in Lasts : \A k \in Lasts : m <= k
    BY <2>2, LeastNat
  <2>4. b \in Lasts /\ \A k \in Lasts : b <= k
    BY <2>3 DEF Min
  <2>5. QED
    BY <1>1, <2>2, <2>4
<1>4. RecentEvents = SubSeq(feed, a, b)
  BY DEF RecentEvents, a
<1> HIDE DEF b
<1> DEFINE n == b - a + 1
<1>5. n \in Nat /\ a + n - 1 = b
  BY <1>2, <1>3
<1>6. /\ RecentEvents \in Seq(FeedEntry) /\ Len(RecentEvents) = n
      /\ \A j \in 1 .. n : RecentEvents[j] = feed[a + j - 1]
  <2>1. \A i \in a .. b : feed[i] \in FeedEntry
    BY <1>1, <1>2, <1>3, ElementOfSeq
  <2>2. /\ SubSeq(feed, a, b) \in Seq(FeedEntry)
        /\ Len(SubSeq(feed, a, b)) = IF a <= b THEN b - a + 1 ELSE 0
        /\ \A j \in 1 .. b - a + 1 : SubSeq(feed, a, b)[j] = feed[a + j - 1]
    BY <1>2, <1>3, <2>1, SubSeqProperties
  <2>3. QED
    BY <1>2, <1>3, <1>4, <2>2
<1>7. DOMAIN RecentEvents = 1 .. n
  BY <1>6, LenProperties
<1>8. QED
  BY <1>2, <1>3, <1>4, <1>5, <1>6, <1>7

\* The account of the feed tells, from the a-th event on, the story of each campaign.
LEMMA StoryFrom ==
  ASSUME NEW f \in Seq(FeedEntry), NEW V, NEW U, Account(f, V, U), NEW id \in CampaignIds,
         NEW a \in 1 .. Len(f) + 1, NEW n \in Nat, a + n - 1 <= Len(f),
         NEW events, \A j \in 1 .. n : events[j] = f[a + j - 1]
  PROVE  Story([j \in 0 .. n |-> V[a + j - 1][id]], events, n, id)
<1> DEFINE X == [j \in 0 .. n |-> V[a + j - 1][id]]
<1>1. Len(f) \in Nat /\ a \in Nat /\ a >= 1
  BY LenProperties
<1>2. \A j \in 0 .. n : a + j - 1 \in 0 .. Len(f)
  BY <1>1
<1>3. X \in [0 .. n -> Told]
  <2>1. \A k \in 0 .. Len(f) : V[k][id] \in Told
    BY DEF Account
  <2>2. QED
    BY <1>2, <2>1
<1>4. ASSUME NEW j \in 1 .. n
      PROVE  IF events[j].id = id
             THEN /\ Moves(X[j - 1].status, events[j].name, events[j].status)
                  /\ X[j].status = events[j].status
                  /\ X[j].paid <=> X[j - 1].paid \/ events[j].name = "ContribReceived"
             ELSE X[j] = X[j - 1]
  <2> DEFINE k == a + j - 1
             e == events[j]
  <2>1. k \in 1 .. Len(f) /\ k - 1 \in 0 .. Len(f) /\ e = f[k]
    BY <1>1, <1>4
  <2>2. Retold(V[k - 1], V[k], e)
    BY <2>1 DEF Account
  <2>3. X[j] = V[k][id] /\ X[j - 1] = V[k - 1][id]
    <3>1. j \in 0 .. n /\ j - 1 \in 0 .. n /\ a + (j - 1) - 1 = k - 1
      BY <1>1, <1>4
    <3>2. QED
      BY <3>1
  <2> HIDE DEF X, k, e
  <2>4. CASE e.id = id
    <3>1. V[k][id] = [status |-> e.status, paid |-> V[k - 1][id].paid \/ e.name = "ContribReceived"]
      BY <2>2, <2>4 DEF Retold
    <3>2. Moves(V[k - 1][id].status, e.name, e.status)
      BY <2>2, <2>4 DEF Retold
    <3>3. V[k][id].status = e.status
      BY <3>1
    <3>4. V[k][id].paid <=> V[k - 1][id].paid \/ e.name = "ContribReceived"
      <4>1. V[k][id].paid = (V[k - 1][id].paid \/ e.name = "ContribReceived")
        BY <3>1
      <4>2. QED
        BY <4>1, Zenon
    <3>5. QED
      BY <2>3, <2>4, <3>2, <3>3, <3>4 DEF e
  <2>5. CASE e.id # id
    <3>1. V[k][id] = V[k - 1][id]
      BY <2>2, <2>5 DEF Retold
    <3>2. QED
      BY <2>3, <2>5, <3>1 DEF e
  <2>6. QED
    BY <2>4, <2>5
<1> HIDE DEF X
<1>5. Story(X, events, n, id)
  BY <1>3, <1>4 DEF Story
<1>6. QED
  BY <1>5 DEF X

\* Whatever is loaded, the client's replay follows it.
LEMMA ReplayTold == FeedInv /\ ReplayInv => ReplayFollowsContract
<1> SUFFICES ASSUME FeedInv, ReplayInv PROVE ReplayFollowsContract
  OBVIOUS
<1>1. PICK V, U : Account(feed, V, U)
  BY DEF ReplayInv, ComesTo
<1>2. PICK a \in 1 .. Len(feed) + 1 : \E m \in Nat :
        /\ a + m - 1 <= Len(feed) /\ DOMAIN RecentEvents = 1 .. m
        /\ \A j \in 1 .. m : RecentEvents[j] = feed[a + j - 1]
  BY Loaded
<1>3. PICK n \in Nat : /\ a + n - 1 <= Len(feed) /\ DOMAIN RecentEvents = 1 .. n
                       /\ \A j \in 1 .. n : RecentEvents[j] = feed[a + j - 1]
  BY <1>2
<1> DEFINE events == RecentEvents
           Of(id) == {k \in DOMAIN events : events[k].id = id}
<1> HIDE DEF events
<1>4. ASSUME NEW id \in CampaignIds, NEW opening \in Of(id), NEW latest \in Of(id),
             \A k \in Of(id) : opening <= k /\ k <= latest,
             events[opening].name = "CampaignCreated"
      PROVE  Replayed(events, id) =
               IF events[latest].status = "Funding" /\ ~SaysPaid(events, n, id) THEN "Active"
               ELSE events[latest].status
  <2> DEFINE X == [j \in 0 .. n |-> V[a + j - 1][id]]
  <2>1. Story(X, events, n, id)
    BY <1>1, <1>3, StoryFrom DEF FeedInv, events
  <2> HIDE DEF X
  <2>2. /\ DOMAIN events = 1 .. n
        /\ opening \in 1 .. n /\ latest \in 1 .. n
        /\ events[opening].id = id /\ events[latest].id = id
        /\ \A k \in 1 .. n : events[k].id = id => opening <= k /\ k <= latest
    BY <1>3, <1>4 DEF events
  <2>3. QED
    BY <1>4, <2>1, <2>2, ShownAsTold
<1>5. \A id \in CampaignIds :
        SaysPaid(events, n, id) <=> \E k \in Of(id) : events[k].name = "ContribReceived"
  <2>1. DOMAIN events = 1 .. n
    BY <1>3 DEF events
  <2>2. QED
    BY <2>1 DEF SaysPaid
<1>6. QED
  BY <1>4, <1>5 DEF ReplayFollowsContract, events

\* With the whole history, the volume is what the account comes to.
LEMMA VolumeTold ==
  ASSUME NEW f \in Seq(FeedEntry), NEW V, NEW U, Account(f, V, U)
  PROVE  TotalVolume(f) = U[Len(f)]
<1> DEFINE n == Len(f)
<1>1. n \in Nat /\ DOMAIN f = 1 .. n /\ \A i \in 1 .. n : f[i] \in FeedEntry
  BY LenProperties, ElementOfSeq
<1>2. \A i \in 1 .. n : f[i].amount \in Int
  BY <1>1 DEF FeedEntry
<1>3. PICK h : /\ h[0] = 0 /\ h[n] = TotalVolume(f)
               /\ \A i \in 1 .. n : h[i] = Counted(h[i - 1], f[i])
  BY <1>1, <1>2, VolumeRuns
<1> HIDE DEF n
<1>4. /\ U[0] = 0 /\ \A k \in 1 .. n : U[k] = U[k - 1] + Volume(f[k])
      /\ \A k \in 0 .. n : U[k] \in Int
  BY DEF Account, n
<1> DEFINE Bad == {j \in 0 .. n : h[j] # U[j]}
<1>5. ASSUME Bad # {} PROVE FALSE
  <2>1. PICK j \in Bad : \A k \in Bad : j <= k
    <3>1. Bad \subseteq Nat
      OBVIOUS
    <3>2. QED
      BY <1>5, <3>1, LeastNat
  <2>2. j # 0
    BY <1>3, <1>4, <2>1
  <2>3. j \in 1 .. n /\ j - 1 \in 0 .. n /\ ~(j <= j - 1)
    BY <1>1, <2>1, <2>2
  <2>4. h[j - 1] = U[j - 1]
    BY <2>1, <2>3
  <2>5. h[j] = Counted(U[j - 1], f[j]) /\ U[j] = U[j - 1] + Volume(f[j]) /\ U[j - 1] \in Int
    BY <1>3, <1>4, <2>3, <2>4
  <2>6. h[j] = U[j]
    BY <2>5 DEF Counted, Volume
  <2>7. QED
    BY <2>1, <2>6
<1>6. n \in 0 .. n
  BY <1>1
<1>7. h[n] = U[n]
  BY <1>5, <1>6
<1>8. QED
  BY <1>3, <1>7 DEF n

\* The sum of what was paid, as the property writes it.
LEMMA PaidSum ==
  MapThenSumSet(LAMBDA id : campaign[id].total_funded - audit[id].reconciled, CampaignIds)
    = PaidTotal
<1> DEFINE S == CampaignIds
           f == [id \in S |-> Paid(id)]
           Totals(h) ==
             h = [s \in SUBSET S |->
                    IF s = {} THEN 0
                    ELSE (campaign[Pick(s)].total_funded - audit[Pick(s)].reconciled)
                           + h[s \ {Pick(s)}]]
           c == CHOOSE h : Totals(h)
<1>1. PICK g : IsSum(f, S, g) /\ SumFunctionOnSet(f, S) = g[S]
  BY SumUnfolds, FiniteScope
<1>2. \A s \in SUBSET S : s # {} => Pick(s) \in S
  BY PickIn
<1>a. \A s \in SUBSET S : s # {} =>
        f[Pick(s)] = campaign[Pick(s)].total_funded - audit[Pick(s)].reconciled
  BY <1>2 DEF Paid
<1> HIDE DEF f
<1>3. Totals(g)
  BY <1>1, <1>a DEF IsSum
<1>4. Totals(c)
  BY <1>3
<1>5. MapThenSumSet(LAMBDA id : campaign[id].total_funded - audit[id].reconciled, S) = c[S]
  BY DEF MapThenSumSet, MapThenFoldSet, Pick
<1> HIDE DEF c
<1>6. IsSum(f, S, c)
  BY <1>a, <1>4 DEF IsSum
<1>7. g[S] = c[S]
  BY <1>1, <1>6, SumSame, FiniteScope
<1>8. QED
  BY <1>1, <1>5, <1>7 DEF PaidTotal, f

\* With the whole history, the slices and the volume are what the contract's records say.
LEMMA OutcomesTold == IInv /\ FeedInv /\ ReplayInv => OutcomesExplained
<1> SUFFICES ASSUME IInv, FeedInv, ReplayInv, WholeHistory PROVE OutcomesExplained
  BY DEF OutcomesExplained
<1>1. PICK V, U : ComesTo(feed, V, U, campaign, PaidTotal)
  BY DEF ReplayInv
<1> DEFINE n == Len(feed)
<1>2. n \in Nat /\ DOMAIN feed = 1 .. n /\ feed \in Seq(FeedEntry) /\ RecentEvents = feed
  BY LenProperties DEF FeedInv, WholeHistory
<1>3. TotalVolume(RecentEvents) = PaidTotal
  BY <1>1, <1>2, VolumeTold DEF ComesTo
<1> HIDE DEF n
<1>4. ASSUME NEW id \in CampaignIds
      PROVE  LET met     == campaign[id].total_funded = campaign[id].target_amount
                 outcome == Outcome(RecentEvents, id)
             IN  /\ outcome = "none" <=> ~Exists(id)
                 /\ outcome = "Reached target" => met \/ dispute[id].status # "None"
                 /\ outcome = "Still raising" /\ met => audit[id].reconciled > 0
  <2> DEFINE X == [j \in 0 .. n |-> V[1 + j - 1][id]]
             s == campaign[id].status
             v == Replayed(RecentEvents, id)
             met == campaign[id].total_funded = campaign[id].target_amount
             outcome == Outcome(RecentEvents, id)
  <2>1. Story(X, feed, n, id)
    <3>1. Account(feed, V, U)
      BY <1>1 DEF ComesTo
    <3>2. /\ 1 \in 1 .. Len(feed) + 1 /\ 1 + n - 1 <= Len(feed)
          /\ \A j \in 1 .. n : feed[j] = feed[1 + j - 1]
      BY <1>2 DEF n
    <3> HIDE DEF n
    <3>3. QED
      BY <1>2, <3>1, <3>2, StoryFrom
  <2>2. X[0].status = "Absent" /\ X[n].status = s /\ X[n] \in Told
    <3>1. V[0][id] = Untold /\ V[n][id].status = s
      BY <1>1 DEF ComesTo, Account, n
    <3>2. X[0] = V[0][id] /\ X[n] = V[n][id]
      BY <1>2
    <3>3. X[n] \in Told
      BY <1>2, <2>1 DEF Story
    <3>4. QED
      BY <3>1, <3>2, <3>3 DEF Untold
  <2> HIDE DEF X
  <2>3. v = Show(X[n])
    BY <1>2, <2>1, <2>2, ReplayShows
  <2>4. /\ s \in CampaignStatus \cup {"Absent"}
        /\ s = "Absent" => v = "Unseen"
        /\ s = "Funding" => v \in {"Active", "Funding"}
        /\ s \notin {"Absent", "Funding"} => v = s
    BY <2>2, <2>3 DEF Show, Told
  <2>5. /\ v = "Unseen" <=> s = "Absent"
        /\ v \in TARGET_REACHED_STATUSES => v = s
        /\ (v # "Unseen" /\ v # "Failed" /\ v \notin TARGET_REACHED_STATUSES) => s \in Raising
    BY <2>4 DEF CampaignStatus, TARGET_REACHED_STATUSES, Raising
  <2> DEFINE Slice(x) ==
               CASE x = "Unseen" -> "none"
                 [] x \in TARGET_REACHED_STATUSES -> "Reached target"
                 [] x = "Failed" -> "Failed"
                 [] OTHER -> "Still raising"
  <2>6. outcome = Slice(v)
    BY DEF Outcome
  <2> HIDE DEF v, outcome
  <2>7. /\ outcome = "none" <=> v = "Unseen"
        /\ outcome = "Reached target" => v \in TARGET_REACHED_STATUSES
        /\ outcome = "Still raising" =>
             v # "Unseen" /\ v # "Failed" /\ v \notin TARGET_REACHED_STATUSES
    BY <2>6 DEF TARGET_REACHED_STATUSES
  <2>8. outcome = "none" <=> ~Exists(id)
    BY <2>5, <2>7 DEF Exists
  <2>9. outcome = "Reached target" => met \/ dispute[id].status # "None"
    <3>1. s \in {"Funded", "InProduction", "Harvested", "Settled"} => met
      BY DEF IInv, GoodCampaign, PoolsAgree
    <3>2. s = "Disputed" => dispute[id].status = "Open"
      BY DEF IInv, RecordsMatchStatus
    <3>3. s = "Resolved" => dispute[id].status = "Resolved"
      BY DEF IInv, RecordsMatchStatus
    <3>4. QED
      BY <2>5, <2>7, <3>1, <3>2, <3>3 DEF TARGET_REACHED_STATUSES
  <2>10. outcome = "Still raising" /\ met => audit[id].reconciled > 0
    <3>1. outcome = "Still raising" => campaign[id].status \in Raising
      BY <2>5, <2>7
    <3>2. campaign[id].status \in Raising =>
            campaign[id].total_funded < campaign[id].target_amount \/ audit[id].reconciled > 0
      BY DEF ReplayInv, Unmet
    <3>3. campaign[id].target_amount \in Nat
      BY DEF IInv, TypeOK, Campaign
    <3> HIDE DEF s
    <3>4. met => ~(campaign[id].total_funded < campaign[id].target_amount)
      BY <3>3
    <3> HIDE DEF met
    <3>5. QED
      BY <3>1, <3>2, <3>4
  <2>11. QED
    BY <2>8, <2>9, <2>10 DEF outcome
<1>5. QED
  BY <1>3, <1>4, PaidSum DEF OutcomesExplained

\* AnalyticsFollowContract, for any number of campaigns, investors and events and for any
\* look-back and page cap: the client's own replay of the events ends where the contract
\* did, and the slices and the volume drawn from all of them are explained by its records.
THEOREM AnalyticsTrue == ViewSpec => []AnalyticsFollowContract
<1>1. /\ IInv /\ ChainInv /\ FaithInv
      /\ (IInv /\ ChainInv /\ FaithInv)'
      /\ FeedInv /\ GivenInv /\ ReplayInv /\ [ViewNext]_viewVars
      => (FeedInv /\ GivenInv /\ ReplayInv)'
  BY GivenKept, ReplayKept
<1>2. IInv /\ FeedInv /\ ReplayInv => AnalyticsFollowContract
  BY ReplayTold, OutcomesTold DEF AnalyticsFollowContract
<1>3. QED
  BY <1>1, <1>2, GivenInit, ReplayInit, ViewFollows, FaithAlways, PTL DEF ViewSpec

-----------------------------------------------------------------------------
(* What an investor's cards say. *)

\* No event tells of a claim, and no stake shrinks.
NoClaim ==
  /\ \A j \in DOMAIN tx'.events : tx'.events[j].name \notin Claims
  /\ \A o \in CampaignIds, m \in Investors : contribution'[o][m] >= contribution[o][m]

\* The only event tells of a claim by investor i on campaign id.
OneClaim(id, i) ==
  \E e : /\ tx'.events = <<e>>
         /\ e.name \in Claims /\ e.id = id /\ e.who = i

\* A transaction tells of a claim exactly if it redeems a stake.
LEMMA ClaimsTold ==
  ASSUME IInv, Next
  PROVE  NoClaim \/ \E id \in CampaignIds, i \in Investors : OneClaim(id, i) /\ StakeRedeemed(id, i)
<1> DEFINE Goal == \/ NoClaim
                   \/ \E id \in CampaignIds, i \in Investors :
                        OneClaim(id, i) /\ StakeRedeemed(id, i)
<1>0. \A o \in CampaignIds, m \in Investors : contribution[o][m] \in Nat
  BY BooksTyped DEF BookTypes
<1>1. ASSUME NEW n, n \notin Claims, NEW id, NEW w, NEW a, tx'.events = Emit(n, id, w, a),
             UNCHANGED contribution
      PROVE  NoClaim
  BY <1>0, <1>1, EmittedEvents DEF NoClaim
<1> USE DEF Sends
<1>2. ASSUME NEW id \in CampaignIds, Contribute(id) PROVE NoClaim
  <2>1. PICK i \in Investors, amount \in Amounts :
          FundCampaign(id, i, amount) \/ ReceiveContribution(id, i, amount)
    BY <1>2 DEF Contribute
  <2>2. \A o \in CampaignIds, m \in Investors : contribution'[o][m] >= contribution[o][m]
    <3>1. amount \in Nat /\ StakeAdded(id, i, amount)
      BY <2>1, ContributionAdds
    <3>2. contribution \in [CampaignIds -> [Investors -> Nat]]
      BY BooksTyped DEF BookTypes
    <3>3. QED
      BY <1>0, <3>1, <3>2 DEF StakeAdded
  <2>3. \A j \in DOMAIN tx'.events : tx'.events[j].name \notin Claims
    <3>1. CASE FundCampaign(id, i, amount)
      <4> DEFINE t == campaign[id].total_funded + amount
                 e == [name |-> "CampaignFunded", id |-> id, who |-> NoOne, amount |-> t]
                 f == [name |-> "ContribReceived", id |-> id, who |-> i, amount |-> amount]
      <4>1. tx'.events = <<e>> \o <<f>> \/ tx'.events = <<f>>
        BY <3>1 DEF FundCampaign, Emit
      <4>2. e.name \notin Claims /\ f.name \notin Claims
        BY DEF Claims
      <4> HIDE DEF e, f
      <4>3. CASE tx'.events = <<e>> \o <<f>>
        <5>1. tx'.events = <<e, f>>
          BY <4>3, TwoInARow
        <5>2. DOMAIN tx'.events = {1, 2} /\ tx'.events[1] = e /\ tx'.events[2] = f
          BY <5>1
        <5>3. QED
          BY <4>2, <5>2
      <4>4. CASE tx'.events = <<f>>
        <5>1. DOMAIN tx'.events = {1} /\ tx'.events[1] = f
          BY <4>4
        <5>2. QED
          BY <4>2, <5>1
      <4>5. QED
        BY <4>1, <4>3, <4>4
    <3>2. CASE ReceiveContribution(id, i, amount)
      <4>1. tx'.events = Emit("ContribReconciled", id, i, amount)
        BY <3>2 DEF ReceiveContribution
      <4>2. \A j \in DOMAIN tx'.events : tx'.events[j].name = "ContribReconciled"
        BY <4>1, EmittedEvents
      <4>3. QED
        BY <4>2 DEF Claims
    <3>3. QED
      BY <2>1, <3>1, <3>2
  <2>4. QED
    BY <2>2, <2>3 DEF NoClaim
<1> USE DEF Claims
<1>4. ASSUME NEW id \in CampaignIds, Manage(id) PROVE NoClaim
  <2>1. ASSUME NEW f \in Farmers, NEW target \in Amounts, NEW t \in Tokens,
               NEW dl \in 0 .. MaxTime, CreateCampaign(id, f, target, t, dl)
        PROVE  NoClaim
    <3>1. tx'.events = Emit("CampaignCreated", id, f, target) /\ UNCHANGED contribution
      BY <2>1 DEF CreateCampaign
    <3>2. QED
      BY <1>1, <3>1
  <2>2. ASSUME NEW total \in Amounts, CompleteFunding(id, total)
        PROVE  NoClaim
    <3>1. tx'.events = Emit("CampaignFunded", id, NoOne, total) /\ UNCHANGED contribution
      BY <2>2 DEF CompleteFunding
    <3>2. QED
      BY <1>1, <3>1
  <2>3. ASSUME NEW list \in TrancheLists, ConfigureTranches(id, list)
        PROVE  NoClaim
    <3>1. tx'.events = Emit("TranchesConfigured", id, NoOne, Len(list)) /\ UNCHANGED contribution
      BY <2>3 DEF ConfigureTranches
    <3>2. QED
      BY <1>1, <3>1
  <2>4. ASSUME NEW r \in Farmers, NEW amount \in Amounts, ReleaseTranche(id, r, amount)
        PROVE  NoClaim
    <3>1. tx'.events = Emit("TrancheReleased", id, r, amount) /\ UNCHANGED contribution
      BY <2>4 DEF ReleaseTranche
    <3>2. QED
      BY <1>1, <3>1
  <2>5. ASSUME NEW r \in Accounts, ReportHarvest(id, r)
        PROVE  NoClaim
    <3>1. tx'.events = Emit("HarvestReported", id, r, 0) /\ UNCHANGED contribution
      BY <2>5 DEF ReportHarvest
    <3>2. QED
      BY <1>1, <3>1
  <2>6. ASSUME NEW payee \in Farmers, NEW payout \in Amounts, SettleCampaign(id, payee, payout)
        PROVE  NoClaim
    <3>1. /\ tx'.events = Emit("CampaignSettled", id, payee, EscrowHeld(campaign[id]) - payout)
          /\ UNCHANGED contribution
      BY <2>6 DEF SettleCampaign
    <3>2. QED
      BY <1>1, <3>1
  <2>7. QED
    BY <1>4, <2>1, <2>2, <2>3, <2>4, <2>5, <2>6 DEF Manage
<1>5. ASSUME NEW id \in CampaignIds, Unwind(id) PROVE Goal
  <2>1. ASSUME NEW opener \in Accounts, OpenDispute(id, opener)
        PROVE  NoClaim
    <3>1. tx'.events = Emit("DisputeOpened", id, opener, 0) /\ UNCHANGED contribution
      BY <2>1 DEF OpenDispute
    <3>2. QED
      BY <1>1, <3>1
  <2>2. ASSUME MarkFailed(id) \/ ExpireCampaign(id)
        PROVE  NoClaim
    <3>1. /\ tx'.events = Emit("CampaignFailed", id, NoOne, campaign'[id].refundable)
          /\ UNCHANGED contribution
      BY <2>2 DEF MarkFailed, ExpireCampaign
    <3>2. QED
      BY <1>1, <3>1
  <2>3. ASSUME NEW r \in DisputeResolution, NEW p \in Amounts, ResolveDispute(id, r, p)
        PROVE  NoClaim
    <3>1. PICK left : tx'.events = Emit("DisputeResolved", id, admin, left)
      BY <2>3 DEF ResolveDispute
    <3>2. UNCHANGED contribution
      BY <2>3 DEF ResolveDispute
    <3>3. QED
      BY <1>1, <3>1, <3>2
  <2>4. ASSUME NEW i \in Investors, ClaimRefund(id, i) \/ ClaimReturn(id, i)
        PROVE  Goal
    <3>1. PICK n \in Claims : \E share : tx'.events = Emit(n, id, i, share)
      BY <2>4 DEF ClaimRefund, ClaimReturn, PayShare
    <3>2. PICK share : tx'.events = Emit(n, id, i, share)
      BY <3>1
    <3>3. OneClaim(id, i)
      <4> DEFINE e == [name |-> n, id |-> id, who |-> i, amount |-> share]
      <4>1. tx'.events = <<e>>
        BY <3>2 DEF Emit
      <4>2. e.name \in Claims /\ e.id = id /\ e.who = i
        OBVIOUS
      <4> HIDE DEF e
      <4>3. QED
        BY <4>1, <4>2 DEF OneClaim
    <3>4. StakeRedeemed(id, i)
      BY <2>4, ClaimEffect DEF Claim, StakeRedeemed, Divided
    <3>5. QED
      BY <3>3, <3>4
  <2>5. QED
    BY <1>5, <2>1, <2>2, <2>3, <2>4 DEF Unwind
<1>6. ASSUME tx' = NoTx, UNCHANGED contribution PROVE NoClaim
  BY <1>0, <1>6 DEF NoTx, NoClaim
<1>7. QED
  BY <1>2, <1>4, <1>5, <1>6 DEF Next, Initialize, SetRegistry, Tick, Deposit

\* The events f tell of a payment by investor i to campaign id, and of a claim.
Gave(f, id, i) == \E k \in DOMAIN f : IsGift(f[k], id, i)

PaidOut(f, id, i) ==
  \E k \in DOMAIN f : f[k].id = id /\ f[k].who = i /\ f[k].name \in Claims

\* Whoever was paid out has no stake, in a campaign that takes no more; whoever paid has
\* one or was paid out, in a campaign with funds.
CardInv ==
  \A id \in CampaignIds, i \in Investors :
    /\ PaidOut(feed, id, i) => contribution[id][i] = 0 /\ Divided(id)
    /\ Gave(feed, id, i) =>
         /\ contribution[id][i] > 0 \/ PaidOut(feed, id, i)
         /\ campaign[id].total_funded > 0

\* The feed keeps its events, and what it adds are the transaction's.
LEMMA FeedGrows ==
  ASSUME IInv, IInv', ChainInv, FeedInv, ViewNext
  PROVE  /\ \A k \in DOMAIN feed : k \in DOMAIN feed' /\ feed'[k] = feed[k]
         /\ \A j \in DOMAIN tx'.events : \E k \in DOMAIN feed' :
              /\ feed'[k].name = tx'.events[j].name /\ feed'[k].id = tx'.events[j].id
              /\ feed'[k].who = tx'.events[j].who
         /\ \A k \in DOMAIN feed' : k \in DOMAIN feed \/ \E j \in DOMAIN tx'.events :
              /\ feed'[k].name = tx'.events[j].name /\ feed'[k].id = tx'.events[j].id
              /\ feed'[k].who = tx'.events[j].who
<1>1. /\ feed \in Seq(FeedEntry) /\ MoreFed \in Seq(FeedEntry) /\ feed' = feed \o MoreFed
      /\ DOMAIN MoreFed = DOMAIN tx'.events
      /\ \A j \in DOMAIN MoreFed : /\ MoreFed[j].name = tx'.events[j].name
                                   /\ MoreFed[j].id = tx'.events[j].id
                                   /\ MoreFed[j].who = tx'.events[j].who
  BY FeedStep DEF FeedInv
<1> DEFINE n == Len(feed)
           m == Len(MoreFed)
<1>2. /\ n \in Nat /\ m \in Nat /\ DOMAIN feed = 1 .. n /\ DOMAIN MoreFed = 1 .. m
      /\ feed' \in Seq(FeedEntry) /\ Len(feed') = n + m
      /\ \A k \in 1 .. n : feed'[k] = feed[k]
      /\ \A k \in n + 1 .. n + m : feed'[k] = MoreFed[k - n]
  BY <1>1, TwoParts
<1>3. DOMAIN feed' = 1 .. n + m
  BY <1>2, LenProperties
<1> HIDE DEF n, m
<1>4. \A k \in DOMAIN feed : k \in DOMAIN feed' /\ feed'[k] = feed[k]
  BY <1>2, <1>3
<1>5. ASSUME NEW j \in DOMAIN tx'.events
      PROVE  \E k \in DOMAIN feed' :
               /\ feed'[k].name = tx'.events[j].name /\ feed'[k].id = tx'.events[j].id
               /\ feed'[k].who = tx'.events[j].who
  <2>1. j \in 1 .. m /\ n + j \in n + 1 .. n + m /\ (n + j) - n = j
    BY <1>1, <1>2
  <2>2. n + j \in DOMAIN feed' /\ feed'[n + j] = MoreFed[j]
    BY <1>2, <1>3, <2>1
  <2>3. QED
    BY <1>1, <2>2
<1>6. ASSUME NEW k \in DOMAIN feed', k \notin DOMAIN feed
      PROVE  \E j \in DOMAIN tx'.events :
               /\ feed'[k].name = tx'.events[j].name /\ feed'[k].id = tx'.events[j].id
               /\ feed'[k].who = tx'.events[j].who
  <2>1. k \in n + 1 .. n + m /\ k - n \in 1 .. m
    BY <1>2, <1>3, <1>6
  <2>2. k - n \in DOMAIN tx'.events /\ feed'[k] = MoreFed[k - n]
    BY <1>1, <1>2, <2>1
  <2>3. QED
    BY <1>1, <2>2
<1>7. QED
  BY <1>4, <1>5, <1>6

\* Nothing was told.
LEMMA CardInit == ViewInit => CardInv
<1> SUFFICES ASSUME ViewInit PROVE CardInv
  OBVIOUS
<1>1. DOMAIN feed = {}
  BY DEF ViewInit
<1>2. QED
  BY <1>1 DEF CardInv, Gave, PaidOut

\* Every step of the views keeps it.
LEMMA CardKept ==
  ASSUME IInv, IInv', ChainInv, FeedInv, CardInv, [ViewNext]_viewVars
  PROVE  CardInv'
<1>1. CASE UNCHANGED viewVars
  BY <1>1 DEF viewVars, indexerVars, vars, CardInv, Divided
<1>2. CASE ViewNext
  <2> SUFFICES ASSUME NEW id \in CampaignIds, NEW i \in Investors
               PROVE  /\ PaidOut(feed', id, i) => contribution'[id][i] = 0 /\ Divided(id)'
                      /\ Gave(feed', id, i) =>
                           /\ contribution'[id][i] > 0 \/ PaidOut(feed', id, i)
                           /\ campaign'[id].total_funded > 0
    BY DEF CardInv
  <2>1. /\ \A k \in DOMAIN feed : k \in DOMAIN feed' /\ feed'[k] = feed[k]
        /\ \A j \in DOMAIN tx'.events : \E k \in DOMAIN feed' :
             /\ feed'[k].name = tx'.events[j].name /\ feed'[k].id = tx'.events[j].id
             /\ feed'[k].who = tx'.events[j].who
        /\ \A k \in DOMAIN feed' : k \in DOMAIN feed \/ \E j \in DOMAIN tx'.events :
             /\ feed'[k].name = tx'.events[j].name /\ feed'[k].id = tx'.events[j].id
             /\ feed'[k].who = tx'.events[j].who
    BY <1>2, FeedGrows
  <2>2. /\ contribution \in [CampaignIds -> [Investors -> Nat]]
        /\ contribution[id][i] \in Nat /\ contribution'[id][i] \in Nat
        /\ campaign[id].total_funded \in Nat /\ campaign'[id].total_funded \in Nat
    <3>1. /\ campaign \in [CampaignIds -> Campaign] /\ campaign' \in [CampaignIds -> Campaign]
          /\ contribution \in [CampaignIds -> [Investors -> Nat]]
          /\ contribution' \in [CampaignIds -> [Investors -> Nat]]
      BY DEF IInv, TypeOK
    <3>2. QED
      BY <3>1 DEF Campaign
  <2>3. /\ PaidOut(feed, id, i) => contribution[id][i] = 0 /\ Divided(id)
        /\ Gave(feed, id, i) =>
             /\ contribution[id][i] > 0 \/ PaidOut(feed, id, i)
             /\ campaign[id].total_funded > 0
    BY DEF CardInv
  <2>4. Next
    BY <1>2 DEF ViewNext, Invoke
  <2>5. PaidOut(feed, id, i) => PaidOut(feed', id, i)
    BY <2>1 DEF PaidOut
  <2>6. ASSUME NEW o \in CampaignIds, NEW m \in Investors, OneClaim(o, m), StakeRedeemed(o, m)
        PROVE  /\ PaidOut(feed', id, i) => contribution'[id][i] = 0 /\ Divided(id)'
               /\ Gave(feed', id, i) =>
                    /\ contribution'[id][i] > 0 \/ PaidOut(feed', id, i)
                    /\ campaign'[id].total_funded > 0
    <3>1. PICK e : tx'.events = <<e>> /\ e.name \in Claims /\ e.id = o /\ e.who = m
      BY <2>6 DEF OneClaim
    <3>2. DOMAIN tx'.events = {1} /\ tx'.events[1] = e
      BY <3>1
    <3>3. Gave(feed', id, i) => Gave(feed, id, i)
      BY <2>1, <3>1, <3>2 DEF Gave, IsGift, Claims
    <3>4. PaidOut(feed', id, i) => PaidOut(feed, id, i) \/ (id = o /\ i = m)
      BY <2>1, <3>1, <3>2 DEF PaidOut
    <3>5. PaidOut(feed', o, m)
      BY <2>1, <3>1, <3>2 DEF PaidOut
    <3>6. /\ contribution'[id][i] = IF id = o /\ i = m THEN 0 ELSE contribution[id][i]
          /\ campaign' = campaign /\ Divided(o)
      BY <2>2, <2>6 DEF StakeRedeemed
    <3>7. Divided(id) => Divided(id)'
      BY <3>6 DEF Divided
    <3>8. CASE id = o /\ i = m
      <4>1. Divided(id)'
        BY <3>6, <3>7, <3>8
      <4>2. QED
        BY <2>3, <3>3, <3>5, <3>6, <3>8, <4>1
    <3>9. CASE ~(id = o /\ i = m)
      BY <2>3, <2>5, <3>3, <3>4, <3>6, <3>7, <3>9
    <3>10. QED
      BY <3>8, <3>9
  <2>7. CASE NoClaim
    <3>1. PaidOut(feed', id, i) => PaidOut(feed, id, i)
      BY <2>1, <2>7 DEF PaidOut, NoClaim
    <3>2. contribution'[id][i] >= contribution[id][i]
      BY <2>7 DEF NoClaim
    <3>3. /\ campaign'[id].total_funded >= campaign[id].total_funded
          /\ Divided(id) => Divided(id)' /\ contribution'[id][i] = contribution[id][i]
      <4>1. CASE BooksKept
        BY <2>2, <4>1 DEF BooksKept, Divided
      <4>2. ASSUME NEW o \in CampaignIds, NEW m \in Investors, NEW amount \in Nat,
                   StakeAdded(o, m, amount)
            PROVE  /\ campaign'[id].total_funded >= campaign[id].total_funded
                   /\ Divided(id) => Divided(id)' /\ contribution'[id][i] = contribution[id][i]
        <5>1. campaign'[id].total_funded >= campaign[id].total_funded
          BY <2>2, <4>2 DEF StakeAdded
        <5>2. Divided(id) => Divided(id)' /\ id # o
          BY <4>2 DEF StakeAdded, Divided
        <5>3. id # o => contribution'[id][i] = contribution[id][i]
          BY <2>2, <4>2 DEF StakeAdded
        <5>4. QED
          BY <5>1, <5>2, <5>3
      <4>3. ASSUME NEW o \in CampaignIds, NEW m \in Investors, StakeRedeemed(o, m)
            PROVE  FALSE
        <5>1. contribution'[o][m] = 0 /\ contribution[o][m] > 0
          BY <2>2, <4>3 DEF StakeRedeemed
        <5>2. contribution'[o][m] >= contribution[o][m] /\ contribution[o][m] \in Nat
          BY <2>2, <2>7 DEF NoClaim
        <5>3. QED
          BY <5>1, <5>2
      <4>4. QED
        BY <2>4, <4>1, <4>2, <4>3, BooksStep
    <3>4. /\ Gave(feed', id, i) /\ ~Gave(feed, id, i) =>
               contribution'[id][i] > 0 /\ campaign'[id].total_funded > 0
      <4>1. CASE NoGift
        <5>1. Gave(feed', id, i) => Gave(feed, id, i)
          BY <2>1, <4>1 DEF Gave, IsGift, NoGift
        <5>2. QED
          BY <5>1
      <4>2. ASSUME NEW o \in CampaignIds, NEW m \in Investors, NEW amount \in Nat,
                   OneGift(o, m, amount), StakeAdded(o, m, amount)
            PROVE  Gave(feed', id, i) /\ ~Gave(feed, id, i) =>
                     contribution'[id][i] > 0 /\ campaign'[id].total_funded > 0
        <5>1. Gave(feed', id, i) => Gave(feed, id, i) \/ (id = o /\ i = m)
          BY <2>1, <4>2 DEF Gave, IsGift, OneGift
        <5>2. (id = o /\ i = m) => contribution'[id][i] > 0 /\ campaign'[id].total_funded > 0
          BY <2>2, <4>2 DEF StakeAdded
        <5>3. QED
          BY <5>1, <5>2
      <4>3. QED
        BY <2>4, <4>1, <4>2, GiftsTold
    <3>5. QED
      BY <2>2, <2>3, <2>5, <3>1, <3>2, <3>3, <3>4
  <2>8. QED
    BY <2>4, <2>6, <2>7, ClaimsTold
<1>3. QED
  BY <1>1, <1>2

\* A card's campaign is one its investor is told to have paid to.
LEMMA CardsTold == IInv /\ FeedInv /\ CardInv => CardsTruthful
<1> SUFFICES ASSUME IInv, FeedInv, CardInv, NEW i \in Investors, NEW id \in PortfolioIds(i)
             PROVE  /\ Claimed(i, id) <=>
                         \E e \in Range(feed) : /\ e.id = id /\ e.who = i
                                                /\ e.name \in {"RefundClaimed", "ReturnClaimed"}
                    /\ ProRata(contribution[id][i], Pool(id), campaign[id].total_funded)
                         <= ShownClaimable(campaign[id])
  BY DEF CardsTruthful
<1>1. \A e \in Range(RecentEvents) : \E k \in DOMAIN feed : e = feed[k]
  <2>1. PICK a \in 1 .. Len(feed) + 1 : \E m \in Nat :
          /\ a + m - 1 <= Len(feed) /\ DOMAIN RecentEvents = 1 .. m
          /\ \A j \in 1 .. m : RecentEvents[j] = feed[a + j - 1]
    BY Loaded
  <2>2. PICK m \in Nat : /\ a + m - 1 <= Len(feed) /\ DOMAIN RecentEvents = 1 .. m
                         /\ \A j \in 1 .. m : RecentEvents[j] = feed[a + j - 1]
    BY <2>1
  <2>3. Len(feed) \in Nat /\ DOMAIN feed = 1 .. Len(feed)
    BY LenProperties DEF FeedInv
  <2>4. \A j \in 1 .. m : a + j - 1 \in DOMAIN feed
    BY <2>2, <2>3
  <2>5. QED
    BY <2>2, <2>4 DEF Range
<1>2. PICK e \in Range(RecentEvents) : e.id = id /\ e.name = "ContribReceived" /\ e.who = i
  BY DEF PortfolioIds
<1>3. PICK k \in DOMAIN feed : IsGift(feed[k], id, i)
  BY <1>1, <1>2 DEF IsGift
<1>4. id \in CampaignIds /\ Gave(feed, id, i)
  <2>1. feed[k] \in FeedEntry
    BY LenProperties, ElementOfSeq DEF FeedInv
  <2>2. QED
    BY <1>3, <2>1 DEF IsGift, FeedEntry, Gave
<1>5. /\ contribution[id][i] > 0 \/ PaidOut(feed, id, i)
      /\ PaidOut(feed, id, i) => contribution[id][i] = 0
      /\ campaign[id].total_funded > 0
  BY <1>4 DEF CardInv
<1>6. PaidOut(feed, id, i) <=>
        \E x \in Range(feed) : /\ x.id = id /\ x.who = i
                               /\ x.name \in {"RefundClaimed", "ReturnClaimed"}
  BY DEF PaidOut, Claims, Range
<1>7. Claimed(i, id) <=> PaidOut(feed, id, i)
  BY <1>5 DEF Claimed
<1>8. ProRata(contribution[id][i], Pool(id), campaign[id].total_funded)
        <= ShownClaimable(campaign[id])
  <2> DEFINE c == campaign[id]
             s == contribution[id][i]
             p == Pool(id)
             t == c.total_funded
  <2>1. /\ s \in Nat /\ t \in Nat /\ t > 0 /\ s <= t
        /\ c.refundable \in Nat /\ c.returnable \in Nat
    BY <1>4, <1>5 DEF IInv, TypeOK, Campaign, StakesWithinTotal
  <2>2. PoolsAgree(c)
    BY <1>4 DEF IInv, GoodCampaign
  <2>3. p = ShownClaimable(c) /\ p \in Nat
    BY <2>1, <2>2 DEF PoolsAgree, ShownClaimable, Pool
  <2> HIDE DEF s, p, t
  <2>4. ProRata(s, p, t) <= p
    <3> DEFINE q == (s * p) \div t
    <3>1. s * p \in Nat /\ s * p <= t * p /\ t \in Nat \ {0}
      BY <2>1, <2>3
    <3>2. q \in Nat /\ q * t <= s * p
      BY <3>1, DivBounds
    <3> HIDE DEF q
    <3>3. q * t <= t * p
      BY <2>1, <2>3, <3>1, <3>2
    <3>4. q <= p
      BY <2>1, <2>3, <3>2, <3>3
    <3>5. QED
      BY <3>4 DEF q, ProRata
  <2>5. QED
    BY <2>3, <2>4 DEF s, p, t
<1>9. QED
  BY <1>6, <1>7, <1>8

\* CardsTruthful, for any number of campaigns, investors and events and for any look-back
\* and page cap: a card says Claimed exactly when the contract has paid that investor, and
\* shows at least what a claim would pay.
THEOREM CardsSayTruth == ViewSpec => []CardsTruthful
<1>1. /\ IInv /\ ChainInv /\ FaithInv
      /\ (IInv /\ ChainInv /\ FaithInv)'
      /\ FeedInv /\ GivenInv /\ CardInv /\ [ViewNext]_viewVars
      => (FeedInv /\ GivenInv /\ CardInv)'
  BY GivenKept, CardKept
<1>2. IInv /\ FeedInv /\ CardInv => CardsTruthful
  BY CardsTold
<1>3. QED
  BY <1>1, <1>2, GivenInit, CardInit, ViewFollows, FaithAlways, PTL DEF ViewSpec

=============================================================================
