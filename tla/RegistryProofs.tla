--------------------------- MODULE RegistryProofs ---------------------------
(***************************************************************************)
(* Proofs about the registry's storage: what the calls of one transaction  *)
(* do to it, for every value of the constants.                             *)
(***************************************************************************)
EXTENDS Registry, TLAPS, FiniteSetTheorems, SequenceTheorems

-----------------------------------------------------------------------------
(* The calls of one transaction, one after the other.  No escrow invocation  *)
(* makes more than two.                                                      *)

\* The storage after calls 1 .. n have been served, as the fold computes it.
Serves(contract, calls, base, g) ==
  g = [s \in SUBSET DOMAIN calls |->
         IF s = {} THEN base ELSE Served(g[s \ {Max(s)}], contract, calls[Max(s)])]

\* The fold is the value of a solution of its recursion at all the calls.
LEMMA ServeUnfolds ==
  ASSUME NEW contract, NEW calls, NEW g, Serves(contract, calls, store, g),
         \A h : Serves(contract, calls, store, h) => h[DOMAIN calls] = g[DOMAIN calls],
         Serve(contract, calls)
  PROVE  store' = g[DOMAIN calls]
<1> DEFINE c == CHOOSE h : Serves(contract, calls, store, h)
<1>1. Serves(contract, calls, store, c)
  OBVIOUS
<1>2. store' = c[DOMAIN calls]
  BY DEF Serve, FoldLeft, MapThenFoldSet, Serves
<1>3. QED
  BY <1>1, <1>2

\* A transaction without registry calls leaves the storage alone.
LEMMA ServeNone ==
  ASSUME NEW contract, Serve(contract, <<>>)
  PROVE  store' = store
<1> DEFINE g == [s \in SUBSET {} |-> store]
<1>1. DOMAIN <<>> = {}
  OBVIOUS
<1>2. \A h : Serves(contract, <<>>, store, h) => h[{}] = store
  BY <1>1 DEF Serves
<1>3. Serves(contract, <<>>, store, g) /\ g[{}] = store
  <2>1. \A s \in SUBSET {} : s = {}
    OBVIOUS
  <2>2. QED
    BY <1>1, <2>1 DEF Serves
<1> HIDE DEF g
<1>4. QED
  BY <1>1, <1>2, <1>3, ServeUnfolds

\* One call is served on the storage the transaction finds.
LEMMA ServeOne ==
  ASSUME NEW contract, NEW a, Serve(contract, <<a>>)
  PROVE  Accepts(store, contract, a) /\ store' = Served(store, contract, a)
<1> DEFINE calls == <<a>>
           A == Served(store, contract, a)
           g == [s \in SUBSET {1} |-> IF s = {} THEN store ELSE A]
<1>1. DOMAIN calls = {1} /\ calls[1] = a
  OBVIOUS
<1>2. Max({1}) = 1
  BY DEF Max
<1>3. \A s \in SUBSET {1} : s = {} \/ s = {1}
  OBVIOUS
<1>4. Accepts(store, contract, a)
  BY <1>1 DEF Serve
<1> HIDE DEF calls
<1>5. ASSUME NEW h, Serves(contract, calls, store, h) PROVE h[DOMAIN calls] = A
  <2> DEFINE body(s) == IF s = {} THEN store
                        ELSE Served(h[s \ {Max(s)}], contract, calls[Max(s)])
  <2>1. h = [s \in SUBSET {1} |-> body(s)]
    BY <1>1, <1>5 DEF Serves
  <2> HIDE DEF body
  <2>2. h[{}] = body({}) /\ h[{1}] = body({1})
    BY <2>1
  <2>3. {1} \ {1} = {} /\ {1} # {}
    OBVIOUS
  <2>4. QED
    BY <1>1, <1>2, <2>2, <2>3 DEF body
<1> HIDE DEF A
<1>6. Serves(contract, calls, store, g) /\ g[DOMAIN calls] = A
  <2>1. g[{}] = store /\ g[{1}] = A /\ {1} \ {1} = {} /\ {1} # {}
    OBVIOUS
  <2> DEFINE body(s) == IF s = {} THEN store
                        ELSE Served(g[s \ {Max(s)}], contract, calls[Max(s)])
  <2>2. body({}) = g[{}] /\ body({1}) = g[{1}]
    BY <1>1, <1>2, <2>1 DEF A
  <2>3. g = [s \in SUBSET {1} |-> g[s]]
    OBVIOUS
  <2> HIDE DEF g, body
  <2>4. \A s \in SUBSET {1} : g[s] = body(s)
    BY <1>3, <2>2
  <2>5. g = [s \in SUBSET {1} |-> body(s)]
    BY <2>3, <2>4 DEF body
  <2>6. QED
    BY <1>1, <2>1, <2>5 DEF Serves, body
<1> HIDE DEF g
<1>7. QED
  BY <1>4, <1>5, <1>6, ServeUnfolds DEF A, calls

\* The second call is served on what the first one leaves.
LEMMA ServeTwo ==
  ASSUME NEW contract, NEW a, NEW b, Serve(contract, <<a, b>>)
  PROVE  /\ Accepts(store, contract, a) /\ Accepts(store, contract, b)
         /\ store' = Served(Served(store, contract, a), contract, b)
<1> DEFINE calls == <<a, b>>
           A == Served(store, contract, a)
           B == Served(A, contract, b)
           C == Served(store, contract, b)
           g == [s \in SUBSET {1, 2} |->
                   IF s = {} THEN store ELSE IF s = {1} THEN A ELSE IF s = {2} THEN C ELSE B]
<1>1. DOMAIN calls = {1, 2} /\ calls[1] = a /\ calls[2] = b
  OBVIOUS
<1>2. Max({1}) = 1 /\ Max({2}) = 2 /\ Max({1, 2}) = 2
  BY DEF Max
<1>3. \A s \in SUBSET {1, 2} : s = {} \/ s = {1} \/ s = {2} \/ s = {1, 2}
  OBVIOUS
<1>a. /\ {1} \ {1} = {} /\ {2} \ {2} = {} /\ {1, 2} \ {2} = {1}
      /\ {1} # {} /\ {2} # {} /\ {1, 2} # {} /\ {1} # {2} /\ {1, 2} # {1} /\ {1, 2} # {2}
      /\ {} \in SUBSET {1, 2} /\ {1} \in SUBSET {1, 2} /\ {2} \in SUBSET {1, 2}
      /\ {1, 2} \in SUBSET {1, 2}
  OBVIOUS
<1>4. Accepts(store, contract, a) /\ Accepts(store, contract, b)
  BY <1>1 DEF Serve
<1> HIDE DEF calls
<1>5. ASSUME NEW h, Serves(contract, calls, store, h) PROVE h[DOMAIN calls] = B
  <2> DEFINE body(s) == IF s = {} THEN store
                        ELSE Served(h[s \ {Max(s)}], contract, calls[Max(s)])
  <2>1. h = [s \in SUBSET {1, 2} |-> body(s)]
    BY <1>1, <1>5 DEF Serves
  <2> HIDE DEF body
  <2>2. h[{}] = body({}) /\ h[{1}] = body({1}) /\ h[{1, 2}] = body({1, 2})
    BY <1>a, <2>1
  <2>3. h[{}] = store /\ h[{1}] = A
    BY <1>1, <1>2, <1>a, <2>2 DEF body
  <2>4. h[{1, 2}] = B
    BY <1>1, <1>2, <1>a, <2>2, <2>3 DEF body
  <2>5. QED
    BY <1>1, <2>4
<1> HIDE DEF A, B, C
<1>6. Serves(contract, calls, store, g) /\ g[DOMAIN calls] = B
  <2>1. g[{}] = store /\ g[{1}] = A /\ g[{2}] = C /\ g[{1, 2}] = B
    BY <1>a
  <2> DEFINE body(s) == IF s = {} THEN store
                        ELSE Served(g[s \ {Max(s)}], contract, calls[Max(s)])
  <2>2. g = [s \in SUBSET {1, 2} |-> g[s]]
    OBVIOUS
  <2> HIDE DEF g
  <2>3. body({}) = g[{}] /\ body({1}) = g[{1}] /\ body({2}) = g[{2}]
    BY <1>1, <1>2, <1>a, <2>1 DEF A, C
  <2>4. body({1, 2}) = g[{1, 2}]
    BY <1>1, <1>2, <1>a, <2>1 DEF B
  <2> HIDE DEF body
  <2>5. \A s \in SUBSET {1, 2} : g[s] = body(s)
    BY <1>3, <2>3, <2>4
  <2>6. g = [s \in SUBSET {1, 2} |-> body(s)]
    BY <2>2, <2>5 DEF body
  <2>7. QED
    BY <1>1, <2>1, <2>6 DEF Serves, body
<1> HIDE DEF g
<1>7. QED
  BY <1>4, <1>5, <1>6, ServeUnfolds DEF A, B, calls

-----------------------------------------------------------------------------
(* Lists kept in pages.                                                      *)

Elements(pages) == UNION {Range(pages[p]) : p \in DOMAIN pages}

\* Appending keeps the pages as they should be, adds one entry, and alters none.
LEMMA AppendPagedKeeps ==
  ASSUME NEW S, NEW pages \in Seq(Seq(S)), Paged(pages), NEW x \in S
  PROVE  LET new == AppendPaged(pages, x) IN
         /\ new \in Seq(Seq(S)) /\ Paged(new)
         /\ Elements(new) = Elements(pages) \cup {x}
         /\ Entries(pages) \in Nat /\ Entries(new) = Entries(pages) + 1
         /\ \A p \in DOMAIN pages : p \in DOMAIN new /\ IsPrefix(pages[p], new[p])
<1> DEFINE new == AppendPaged(pages, x)
           n == Len(pages)
<1>a. PageSize \in Nat /\ PageSize >= 1 /\ n \in Nat /\ DOMAIN pages = 1 .. n
  BY RegistryConstants
<1>b. \A p \in 1 .. n :
        /\ pages[p] \in Seq(S) /\ Len(pages[p]) \in 1 .. PageSize
        /\ p < n => Len(pages[p]) = PageSize
  BY <1>a DEF Paged
<1>c. /\ pages = <<>> <=> n = 0
      /\ Len(pages) = n /\ Last(pages) = pages[n]
  BY DEF Last
<1>d. \A s \in Seq(S) : IsPrefix(s, s)
  BY DEF IsPrefix
<1> HIDE DEF n
<1>1. CASE n = 0 \/ Len(pages[n]) = PageSize
  <2>1. new = Append(pages, <<x>>)
    BY <1>1, <1>a, <1>c DEF AppendPaged
  <2>2. /\ new \in Seq(Seq(S)) /\ Len(new) = n + 1 /\ DOMAIN new = 1 .. (n + 1)
        /\ \A p \in 1 .. n : new[p] = pages[p]
        /\ new[n + 1] = <<x>> /\ Len(<<x>>) = 1
    BY <2>1, <1>a, <1>c
  <2> HIDE DEF new
  <2>a. Len(new[n + 1]) = 1
    <3>1. Len(<<x>>) = 1 /\ new[n + 1] = <<x>>
      BY <2>2
    <3>2. QED
      BY <3>1, Zenon
  <2>3. Paged(new)
    <3>1. SUFFICES ASSUME NEW p \in 1 .. (n + 1)
                   PROVE  Len(new[p]) \in 1 .. PageSize /\ (p < n + 1 => Len(new[p]) = PageSize)
      BY <2>2 DEF Paged
    <3>2. CASE p = n + 1
      <4>1. Len(new[p]) = 1 /\ ~(p < n + 1)
        BY <1>a, <2>a, <3>2
      <4>2. QED
        BY <1>a, <4>1
    <3>3. CASE p \in 1 .. n
      <4>1. p < n \/ p = n
        BY <1>a, <3>3
      <4>2. QED
        BY <1>1, <1>a, <1>b, <2>2, <3>3, <4>1
    <3>4. QED
      BY <1>a, <3>2, <3>3
  <2>4. Range(<<x>>) = {x}
    BY DEF Range
  <2>5. Elements(new) = Elements(pages) \cup {x}
    <3>1. \A e : e \in Elements(new) => e \in Elements(pages) \cup {x}
      <4>1. SUFFICES ASSUME NEW p \in 1 .. (n + 1), NEW e \in Range(new[p])
                     PROVE  e \in Elements(pages) \cup {x}
        BY <2>2 DEF Elements
      <4>2. p = n + 1 \/ p \in 1 .. n
        BY <1>a
      <4>3. QED
        BY <1>a, <2>2, <2>4, <4>2 DEF Elements
    <3>2. \A e \in Elements(pages) : e \in Elements(new)
      <4>1. SUFFICES ASSUME NEW p \in 1 .. n, NEW e \in Range(pages[p])
                     PROVE  e \in Elements(new)
        BY <1>a DEF Elements
      <4>2. p \in DOMAIN new /\ new[p] = pages[p]
        BY <1>a, <2>2
      <4>3. QED
        BY <4>2 DEF Elements
    <3>3. x \in Elements(new)
      <4>1. n + 1 \in DOMAIN new
        BY <1>a, <2>2
      <4>2. QED
        BY <2>2, <2>4, <4>1 DEF Elements
    <3>4. QED
      BY <3>1, <3>2, <3>3
  <2>6. Entries(new) = n * PageSize + 1
    <3>1. new # <<>> /\ Len(Last(new)) = 1
      BY <1>a, <2>2 DEF Last
    <3>2. QED
      BY <1>a, <2>2, <3>1 DEF Entries
  <2>7. Entries(pages) = n * PageSize
    <3>1. CASE n = 0
      BY <1>a, <1>c, <3>1 DEF Entries
    <3>2. CASE n # 0
      <4>1. Entries(pages) = (n - 1) * PageSize + PageSize
        BY <1>1, <1>c, <3>2 DEF Entries
      <4>2. QED
        BY <1>a, <4>1
    <3>3. QED
      BY <3>1, <3>2
  <2>8. n * PageSize \in Nat
    BY <1>a
  <2>9. QED
    <3>1. \A p \in DOMAIN pages : p \in DOMAIN new /\ IsPrefix(pages[p], new[p])
      BY <1>a, <1>b, <1>d, <2>2
    <3> HIDE DEF n
    <3>2. Entries(pages) \in Nat /\ Entries(new) = Entries(pages) + 1
      BY <2>6, <2>7, <2>8
    <3>3. QED
      BY <2>2, <2>3, <2>5, <3>1, <3>2 DEF new
<1>2. CASE n # 0 /\ Len(pages[n]) # PageSize
  <2> DEFINE last == Append(pages[n], x)
  <2>1. n \in 1 .. n /\ Len(pages[n]) \in 1 .. (PageSize - 1)
    BY <1>2, <1>a, <1>b
  <2>2. new = [pages EXCEPT ![n] = last]
    BY <1>2, <1>a, <1>c, <2>1 DEF AppendPaged
  <2>3. /\ last \in Seq(S) /\ Len(last) = Len(pages[n]) + 1
        /\ \A i \in 1 .. Len(pages[n]) : last[i] = pages[n][i]
        /\ last[Len(pages[n]) + 1] = x
    BY <1>b, <2>1
  <2> HIDE DEF last
  <2>4. /\ new \in Seq(Seq(S)) /\ Len(new) = n /\ DOMAIN new = 1 .. n
        /\ \A p \in 1 .. n : new[p] = IF p = n THEN last ELSE pages[p]
    BY <1>a, <2>1, <2>2, <2>3
  <2> HIDE DEF new
  <2>5. Paged(new)
    <3>1. SUFFICES ASSUME NEW p \in 1 .. n
                   PROVE  Len(new[p]) \in 1 .. PageSize /\ (p < n => Len(new[p]) = PageSize)
      BY <2>4 DEF Paged
    <3>2. CASE p = n
      BY <1>a, <2>1, <2>3, <2>4, <3>2
    <3>3. CASE p # n
      BY <1>b, <2>4, <3>3
    <3>4. QED
      BY <3>2, <3>3
  <2>6. Range(last) = Range(pages[n]) \cup {x}
    <3> DEFINE m == Len(pages[n])
    <3>1. /\ DOMAIN last = 1 .. (m + 1) /\ DOMAIN pages[n] = 1 .. m /\ m \in Nat
      BY <1>b, <2>1, <2>3
    <3> HIDE DEF m
    <3>2. \A i \in 1 .. (m + 1) : i \in 1 .. m \/ i = m + 1
      BY <3>1
    <3>3. \A i \in 1 .. m : i \in 1 .. (m + 1)
      BY <3>1
    <3>4. m + 1 \in 1 .. (m + 1)
      BY <3>1
    <3>5. (\A i \in 1 .. m : last[i] = pages[n][i]) /\ last[m + 1] = x
      BY <2>3 DEF m
    <3> DEFINE old == pages[n]
    <3> HIDE DEF old
    <3>6. Range(last) = Range(old) \cup {x}
      BY <3>1, <3>2, <3>3, <3>4, <3>5 DEF Range, old
    <3>7. QED
      BY <3>6 DEF old
  <2>7. Elements(new) = Elements(pages) \cup {x}
    <3>1. \A e : e \in Elements(new) => e \in Elements(pages) \cup {x}
      <4>1. SUFFICES ASSUME NEW p \in 1 .. n, NEW e \in Range(new[p])
                     PROVE  e \in Elements(pages) \cup {x}
        BY <2>4 DEF Elements
      <4>2. e \in Range(pages[p]) \cup {x}
        BY <2>4, <2>6
      <4>3. QED
        BY <1>a, <4>2 DEF Elements
    <3>2. \A e \in Elements(pages) : e \in Elements(new)
      <4>1. SUFFICES ASSUME NEW p \in 1 .. n, NEW e \in Range(pages[p])
                     PROVE  e \in Elements(new)
        BY <1>a DEF Elements
      <4>2. p \in DOMAIN new /\ e \in Range(new[p])
        BY <2>4, <2>6
      <4>3. QED
        BY <4>2 DEF Elements
    <3>3. x \in Elements(new)
      <4>1. n \in DOMAIN new /\ x \in Range(new[n])
        BY <2>1, <2>4, <2>6
      <4>2. QED
        BY <4>1 DEF Elements
    <3>4. QED
      BY <3>1, <3>2, <3>3
  <2>8. Entries(new) = (n - 1) * PageSize + (Len(pages[n]) + 1)
    <3>1. new # <<>> /\ Len(Last(new)) = Len(pages[n]) + 1
      BY <1>2, <1>a, <2>1, <2>3, <2>4 DEF Last
    <3>2. QED
      BY <1>a, <2>4, <3>1 DEF Entries
  <2>9. Entries(pages) = (n - 1) * PageSize + Len(pages[n])
    BY <1>2, <1>c DEF Entries, Last
  <2>10. (n - 1) * PageSize \in Nat
    BY <1>2, <1>a
  <2>11. IsPrefix(pages[n], last)
    <3>1. SubSeq(pages[n], 1, Len(pages[n])) = SubSeq(last, 1, Len(pages[n]))
      BY <1>b, <2>1, <2>3
    <3>2. QED
      BY <2>1, <2>3, <3>1 DEF IsPrefix
  <2>12. \A p \in DOMAIN pages : p \in DOMAIN new /\ IsPrefix(pages[p], new[p])
    BY <1>a, <1>b, <1>d, <2>4, <2>11
  <2>13. QED
    BY <2>1, <2>4, <2>5, <2>7, <2>8, <2>9, <2>10, <2>12 DEF new
<1>3. QED
  BY <1>1, <1>2

-----------------------------------------------------------------------------
(* What every storage satisfies, and what the operations on it preserve.     *)

\* the activities that a contract records
ByEscrow ==
  {"CampaignCreated", "CampaignFunded", "CampaignStatusChanged", "FundsReleased",
   "HarvestReported", "DisputeInitiated", "DisputeResolved", "CampaignSettled"}

Entry == [actor : People \cup Contracts, action : Actions \cup ByEscrow]

Record == [farmer : Owners \cup {Nobody}, escrow : Contracts \cup {Nobody},
           status : Statuses \cup {"Active", "None"}]

StoreType(s) ==
  /\ {"admin", "approved", "farmers", "info", "campaigns", "record", "byFarmer", "log"}
       \subseteq DOMAIN s
  /\ s.info \in [Ids -> Owners \cup {Nobody}]
  /\ s.campaigns \in Seq(Ids)
  /\ s.record \in [Ids -> Record]
  /\ s.byFarmer \in [Owners -> Seq(Seq(Ids))]
  /\ s.log \in [Ids -> Seq(Seq(Entry))]

InPages(s) ==
  /\ \A id \in Ids : Paged(s.log[id])
  /\ \A f \in Owners : Paged(s.byFarmer[f])

Known(s) == {id \in Ids : s.info[id] # Nobody \/ Linked(s, id)}

Enumerated(s) == IsInjective(s.campaigns) /\ Range(s.campaigns) = Known(s)

Mine(s, f) == {id \in Ids : s.record[id].farmer = f}

Listed(s) ==
  \A f \in Owners :
    /\ Elements(s.byFarmer[f]) = Mine(s, f)
    /\ IsFiniteSet(Mine(s, f)) /\ Entries(s.byFarmer[f]) = Cardinality(Mine(s, f))

\* A record is of the registered farmer, or of nobody.
OfRegistrant(s) ==
  \A id \in Ids :
    \/ ~Linked(s, id) /\ s.record[id].farmer = Nobody
    \/ Linked(s, id) /\ s.record[id].farmer = s.info[id] /\ s.info[id] \in Owners

StoreInv(s) ==
  StoreType(s) /\ InPages(s) /\ Enumerated(s) /\ Listed(s) /\ OfRegistrant(s)

\* The same lists and records; the rest may differ.
SameLists(s, t) ==
  /\ t.info = s.info /\ t.campaigns = s.campaigns
  /\ t.record = s.record /\ t.byFarmer = s.byFarmer

\* Every page keeps its place and its entries.
LogGrows(s, t) ==
  \A id \in Ids : \A page \in DOMAIN s.log[id] :
    /\ page \in DOMAIN t.log[id]
    /\ IsPrefix(s.log[id][page], t.log[id][page])

\* A fresh contract stores nothing.
LEMMA EmptyStoreInv == StoreInv(EmptyStore)
<1> DEFINE s == EmptyStore
<1>1. /\ DOMAIN s = {"admin", "approved", "farmers", "info", "campaigns", "record", "byFarmer",
                     "log"}
      /\ s.info = [id \in Ids |-> Nobody] /\ s.campaigns = <<>>
      /\ s.record = [id \in Ids |-> [farmer |-> Nobody, escrow |-> Nobody, status |-> "None"]]
      /\ s.byFarmer = [f \in Owners |-> <<>>] /\ s.log = [id \in Ids |-> <<>>]
  BY DEF EmptyStore
<1> HIDE DEF s
<1>2. \A S : <<>> \in Seq(Seq(S)) /\ <<>> \in Seq(S)
  OBVIOUS
<1>3. StoreType(s)
  BY <1>1, <1>2 DEF StoreType, Record
<1>4. Paged(<<>>) /\ Elements(<<>>) = {} /\ Entries(<<>>) = 0
  BY DEF Paged, Elements, Entries
<1>5. InPages(s)
  BY <1>1, <1>4 DEF InPages
<1>6. \A id \in Ids : s.info[id] = Nobody /\ ~Linked(s, id) /\ s.record[id].farmer = Nobody
  BY <1>1 DEF Linked
<1>7. Enumerated(s)
  <2>1. Range(<<>>) = {} /\ IsInjective(<<>>)
    BY DEF Range, IsInjective
  <2>2. Known(s) = {}
    BY <1>6 DEF Known
  <2>3. QED
    BY <1>1, <2>1, <2>2 DEF Enumerated
<1>8. Listed(s)
  <2>1. \A f \in Owners : Mine(s, f) = {}
    BY <1>6, RegistryConstants DEF Mine, People
  <2>2. IsFiniteSet({}) /\ Cardinality({}) = 0
    BY FS_EmptySet
  <2>3. \A f \in Owners : s.byFarmer[f] = <<>>
    BY <1>1
  <2>4. QED
    BY <1>4, <2>1, <2>2, <2>3 DEF Listed
<1>9. OfRegistrant(s)
  BY <1>6 DEF OfRegistrant
<1>10. QED
  BY <1>3, <1>5, <1>7, <1>8, <1>9 DEF StoreInv, s

\* The invariant does not look at the administration.
LEMMA SameListsKeep ==
  ASSUME NEW s, StoreInv(s), NEW t, SameLists(s, t), DOMAIN t = DOMAIN s,
         t.log \in [Ids -> Seq(Seq(Entry))], \A id \in Ids : Paged(t.log[id])
  PROVE  StoreInv(t)
<1>1. StoreType(t)
  BY DEF StoreInv, StoreType, SameLists
<1>2. InPages(t) /\ Enumerated(t) /\ Listed(t) /\ OfRegistrant(t)
  BY DEF StoreInv, InPages, Enumerated, Known, Listed, OfRegistrant, Mine, Linked, SameLists
<1>3. QED
  BY <1>1, <1>2 DEF StoreInv

\* Nothing written, nothing lost.
LEMMA SameLogGrows ==
  ASSUME NEW s, StoreType(s), NEW t, t.log = s.log
  PROVE  LogGrows(s, t)
<1>1. SUFFICES ASSUME NEW id \in Ids, NEW page \in DOMAIN s.log[id]
               PROVE  IsPrefix(s.log[id][page], s.log[id][page])
  BY DEF LogGrows
<1>2. s.log[id] \in Seq(Seq(Entry))
  BY DEF StoreType
<1>3. s.log[id][page] \in Seq(Entry)
  BY <1>2
<1>4. QED
  BY <1>3 DEF IsPrefix

\* An administrative write.
LEMMA AdministrationKeeps ==
  ASSUME NEW s, StoreInv(s), NEW v
  PROVE  /\ LET t == [s EXCEPT !.admin = v] IN StoreInv(t) /\ t.log = s.log
         /\ LET t == [s EXCEPT !.approved = v] IN StoreInv(t) /\ t.log = s.log
         /\ LET t == [s EXCEPT !.farmers = v] IN StoreInv(t) /\ t.log = s.log
<1>1. ASSUME NEW t, SameLists(s, t), t.log = s.log, DOMAIN t = DOMAIN s
      PROVE  StoreInv(t)
  BY <1>1, SameListsKeep DEF StoreInv, StoreType, InPages
<1>2. LET t == [s EXCEPT !.admin = v] IN
        SameLists(s, t) /\ t.log = s.log /\ DOMAIN t = DOMAIN s
  BY DEF StoreInv, StoreType, SameLists
<1>3. LET t == [s EXCEPT !.approved = v] IN
        SameLists(s, t) /\ t.log = s.log /\ DOMAIN t = DOMAIN s
  BY DEF StoreInv, StoreType, SameLists
<1>4. LET t == [s EXCEPT !.farmers = v] IN
        SameLists(s, t) /\ t.log = s.log /\ DOMAIN t = DOMAIN s
  BY DEF StoreInv, StoreType, SameLists
<1>5. QED
  BY <1>1, <1>2, <1>3, <1>4

\* An activity extends one campaign's log.
LEMMA RecordActivityKeeps ==
  ASSUME NEW s, StoreInv(s), NEW id \in Ids, NEW actor, NEW action,
         [actor |-> actor, action |-> action] \in Entry
  PROVE  LET t == RecordActivity(s, id, actor, action) IN
         StoreInv(t) /\ LogGrows(s, t) /\ SameLists(s, t) /\ DOMAIN t = DOMAIN s
<1> DEFINE t == RecordActivity(s, id, actor, action)
           new == AppendPaged(s.log[id], [actor |-> actor, action |-> action])
<1>1. StoreType(s) /\ s.log[id] \in Seq(Seq(Entry)) /\ Paged(s.log[id])
  BY DEF StoreInv, StoreType, InPages
<1>2. /\ new \in Seq(Seq(Entry)) /\ Paged(new)
      /\ \A p \in DOMAIN s.log[id] : p \in DOMAIN new /\ IsPrefix(s.log[id][p], new[p])
  BY <1>1, AppendPagedKeeps
<1>3. t = [s EXCEPT !.log = [s.log EXCEPT ![id] = new]]
  BY DEF RecordActivity
<1> HIDE DEF new, t
<1>4. DOMAIN t = DOMAIN s /\ SameLists(s, t) /\ t.log = [s.log EXCEPT ![id] = new]
  BY <1>1, <1>3 DEF StoreType, SameLists
<1>5. t.log \in [Ids -> Seq(Seq(Entry))] /\ \A o \in Ids : Paged(t.log[o])
  BY <1>1, <1>2, <1>4 DEF StoreInv, StoreType, InPages
<1>6. StoreInv(t)
  BY <1>4, <1>5, SameListsKeep
<1>7. LogGrows(s, t)
  <2>1. LogGrows(s, s)
    BY <1>1, SameLogGrows
  <2>2. t.log[id] = new /\ \A o \in Ids \ {id} : t.log[o] = s.log[o]
    BY <1>1, <1>4 DEF StoreType
  <2>3. QED
    BY <1>2, <2>1, <2>2 DEF LogGrows
<1>8. QED
  BY <1>4, <1>6, <1>7 DEF t

\* A status is part of no list.
LEMMA UpdateStatusKeeps ==
  ASSUME NEW s, StoreInv(s), NEW id \in Ids, NEW status \in Statuses \cup {"Active"}
  PROVE  LET t == UpdateStatus(s, id, status) IN
         /\ StoreInv(t) /\ t.log = s.log /\ t.info = s.info /\ DOMAIN t = DOMAIN s
         /\ t.record[id].status = status
         /\ \A o \in Ids : /\ t.record[o].farmer = s.record[o].farmer
                           /\ t.record[o].escrow = s.record[o].escrow
                           /\ o # id => t.record[o] = s.record[o]
<1> DEFINE t == UpdateStatus(s, id, status)
           r == [s.record[id] EXCEPT !.status = status]
<1>1. r \in Record /\ r.status = status /\ r.farmer = s.record[id].farmer
      /\ r.escrow = s.record[id].escrow
  BY DEF StoreInv, StoreType, Record
<1>2. t = [s EXCEPT !.record = [s.record EXCEPT ![id] = r]]
  BY DEF UpdateStatus
<1> HIDE DEF r, t
<1>3. /\ DOMAIN t = DOMAIN s /\ t.record = [s.record EXCEPT ![id] = r]
      /\ t.info = s.info /\ t.campaigns = s.campaigns /\ t.byFarmer = s.byFarmer
      /\ t.log = s.log
  BY <1>2 DEF StoreInv, StoreType
<1>4. \A o \in Ids : /\ t.record[o].farmer = s.record[o].farmer
                     /\ t.record[o].escrow = s.record[o].escrow
                     /\ o # id => t.record[o] = s.record[o]
  BY <1>1, <1>3 DEF StoreInv, StoreType
<1>5. StoreType(t)
  BY <1>1, <1>3 DEF StoreInv, StoreType
<1>6. InPages(t)
  BY <1>3 DEF StoreInv, InPages
<1>7. \A o \in Ids : Linked(t, o) <=> Linked(s, o)
  BY <1>4 DEF Linked
<1>8. Known(t) = Known(s) /\ \A f : Mine(t, f) = Mine(s, f)
  BY <1>3, <1>4, <1>7 DEF Known, Mine
<1>9. Enumerated(t) /\ Listed(t) /\ OfRegistrant(t)
  BY <1>3, <1>4, <1>7, <1>8 DEF StoreInv, Enumerated, Listed, OfRegistrant
<1>10. t.record[id].status = status
  BY <1>1, <1>3 DEF StoreInv, StoreType
<1>11. QED
  BY <1>3, <1>4, <1>5, <1>6, <1>9, <1>10 DEF StoreInv, t

\* A campaign is put into the enumeration once.
LEMMA IndexCampaignAdds ==
  ASSUME NEW s, StoreType(s), IsInjective(s.campaigns), NEW id \in Ids
  PROVE  LET t == IndexCampaign(s, id) IN
         /\ DOMAIN t = DOMAIN s /\ t.campaigns \in Seq(Ids)
         /\ IsInjective(t.campaigns) /\ Range(t.campaigns) = Range(s.campaigns) \cup {id}
         /\ t.info = s.info /\ t.record = s.record /\ t.byFarmer = s.byFarmer /\ t.log = s.log
<1> DEFINE t == IndexCampaign(s, id)
           c == s.campaigns
           d == Append(c, id)
<1>1. c \in Seq(Ids)
  BY DEF StoreType
<1>2. CASE id \in Range(c)
  <2>1. t = s
    BY <1>2 DEF IndexCampaign
  <2>2. QED
    BY <1>1, <1>2, <2>1
<1>3. CASE id \notin Range(c)
  <2>1. t = [s EXCEPT !.campaigns = d]
    BY <1>3 DEF IndexCampaign
  <2> DEFINE n == Len(c)
  <2>2. /\ n \in Nat /\ DOMAIN c = 1 .. n /\ DOMAIN d = 1 .. (n + 1) /\ d \in Seq(Ids)
        /\ d[n + 1] = id /\ \A i \in 1 .. n : d[i] = c[i]
    BY <1>1
  <2> HIDE DEF n, c, d, t
  <2>3. \A i \in 1 .. (n + 1) : i \in 1 .. n \/ i = n + 1
    BY <2>2
  <2>4. n + 1 \in 1 .. (n + 1) /\ \A i \in 1 .. n : i \in 1 .. (n + 1)
    BY <2>2
  <2>5. Range(d) = Range(c) \cup {id}
    BY <2>2, <2>3, <2>4 DEF Range
  <2>6. IsInjective(d)
    <3>1. SUFFICES ASSUME NEW i \in 1 .. (n + 1), NEW j \in 1 .. (n + 1), d[i] = d[j]
                   PROVE  i = j
      BY <2>2 DEF IsInjective
    <3>2. \A k \in 1 .. n : c[k] # id
      BY <1>3, <2>2 DEF Range
    <3>3. CASE i \in 1 .. n /\ j \in 1 .. n
      BY <2>2, <3>1, <3>3 DEF IsInjective, c
    <3>4. CASE i = n + 1 \/ j = n + 1
      BY <2>2, <2>3, <3>1, <3>2, <3>4
    <3>5. QED
      BY <2>3, <3>3, <3>4
  <2>7. /\ DOMAIN t = DOMAIN s /\ t.campaigns = d
        /\ t.info = s.info /\ t.record = s.record /\ t.byFarmer = s.byFarmer /\ t.log = s.log
    BY <2>1 DEF StoreType
  <2>8. QED
    BY <2>2, <2>5, <2>6, <2>7 DEF t, c
<1>4. QED
  BY <1>2, <1>3

\* A registration names the campaign's farmer and enumerates it.
LEMMA RegisterCampaignKeeps ==
  ASSUME NEW s, StoreInv(s), NEW id \in Ids, s.info[id] = Nobody, NEW f \in Owners
  PROVE  LET t == RegisterCampaign(s, id, f) IN
         /\ StoreInv(t) /\ t.log = s.log /\ DOMAIN t = DOMAIN s
         /\ t.record = s.record /\ t.info = [s.info EXCEPT ![id] = f]
<1> DEFINE u == [s EXCEPT !.info = [s.info EXCEPT ![id] = f]]
           t == RegisterCampaign(s, id, f)
<1>1. /\ DOMAIN u = DOMAIN s /\ u.info = [s.info EXCEPT ![id] = f]
      /\ u.campaigns = s.campaigns /\ u.record = s.record /\ u.byFarmer = s.byFarmer
      /\ u.log = s.log
  BY DEF StoreInv, StoreType
<1>2. t = IndexCampaign(u, id)
  BY DEF RegisterCampaign
<1> HIDE DEF u, t
<1>3. StoreType(u) /\ IsInjective(u.campaigns)
  BY <1>1 DEF StoreInv, StoreType, Enumerated
<1> DEFINE v == IndexCampaign(u, id)
<1>v. /\ DOMAIN v = DOMAIN u /\ v.campaigns \in Seq(Ids)
      /\ IsInjective(v.campaigns) /\ Range(v.campaigns) = Range(u.campaigns) \cup {id}
      /\ v.info = u.info /\ v.record = u.record /\ v.byFarmer = u.byFarmer /\ v.log = u.log
  BY <1>3, IndexCampaignAdds
<1> HIDE DEF v
<1>w. t = v
  BY <1>2 DEF v
<1>4. /\ DOMAIN t = DOMAIN s /\ t.campaigns \in Seq(Ids)
      /\ IsInjective(t.campaigns) /\ Range(t.campaigns) = Range(s.campaigns) \cup {id}
      /\ t.info = [s.info EXCEPT ![id] = f]
      /\ t.record = s.record /\ t.byFarmer = s.byFarmer /\ t.log = s.log
  BY <1>1, <1>v, <1>w
<1>5. StoreType(t)
  BY <1>4 DEF StoreInv, StoreType
<1>6. f # Nobody
  BY RegistryConstants DEF People
<1>7. /\ t.info[id] = f /\ \A o \in Ids \ {id} : t.info[o] = s.info[o]
      /\ \A o \in Ids : Linked(t, o) <=> Linked(s, o)
  BY <1>4 DEF StoreInv, StoreType, Linked
<1>8. Enumerated(t)
  <2>1. Known(t) = Known(s) \cup {id}
    BY <1>6, <1>7 DEF Known
  <2>2. QED
    BY <1>4, <2>1 DEF StoreInv, Enumerated
<1>9. InPages(t) /\ Listed(t)
  <2>1. \A g : Mine(t, g) = Mine(s, g)
    BY <1>4 DEF Mine
  <2>2. InPages(t)
    BY <1>4 DEF StoreInv, InPages
  <2>3. Listed(t)
    BY <1>4, <2>1 DEF StoreInv, Listed
  <2>4. QED
    BY <2>2, <2>3
<1>10. OfRegistrant(t)
  <2>1. ~Linked(s, id)
    BY RegistryConstants DEF StoreInv, OfRegistrant, People
  <2>2. QED
    BY <1>4, <1>7, <2>1 DEF StoreInv, OfRegistrant
<1>11. QED
  BY <1>4, <1>5, <1>8, <1>9, <1>10 DEF StoreInv, t

\* A link enters the campaign into its farmer's pages, and into the enumeration.
LEMMA LinkEscrowKeeps ==
  ASSUME NEW s, StoreInv(s), NEW id \in Ids, NEW f \in Owners, NEW c \in Contracts,
         CanLink(s, id, f)
  PROVE  LET t == LinkEscrow(s, id, f, c) IN
         /\ StoreInv(t) /\ t.log = s.log /\ DOMAIN t = DOMAIN s /\ t.info = s.info
         /\ t.record = [s.record EXCEPT ![id] =
                          [farmer |-> f, escrow |-> c, status |-> "Active"]]
<1> DEFINE r == [farmer |-> f, escrow |-> c, status |-> "Active"]
           pages == s.byFarmer[f]
           new == AppendPaged(pages, id)
           b == [s.byFarmer EXCEPT ![f] = new]
           u == [[s EXCEPT !.record = [s.record EXCEPT ![id] = r]] EXCEPT !.byFarmer = b]
           t == LinkEscrow(s, id, f, c)
<1>1. r \in Record /\ r.farmer = f /\ r.escrow = c
  BY DEF Record
<1>2. /\ new \in Seq(Seq(Ids)) /\ Paged(new) /\ Elements(new) = Elements(pages) \cup {id}
      /\ Entries(pages) \in Nat /\ Entries(new) = Entries(pages) + 1
  <2>1. pages \in Seq(Seq(Ids)) /\ Paged(pages)
    BY DEF StoreInv, StoreType, InPages
  <2>2. QED
    BY <2>1, AppendPagedKeeps
<1>3. t = IndexCampaign(u, id)
  BY DEF LinkEscrow
<1> HIDE DEF new, r
<1>4. /\ DOMAIN u = DOMAIN s /\ u.record = [s.record EXCEPT ![id] = r] /\ u.byFarmer = b
      /\ u.campaigns = s.campaigns /\ u.info = s.info /\ u.log = s.log
  BY DEF StoreInv, StoreType
<1>5. b \in [Owners -> Seq(Seq(Ids))] /\ b[f] = new
      /\ \A g \in Owners \ {f} : b[g] = s.byFarmer[g]
  BY <1>2 DEF StoreInv, StoreType
<1> HIDE DEF u, t, b
<1>6. StoreType(u) /\ IsInjective(u.campaigns)
  BY <1>1, <1>4, <1>5 DEF StoreInv, StoreType, Enumerated
<1> DEFINE v == IndexCampaign(u, id)
<1>v. /\ DOMAIN v = DOMAIN u /\ v.campaigns \in Seq(Ids)
      /\ IsInjective(v.campaigns) /\ Range(v.campaigns) = Range(u.campaigns) \cup {id}
      /\ v.info = u.info /\ v.record = u.record /\ v.byFarmer = u.byFarmer /\ v.log = u.log
  BY <1>6, IndexCampaignAdds
<1> HIDE DEF v
<1>w. t = v
  BY <1>3 DEF v
<1>7. /\ DOMAIN t = DOMAIN s /\ t.campaigns \in Seq(Ids)
      /\ IsInjective(t.campaigns) /\ Range(t.campaigns) = Range(s.campaigns) \cup {id}
      /\ t.info = s.info
      /\ t.record = [s.record EXCEPT ![id] = r] /\ t.byFarmer = b /\ t.log = s.log
  BY <1>4, <1>v, <1>w
<1>8. StoreType(t)
  BY <1>1, <1>5, <1>7 DEF StoreInv, StoreType
<1>9. t.record[id] = r /\ \A o \in Ids \ {id} : t.record[o] = s.record[o]
  BY <1>7 DEF StoreInv, StoreType
<1>10. c # Nobody /\ f # Nobody
  BY RegistryConstants DEF People
<1>11. Linked(t, id) /\ \A o \in Ids \ {id} : Linked(t, o) <=> Linked(s, o)
  BY <1>1, <1>9, <1>10 DEF Linked
<1>12. Enumerated(t)
  <2>1. Known(t) = Known(s) \cup {id}
    BY <1>7, <1>11 DEF Known
  <2>2. QED
    BY <1>7, <2>1 DEF StoreInv, Enumerated
<1>13. InPages(t)
  BY <1>2, <1>5, <1>7 DEF StoreInv, InPages
<1>14. ~Linked(s, id) /\ s.record[id].farmer = Nobody /\ s.info[id] = f
  BY DEF CanLink, StoreInv, OfRegistrant
<1>15. Listed(t)
  <2>1. \A g \in Owners \ {f} : Mine(t, g) = Mine(s, g)
    BY <1>1, <1>9, <1>14, RegistryConstants DEF Mine, People
  <2>2. Mine(t, f) = Mine(s, f) \cup {id} /\ id \notin Mine(s, f)
    BY <1>1, <1>9, <1>10, <1>14 DEF Mine
  <2>3. IsFiniteSet(Mine(s, f)) /\ Entries(pages) = Cardinality(Mine(s, f))
        /\ Elements(pages) = Mine(s, f)
    BY DEF StoreInv, Listed
  <2>4. IsFiniteSet(Mine(t, f)) /\ Cardinality(Mine(t, f)) = Cardinality(Mine(s, f)) + 1
    BY <2>2, <2>3, FS_AddElement
  <2>5. /\ Elements(new) = Mine(t, f)
        /\ IsFiniteSet(Mine(t, f)) /\ Entries(new) = Cardinality(Mine(t, f))
    BY <1>2, <2>2, <2>3, <2>4
  <2>6. QED
    BY <1>5, <1>7, <2>1, <2>5 DEF StoreInv, Listed
<1>16. OfRegistrant(t)
  BY <1>1, <1>7, <1>9, <1>11, <1>14 DEF StoreInv, OfRegistrant
<1>17. QED
  BY <1>7, <1>8, <1>12, <1>13, <1>15, <1>16 DEF StoreInv, t, r

\* ListsMatchRecords is what the invariant says of the registry's own storage.
LEMMA StoreInvMatches == StoreInv(store) => ListsMatchRecords
<1>1. ASSUME StoreInv(store) PROVE PagesStayBounded /\ EnumerationComplete
  BY <1>1 DEF StoreInv, InPages, Enumerated, Known, PagesStayBounded, EnumerationComplete
<1>2. ASSUME StoreInv(store) PROVE FarmerListsMatchRecords
  BY <1>2 DEF StoreInv, Listed, Mine, Elements, OfRegistrant, FarmerListsMatchRecords
<1>3. QED
  BY <1>1, <1>2 DEF ListsMatchRecords
=============================================================================
