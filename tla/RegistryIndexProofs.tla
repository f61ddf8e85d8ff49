------------------------- MODULE RegistryIndexProofs -------------------------
(***************************************************************************)
(* Proofs about the registry and the server's index of it, for every value *)
(* of the constants.                                                       *)
(***************************************************************************)
EXTENDS RegistryIndex, RegistryProofs, SumLemmas

-----------------------------------------------------------------------------
(* The events of one invocation, one after the other.                        *)

\* What the fold over events 1 .. n computes, for each of their subsets.
Runs(base, events, n, g) ==
  g = [s \in SUBSET (1 .. n) |->
         IF s = {} THEN base ELSE Handled(g[s \ {Max(s)}], events[Max(s)])]

\* The fold's recursion has one solution, whose value at the first k events is the
\* index after them.
LEMMA RunsOnce ==
  ASSUME NEW base, NEW events, NEW n \in Nat
  PROVE  /\ \E g : Runs(base, events, n, g)
         /\ \A g, h : Runs(base, events, n, g) /\ Runs(base, events, n, h) => g = h
<1> DEFINE body(g, s) == IF s = {} THEN base ELSE Handled(g[s \ {Max(s)}], events[Max(s)])
           Is(g, m) == g = [s \in SUBSET (1 .. m) |-> body(g, s)]
           Once(m) == (\E g : Is(g, m)) /\ \A g, h : Is(g, m) /\ Is(h, m) => g = h
           Bad == {m \in Nat : ~Once(m)}
<1>1. Once(0)
  <2>1. \A s \in SUBSET (1 .. 0) : s = {}
    OBVIOUS
  <2> DEFINE g == [s \in SUBSET (1 .. 0) |-> base]
  <2>2. g = [s \in SUBSET (1 .. 0) |-> body(g, s)]
    BY <2>1
  <2>3. \A h : Is(h, 0) => h = g
    BY <2>1
  <2> HIDE DEF g, body
  <2>4. QED
    BY <2>2, <2>3
<1>2. ASSUME NEW m \in Nat, Once(m) PROVE Once(m + 1)
  <2>1. /\ \A s \in SUBSET (1 .. m) : s \in SUBSET (1 .. (m + 1)) /\ m + 1 \notin s
        /\ \A s \in SUBSET (1 .. (m + 1)) : m + 1 \notin s => s \in SUBSET (1 .. m)
        /\ \A s \in SUBSET (1 .. (m + 1)) : s \ {m + 1} \in SUBSET (1 .. m)
    BY <1>2
  <2>2. \A s \in SUBSET (1 .. (m + 1)) : m + 1 \in s => Max(s) = m + 1
    <3>1. SUFFICES ASSUME NEW s \in SUBSET (1 .. (m + 1)), m + 1 \in s PROVE Max(s) = m + 1
      OBVIOUS
    <3>2. \A y \in s : y \in Int /\ m + 1 >= y
      BY <1>2, <3>1
    <3>3. \A x \in s : x >= m + 1 => x = m + 1
      BY <1>2, <3>2
    <3>4. QED
      BY <3>1, <3>2, <3>3 DEF Max
  <2>3. \A g : \A s \in SUBSET (1 .. (m + 1)) :
          m + 1 \in s => body(g, s) = Handled(g[s \ {m + 1}], events[m + 1])
    BY <2>2
  <2>4. ASSUME NEW g, NEW h, \A s \in SUBSET (1 .. m) : g[s] = h[s], NEW s \in SUBSET (1 .. m)
        PROVE  body(g, s) = body(h, s)
    BY <2>4
  <2> HIDE DEF body
  <2>5. ASSUME NEW g, Is(g, m + 1)
        PROVE  Is([s \in SUBSET (1 .. m) |-> g[s]], m)
    <3> DEFINE r == [s \in SUBSET (1 .. m) |-> g[s]]
    <3>1. \A s \in SUBSET (1 .. m) : g[s] = body(g, s)
      BY <2>1, <2>5
    <3>2. \A s \in SUBSET (1 .. m) : r[s] = g[s]
      OBVIOUS
    <3>3. \A s \in SUBSET (1 .. m) : body(g, s) = body(r, s)
      BY <2>4, <3>2
    <3>4. \A s \in SUBSET (1 .. m) : g[s] = body(r, s)
      BY <3>1, <3>3
    <3>5. QED
      BY <3>4
  <2>6. ASSUME NEW g, NEW h, Is(g, m + 1), Is(h, m + 1) PROVE g = h
    <3> DEFINE q == [s \in SUBSET (1 .. m) |-> g[s]]
               r == [s \in SUBSET (1 .. m) |-> h[s]]
    <3>a. Is(q, m) /\ Is(r, m)
      BY <2>5, <2>6
    <3>b. q = r
      <4> HIDE DEF q, r, Is
      <4>1. QED
        BY <1>2, <3>a
    <3>1. [s \in SUBSET (1 .. m) |-> g[s]] = [s \in SUBSET (1 .. m) |-> h[s]]
      BY <3>b
    <3>2. \A s \in SUBSET (1 .. m) : g[s] = h[s]
      BY <3>1
    <3>3. ASSUME NEW s \in SUBSET (1 .. (m + 1)) PROVE g[s] = h[s]
      <4>1. CASE m + 1 \in s
        <5>1. g[s] = body(g, s) /\ h[s] = body(h, s)
          BY <2>6
        <5>2. QED
          BY <2>1, <2>3, <3>2, <4>1, <5>1, ZenonT(60)
      <4>2. CASE m + 1 \notin s
        BY <2>1, <3>2, <4>2
      <4>3. QED
        BY <4>1, <4>2
    <3>4. QED
      BY <2>6, <3>3
  <2>7. \E g : Is(g, m + 1)
    <3>1. PICK p : Is(p, m)
      BY <1>2
    <3> DEFINE g == [s \in SUBSET (1 .. (m + 1)) |->
                       IF m + 1 \in s THEN Handled(p[s \ {m + 1}], events[m + 1]) ELSE p[s]]
    <3>2. \A s \in SUBSET (1 .. m) : g[s] = p[s]
      BY <2>1
    <3>3. ASSUME NEW s \in SUBSET (1 .. (m + 1)) PROVE g[s] = body(g, s)
      <4>1. CASE m + 1 \in s
        <5>1. g[s] = Handled(p[s \ {m + 1}], events[m + 1])
          BY <4>1
        <5> HIDE DEF g
        <5>2. QED
          BY <2>1, <2>3, <3>2, <4>1, <5>1
      <4>2. CASE m + 1 \notin s
        <5>1. s \in SUBSET (1 .. m)
          BY <2>1, <4>2
        <5>2. p[s] = body(p, s)
          BY <3>1, <5>1
        <5> HIDE DEF g
        <5>3. body(g, s) = body(p, s)
          BY <2>4, <3>2, <5>1
        <5>4. QED
          BY <3>2, <5>1, <5>2, <5>3
      <4>3. QED
        BY <4>1, <4>2
    <3>4. g = [s \in SUBSET (1 .. (m + 1)) |-> g[s]]
      OBVIOUS
    <3> HIDE DEF g
    <3>5. Is(g, m + 1)
      BY <3>3, <3>4
    <3>6. QED
      BY <3>5
  <2>8. QED
    BY <2>6, <2>7
<1> HIDE DEF Once
<1>3. Bad = {}
  <2> SUFFICES ASSUME Bad # {} PROVE FALSE
    OBVIOUS
  <2>1. PICK m \in Bad : \A k \in Bad : m <= k
    BY LeastNat
  <2>2. m \in Nat /\ m # 0
    BY <1>1, <2>1
  <2>3. m - 1 \in Nat /\ Once(m - 1)
    BY <2>1, <2>2
  <2>4. Once((m - 1) + 1)
    BY <1>2, <2>3
  <2>5. (m - 1) + 1 = m
    BY <2>2
  <2>6. QED
    BY <2>1, <2>4, <2>5
<1>4. Once(n)
  BY <1>3
<1>5. QED
  BY <1>4 DEF Once, Runs

\* The index after an invocation has seen each of its events in turn.
LEMMA ProcessRuns ==
  ASSUME NEW events, NEW n \in Nat, DOMAIN events = 1 .. n, Process(events)
  PROVE  \E h : /\ h[0] = index /\ index' = h[n]
                /\ \A k \in 1 .. n : h[k] = Handled(h[k - 1], events[k])
<1> DEFINE g == CHOOSE f : Runs(index, events, n, f)
           h == [k \in 0 .. n |-> g[1 .. k]]
<1>1. Runs(index, events, n, g)
  BY RunsOnce
<1>2. index' = g[1 .. n]
  BY DEF Process, FoldLeft, MapThenFoldSet, Runs
<1> HIDE DEF g
<1> DEFINE body(s) == IF s = {} THEN index ELSE Handled(g[s \ {Max(s)}], events[Max(s)])
<1>3. \A s \in SUBSET (1 .. n) : g[s] = body(s)
  BY <1>1 DEF Runs
<1>4. g[1 .. 0] = index
  <2>1. 1 .. 0 = {} /\ {} \in SUBSET (1 .. n)
    OBVIOUS
  <2>2. body({}) = index
    OBVIOUS
  <2> HIDE DEF body
  <2>3. QED
    BY <1>3, <2>1, <2>2
<1>5. ASSUME NEW k \in 1 .. n PROVE g[1 .. k] = Handled(g[1 .. (k - 1)], events[k])
  <2>1. /\ k \in 1 .. k /\ 1 .. k \in SUBSET (1 .. n) /\ 1 .. k # {}
        /\ (1 .. k) \ {k} = 1 .. (k - 1)
    BY <1>5
  <2>2. Max(1 .. k) = k
    <3>1. \A y \in 1 .. k : k >= y
      BY <1>5
    <3>2. \A x \in 1 .. k : x >= k => x = k
      BY <1>5
    <3>3. QED
      BY <2>1, <3>1, <3>2 DEF Max
  <2>3. g[1 .. k] = body(1 .. k)
    BY <1>3, <2>1
  <2>4. QED
    BY <2>1, <2>2, <2>3
<1> HIDE DEF body
<1>6. \A k \in 1 .. n : k \in 0 .. n /\ k - 1 \in 0 .. n
  OBVIOUS
<1>7. 0 \in 0 .. n /\ n \in 0 .. n
  OBVIOUS
<1>8. \A k \in 0 .. n : h[k] = g[1 .. k]
  OBVIOUS
<1> HIDE DEF h
<1>9. /\ h[0] = index /\ index' = h[n]
      /\ \A k \in 1 .. n : h[k] = Handled(h[k - 1], events[k])
  BY <1>2, <1>4, <1>5, <1>6, <1>7, <1>8
<1>10. QED
  BY <1>9

\* No invocation emits more than four events.
LEMMA ProcessFew ==
  ASSUME NEW events, Process(events)
  PROVE  /\ events = <<>> => index' = index
         /\ DOMAIN events = 1 .. 1 => index' = Handled(index, events[1])
         /\ DOMAIN events = 1 .. 2 => index' = Handled(Handled(index, events[1]), events[2])
         /\ DOMAIN events = 1 .. 3 =>
              index' = Handled(Handled(Handled(index, events[1]), events[2]), events[3])
         /\ DOMAIN events = 1 .. 4 =>
              index' = Handled(Handled(Handled(Handled(index, events[1]), events[2]),
                                       events[3]), events[4])
<1> DEFINE History(n) == \E h : /\ h[0] = index /\ index' = h[n]
                               /\ \A k \in 1 .. n : h[k] = Handled(h[k - 1], events[k])
<1>a. ASSUME NEW n \in Nat, DOMAIN events = 1 .. n PROVE History(n)
  BY <1>a, ProcessRuns
<1> HIDE DEF History
<1>0. ASSUME events = <<>> PROVE index' = index
  <2>1. DOMAIN events = 1 .. 0
    BY <1>0
  <2>2. QED
    BY <2>1, ProcessRuns
<1>1. ASSUME DOMAIN events = 1 .. 1
      PROVE  index' = Handled(index, events[1])
  <2>1. PICK h : /\ h[0] = index /\ index' = h[1]
                 /\ \A k \in 1 .. 1 : h[k] = Handled(h[k - 1], events[k])
    <3>1. History(1)
      BY <1>1, <1>a
    <3>2. QED
      BY <3>1 DEF History
  <2>2. /\ 1 \in 1 .. 1
        /\ 1 - 1 = 0
    OBVIOUS
  <2>3. QED
    BY <2>1, <2>2
<1>2. ASSUME DOMAIN events = 1 .. 2
      PROVE  index' = Handled(Handled(index, events[1]), events[2])
  <2>1. PICK h : /\ h[0] = index /\ index' = h[2]
                 /\ \A k \in 1 .. 2 : h[k] = Handled(h[k - 1], events[k])
    <3>1. History(2)
      BY <1>2, <1>a
    <3>2. QED
      BY <3>1 DEF History
  <2>2. /\ 1 \in 1 .. 2 /\ 2 \in 1 .. 2
        /\ 1 - 1 = 0 /\ 2 - 1 = 1
    OBVIOUS
  <2>3. QED
    BY <2>1, <2>2
<1>3. ASSUME DOMAIN events = 1 .. 3
      PROVE  index' = Handled(Handled(Handled(index, events[1]), events[2]), events[3])
  <2>1. PICK h : /\ h[0] = index /\ index' = h[3]
                 /\ \A k \in 1 .. 3 : h[k] = Handled(h[k - 1], events[k])
    <3>1. History(3)
      BY <1>3, <1>a
    <3>2. QED
      BY <3>1 DEF History
  <2>2. /\ 1 \in 1 .. 3 /\ 2 \in 1 .. 3 /\ 3 \in 1 .. 3
        /\ 1 - 1 = 0 /\ 2 - 1 = 1 /\ 3 - 1 = 2
    OBVIOUS
  <2>3. QED
    BY <2>1, <2>2
<1>4. ASSUME DOMAIN events = 1 .. 4
      PROVE  index' = Handled(Handled(Handled(Handled(index, events[1]), events[2]),
                                      events[3]), events[4])
  <2>1. PICK h : /\ h[0] = index /\ index' = h[4]
                 /\ \A k \in 1 .. 4 : h[k] = Handled(h[k - 1], events[k])
    <3>1. History(4)
      BY <1>4, <1>a
    <3>2. QED
      BY <3>1 DEF History
  <2>2. /\ 1 \in 1 .. 4 /\ 2 \in 1 .. 4 /\ 3 \in 1 .. 4 /\ 4 \in 1 .. 4
        /\ 1 - 1 = 0 /\ 2 - 1 = 1 /\ 3 - 1 = 2 /\ 4 - 1 = 3
    OBVIOUS
  <2>3. QED
    BY <2>1, <2>2
<1>5. QED
  BY <1>0, <1>1, <1>2, <1>3, <1>4

\* The sequences that invocations are put together from.
LEMMA Sequels ==
  ASSUME NEW a, NEW b, NEW c, NEW d
  PROVE  /\ <<a>> \o <<b>> = <<a, b>>
         /\ <<>> \o <<b>> = <<b>>
         /\ LET s == <<a, b>> \o <<c>> IN
              DOMAIN s = 1 .. 3 /\ s[1] = a /\ s[2] = b /\ s[3] = c
         /\ LET s == (<<a>> \o <<b, c>>) \o <<d>> IN
              DOMAIN s = 1 .. 4 /\ s[1] = a /\ s[2] = b /\ s[3] = c /\ s[4] = d
<1> DEFINE S == {a, b, c, d}
<1>1. /\ <<a>> \in Seq(S) /\ <<b>> \in Seq(S) /\ <<a, b>> \in Seq(S) /\ <<c>> \in Seq(S)
      /\ <<b, c>> \in Seq(S) /\ <<d>> \in Seq(S) /\ <<>> \in Seq(S)
      /\ Len(<<a>>) = 1 /\ Len(<<b>>) = 1 /\ Len(<<a, b>>) = 2 /\ Len(<<c>>) = 1
      /\ Len(<<b, c>>) = 2 /\ Len(<<d>>) = 1 /\ Len(<<>>) = 0
  OBVIOUS
<1> HIDE DEF S
<1>2. <<a>> \o <<b>> = <<a, b>>
  <2> DEFINE s == <<a>> \o <<b>>
             t == <<a, b>>
  <2>1. s \in Seq(S) /\ Len(s) = 2 /\ s[1] = a /\ s[2] = b
    BY <1>1
  <2>2. t[1] = a /\ t[2] = b /\ t \in Seq(S) /\ Len(t) = 2
    BY <1>1
  <2> HIDE DEF s, t
  <2>3. \A i \in 1 .. Len(s) : s[i] = t[i]
    <3>1. \A i \in 1 .. 2 : i = 1 \/ i = 2
      OBVIOUS
    <3>2. QED
      BY <2>1, <2>2, <3>1
  <2>4. s = t
    BY <2>1, <2>2, <2>3, SeqEqual
  <2>5. QED
    BY <2>4 DEF s, t
<1>3. <<>> \o <<b>> = <<b>>
  BY <1>1, ConcatEmptySeq
<1>4. LET s == <<a, b>> \o <<c>> IN DOMAIN s = 1 .. 3 /\ s[1] = a /\ s[2] = b /\ s[3] = c
  BY <1>1
<1>5. LET s == (<<a>> \o <<b, c>>) \o <<d>> IN
        DOMAIN s = 1 .. 4 /\ s[1] = a /\ s[2] = b /\ s[3] = c /\ s[4] = d
  <2> DEFINE u == <<a>> \o <<b, c>>
  <2>1. u \in Seq(S) /\ Len(u) = 3 /\ u[1] = a /\ u[2] = b /\ u[3] = c
    BY <1>1
  <2> HIDE DEF u
  <2> DEFINE w == <<d>>
  <2>2. w \in Seq(S) /\ Len(w) = 1 /\ w[1] = d
    BY <1>1
  <2> HIDE DEF w
  <2> DEFINE s == u \o w
  <2>3. DOMAIN s = 1 .. 4 /\ s[1] = a /\ s[2] = b /\ s[3] = c /\ s[4] = d
    <3>1. /\ s \in Seq(S) /\ Len(s) = Len(u) + Len(w)
          /\ \A i \in 1 .. Len(u) + Len(w) : s[i] = IF i <= Len(u) THEN u[i] ELSE w[i - Len(u)]
      BY <2>1, <2>2, ConcatProperties
    <3> HIDE DEF s
    <3>2. Len(s) = 4 /\ \A i \in 1 .. 4 : s[i] = IF i <= 3 THEN u[i] ELSE w[i - 3]
      BY <2>1, <2>2, <3>1
    <3>3. s[1] = u[1] /\ s[2] = u[2] /\ s[3] = u[3]
      BY <3>2
    <3>4. s[4] = w[1]
      <4>1. 4 \in 1 .. 4 /\ ~(4 <= 3) /\ 4 - 3 = 1
        OBVIOUS
      <4>2. QED
        BY <3>2, <4>1
    <3>5. DOMAIN s = 1 .. 4
      <4>1. s \in Seq(S) /\ Len(s) = 4
        BY <3>1, <3>2
      <4>2. QED
        BY <4>1, LenProperties
    <3>6. QED
      BY <2>1, <2>2, <3>3, <3>4, <3>5
  <2>4. QED
    BY <2>3 DEF u, w
<1>6. QED
  BY <1>2, <1>3, <1>4, <1>5

\* Either way of putting three events together.
LEMMA SameSequel ==
  ASSUME NEW a, NEW b, NEW c
  PROVE  <<a, b>> \o <<c>> = <<a>> \o <<b, c>>
<1> DEFINE S == {a, b, c}
           s == <<a, b>> \o <<c>>
           t == <<a>> \o <<b, c>>
<1>1. /\ <<a>> \in Seq(S) /\ <<a, b>> \in Seq(S) /\ <<c>> \in Seq(S) /\ <<b, c>> \in Seq(S)
      /\ Len(<<a>>) = 1 /\ Len(<<a, b>>) = 2 /\ Len(<<c>>) = 1 /\ Len(<<b, c>>) = 2
  OBVIOUS
<1> HIDE DEF S
<1>2. s \in Seq(S) /\ Len(s) = 3 /\ s[1] = a /\ s[2] = b /\ s[3] = c
  BY <1>1
<1>3. t \in Seq(S) /\ Len(t) = 3 /\ t[1] = a /\ t[2] = b /\ t[3] = c
  BY <1>1
<1> HIDE DEF s, t
<1>4. \A i \in 1 .. Len(s) : s[i] = t[i]
  <2>1. \A i \in 1 .. 3 : i = 1 \/ i = 2 \/ i = 3
    OBVIOUS
  <2>2. QED
    BY <1>2, <1>3, <2>1
<1>5. s = t
  BY <1>2, <1>3, <1>4, SeqEqual
<1>6. QED
  BY <1>5 DEF s, t

-----------------------------------------------------------------------------
(* What the parser makes of one event.                                       *)

Parties == People \cup Contracts

Row == [known : BOOLEAN, farmer : Parties \cup {Nobody}, title : Titles \cup {NoText},
        escrow : Contracts \cup {Nobody}, status : Statuses \cup {"Active"}]

DbType(db) ==
  /\ {"rows", "users"} \subseteq DOMAIN db
  /\ db.rows \in [Ids -> Row]
  /\ db.users \in [Parties -> Names \cup {NoText}]

\* Nothing but one row may differ.
OnlyRow(db, new, id) ==
  /\ DbType(new) /\ new.users = db.users
  /\ \A o \in Ids \ {id} : new.rows[o] = db.rows[o]

\* Writing a row.
LEMMA RowWritten ==
  ASSUME NEW db, DbType(db), NEW id \in Ids, NEW r \in Row
  PROVE  LET new == [db EXCEPT !.rows = [db.rows EXCEPT ![id] = r]] IN
         OnlyRow(db, new, id) /\ new.rows[id] = r
  BY DEF DbType, OnlyRow

\* A registration, or its mirror, makes a row.
LEMMA HandledRegistered ==
  ASSUME NEW db, DbType(db), NEW id \in Ids, NEW slots, slots[1].v \in Parties,
         TextIn(slots[2]) \in Titles \cup {NoText}
  PROVE  LET new == Handled(db, Event("CampaignRegistered", id, slots))
             row == db.rows[id]
             now == new.rows[id]
         IN  /\ OnlyRow(db, new, id)
             /\ now.known /\ now.farmer = slots[1].v
             /\ now.title = KeepUnless(TextIn(slots[2]), row.title)
             /\ now.escrow = row.escrow /\ now.status = row.status
<1> DEFINE row == db.rows[id]
           r == Registered(row, slots[1].v, TextIn(slots[2]))
           e == Event("CampaignRegistered", id, slots)
<1>1. e.name = "CampaignRegistered" /\ e.key = id /\ e.slots = slots
  BY DEF Event
<1> HIDE DEF e
<1>2. Handled(db, e) = [db EXCEPT !.rows = [db.rows EXCEPT ![id] = r]]
  <2>1. Handled(db, e) =
          WithRow(db, e.key, Registered(db.rows[e.key], e.slots[1].v, TextIn(e.slots[2])))
    BY <1>1 DEF Handled
  <2>2. QED
    BY <1>1, <2>1 DEF WithRow
<1>3. row \in Row /\ KeepUnless(TextIn(slots[2]), row.title) \in Titles \cup {NoText}
  BY DEF DbType, Row, KeepUnless
<1>4. /\ r \in Row /\ r.known = TRUE /\ r.farmer = slots[1].v
      /\ r.title = KeepUnless(TextIn(slots[2]), row.title)
      /\ r.escrow = row.escrow /\ r.status = row.status
  BY <1>3 DEF Row, Registered
<1> HIDE DEF r
<1> DEFINE new == Handled(db, e)
<1>5. OnlyRow(db, new, id) /\ new.rows[id] = r
  BY <1>2, <1>4, RowWritten
<1> HIDE DEF new
<1>6. QED
  BY <1>4, <1>5 DEF e, new

\* A link fills in a row that is there.
LEMMA HandledLinked ==
  ASSUME NEW db, DbType(db), NEW id \in Ids, db.rows[id].known,
         NEW f \in Owners, NEW c \in Contracts
  PROVE  LET new == Handled(db, LinkedEvent(id, f, c))
             row == db.rows[id]
             now == new.rows[id]
         IN  /\ OnlyRow(db, new, id)
             /\ now.known /\ now.farmer = f /\ now.escrow = c
             /\ now.title = row.title /\ now.status = row.status
<1> DEFINE row == db.rows[id]
           r == [row EXCEPT !.farmer = f, !.escrow = c]
           e == LinkedEvent(id, f, c)
<1>1. /\ e.name = "CampaignEscrowLinked" /\ e.key = id
      /\ e.slots[1].v = f /\ e.slots[2].v = c
  BY DEF LinkedEvent, Event, Plain
<1> HIDE DEF e
<1>2. Handled(db, e) = [db EXCEPT !.rows = [db.rows EXCEPT ![id] = r]]
  <2>1. Handled(db, e) =
          WithRow(db, e.key, Pointed(db.rows[e.key], e.slots[1].v, e.slots[2].v))
    BY <1>1 DEF Handled
  <2>2. QED
    BY <1>1, <2>1 DEF WithRow, Pointed
<1>3. row \in Row /\ f \in Parties
  BY DEF DbType, Parties, People
<1>4. /\ r \in Row /\ r.known = row.known /\ r.farmer = f /\ r.escrow = c
      /\ r.title = row.title /\ r.status = row.status
  BY <1>3 DEF Row
<1> HIDE DEF r
<1> DEFINE new == Handled(db, e)
<1>5. OnlyRow(db, new, id) /\ new.rows[id] = r
  BY <1>2, <1>4, RowWritten
<1> HIDE DEF new
<1>6. QED
  BY <1>4, <1>5 DEF e, new

\* A status update changes the status of a row that is there, if it is one.
LEMMA HandledStatus ==
  ASSUME NEW db, DbType(db), NEW id \in Ids, NEW slots,
         StatusIn(slots) \in Statuses \cup {"Active", NoText}
  PROVE  LET new == Handled(db, Event("CampaignStatusUpdated", id, slots))
             row == db.rows[id]
             now == new.rows[id]
         IN  /\ OnlyRow(db, new, id)
             /\ now.known = row.known /\ now.farmer = row.farmer
             /\ now.escrow = row.escrow /\ now.title = row.title
             /\ now.status = IF row.known THEN KeepUnless(StatusIn(slots), row.status)
                             ELSE row.status
<1> DEFINE row == db.rows[id]
           r == [row EXCEPT !.status = KeepUnless(StatusIn(slots), row.status)]
           e == Event("CampaignStatusUpdated", id, slots)
<1>1. e.name = "CampaignStatusUpdated" /\ e.key = id /\ e.slots = slots
  BY DEF Event
<1> HIDE DEF e
<1>2. CASE ~row.known
  <2>1. HandledOwn(db, e) = db
    BY <1>1, <1>2 DEF HandledOwn
  <2>2. Handled(db, e) = db
    BY <1>1, <1>2, <2>1 DEF Handled
  <2>3. QED
    BY <1>2, <2>2 DEF OnlyRow, e
<1>3. CASE row.known
  <2>1. Handled(db, e) = [db EXCEPT !.rows = [db.rows EXCEPT ![id] = r]]
    <3>1. Handled(db, e) = WithRow(db, e.key, Updated(db.rows[e.key], StatusIn(e.slots)))
      BY <1>1, <1>3 DEF Handled
    <3>2. QED
      BY <1>1, <3>1 DEF WithRow, Updated
  <2>2. row \in Row /\ KeepUnless(StatusIn(slots), row.status) \in Statuses \cup {"Active"}
    BY DEF DbType, Row, KeepUnless
  <2>3. /\ r \in Row /\ r.known = row.known /\ r.farmer = row.farmer /\ r.escrow = row.escrow
        /\ r.title = row.title /\ r.status = KeepUnless(StatusIn(slots), row.status)
    BY <2>2 DEF Row
  <2> HIDE DEF r
  <2> DEFINE new == Handled(db, e)
  <2>4. OnlyRow(db, new, id) /\ new.rows[id] = r
    BY <2>1, <2>3, RowWritten
  <2> HIDE DEF new
  <2>5. QED
    BY <1>3, <2>3, <2>4 DEF e, new
<1>4. QED
  BY <1>2, <1>3

\* The escrow's own event makes sure of the row and its farmer.
LEMMA HandledCreated ==
  ASSUME NEW db, DbType(db), NEW id \in Ids, NEW f \in Owners
  PROVE  LET new == Handled(db, Event("CampaignCreated", id, <<Plain(f)>>))
             row == db.rows[id]
             now == new.rows[id]
         IN  /\ OnlyRow(db, new, id)
             /\ now.known /\ now.farmer = f /\ now.escrow = row.escrow
             /\ now.title = row.title /\ now.status = row.status
<1> DEFINE row == db.rows[id]
           r == EscrowCreated(row, f)
           e == Event("CampaignCreated", id, <<Plain(f)>>)
<1>1. e.name = "CampaignCreated" /\ e.key = id /\ e.slots[1].v = f
  BY DEF Event, Plain
<1> HIDE DEF e
<1>2. Handled(db, e) = [db EXCEPT !.rows = [db.rows EXCEPT ![id] = r]]
  <2>1. Handled(db, e) = WithRow(db, e.key, EscrowCreated(db.rows[e.key], e.slots[1].v))
    BY <1>1 DEF Handled
  <2>2. QED
    BY <1>1, <2>1 DEF WithRow
<1>3. row \in Row /\ f \in Parties
  BY DEF DbType, Parties, People
<1>4. /\ r \in Row /\ r.known = TRUE /\ r.farmer = f /\ r.escrow = row.escrow
      /\ r.title = row.title /\ r.status = row.status
  BY <1>3 DEF Row, EscrowCreated
<1> HIDE DEF r
<1> DEFINE new == Handled(db, e)
<1>5. OnlyRow(db, new, id) /\ new.rows[id] = r
  BY <1>2, <1>4, RowWritten
<1> HIDE DEF new
<1>6. QED
  BY <1>4, <1>5 DEF e, new

\* Nothing but the status of one row may differ.
OnlyStatus(db, new, id) ==
  LET row == db.rows[id]
      now == new.rows[id]
  IN  /\ OnlyRow(db, new, id)
      /\ now.known = row.known /\ now.farmer = row.farmer
      /\ now.escrow = row.escrow /\ now.title = row.title

\* An event of the escrow's own writes the status it stands for; a release finds only
\* Funded rows.
LEMMA HandledOwnEvent ==
  ASSUME NEW db, DbType(db), NEW id \in Ids, db.rows[id].known,
         NEW name \in DOMAIN OwnStatus, OwnStatus[name] \in Statuses
  PROVE  LET new == Handled(db, Event(name, id, <<>>)) IN
         /\ OnlyStatus(db, new, id)
         /\ new.rows[id].status =
              IF name = "TrancheReleased" /\ db.rows[id].status # "Funded"
              THEN db.rows[id].status ELSE OwnStatus[name]
<1> DEFINE row == db.rows[id]
           r == [row EXCEPT !.status = OwnStatus[name]]
           e == Event(name, id, <<>>)
<1>1. e.name = name /\ e.key = id
  BY DEF Event
<1>2. name \notin {"FarmerRegistered", "CampaignRegistered", "CampaignEscrowLinked",
                   "CampaignStatusUpdated", "CampaignCreated"}
  BY DEF OwnStatus
<1> HIDE DEF e
<1>a. Handled(db, e) = HandledOwn(db, e)
  BY <1>1, <1>2 DEF Handled
<1>3. CASE name = "TrancheReleased" /\ row.status # "Funded"
  <2>1. e.name = "TrancheReleased" /\ db.rows[e.key].status # "Funded"
    BY <1>1, <1>3
  <2>2. Handled(db, e) = db
    BY <1>a, <2>1 DEF HandledOwn
  <2>3. QED
    BY <1>3, <2>2 DEF OnlyRow, OnlyStatus, e
<1>4. CASE ~(name = "TrancheReleased" /\ row.status # "Funded")
  <2>1. /\ e.name \in DOMAIN OwnStatus /\ db.rows[e.key].known
        /\ e.name = "TrancheReleased" => db.rows[e.key].status = "Funded"
    BY <1>1, <1>4
  <2>2. Handled(db, e) = [db EXCEPT !.rows = [db.rows EXCEPT ![id] = r]]
    BY <1>a, <1>1, <2>1 DEF HandledOwn, WithRow
  <2>3. row \in Row
    BY DEF DbType
  <2>4. /\ r \in Row /\ r.known = row.known /\ r.farmer = row.farmer /\ r.escrow = row.escrow
        /\ r.title = row.title /\ r.status = OwnStatus[name]
    BY <2>3 DEF Row
  <2> HIDE DEF r
  <2> DEFINE new == Handled(db, e)
  <2>5. OnlyRow(db, new, id) /\ new.rows[id] = r
    BY <2>2, <2>4, RowWritten
  <2> HIDE DEF new
  <2>6. QED
    BY <1>4, <2>4, <2>5 DEF OnlyStatus, e, new
<1>5. QED
  BY <1>3, <1>4

\* A farmer's registration gives a name; its mirror, which has one slot, gives none.
LEMMA HandledFarmer ==
  ASSUME NEW db, DbType(db), NEW p \in Parties
  PROVE  /\ \A slots : Len(slots) = 1 =>
              LET new == Handled(db, Event("FarmerRegistered", p, slots)) IN
              DbType(new) /\ new.rows = db.rows /\ new.users = db.users
         /\ \A name \in Names :
              LET new == Handled(db, Event("FarmerRegistered", p, <<Plain(p), Plain(name)>>)) IN
              /\ DbType(new) /\ new.rows = db.rows
              /\ new.users[p] = KeepUnless(TextIn(Plain(name)), db.users[p])
              /\ \A q \in Parties \ {p} : new.users[q] = db.users[q]
<1>1. ASSUME NEW slots, Len(slots) = 1
      PROVE  LET new == Handled(db, Event("FarmerRegistered", p, slots)) IN
             DbType(new) /\ new.rows = db.rows /\ new.users = db.users
  <2> DEFINE e == Event("FarmerRegistered", p, slots)
  <2>1. e.name = "FarmerRegistered" /\ e.key = p /\ e.slots = slots
    BY DEF Event
  <2> HIDE DEF e
  <2>2. Handled(db, e) = [db EXCEPT !.users = [db.users EXCEPT ![p] = db.users[p]]]
    <3>1. Handled(db, e) = WithName(db, e.key, NoText)
      BY <1>1, <2>1 DEF Handled
    <3>2. QED
      BY <2>1, <3>1 DEF WithName, KeepUnless
  <2>3. QED
    BY <2>2 DEF DbType, e
<1>2. ASSUME NEW name \in Names
      PROVE  LET new == Handled(db, Event("FarmerRegistered", p, <<Plain(p), Plain(name)>>)) IN
             /\ DbType(new) /\ new.rows = db.rows
             /\ new.users[p] = KeepUnless(TextIn(Plain(name)), db.users[p])
             /\ \A q \in Parties \ {p} : new.users[q] = db.users[q]
  <2> DEFINE e == Event("FarmerRegistered", p, <<Plain(p), Plain(name)>>)
             v == KeepUnless(TextIn(Plain(name)), db.users[p])
  <2>1. /\ e.name = "FarmerRegistered" /\ e.key = p /\ Len(e.slots) # 1
        /\ e.slots[2] = Plain(name)
    BY DEF Event
  <2> HIDE DEF e
  <2>2. Handled(db, e) = [db EXCEPT !.users = [db.users EXCEPT ![p] = v]]
    <3>1. Handled(db, e) = WithName(db, e.key, TextIn(e.slots[2]))
      BY <2>1 DEF Handled
    <3>2. QED
      BY <2>1, <3>1 DEF WithName
  <2>3. v \in Names \cup {NoText}
    BY DEF KeepUnless, TextIn, Plain, DbType
  <2> HIDE DEF v
  <2>4. QED
    BY <2>2, <2>3 DEF DbType, e, v
<1>3. QED
  BY <1>1, <1>2

\* Events without a handler of their own change nothing.
LEMMA HandledOther ==
  ASSUME NEW db, NEW name \in {"ActivityRecorded", "CampaignStatusReconciled"}, NEW key, NEW slots
  PROVE  Handled(db, Event(name, key, slots)) = db
<1> DEFINE e == Event(name, key, slots)
<1>1. e.name \in {"ActivityRecorded", "CampaignStatusReconciled"}
  BY DEF Event
<1> HIDE DEF e
<1>2. HandledOwn(db, e) = db
  BY <1>1 DEF HandledOwn, OwnStatus
<1>3. Handled(db, e) = db
  BY <1>1, <1>2 DEF Handled
<1>4. QED
  BY <1>3 DEF e

\* What the parser reads: a text, unless it is the name of an action; of an action's tag
\* no text; of an actor no status; and of a bare string no status either.
LEMMA Readings ==
  ASSUME shape \in Shapes
  PROVE  /\ \A x : TextIn(Plain(x)) = Shown(x)
         /\ \A a \in ActivityTags : TextIn(Enum(a)) = NoText
         /\ \A x, y : StatusIn(<<Plain(x), y>>) = NoText
         /\ \A x, y : StatusIn(<<Enum(x), Enum(y)>>) = IF shape = "string" THEN NoText ELSE y
  BY DEF Shapes, TextIn, Plain, Enum, Shown, StatusIn, IsTagLike

-----------------------------------------------------------------------------
(* What the index makes of one invocation.                                   *)

Mirror(id, actor, action) == Event("CampaignRegistered", id, <<Plain(actor), Enum(action)>>)

StatusMirror(id, actor, action) ==
  Event("CampaignStatusUpdated", id, <<Plain(actor), Enum(action)>>)

Logged(id, actor, action) == Event("ActivityRecorded", id, <<Plain(actor), Enum(action)>>)

\* The registry's event of a status reaches a row that is there, unless an enum is
\* decoded to a bare string.
LEMMA HandledTold ==
  ASSUME NEW db, DbType(db), NEW id \in Ids, shape \in Shapes, NEW status \in Statuses
  PROVE  LET new == Handled(db, StatusEvent(id, status)) IN
         /\ OnlyStatus(db, new, id)
         /\ db.rows[id].known =>
              new.rows[id].status = IF shape = "string" THEN db.rows[id].status ELSE status
<1> DEFINE slots == <<Enum(store.record[id].status), Enum(status)>>
           u == Handled(db, Event("CampaignStatusUpdated", id, slots))
           new == Handled(db, StatusEvent(id, status))
<1>1. StatusIn(slots) = IF shape = "string" THEN NoText ELSE status
  BY Readings
<1>2. status # NoText
  BY TextConstants
<1>3. new = u
  BY DEF StatusEvent
<1> HIDE DEF slots
<1>4. StatusIn(slots) \in Statuses \cup {"Active", NoText}
  BY <1>1
<1>5. /\ OnlyRow(db, u, id)
      /\ u.rows[id].known = db.rows[id].known
      /\ u.rows[id].farmer = db.rows[id].farmer
      /\ u.rows[id].escrow = db.rows[id].escrow /\ u.rows[id].title = db.rows[id].title
      /\ u.rows[id].status = IF db.rows[id].known
                             THEN KeepUnless(StatusIn(slots), db.rows[id].status)
                             ELSE db.rows[id].status
  BY <1>4, HandledStatus
<1> HIDE DEF u, new
<1>6. /\ OnlyStatus(db, new, id)
      /\ db.rows[id].known =>
           new.rows[id].status = IF shape = "string" THEN db.rows[id].status ELSE status
  BY <1>1, <1>2, <1>3, <1>5 DEF KeepUnless, OnlyStatus
<1>7. QED
  BY <1>6 DEF new

\* A mirror of a status change holds an actor where the status is expected.
LEMMA HandledMirror ==
  ASSUME NEW db, DbType(db), NEW id \in Ids, shape \in Shapes, NEW actor, NEW action
  PROVE  LET new == Handled(db, StatusMirror(id, actor, action)) IN
         OnlyStatus(db, new, id) /\ new.rows[id].status = db.rows[id].status
<1> DEFINE slots == <<Plain(actor), Enum(action)>>
           u == Handled(db, Event("CampaignStatusUpdated", id, slots))
           new == Handled(db, StatusMirror(id, actor, action))
<1>1. StatusIn(slots) = NoText
  BY Readings
<1>2. new = u
  BY DEF StatusMirror
<1> HIDE DEF slots
<1>3. /\ OnlyRow(db, u, id)
      /\ u.rows[id].known = db.rows[id].known
      /\ u.rows[id].farmer = db.rows[id].farmer
      /\ u.rows[id].escrow = db.rows[id].escrow /\ u.rows[id].title = db.rows[id].title
      /\ u.rows[id].status = IF db.rows[id].known
                             THEN KeepUnless(StatusIn(slots), db.rows[id].status)
                             ELSE db.rows[id].status
  BY <1>1, HandledStatus
<1> HIDE DEF u, new
<1>4. OnlyStatus(db, new, id) /\ new.rows[id].status = db.rows[id].status
  BY <1>1, <1>2, <1>3 DEF KeepUnless, OnlyStatus
<1>5. QED
  BY <1>4 DEF new

\* An activity is one event, or two.
LEMMA ActivityEvents ==
  ASSUME NEW id, NEW actor, NEW action
  PROVE  /\ action = "FarmerRegistered" =>
              Activity(id, actor, action) =
                <<Event("FarmerRegistered", actor, <<Plain(actor)>>), Logged(id, actor, action)>>
         /\ action \in {"CampaignCreated", "CampaignRegistered"} =>
              Activity(id, actor, action) =
                <<Mirror(id, actor, action), Logged(id, actor, action)>>
         /\ action = "CampaignStatusChanged" =>
              Activity(id, actor, action) =
                <<StatusMirror(id, actor, action), Logged(id, actor, action)>>
         /\ action \notin {"FarmerRegistered", "CampaignCreated", "CampaignRegistered",
                           "CampaignStatusChanged"} =>
              Activity(id, actor, action) = <<Logged(id, actor, action)>>
<1> DEFINE record == <<Plain(actor), Enum(action)>>
           mirror ==
             CASE action = "FarmerRegistered" ->
                    <<Event("FarmerRegistered", actor, <<Plain(actor)>>)>>
               [] action \in {"CampaignCreated", "CampaignRegistered"} ->
                    <<Event("CampaignRegistered", id, record)>>
               [] action = "CampaignStatusChanged" ->
                    <<Event("CampaignStatusUpdated", id, record)>>
               [] OTHER -> <<>>
           last == Event("ActivityRecorded", id, record)
           event == Event("FarmerRegistered", actor, <<Plain(actor)>>)
           made == Event("CampaignRegistered", id, record)
           status == Event("CampaignStatusUpdated", id, record)
<1>1. Activity(id, actor, action) = mirror \o <<last>>
  BY DEF Activity
<1>2. /\ action = "FarmerRegistered" => mirror = <<event>>
      /\ action \in {"CampaignCreated", "CampaignRegistered"} => mirror = <<made>>
      /\ action = "CampaignStatusChanged" => mirror = <<status>>
      /\ action \notin {"FarmerRegistered", "CampaignCreated", "CampaignRegistered",
                        "CampaignStatusChanged"} => mirror = <<>>
  OBVIOUS
<1>3. /\ made = Mirror(id, actor, action) /\ status = StatusMirror(id, actor, action)
      /\ last = Logged(id, actor, action)
  BY DEF Mirror, StatusMirror, Logged
<1> HIDE DEF mirror, last, event, made, status
<1>4. /\ <<event>> \o <<last>> = <<event, last>> /\ <<made>> \o <<last>> = <<made, last>>
      /\ <<status>> \o <<last>> = <<status, last>> /\ <<>> \o <<last>> = <<last>>
  BY Sequels
<1>5. QED
  BY <1>1, <1>2, <1>3, <1>4 DEF event

\* One event.
LEMMA ProcessOne ==
  ASSUME NEW e, Process(<<e>>)
  PROVE  index' = Handled(index, e)
<1> DEFINE events == <<e>>
<1>1. DOMAIN events = 1 .. 1 /\ events[1] = e
  OBVIOUS
<1> HIDE DEF events
<1>2. index' = Handled(index, events[1])
  BY <1>1, ProcessFew DEF events
<1>3. QED
  BY <1>1, <1>2

\* Two events.
LEMMA ProcessTwo ==
  ASSUME NEW d, NEW e, Process(<<d, e>>)
  PROVE  index' = Handled(Handled(index, d), e)
<1> DEFINE events == <<d, e>>
<1>1. DOMAIN events = 1 .. 2 /\ events[1] = d /\ events[2] = e
  OBVIOUS
<1> HIDE DEF events
<1>2. index' = Handled(Handled(index, events[1]), events[2])
  BY <1>1, ProcessFew DEF events
<1>3. QED
  BY <1>1, <1>2

\* An activity by itself: only its mirror, if it has one, may matter.
LEMMA ProcessActivity ==
  ASSUME NEW id, NEW actor, NEW action, Process(Activity(id, actor, action))
  PROVE  /\ action = "FarmerRegistered" =>
              index' = Handled(index, Event("FarmerRegistered", actor, <<Plain(actor)>>))
         /\ action \in {"CampaignCreated", "CampaignRegistered"} =>
              index' = Handled(index, Mirror(id, actor, action))
         /\ action = "CampaignStatusChanged" =>
              index' = Handled(index, StatusMirror(id, actor, action))
         /\ action \notin {"FarmerRegistered", "CampaignCreated", "CampaignRegistered",
                           "CampaignStatusChanged"} => index' = index
<1> DEFINE last == Logged(id, actor, action)
<1>1. \A db : Handled(db, last) = db
  BY HandledOther DEF Logged
<1> HIDE DEF last
<1>2. ASSUME NEW e, Process(<<e, last>>) PROVE index' = Handled(index, e)
  BY <1>1, <1>2, ProcessTwo
<1>3. ASSUME Process(<<last>>) PROVE index' = index
  BY <1>1, <1>3, ProcessOne
<1> DEFINE event == Event("FarmerRegistered", actor, <<Plain(actor)>>)
<1>4. /\ action = "FarmerRegistered" => Activity(id, actor, action) = <<event, last>>
      /\ action \in {"CampaignCreated", "CampaignRegistered"} =>
           Activity(id, actor, action) = <<Mirror(id, actor, action), last>>
      /\ action = "CampaignStatusChanged" =>
           Activity(id, actor, action) = <<StatusMirror(id, actor, action), last>>
      /\ action \notin {"FarmerRegistered", "CampaignCreated", "CampaignRegistered",
                        "CampaignStatusChanged"} => Activity(id, actor, action) = <<last>>
  BY ActivityEvents DEF last
<1> HIDE DEF event
<1>5. /\ action = "FarmerRegistered" => index' = Handled(index, event)
      /\ action \in {"CampaignCreated", "CampaignRegistered"} =>
           index' = Handled(index, Mirror(id, actor, action))
      /\ action = "CampaignStatusChanged" =>
           index' = Handled(index, StatusMirror(id, actor, action))
      /\ action \notin {"FarmerRegistered", "CampaignCreated", "CampaignRegistered",
                        "CampaignStatusChanged"} => index' = index
  BY <1>2, <1>3, <1>4
<1>6. QED
  BY <1>5 DEF event

\* The four events of a creation.
LEMMA ProcessCreation ==
  ASSUME NEW id, NEW f,
         Process(<<LinkedEvent(id, f, Escrow)>> \o Activity(id, Escrow, "CampaignCreated")
                   \o <<Event("CampaignCreated", id, <<Plain(f)>>)>>)
  PROVE  index' = Handled(Handled(Handled(index, LinkedEvent(id, f, Escrow)),
                                  Mirror(id, Escrow, "CampaignCreated")),
                          Event("CampaignCreated", id, <<Plain(f)>>))
<1> DEFINE a == LinkedEvent(id, f, Escrow)
           b == Mirror(id, Escrow, "CampaignCreated")
           c == Logged(id, Escrow, "CampaignCreated")
           d == Event("CampaignCreated", id, <<Plain(f)>>)
           events == (<<a>> \o <<b, c>>) \o <<d>>
<1>1. Activity(id, Escrow, "CampaignCreated") = <<b, c>>
  BY ActivityEvents
<1>2. Process(events)
  BY <1>1
<1>3. \A db : Handled(db, c) = db
  BY HandledOther DEF Logged
<1> HIDE DEF a, b, c, d
<1>4. DOMAIN events = 1 .. 4 /\ events[1] = a /\ events[2] = b /\ events[3] = c /\ events[4] = d
  BY Sequels
<1> HIDE DEF events
<1>5. index' = Handled(Handled(Handled(Handled(index, a), b), c), d)
  BY <1>2, <1>4, ProcessFew
<1>6. QED
  BY <1>3, <1>5 DEF a, b, d

\* The events of a handler that passes a status: the mirror of the activity, if it has
\* one, the status, and the event of the escrow's own, which comes first for Funded.
LEMMA ProcessNotification ==
  ASSUME NEW id, NEW status \in DOMAIN Notified,
         LET move == Notified[status]
             told == Activity(id, Escrow, move.action) \o <<StatusEvent(id, status)>>
             own  == <<Event(move.event, id, <<>>)>>
         IN  Process(IF status = "Funded" THEN own \o told ELSE told \o own)
  PROVE  LET own == Event(Notified[status].event, id, <<>>)
             said == StatusEvent(id, status)
         IN  /\ status = "Failed" =>
                  index' = Handled(Handled(Handled(index,
                             StatusMirror(id, Escrow, "CampaignStatusChanged")), said), own)
             /\ status = "Funded" => index' = Handled(Handled(index, own), said)
             /\ status \notin {"Failed", "Funded"} => index' = Handled(Handled(index, said), own)
<1> DEFINE action == Notified[status].action
           own == Event(Notified[status].event, id, <<>>)
           said == StatusEvent(id, status)
           mirror == StatusMirror(id, Escrow, "CampaignStatusChanged")
           last == Logged(id, Escrow, action)
           told == Activity(id, Escrow, action) \o <<said>>
           events == IF status = "Funded" THEN <<own>> \o told ELSE told \o <<own>>
<1>1. Process(events)
  OBVIOUS
<1>2. /\ status = "Failed" => action = "CampaignStatusChanged"
      /\ status # "Failed" =>
           action \notin {"FarmerRegistered", "CampaignCreated", "CampaignRegistered",
                          "CampaignStatusChanged"}
  BY DEF Notified
<1>3. /\ status = "Failed" => Activity(id, Escrow, action) = <<mirror, last>>
      /\ status # "Failed" => Activity(id, Escrow, action) = <<last>>
  BY <1>2, ActivityEvents
<1>4. \A db : Handled(db, last) = db
  BY HandledOther DEF Logged
<1> HIDE DEF own, said, mirror, last, action
<1>5. CASE status = "Failed"
  <2> DEFINE s == (<<mirror>> \o <<last, said>>) \o <<own>>
  <2>1. <<mirror, last>> \o <<said>> = <<mirror>> \o <<last, said>>
    BY SameSequel
  <2>2. events = s
    BY <1>3, <1>5, <2>1
  <2>3. DOMAIN s = 1 .. 4 /\ s[1] = mirror /\ s[2] = last /\ s[3] = said /\ s[4] = own
    BY Sequels
  <2> HIDE DEF s, events
  <2>4. index' = Handled(Handled(Handled(Handled(index, mirror), last), said), own)
    BY <1>1, <2>2, <2>3, ProcessFew
  <2>5. QED
    BY <1>4, <1>5, <2>4 DEF own, said, mirror
<1>6. CASE status = "Funded"
  <2> DEFINE s == <<own, last>> \o <<said>>
  <2>a. <<last>> \o <<said>> = <<last, said>>
    BY Sequels
  <2>b. <<own>> \o <<last, said>> = s
    BY SameSequel
  <2>2. events = s
    BY <1>3, <1>6, <2>a, <2>b
  <2>3. DOMAIN s = 1 .. 3 /\ s[1] = own /\ s[2] = last /\ s[3] = said
    BY Sequels
  <2> HIDE DEF s, events
  <2>4. index' = Handled(Handled(Handled(index, own), last), said)
    BY <1>1, <2>2, <2>3, ProcessFew
  <2>5. QED
    BY <1>4, <1>6, <2>4 DEF own, said
<1>7. CASE status \notin {"Failed", "Funded"}
  <2> DEFINE s == <<last, said>> \o <<own>>
  <2>1. <<last>> \o <<said>> = <<last, said>>
    BY Sequels
  <2>2. events = s
    BY <1>3, <1>7, <2>1
  <2>3. DOMAIN s = 1 .. 3 /\ s[1] = last /\ s[2] = said /\ s[3] = own
    BY Sequels
  <2> HIDE DEF s, events
  <2>4. index' = Handled(Handled(Handled(index, last), said), own)
    BY <1>1, <2>2, <2>3, ProcessFew
  <2>5. QED
    BY <1>4, <1>7, <2>4 DEF own, said
<1>8. QED
  BY <1>5, <1>6, <1>7

-----------------------------------------------------------------------------
(* The invariant that ties the index to the contract.                        *)

\* A row is there from the registration on, with the title of the registration and the
\* contract of the record; farmer and status only as far as nothing has strayed; a bare
\* string shows the status by the escrow's own events alone.
RowFits(id) ==
  LET row == index.rows[id] IN
  /\ row.title = Shown(titles[id])
  /\ store.info[id] = Nobody => titles[id] = NoText
  /\ store.info[id] # Nobody => row.known
  /\ (store.info[id] # Nobody /\ id \notin strayed.farmer) => row.farmer = store.info[id]
  /\ row.escrow = store.record[id].escrow
  /\ onEscrow[id] # "None" => store.record[id].escrow = Escrow
  /\ (shape = "string" \/ id \in strayed.untold) => row.status = ToldByEscrow(id)
  /\ (shape # "string" /\ id \notin strayed.untold \cup strayed.reconciled) =>
       row.status = IF Linked(store, id) THEN store.record[id].status ELSE "Active"

Strays == {"farmer", "reconciled", "untold"}

UserFits(f) ==
  /\ index.users[f] = Shown(names[f])
  /\ f \notin Range(store.farmers) => names[f] = NoText

IndexInv ==
  /\ StoreInv(store) /\ store.farmers \in Seq(Owners)
  /\ shape \in Shapes /\ DbType(index)
  /\ titles \in [Ids -> Titles \cup {NoText}]
  /\ names \in [Owners -> Names \cup {NoText}]
  /\ Strays \subseteq DOMAIN strayed /\ DOMAIN onEscrow = Ids
  /\ \A id \in Ids : RowFits(id)
  /\ \A f \in Owners : UserFits(f)

\* Only register_farmer writes the list of farmers.
LEMMA FarmersKept ==
  ASSUME NEW s, StoreInv(s)
  PROVE  /\ \A v : [s EXCEPT !.admin = v].farmers = s.farmers
         /\ \A v : [s EXCEPT !.approved = v].farmers = s.farmers
         /\ \A id, actor, action : RecordActivity(s, id, actor, action).farmers = s.farmers
         /\ \A id, status : UpdateStatus(s, id, status).farmers = s.farmers
         /\ \A id, f : RegisterCampaign(s, id, f).farmers = s.farmers
         /\ \A id, f, c : LinkEscrow(s, id, f, c).farmers = s.farmers
<1> DEFINE Has(t) == {"farmers", "campaigns"} \subseteq DOMAIN t
<1>1. Has(s)
  BY DEF StoreInv, StoreType
<1>2. \A t, id : Has(t) => IndexCampaign(t, id).farmers = t.farmers
  BY DEF IndexCampaign
<1>3. ASSUME NEW id, NEW f PROVE RegisterCampaign(s, id, f).farmers = s.farmers
  <2> DEFINE u == [s EXCEPT !.info[id] = f]
  <2>1. Has(u) /\ u.farmers = s.farmers
    BY <1>1
  <2>2. RegisterCampaign(s, id, f) = IndexCampaign(u, id)
    BY DEF RegisterCampaign
  <2> HIDE DEF u, Has
  <2>3. QED
    BY <1>2, <2>1, <2>2
<1>4. ASSUME NEW id, NEW f, NEW c PROVE LinkEscrow(s, id, f, c).farmers = s.farmers
  <2> DEFINE r == [farmer |-> f, escrow |-> c, status |-> "Active"]
             b == [s.byFarmer EXCEPT ![f] = AppendPaged(s.byFarmer[f], id)]
             u == [[s EXCEPT !.record = [s.record EXCEPT ![id] = r]] EXCEPT !.byFarmer = b]
  <2>1. LinkEscrow(s, id, f, c) = IndexCampaign(u, id)
    BY DEF LinkEscrow
  <2> HIDE DEF b, r
  <2>2. Has(u) /\ u.farmers = s.farmers
    BY <1>1
  <2> HIDE DEF u, Has
  <2>3. QED
    BY <1>2, <2>1, <2>2
<1>5. QED
  BY <1>1, <1>3, <1>4 DEF RecordActivity, UpdateStatus

\* A step that concerns one campaign.
LEMMA OneRowChanges ==
  ASSUME IndexInv, NEW id \in Ids, OnlyRow(index, index', id),
         StoreInv(store'), store'.farmers = store.farmers,
         titles' \in [Ids -> Titles \cup {NoText}], UNCHANGED <<names, shape>>,
         DOMAIN onEscrow' = Ids, Strays \subseteq DOMAIN strayed',
         \A o \in Ids \ {id} : /\ store'.info[o] = store.info[o]
                               /\ store'.record[o] = store.record[o]
                               /\ titles'[o] = titles[o] /\ onEscrow'[o] = onEscrow[o]
                               /\ o \in strayed'.farmer <=> o \in strayed.farmer
                               /\ o \in strayed'.reconciled <=> o \in strayed.reconciled
                               /\ o \in strayed'.untold <=> o \in strayed.untold,
         RowFits(id)'
  PROVE  IndexInv'
<1>1. ASSUME NEW o \in Ids \ {id} PROVE RowFits(o)'
  BY DEF IndexInv, RowFits, OnlyRow, Linked, Strays, ToldByEscrow
<1>2. \A o \in Ids : RowFits(o)'
  BY <1>1
<1>3. \A f \in Owners : UserFits(f)'
  BY DEF IndexInv, UserFits, OnlyRow
<1>4. QED
  BY <1>2, <1>3 DEF IndexInv, OnlyRow

\* A step that concerns none.
LEMMA NoRowChanges ==
  ASSUME IndexInv, DbType(index'), index'.rows = index.rows, index'.users = index.users,
         StoreInv(store'), store'.farmers = store.farmers, SameLists(store, store'),
         UNCHANGED <<titles, names, shape, onEscrow, strayed>>
  PROVE  IndexInv'
<1>1. ASSUME NEW o \in Ids PROVE RowFits(o)'
  BY DEF IndexInv, RowFits, Linked, SameLists, ToldByEscrow
<1>2. ASSUME NEW f \in Owners PROVE UserFits(f)'
  BY DEF IndexInv, UserFits
<1>3. QED
  BY <1>1, <1>2 DEF IndexInv

\* Nothing is registered or indexed at first.
LEMMA InitIndexInv == RegistryIndexInit => IndexInv
<1> SUFFICES ASSUME RegistryIndexInit PROVE IndexInv
  OBVIOUS
<1>1. store = EmptyStore /\ StoreInv(store)
  BY EmptyStoreInv DEF RegistryIndexInit, Init
<1>2. /\ store.farmers = <<>>
      /\ \A id \in Ids : /\ store.info[id] = Nobody /\ store.record[id].escrow = Nobody
                         /\ ~Linked(store, id)
  BY <1>1 DEF EmptyStore, Linked
<1>3. /\ index.rows = [id \in Ids |-> NewRow] /\ index.users = [p \in Parties |-> NoText]
      /\ {"rows", "users"} \subseteq DOMAIN index
  BY DEF RegistryIndexInit, Parties
<1>4. NewRow \in Row /\ NewRow.title = NoText /\ NewRow.escrow = Nobody /\ NewRow.status = "Active"
  BY DEF NewRow, Row
<1>5. DbType(index)
  BY <1>3, <1>4 DEF DbType
<1>6. Shown(NoText) = NoText
  BY DEF Shown
<1>7. /\ titles = [id \in Ids |-> NoText] /\ names = [f \in Owners |-> NoText]
      /\ shape \in Shapes /\ Strays \subseteq DOMAIN strayed
      /\ onEscrow = [id \in Ids |-> "None"] /\ strayed.untold = {}
  BY DEF RegistryIndexInit, Strays
<1>8. ASSUME NEW id \in Ids PROVE RowFits(id)
  BY <1>2, <1>3, <1>4, <1>6, <1>7 DEF RowFits, ToldByEscrow
<1>9. ASSUME NEW f \in Owners PROVE UserFits(f)
  BY <1>2, <1>3, <1>6, <1>7 DEF UserFits, Parties, People
<1>10. <<>> \in Seq(Owners)
  OBVIOUS
<1>11. QED
  BY <1>1, <1>2, <1>5, <1>7, <1>8, <1>9, <1>10 DEF IndexInv

-----------------------------------------------------------------------------
(* Every invocation preserves it, and the log only grows.                    *)

\* A row of the escrow's campaign is there.
LEMMA EscrowRowKnown ==
  ASSUME IndexInv, NEW id \in Ids, onEscrow[id] # "None"
  PROVE  /\ store.record[id].escrow = Escrow /\ Linked(store, id)
         /\ store.info[id] # Nobody /\ index.rows[id].known
<1>1. StoreInv(store) /\ RowFits(id)
  BY DEF IndexInv
<1>2. store.record[id].escrow = Escrow /\ Linked(store, id)
  BY <1>1, RegistryConstants DEF RowFits, Linked
<1>3. store.info[id] # Nobody
  BY <1>1, <1>2, RegistryConstants DEF StoreInv, OfRegistrant, People
<1>4. QED
  BY <1>1, <1>2, <1>3 DEF RowFits

\* The administration appears in no row.
LEMMA AdministerKeeps ==
  ASSUME IndexInv, Administer
  PROVE  IndexInv' /\ LogGrows(store, store')
<1>1. PICK v : store' = [store EXCEPT !.admin = v] \/ store' = [store EXCEPT !.approved = v]
  BY DEF Administer, Administration, Initialize, UpdateAdmin, ApproveContract, RevokeContract
<1>2. StoreInv(store)
  BY DEF IndexInv
<1>3. StoreInv(store') /\ store'.log = store.log
  <2> DEFINE s == [store EXCEPT !.admin = v]
             u == [store EXCEPT !.approved = v]
  <2>1. StoreInv(s) /\ s.log = store.log /\ StoreInv(u) /\ u.log = store.log
    BY <1>2, AdministrationKeeps
  <2>2. store' = s \/ store' = u
    BY <1>1
  <2> HIDE DEF s, u
  <2>3. QED
    BY <2>1, <2>2
<1>4. store'.farmers = store.farmers /\ SameLists(store, store')
  BY <1>1, <1>2 DEF StoreInv, StoreType, SameLists
<1>5. LogGrows(store, store')
  BY <1>2, <1>3, SameLogGrows DEF StoreInv
<1>6. index' = index
  BY ProcessFew DEF Administer
<1>7. UNCHANGED <<titles, names, shape, onEscrow, strayed>>
  BY DEF Administer, ChainOnly
<1>8. QED
  BY <1>3, <1>4, <1>5, <1>6, <1>7, NoRowChanges DEF IndexInv

\* A farmer has no name before, so that a text the parser refuses leaves none.
LEMMA FarmerJoinsKeeps ==
  ASSUME IndexInv, NEW f \in Owners, NEW name \in Names, FarmerJoins(f, name)
  PROVE  IndexInv' /\ LogGrows(store, store')
<1>a. StoreInv(store) /\ store.farmers \in Seq(Owners) /\ DbType(index) /\ shape \in Shapes
  BY DEF IndexInv
<1>1. /\ f \notin Range(store.farmers)
      /\ store' = [store EXCEPT !.farmers = Append(store.farmers, f)]
      /\ names' = [names EXCEPT ![f] = name] /\ UNCHANGED <<titles, shape, onEscrow, strayed>>
  BY DEF FarmerJoins, RegisterFarmer
<1>2. StoreInv(store') /\ store'.log = store.log
  BY <1>a, <1>1, AdministrationKeeps
<1>3. store'.farmers = Append(store.farmers, f) /\ SameLists(store, store')
  BY <1>a, <1>1 DEF StoreInv, StoreType, SameLists
<1>4. LogGrows(store, store')
  BY <1>a, <1>2, SameLogGrows DEF StoreInv
<1>5. index' = Handled(index, Event("FarmerRegistered", f, <<Plain(f), Plain(name)>>))
  BY ProcessOne DEF FarmerJoins
<1>b. f \in Parties
  BY DEF Parties, People
<1> DEFINE new == Handled(index, Event("FarmerRegistered", f, <<Plain(f), Plain(name)>>))
<1>6. /\ DbType(new) /\ new.rows = index.rows
      /\ new.users[f] = KeepUnless(TextIn(Plain(name)), index.users[f])
      /\ \A q \in Parties \ {f} : new.users[q] = index.users[q]
  BY <1>a, <1>b, HandledFarmer
<1> HIDE DEF new
<1>7. /\ DbType(index') /\ index'.rows = index.rows
      /\ index'.users[f] = KeepUnless(Shown(name), index.users[f])
      /\ \A q \in Parties \ {f} : index'.users[q] = index.users[q]
  <2>1. TextIn(Plain(name)) = Shown(name)
    BY <1>a, Readings
  <2>2. index' = new
    BY <1>5 DEF new
  <2>3. QED
    BY <1>6, <2>1, <2>2
<1>8. index'.users[f] = Shown(name)
  <2>1. index.users[f] = NoText
    BY <1>1 DEF IndexInv, UserFits, Shown
  <2>2. QED
    BY <1>7, <2>1 DEF KeepUnless
<1>9. Range(store'.farmers) = Range(store.farmers) \cup {f} /\ store'.farmers \in Seq(Owners)
  <2> DEFINE c == store.farmers
             d == Append(c, f)
             n == Len(c)
  <2>1. /\ n \in Nat /\ DOMAIN c = 1 .. n /\ DOMAIN d = 1 .. (n + 1) /\ d \in Seq(Owners)
        /\ d[n + 1] = f /\ \A i \in 1 .. n : d[i] = c[i]
    BY <1>a
  <2> HIDE DEF n, c, d
  <2>2. \A i \in 1 .. (n + 1) : i \in 1 .. n \/ i = n + 1
    BY <2>1
  <2>3. n + 1 \in 1 .. (n + 1) /\ \A i \in 1 .. n : i \in 1 .. (n + 1)
    BY <2>1
  <2>4. Range(d) = Range(c) \cup {f}
    BY <2>1, <2>2, <2>3 DEF Range
  <2>5. QED
    BY <1>3, <2>1, <2>4 DEF c, d
<1>10. /\ names' \in [Owners -> Names \cup {NoText}]
       /\ names'[f] = name /\ \A g \in Owners \ {f} : names'[g] = names[g]
  BY <1>1 DEF IndexInv
<1>11. ASSUME NEW o \in Ids PROVE RowFits(o)'
  BY <1>1, <1>3, <1>7 DEF IndexInv, RowFits, Linked, SameLists, ToldByEscrow
<1>12. ASSUME NEW g \in Owners PROVE UserFits(g)'
  <2>1. CASE g = f
    BY <1>8, <1>9, <1>10, <2>1 DEF UserFits
  <2>2. CASE g # f
    <3>1. g \in Parties \ {f} /\ UserFits(g)
      BY <2>2 DEF IndexInv, Parties, People
    <3>2. QED
      BY <1>7, <1>9, <1>10, <2>2, <3>1 DEF UserFits
  <2>3. QED
    BY <2>1, <2>2
<1>13. QED
  BY <1>1, <1>2, <1>4, <1>7, <1>9, <1>10, <1>11, <1>12 DEF IndexInv

\* A registration finds no title, and leaves its own.
LEMMA RegistrationKeeps ==
  ASSUME IndexInv, NEW id \in Ids, NEW f \in Owners, NEW title \in Titles,
         CampaignIsRegistered(id, f, title)
  PROVE  IndexInv' /\ LogGrows(store, store')
<1>a. /\ StoreInv(store) /\ DbType(index) /\ shape \in Shapes /\ RowFits(id)
      /\ titles \in [Ids -> Titles \cup {NoText}]
      /\ Strays \subseteq DOMAIN strayed /\ DOMAIN onEscrow = Ids
  BY DEF IndexInv
<1>1. /\ store.info[id] = Nobody /\ store' = RegisterCampaign(store, id, f)
      /\ titles' = [titles EXCEPT ![id] = title]
      /\ strayed' = [strayed EXCEPT !.farmer = strayed.farmer \ {id}]
      /\ UNCHANGED <<names, shape, onEscrow>>
  BY DEF CampaignIsRegistered, FarmerRegistersCampaign
<1> DEFINE s == RegisterCampaign(store, id, f)
<1>2. /\ StoreInv(s) /\ s.log = store.log /\ DOMAIN s = DOMAIN store
      /\ s.record = store.record /\ s.info = [store.info EXCEPT ![id] = f]
  BY <1>a, <1>1, RegisterCampaignKeeps
<1> HIDE DEF s
<1>3. /\ StoreInv(store') /\ store'.log = store.log /\ store'.record = store.record
      /\ store'.info[id] = f /\ \A o \in Ids \ {id} : store'.info[o] = store.info[o]
      /\ store'.farmers = store.farmers
  <2>1. store' = s /\ store'.farmers = store.farmers
    BY <1>a, <1>1, FarmersKept DEF s
  <2>2. s.info[id] = f /\ \A o \in Ids \ {id} : s.info[o] = store.info[o]
    BY <1>a, <1>2 DEF StoreInv, StoreType
  <2>3. QED
    BY <1>2, <2>1, <2>2
<1>4. LogGrows(store, store')
  BY <1>a, <1>3, SameLogGrows DEF StoreInv
<1> DEFINE slots == <<Plain(f), Plain(title)>>
           new == Handled(index, Event("CampaignRegistered", id, slots))
<1>5. index' = new
  BY ProcessOne DEF CampaignIsRegistered
<1>6. slots[1].v = f /\ TextIn(slots[2]) = Shown(title)
  BY <1>a, Readings DEF Plain
<1>7. f \in Parties /\ Shown(title) \in Titles \cup {NoText}
  BY DEF Parties, People, Shown
<1> HIDE DEF slots
<1>8. /\ OnlyRow(index, new, id)
      /\ new.rows[id].known /\ new.rows[id].farmer = f
      /\ new.rows[id].title = KeepUnless(Shown(title), index.rows[id].title)
      /\ new.rows[id].escrow = index.rows[id].escrow
      /\ new.rows[id].status = index.rows[id].status
  BY <1>a, <1>6, <1>7, HandledRegistered
<1> HIDE DEF new
<1>9. titles'[id] = title /\ titles' \in [Ids -> Titles \cup {NoText}]
      /\ \A o \in Ids \ {id} : titles'[o] = titles[o]
  BY <1>a, <1>1
<1>10. /\ Strays \subseteq DOMAIN strayed'
       /\ strayed'.farmer = strayed.farmer \ {id} /\ strayed'.reconciled = strayed.reconciled
       /\ strayed'.untold = strayed.untold
  BY <1>a, <1>1 DEF Strays
<1>11. index'.rows[id].title = Shown(title)
  <2>1. index.rows[id].title = NoText
    BY <1>a, <1>1 DEF RowFits, Shown
  <2>2. QED
    BY <1>5, <1>8, <2>1 DEF KeepUnless
<1>12. f # Nobody
  BY RegistryConstants DEF People
<1>13. RowFits(id)'
  BY <1>a, <1>1, <1>3, <1>5, <1>8, <1>9, <1>10, <1>11, <1>12 DEF RowFits, Linked, ToldByEscrow
<1>14. QED
  BY <1>a, <1>1, <1>3, <1>4, <1>5, <1>8, <1>9, <1>10, <1>13, OneRowChanges

\* A link finds a row, whose status is the one a link begins with.
LEMMA LinkKeeps ==
  ASSUME IndexInv, NEW id \in Ids, NEW f \in Owners, NEW c \in Contracts,
         FarmerLinksCampaign(id, f, c)
  PROVE  IndexInv' /\ LogGrows(store, store')
<1>a. /\ StoreInv(store) /\ DbType(index) /\ shape \in Shapes /\ RowFits(id)
      /\ titles \in [Ids -> Titles \cup {NoText}]
      /\ Strays \subseteq DOMAIN strayed /\ DOMAIN onEscrow = Ids
  BY DEF IndexInv
<1>1. /\ CanLink(store, id, f) /\ store' = LinkEscrow(store, id, f, c)
      /\ strayed' = [strayed EXCEPT !.farmer = strayed.farmer \ {id}]
      /\ UNCHANGED <<titles, names, shape, onEscrow>>
  BY DEF FarmerLinksCampaign, FarmerLinks
<1> DEFINE s == LinkEscrow(store, id, f, c)
           record == [farmer |-> f, escrow |-> c, status |-> "Active"]
<1>2. /\ StoreInv(s) /\ s.log = store.log /\ DOMAIN s = DOMAIN store
      /\ s.info = store.info /\ s.record = [store.record EXCEPT ![id] = record]
  <2>1. StoreInv(store) /\ CanLink(store, id, f)
    BY <1>a, <1>1
  <2>2. QED
    BY <2>1, LinkEscrowKeeps
<1> HIDE DEF s
<1>b. record.escrow = c /\ record.status = "Active"
  OBVIOUS
<1> HIDE DEF record
<1>3. /\ StoreInv(store') /\ store'.log = store.log /\ store'.info = store.info
      /\ store'.record[id] = record /\ \A o \in Ids \ {id} : store'.record[o] = store.record[o]
      /\ store'.farmers = store.farmers
  <2>1. store' = s /\ store'.farmers = store.farmers
    BY <1>a, <1>1, FarmersKept DEF s
  <2>2. s.record[id] = record /\ \A o \in Ids \ {id} : s.record[o] = store.record[o]
    BY <1>a, <1>2 DEF StoreInv, StoreType
  <2>3. QED
    BY <1>2, <2>1, <2>2
<1>4. LogGrows(store, store')
  BY <1>a, <1>3, SameLogGrows DEF StoreInv
<1>5. store.info[id] = f /\ f # Nobody /\ c # Nobody /\ ~Linked(store, id)
  BY <1>1, RegistryConstants DEF CanLink, People
<1>6. index.rows[id].known
  BY <1>a, <1>5 DEF RowFits, ToldByEscrow
<1> DEFINE new == Handled(index, LinkedEvent(id, f, c))
<1>7. index' = new
  BY ProcessOne DEF FarmerLinksCampaign
<1>8. /\ OnlyRow(index, new, id)
      /\ new.rows[id].known /\ new.rows[id].farmer = f /\ new.rows[id].escrow = c
      /\ new.rows[id].title = index.rows[id].title /\ new.rows[id].status = index.rows[id].status
  BY <1>a, <1>6, HandledLinked
<1> HIDE DEF new
<1>9. /\ Strays \subseteq DOMAIN strayed'
      /\ strayed'.farmer = strayed.farmer \ {id} /\ strayed'.reconciled = strayed.reconciled
      /\ strayed'.untold = strayed.untold
  BY <1>a, <1>1 DEF Strays
<1>10. Linked(store', id)
  BY <1>3, <1>5, <1>b DEF Linked
<1>c. onEscrow[id] = "None"
  BY <1>5, EscrowRowKnown
<1>d. (shape = "string" \/ id \in strayed.untold \/ id \notin strayed.reconciled) =>
        index.rows[id].status = "Active"
  BY <1>a, <1>5, <1>c DEF RowFits, ToldByEscrow
<1>11. RowFits(id)'
  BY <1>a, <1>b, <1>c, <1>d, <1>1, <1>3, <1>5, <1>7, <1>8, <1>9, <1>10 DEF RowFits, ToldByEscrow
<1>12. QED
  BY <1>a, <1>1, <1>3, <1>4, <1>7, <1>8, <1>9, <1>11, OneRowChanges

\* A reconciliation changes a record behind the index, and is remembered as such.
LEMMA ReconciliationKeeps ==
  ASSUME IndexInv, NEW id \in Ids, NEW status \in Statuses, StatusIsReconciled(id, status)
  PROVE  IndexInv' /\ LogGrows(store, store')
<1>a. /\ StoreInv(store) /\ DbType(index) /\ shape \in Shapes /\ RowFits(id)
      /\ titles \in [Ids -> Titles \cup {NoText}]
      /\ Strays \subseteq DOMAIN strayed /\ DOMAIN onEscrow = Ids
  BY DEF IndexInv
<1>1. /\ Linked(store, id) /\ store' = UpdateStatus(store, id, status)
      /\ strayed' = [strayed EXCEPT !.reconciled = strayed.reconciled \cup {id}]
      /\ UNCHANGED <<titles, names, shape, onEscrow>>
  BY DEF StatusIsReconciled, Reconcile
<1>2. /\ StoreInv(store') /\ store'.log = store.log /\ store'.info = store.info
      /\ store'.farmers = store.farmers
      /\ store'.record[id].escrow = store.record[id].escrow
      /\ \A o \in Ids \ {id} : store'.record[o] = store.record[o]
  <2> DEFINE s == UpdateStatus(store, id, status)
  <2>1. /\ StoreInv(s) /\ s.log = store.log /\ s.info = store.info
        /\ s.record[id].status = status
        /\ \A o \in Ids : /\ s.record[o].escrow = store.record[o].escrow
                          /\ o # id => s.record[o] = store.record[o]
    BY <1>a, UpdateStatusKeeps
  <2>2. store' = s /\ s.farmers = store.farmers
    BY <1>a, <1>1, FarmersKept
  <2> HIDE DEF s
  <2>3. QED
    BY <2>1, <2>2
<1>3. LogGrows(store, store')
  BY <1>a, <1>2, SameLogGrows DEF StoreInv
<1>4. index' = index
  BY ProcessOne, HandledOther DEF StatusIsReconciled
<1>5. OnlyRow(index, index', id)
  BY <1>a, <1>4 DEF OnlyRow
<1>6. /\ Strays \subseteq DOMAIN strayed'
      /\ strayed'.farmer = strayed.farmer /\ strayed'.untold = strayed.untold
      /\ strayed'.reconciled = strayed.reconciled \cup {id}
  BY <1>a, <1>1 DEF Strays
<1>7. RowFits(id)'
  BY <1>a, <1>1, <1>2, <1>4, <1>6 DEF RowFits, ToldByEscrow
<1>8. QED
  BY <1>a, <1>1, <1>2, <1>3, <1>5, <1>6, <1>7, OneRowChanges

\* A status that was passed to the registry reaches the row that a linked campaign has.
LEMMA StatusReportKeeps ==
  ASSUME IndexInv, NEW id \in Ids, NEW status \in Statuses, Linked(store, id),
         store' = UpdateStatus(store, id, status), StatusIsReported(id, status)
  PROVE  IndexInv' /\ LogGrows(store, store')
<1>a. /\ StoreInv(store) /\ DbType(index) /\ shape \in Shapes /\ RowFits(id)
      /\ titles \in [Ids -> Titles \cup {NoText}]
      /\ Strays \subseteq DOMAIN strayed /\ DOMAIN onEscrow = Ids
  BY DEF IndexInv
<1>1. /\ strayed' = [strayed EXCEPT !.reconciled = strayed.reconciled \ {id},
                                   !.untold = strayed.untold \ {id}]
      /\ UNCHANGED <<titles, names, shape, onEscrow>>
  BY DEF StatusIsReported, StatusIsTold
<1>2. /\ StoreInv(store') /\ store'.log = store.log /\ store'.info = store.info
      /\ store'.farmers = store.farmers
      /\ store'.record[id].status = status /\ store'.record[id].escrow = store.record[id].escrow
      /\ \A o \in Ids \ {id} : store'.record[o] = store.record[o]
  <2> DEFINE s == UpdateStatus(store, id, status)
  <2>1. /\ StoreInv(s) /\ s.log = store.log /\ s.info = store.info
        /\ s.record[id].status = status
        /\ \A o \in Ids : /\ s.record[o].escrow = store.record[o].escrow
                          /\ o # id => s.record[o] = store.record[o]
    BY <1>a, UpdateStatusKeeps
  <2>2. store' = s /\ s.farmers = store.farmers
    BY <1>a, FarmersKept
  <2> HIDE DEF s
  <2>3. QED
    BY <2>1, <2>2
<1>3. LogGrows(store, store')
  BY <1>a, <1>2, SameLogGrows DEF StoreInv
<1>4. store.info[id] # Nobody
  BY <1>a, RegistryConstants DEF StoreInv, OfRegistrant, People
<1>5. index.rows[id].known
  BY <1>a, <1>4 DEF RowFits
<1> DEFINE new == Handled(index, StatusEvent(id, status))
<1>6. index' = new
  BY ProcessOne DEF StatusIsReported
<1>7. /\ OnlyStatus(index, new, id)
      /\ new.rows[id].status = IF shape = "string" THEN index.rows[id].status ELSE status
  BY <1>a, <1>5, HandledTold
<1> HIDE DEF new
<1>8. /\ Strays \subseteq DOMAIN strayed' /\ strayed'.farmer = strayed.farmer
      /\ strayed'.reconciled = strayed.reconciled \ {id}
      /\ strayed'.untold = strayed.untold \ {id}
  BY <1>a, <1>1 DEF Strays
<1>9. Linked(store', id)
  BY <1>2 DEF Linked
<1>10. RowFits(id)'
  BY <1>a, <1>1, <1>2, <1>5, <1>6, <1>7, <1>8, <1>9 DEF RowFits, ToldByEscrow, OnlyStatus
<1>11. OnlyRow(index, index', id)
  BY <1>6, <1>7 DEF OnlyStatus
<1>12. QED
  BY <1>a, <1>1, <1>2, <1>3, <1>8, <1>10, <1>11, OneRowChanges

\* The administrator's updates.
LEMMA AdminReportKeeps ==
  ASSUME IndexInv, NEW id \in Ids, NEW status \in Statuses, AdminReports(id, status)
  PROVE  IndexInv' /\ LogGrows(store, store')
  BY StatusReportKeeps DEF AdminReports, AdminUpdatesStatus, CanUpdateStatus

\* What serving each kind of call comes to.
LEMMA ServedCalls ==
  ASSUME NEW s, NEW c, NEW id, NEW x
  PROVE  /\ LET call == [fn |-> "link_campaign_escrow", id |-> id, arg |-> x] IN
              /\ Accepts(s, c, call) = CanLink(s, id, x)
              /\ Served(s, c, call) = LinkEscrow(s, id, x, c)
         /\ LET call == [fn |-> "update_campaign_status", id |-> id, arg |-> x] IN
              /\ Accepts(s, c, call) = CanUpdateStatus(s, id, c)
              /\ Served(s, c, call) = UpdateStatus(s, id, x)
         /\ LET call == [fn |-> "record_activity", id |-> id, arg |-> x] IN
              Served(s, c, call) = RecordActivity(s, id, c, x)
<1>1. ASSUME NEW call, call.fn = "link_campaign_escrow", call.id = id, call.arg = x
      PROVE  /\ Accepts(s, c, call) = CanLink(s, id, x)
             /\ Served(s, c, call) = LinkEscrow(s, id, x, c)
  BY <1>1 DEF Accepts, Served
<1>2. ASSUME NEW call, call.fn = "update_campaign_status", call.id = id, call.arg = x
      PROVE  /\ Accepts(s, c, call) = CanUpdateStatus(s, id, c)
             /\ Served(s, c, call) = UpdateStatus(s, id, x)
  BY <1>2 DEF Accepts, Served
<1>3. ASSUME NEW call, call.fn = "record_activity", call.id = id, call.arg = x
      PROVE  Served(s, c, call) = RecordActivity(s, id, c, x)
  BY <1>3 DEF Served
<1>4. QED
  BY <1>1, <1>2, <1>3

\* A creation mirrors the contract as the actor, and then names the farmer again.
LEMMA CreationKeeps ==
  ASSUME IndexInv, NEW id \in Ids, NEW f \in Owners, EscrowCreates(id, f)
  PROVE  IndexInv' /\ LogGrows(store, store')
<1>a. /\ StoreInv(store) /\ DbType(index) /\ shape \in Shapes /\ RowFits(id)
      /\ titles \in [Ids -> Titles \cup {NoText}]
      /\ Strays \subseteq DOMAIN strayed /\ DOMAIN onEscrow = Ids
  BY DEF IndexInv
<1>1. /\ strayed' = [strayed EXCEPT !.farmer = strayed.farmer \ {id}]
      /\ onEscrow[id] = "None" /\ onEscrow' = [onEscrow EXCEPT ![id] = "Active"]
      /\ UNCHANGED <<titles, names, shape>>
  BY DEF EscrowCreates
<1> DEFINE s == LinkEscrow(store, id, f, Escrow)
           record == [farmer |-> f, escrow |-> Escrow, status |-> "Active"]
<1>2. CanLink(store, id, f) /\ store' = RecordActivity(s, id, Escrow, "CampaignCreated")
  <2> DEFINE link == [fn |-> "link_campaign_escrow", id |-> id, arg |-> f]
             act == [fn |-> "record_activity", id |-> id, arg |-> "CampaignCreated"]
  <2>1. Serve(Escrow, <<link, act>>)
    BY DEF EscrowCreates
  <2>2. /\ \A u : Accepts(u, Escrow, link) = CanLink(u, id, f)
        /\ \A u : Served(u, Escrow, link) = LinkEscrow(u, id, f, Escrow)
        /\ \A u : Served(u, Escrow, act) = RecordActivity(u, id, Escrow, "CampaignCreated")
    BY ServedCalls
  <2> HIDE DEF link, act
  <2>3. Accepts(store, Escrow, link) /\ store' = Served(Served(store, Escrow, link), Escrow, act)
    BY <2>1, ServeTwo
  <2>4. QED
    BY <2>2, <2>3
<1>b. Escrow \in Contracts /\ Escrow \in Parties
  BY RegistryConstants DEF Parties
<1>3. /\ StoreInv(s) /\ s.log = store.log /\ DOMAIN s = DOMAIN store
      /\ s.info = store.info /\ s.record = [store.record EXCEPT ![id] = record]
  BY <1>a, <1>b, <1>2, LinkEscrowKeeps
<1>4. s.farmers = store.farmers
  BY <1>a, FarmersKept
<1> HIDE DEF s
<1>5. record.escrow = Escrow /\ record.status = "Active"
  OBVIOUS
<1> HIDE DEF record
<1>6. /\ StoreInv(store') /\ LogGrows(s, store') /\ store'.info = store.info
      /\ store'.record = s.record /\ store'.farmers = store.farmers
  <2> DEFINE u == RecordActivity(s, id, Escrow, "CampaignCreated")
  <2>1. [actor |-> Escrow, action |-> "CampaignCreated"] \in Entry
    BY <1>b DEF Entry, ByEscrow
  <2>2. StoreInv(u) /\ LogGrows(s, u) /\ SameLists(s, u)
    BY <1>3, <2>1, RecordActivityKeeps
  <2>3. u.farmers = s.farmers
    BY <1>3, FarmersKept
  <2> HIDE DEF u
  <2>4. store' = u
    BY <1>2 DEF u
  <2>5. QED
    BY <1>3, <1>4, <2>2, <2>3, <2>4 DEF SameLists
<1>7. LogGrows(store, store')
  BY <1>3, <1>6 DEF LogGrows
<1>8. store'.record[id] = record /\ \A o \in Ids \ {id} : store'.record[o] = store.record[o]
  BY <1>a, <1>3, <1>6 DEF StoreInv, StoreType
<1>9. store.info[id] = f /\ f # Nobody /\ Escrow # Nobody /\ ~Linked(store, id)
  BY <1>2, <1>b, RegistryConstants DEF CanLink, People
<1>10. index.rows[id].known
  BY <1>a, <1>9 DEF RowFits, ToldByEscrow
<1> DEFINE d == Handled(index, LinkedEvent(id, f, Escrow))
           e == Handled(d, Mirror(id, Escrow, "CampaignCreated"))
           new == Handled(e, Event("CampaignCreated", id, <<Plain(f)>>))
<1>11. index' = new
  BY ProcessCreation DEF EscrowCreates
<1>12. /\ OnlyRow(index, d, id)
       /\ d.rows[id].known /\ d.rows[id].farmer = f /\ d.rows[id].escrow = Escrow
       /\ d.rows[id].title = index.rows[id].title /\ d.rows[id].status = index.rows[id].status
  BY <1>a, <1>b, <1>10, HandledLinked
<1> HIDE DEF d
<1>13. /\ OnlyRow(d, e, id)
       /\ e.rows[id].known
       /\ e.rows[id].title = KeepUnless(NoText, d.rows[id].title)
       /\ e.rows[id].escrow = d.rows[id].escrow /\ e.rows[id].status = d.rows[id].status
  <2> DEFINE slots == <<Plain(Escrow), Enum("CampaignCreated")>>
  <2>1. slots[1].v = Escrow /\ TextIn(slots[2]) = NoText
    BY <1>a, Readings DEF Plain, ActivityTags
  <2>2. DbType(d)
    BY <1>12 DEF OnlyRow
  <2> HIDE DEF slots
  <2>3. LET u == Handled(d, Event("CampaignRegistered", id, slots)) IN
        /\ OnlyRow(d, u, id)
        /\ u.rows[id].known /\ u.rows[id].farmer = slots[1].v
        /\ u.rows[id].title = KeepUnless(TextIn(slots[2]), d.rows[id].title)
        /\ u.rows[id].escrow = d.rows[id].escrow /\ u.rows[id].status = d.rows[id].status
    BY <1>b, <2>1, <2>2, HandledRegistered
  <2>4. QED
    BY <2>1, <2>3 DEF Mirror, slots
<1> HIDE DEF e
<1>14. /\ OnlyRow(e, new, id)
       /\ new.rows[id].known /\ new.rows[id].farmer = f
       /\ new.rows[id].escrow = e.rows[id].escrow
       /\ new.rows[id].title = e.rows[id].title /\ new.rows[id].status = e.rows[id].status
  <2>1. DbType(e)
    BY <1>13 DEF OnlyRow
  <2>2. QED
    BY <2>1, HandledCreated
<1> HIDE DEF new
<1>15. /\ OnlyRow(index, index', id)
       /\ index'.rows[id].known /\ index'.rows[id].farmer = f
       /\ index'.rows[id].escrow = Escrow
       /\ index'.rows[id].title = index.rows[id].title
       /\ index'.rows[id].status = index.rows[id].status
  BY <1>11, <1>12, <1>13, <1>14 DEF OnlyRow, KeepUnless
<1>16. /\ Strays \subseteq DOMAIN strayed'
       /\ strayed'.farmer = strayed.farmer \ {id} /\ strayed'.reconciled = strayed.reconciled
       /\ strayed'.untold = strayed.untold
  BY <1>a, <1>1 DEF Strays
<1>17. Linked(store', id)
  BY <1>5, <1>8, <1>9 DEF Linked
<1>18. RowFits(id)'
  BY <1>a, <1>1, <1>5, <1>6, <1>8, <1>9, <1>15, <1>16, <1>17 DEF RowFits, ToldByEscrow
<1>19. QED
  BY <1>a, <1>1, <1>6, <1>7, <1>8, <1>15, <1>16, <1>18, OneRowChanges

\* The updates of a contract that is not the escrow.
LEMMA ContractReportKeeps ==
  ASSUME IndexInv, NEW id \in Ids, NEW status \in Statuses, NEW c \in Contracts,
         ContractReports(c, id, status)
  PROVE  IndexInv' /\ LogGrows(store, store')
<1> DEFINE call == [fn |-> "update_campaign_status", id |-> id, arg |-> status]
<1>1. Serve(c, <<call>>) /\ StatusIsReported(id, status)
  BY DEF ContractReports
<1>2. /\ Accepts(store, c, call) = CanUpdateStatus(store, id, c)
      /\ Served(store, c, call) = UpdateStatus(store, id, status)
  BY ServedCalls
<1> HIDE DEF call
<1>3. CanUpdateStatus(store, id, c) /\ store' = UpdateStatus(store, id, status)
  BY <1>1, <1>2, ServeOne
<1>4. QED
  BY <1>1, <1>3, StatusReportKeeps DEF CanUpdateStatus

\* A contribution short of the target shows in no row's status.
LEMMA EscrowRaisesKeeps ==
  ASSUME IndexInv, NEW id \in Ids, EscrowRaises(id)
  PROVE  IndexInv' /\ LogGrows(store, store')
<1>a. /\ StoreInv(store) /\ DbType(index) /\ shape \in Shapes /\ RowFits(id)
      /\ titles \in [Ids -> Titles \cup {NoText}]
      /\ Strays \subseteq DOMAIN strayed /\ DOMAIN onEscrow = Ids
  BY DEF IndexInv
<1>1. /\ onEscrow[id] \in {"Active", "Funding"}
      /\ onEscrow' = [onEscrow EXCEPT ![id] = "Funding"]
  BY DEF EscrowRaises
<1>2. store.record[id].escrow = Escrow
  BY <1>1, EscrowRowKnown
<1>3. /\ UNCHANGED <<titles, names, shape, strayed>> /\ index' = index
      /\ StoreInv(store') /\ LogGrows(store, store') /\ SameLists(store, store')
      /\ store'.farmers = store.farmers
  <2>1. CASE Process(<<>>) /\ UNCHANGED <<store, titles, names, shape, strayed>>
    <3>1. index' = index
      BY <2>1, ProcessFew
    <3>2. LogGrows(store, store')
      BY <1>a, <2>1, SameLogGrows DEF StoreInv
    <3>3. QED
      BY <1>a, <2>1, <3>1, <3>2 DEF SameLists
  <2>2. CASE /\ Serve(Escrow, <<[fn |-> "record_activity", id |-> id,
                                arg |-> "CampaignFunded"]>>)
             /\ ActivityIsRecorded(id, Escrow, "CampaignFunded")
    <3>a. Process(Activity(id, Escrow, "CampaignFunded"))
      BY <2>2 DEF ActivityIsRecorded
    <3> DEFINE action == "CampaignFunded"
    <3>c. action \notin {"FarmerRegistered", "CampaignCreated", "CampaignRegistered",
                         "CampaignStatusChanged"}
      OBVIOUS
    <3> HIDE DEF action
    <3>d. Process(Activity(id, Escrow, action))
      BY <3>a DEF action
    <3>b. index' = index
      BY <3>c, <3>d, ProcessActivity
    <3>1. index' = index /\ UNCHANGED <<titles, names, shape, strayed>>
      BY <2>2, <3>b DEF ActivityIsRecorded
    <3> DEFINE act == [fn |-> "record_activity", id |-> id, arg |-> "CampaignFunded"]
               s == RecordActivity(store, id, Escrow, "CampaignFunded")
    <3>2. Served(store, Escrow, act) = s
      BY ServedCalls
    <3>3. Serve(Escrow, <<act>>)
      BY <2>2
    <3> HIDE DEF act
    <3>4. store' = s
      BY <3>2, <3>3, ServeOne
    <3>5. [actor |-> Escrow, action |-> "CampaignFunded"] \in Entry
      BY RegistryConstants DEF Entry, ByEscrow
    <3>6. StoreInv(s) /\ LogGrows(store, s) /\ SameLists(store, s) /\ s.farmers = store.farmers
      BY <1>a, <3>5, RecordActivityKeeps, FarmersKept
    <3> HIDE DEF s
    <3>7. QED
      BY <3>1, <3>4, <3>6
  <2>3. QED
    BY <2>1, <2>2 DEF EscrowRaises
<1>4. store'.info = store.info /\ store'.record = store.record
  BY <1>3 DEF SameLists
<1>5. OnlyRow(index, index', id)
  BY <1>a, <1>3 DEF OnlyRow
<1>6. onEscrow'[id] = "Funding" /\ ToldByEscrow(id) = "Active" /\ ToldByEscrow(id)' = "Active"
  BY <1>a, <1>1 DEF ToldByEscrow
<1>7. RowFits(id)'
  BY <1>a, <1>2, <1>3, <1>4, <1>6 DEF RowFits, Linked
<1>8. QED
  BY <1>a, <1>1, <1>3, <1>4, <1>5, <1>7, OneRowChanges

\* What is told of a status, and what the escrow says itself, agree.
LEMMA NotifiedAgree ==
  ASSUME NEW status \in DOMAIN Notified
  PROVE  LET move == Notified[status] IN
         /\ move.event \in DOMAIN OwnStatus /\ OwnStatus[move.event] = status
         /\ "None" \notin move.from /\ status \notin {"None", "Active", "Funding"}
         /\ move.event = "TrancheReleased" =>
              status = "InProduction" /\ move.from = {"Funded", "InProduction"}
         /\ move.action \in ByEscrow
  BY DEF Notified, OwnStatus, ByEscrow

\* Whichever of the two comes first, the row ends with the status that was passed.
LEMMA NotificationShows ==
  ASSUME IndexInv, NEW id \in Ids, NEW status \in Statuses \cap DOMAIN Notified,
         EscrowNotifies(id, status)
  PROVE  OnlyStatus(index, index', id) /\ index'.rows[id].status = status
<1> DEFINE move == Notified[status]
           own(db) == Handled(db, Event(move.event, id, <<>>))
           said(db) == Handled(db, StatusEvent(id, status))
           mirror(db) == Handled(db, StatusMirror(id, Escrow, "CampaignStatusChanged"))
           Fine(db) == DbType(db) /\ db.rows[id].known
<1>a. DbType(index) /\ shape \in Shapes /\ RowFits(id)
  BY DEF IndexInv
<1>b. /\ move.event \in DOMAIN OwnStatus /\ OwnStatus[move.event] = status
      /\ "None" \notin move.from /\ status \notin {"None", "Active", "Funding"}
      /\ move.event = "TrancheReleased" =>
           status = "InProduction" /\ move.from = {"Funded", "InProduction"}
  BY NotifiedAgree
<1>c. onEscrow[id] \in move.from
  BY DEF EscrowNotifies
<1>d. Fine(index)
  BY <1>a, <1>b, <1>c, EscrowRowKnown
<1>e. /\ status = "Failed" => index' = own(said(mirror(index)))
      /\ status = "Funded" => index' = said(own(index))
      /\ status \notin {"Failed", "Funded"} => index' = own(said(index))
  BY ProcessNotification DEF EscrowNotifies
<1>1. ASSUME NEW db, Fine(db)
      PROVE  /\ Fine(own(db)) /\ OnlyStatus(db, own(db), id)
             /\ own(db).rows[id].status = IF move.event = "TrancheReleased"
                                            /\ db.rows[id].status # "Funded"
                                         THEN db.rows[id].status ELSE status
  <2>1. OwnStatus[move.event] \in Statuses /\ DbType(db) /\ db.rows[id].known
    BY <1>b, <1>1
  <2> HIDE DEF move
  <2>2. /\ OnlyStatus(db, own(db), id)
        /\ own(db).rows[id].status = IF move.event = "TrancheReleased"
                                       /\ db.rows[id].status # "Funded"
                                    THEN db.rows[id].status ELSE OwnStatus[move.event]
    BY <1>b, <2>1, HandledOwnEvent
  <2>3. Fine(own(db))
    BY <2>1, <2>2 DEF OnlyStatus, OnlyRow
  <2>4. QED
    BY <1>b, <2>2, <2>3
<1>2. ASSUME NEW db, Fine(db)
      PROVE  /\ Fine(said(db)) /\ OnlyStatus(db, said(db), id)
             /\ said(db).rows[id].status = IF shape = "string" THEN db.rows[id].status ELSE status
  <2>1. /\ OnlyStatus(db, said(db), id)
        /\ said(db).rows[id].status = IF shape = "string" THEN db.rows[id].status ELSE status
    BY <1>a, <1>2, HandledTold
  <2>2. QED
    BY <1>2, <2>1 DEF OnlyStatus, OnlyRow
<1>3. ASSUME NEW db, Fine(db)
      PROVE  /\ Fine(mirror(db)) /\ OnlyStatus(db, mirror(db), id)
             /\ mirror(db).rows[id].status = db.rows[id].status
  <2>1. OnlyStatus(db, mirror(db), id) /\ mirror(db).rows[id].status = db.rows[id].status
    BY <1>a, <1>3, HandledMirror
  <2>2. QED
    BY <1>3, <2>1 DEF OnlyStatus, OnlyRow
<1>4. ASSUME NEW a, NEW b, NEW c, OnlyStatus(a, b, id), OnlyStatus(b, c, id)
      PROVE  OnlyStatus(a, c, id)
  BY <1>4 DEF OnlyStatus, OnlyRow
<1> HIDE DEF own, said, mirror, Fine, move
<1>5. CASE status = "Failed"
  <2>1. Fine(mirror(index)) /\ Fine(said(mirror(index)))
    BY <1>d, <1>2, <1>3
  <2>2. move.event # "TrancheReleased"
    BY <1>b, <1>5
  <2>3. /\ OnlyStatus(index, mirror(index), id)
        /\ OnlyStatus(mirror(index), said(mirror(index)), id)
        /\ OnlyStatus(said(mirror(index)), own(said(mirror(index))), id)
        /\ own(said(mirror(index))).rows[id].status = status
    BY <1>d, <1>1, <1>2, <1>3, <2>1, <2>2
  <2>4. OnlyStatus(index, own(said(mirror(index))), id)
    BY <1>4, <2>3
  <2>5. QED
    BY <1>5, <1>e, <2>3, <2>4
<1>6. CASE status = "Funded"
  <2>1. Fine(own(index)) /\ move.event # "TrancheReleased"
    BY <1>b, <1>d, <1>1, <1>6
  <2>2. /\ OnlyStatus(index, own(index), id) /\ own(index).rows[id].status = status
        /\ OnlyStatus(own(index), said(own(index)), id)
        /\ said(own(index)).rows[id].status = status
    BY <1>d, <1>1, <1>2, <2>1
  <2>3. QED
    BY <1>4, <1>6, <1>e, <2>2
<1>7. CASE status \notin {"Failed", "Funded"}
  <2>1. Fine(said(index))
    BY <1>d, <1>2
  <2>2. /\ OnlyStatus(index, said(index), id) /\ OnlyStatus(said(index), own(said(index)), id)
        /\ said(index).rows[id].status =
             IF shape = "string" THEN index.rows[id].status ELSE status
        /\ own(said(index)).rows[id].status =
             IF move.event = "TrancheReleased" /\ said(index).rows[id].status # "Funded"
             THEN said(index).rows[id].status ELSE status
    BY <1>d, <1>1, <1>2, <2>1
  <2>3. (shape = "string" /\ move.event = "TrancheReleased") =>
          index.rows[id].status \in {"Funded", status}
    BY <1>a, <1>b, <1>c DEF RowFits, ToldByEscrow
  <2>4. own(said(index)).rows[id].status = status
    BY <2>2, <2>3
  <2>5. QED
    BY <1>4, <1>7, <1>e, <2>2, <2>4
<1>8. QED
  BY <1>5, <1>6, <1>7

\* A handler of the escrow that passes a status, to a record that is its own.
LEMMA EscrowNotifiesKeeps ==
  ASSUME IndexInv, NEW id \in Ids, NEW status \in Statuses \cap DOMAIN Notified,
         EscrowNotifies(id, status)
  PROVE  IndexInv' /\ LogGrows(store, store')
<1>a. /\ StoreInv(store) /\ DbType(index) /\ shape \in Shapes /\ RowFits(id)
      /\ titles \in [Ids -> Titles \cup {NoText}]
      /\ Strays \subseteq DOMAIN strayed /\ DOMAIN onEscrow = Ids
  BY DEF IndexInv
<1> DEFINE action == Notified[status].action
           s == RecordActivity(store, id, Escrow, action)
<1>1. /\ strayed' = [strayed EXCEPT !.reconciled = strayed.reconciled \ {id},
                                   !.untold = strayed.untold \ {id}]
      /\ onEscrow' = [onEscrow EXCEPT ![id] = status]
      /\ UNCHANGED <<titles, names, shape>>
  BY DEF EscrowNotifies, StatusIsTold
<1>2. CanUpdateStatus(store, id, Escrow) /\ store' = UpdateStatus(s, id, status)
  <2> DEFINE act == [fn |-> "record_activity", id |-> id, arg |-> action]
             call == [fn |-> "update_campaign_status", id |-> id, arg |-> status]
  <2>1. Serve(Escrow, <<act, call>>)
    BY DEF EscrowNotifies
  <2>2. /\ \A u : Accepts(u, Escrow, call) = CanUpdateStatus(u, id, Escrow)
        /\ \A u : Served(u, Escrow, call) = UpdateStatus(u, id, status)
        /\ \A u : Served(u, Escrow, act) = RecordActivity(u, id, Escrow, action)
    BY ServedCalls
  <2> HIDE DEF act, call, action
  <2>3. Accepts(store, Escrow, call) /\ store' = Served(Served(store, Escrow, act), Escrow, call)
    BY <2>1, ServeTwo
  <2>4. QED
    BY <2>2, <2>3
<1>3. StoreInv(s) /\ LogGrows(store, s) /\ SameLists(store, s) /\ s.farmers = store.farmers
  <2>1. action \in ByEscrow
    BY NotifiedAgree
  <2> HIDE DEF action
  <2>2. [actor |-> Escrow, action |-> action] \in Entry
    BY <2>1, RegistryConstants DEF Entry
  <2>3. QED
    BY <1>a, <2>2, RecordActivityKeeps, FarmersKept
<1> HIDE DEF s
<1>4. /\ StoreInv(store') /\ store'.log = s.log /\ store'.info = store.info
      /\ store'.farmers = store.farmers
      /\ store'.record[id].status = status /\ store'.record[id].escrow = store.record[id].escrow
      /\ \A o \in Ids \ {id} : store'.record[o] = store.record[o]
  <2> DEFINE u == UpdateStatus(s, id, status)
  <2>1. /\ StoreInv(u) /\ u.log = s.log /\ u.info = s.info
        /\ u.record[id].status = status
        /\ \A o \in Ids : /\ u.record[o].escrow = s.record[o].escrow
                          /\ o # id => u.record[o] = s.record[o]
    BY <1>3, UpdateStatusKeeps
  <2>2. store' = u /\ u.farmers = s.farmers
    BY <1>2, <1>3, FarmersKept
  <2> HIDE DEF u
  <2>3. QED
    BY <1>3, <2>1, <2>2 DEF SameLists
<1>5. LogGrows(store, store')
  BY <1>3, <1>4 DEF LogGrows
<1>6. /\ "None" \notin Notified[status].from /\ onEscrow[id] \in Notified[status].from
      /\ status \notin {"None", "Active", "Funding"}
  BY NotifiedAgree DEF EscrowNotifies
<1>7. /\ store.record[id].escrow = Escrow /\ Linked(store, id)
      /\ store.info[id] # Nobody /\ index.rows[id].known
  BY <1>6, EscrowRowKnown
<1>8. OnlyStatus(index, index', id) /\ index'.rows[id].status = status
  BY NotificationShows
<1>9. /\ Strays \subseteq DOMAIN strayed' /\ strayed'.farmer = strayed.farmer
      /\ strayed'.reconciled = strayed.reconciled \ {id}
      /\ strayed'.untold = strayed.untold \ {id}
  BY <1>a, <1>1 DEF Strays
<1>10. Linked(store', id)
  BY <1>4, <1>7 DEF Linked
<1>11. onEscrow'[id] = status /\ ToldByEscrow(id)' = status
  BY <1>a, <1>1, <1>6 DEF ToldByEscrow
<1>12. RowFits(id)'
  BY <1>a, <1>1, <1>4, <1>7, <1>8, <1>9, <1>10, <1>11 DEF RowFits, OnlyStatus
<1>13. OnlyRow(index, index', id)
  BY <1>8 DEF OnlyStatus
<1>14. QED
  BY <1>a, <1>1, <1>4, <1>5, <1>9, <1>12, <1>13, OneRowChanges

\* A handler that tells the registry nothing moves the row by the escrow's own event.
LEMMA EscrowSilentKeeps ==
  ASSUME IndexInv, NEW id \in Ids, NEW status \in Statuses \cap DOMAIN Silent,
         EscrowMovesSilently(id, status)
  PROVE  IndexInv' /\ LogGrows(store, store')
<1>a. /\ StoreInv(store) /\ DbType(index) /\ shape \in Shapes /\ RowFits(id)
      /\ titles \in [Ids -> Titles \cup {NoText}]
      /\ Strays \subseteq DOMAIN strayed /\ DOMAIN onEscrow = Ids
  BY DEF IndexInv
<1> DEFINE name == Silent[status].event
           new == Handled(index, Event(name, id, <<>>))
<1>1. /\ onEscrow[id] \in Silent[status].from /\ onEscrow' = [onEscrow EXCEPT ![id] = status]
      /\ strayed' = [strayed EXCEPT !.untold = strayed.untold \cup {id}]
      /\ UNCHANGED <<store, titles, names, shape>>
      /\ index' = new
  BY ProcessOne DEF EscrowMovesSilently
<1>2. /\ "None" \notin Silent[status].from /\ status \notin {"None", "Active", "Funding"}
      /\ name \in DOMAIN OwnStatus /\ name # "TrancheReleased" /\ OwnStatus[name] = status
  BY DEF Silent, OwnStatus
<1> HIDE DEF name
<1>3. /\ store.record[id].escrow = Escrow /\ Linked(store, id)
      /\ store.info[id] # Nobody /\ index.rows[id].known
  BY <1>1, <1>2, EscrowRowKnown
<1>4. OnlyStatus(index, new, id) /\ new.rows[id].status = status
  <2>1. OwnStatus[name] \in Statuses
    BY <1>2
  <2>2. /\ OnlyStatus(index, new, id)
        /\ new.rows[id].status =
             IF name = "TrancheReleased" /\ index.rows[id].status # "Funded"
             THEN index.rows[id].status ELSE OwnStatus[name]
    BY <1>a, <1>2, <1>3, <2>1, HandledOwnEvent
  <2>3. QED
    BY <1>2, <2>2
<1> HIDE DEF new
<1>5. LogGrows(store, store')
  BY <1>a, <1>1, SameLogGrows DEF StoreInv
<1>6. /\ Strays \subseteq DOMAIN strayed' /\ strayed'.farmer = strayed.farmer
      /\ strayed'.reconciled = strayed.reconciled /\ strayed'.untold = strayed.untold \cup {id}
  BY <1>a, <1>1 DEF Strays
<1>7. onEscrow'[id] = status /\ ToldByEscrow(id)' = status
  BY <1>a, <1>1, <1>2 DEF ToldByEscrow
<1>8. RowFits(id)'
  BY <1>a, <1>1, <1>3, <1>4, <1>6, <1>7 DEF RowFits, OnlyStatus, Linked
<1>9. OnlyRow(index, index', id)
  BY <1>1, <1>4 DEF OnlyStatus
<1>10. QED
  BY <1>a, <1>1, <1>5, <1>6, <1>8, <1>9, OneRowChanges

\* What a person records may make a row and name its farmer, and nothing else.
LEMMA PersonReportKeeps ==
  ASSUME IndexInv, NEW id \in Ids, NEW p \in People, NEW action \in Actions,
         PersonReports(id, p, action)
  PROVE  IndexInv' /\ LogGrows(store, store')
<1>a. /\ StoreInv(store) /\ DbType(index) /\ shape \in Shapes /\ RowFits(id)
      /\ titles \in [Ids -> Titles \cup {NoText}]
      /\ Strays \subseteq DOMAIN strayed /\ DOMAIN onEscrow = Ids
  BY DEF IndexInv
<1>b. p \in Parties
  BY DEF Parties
<1>1. /\ strayed' = IF action \in {"CampaignCreated", "CampaignRegistered"}
                    THEN [strayed EXCEPT !.farmer = strayed.farmer \cup {id}] ELSE strayed
      /\ Process(Activity(id, p, action))
      /\ UNCHANGED <<titles, names, shape, onEscrow>>
  BY DEF PersonReports, ActivityIsRecorded
<1>2. /\ StoreInv(store') /\ LogGrows(store, store') /\ SameLists(store, store')
      /\ store'.farmers = store.farmers
  <2> DEFINE s == RecordActivity(store, id, p, action)
  <2>1. [actor |-> p, action |-> action] \in Entry
    BY DEF Entry
  <2>2. StoreInv(s) /\ LogGrows(store, s) /\ SameLists(store, s) /\ s.farmers = store.farmers
    BY <1>a, <2>1, RecordActivityKeeps, FarmersKept
  <2> HIDE DEF s
  <2>3. store' = s
    BY DEF PersonReports, PersonRecordsActivity, s
  <2>4. QED
    BY <2>2, <2>3
<1>3. store'.info = store.info /\ store'.record = store.record
  BY <1>2 DEF SameLists
<1>4. CASE action \in {"CampaignCreated", "CampaignRegistered"}
  <2> DEFINE slots == <<Plain(p), Enum(action)>>
             new == Handled(index, Event("CampaignRegistered", id, slots))
  <2>1. index' = new
    BY <1>1, <1>4, ProcessActivity DEF Mirror
  <2>2. slots[1].v = p /\ TextIn(slots[2]) = NoText
    BY <1>a, <1>4, Readings DEF Plain, ActivityTags
  <2> HIDE DEF slots
  <2>3. /\ OnlyRow(index, new, id)
        /\ new.rows[id].known /\ new.rows[id].farmer = slots[1].v
        /\ new.rows[id].title = KeepUnless(TextIn(slots[2]), index.rows[id].title)
        /\ new.rows[id].escrow = index.rows[id].escrow
        /\ new.rows[id].status = index.rows[id].status
    BY <1>a, <1>b, <2>2, HandledRegistered
  <2> HIDE DEF new
  <2>4. /\ Strays \subseteq DOMAIN strayed'
        /\ strayed'.farmer = strayed.farmer \cup {id} /\ strayed'.reconciled = strayed.reconciled
        /\ strayed'.untold = strayed.untold
    BY <1>a, <1>1, <1>4 DEF Strays
  <2>5. new.rows[id].title = index.rows[id].title
    BY <2>2, <2>3 DEF KeepUnless
  <2>6. RowFits(id)'
    BY <1>a, <1>1, <1>3, <2>1, <2>3, <2>4, <2>5 DEF RowFits, Linked, ToldByEscrow
  <2>7. QED
    BY <1>a, <1>1, <1>2, <1>3, <2>1, <2>3, <2>4, <2>6, OneRowChanges
<1>5. CASE action \notin {"CampaignCreated", "CampaignRegistered"}
  <2>1. strayed' = strayed
    BY <1>1, <1>5
  <2>2. CASE action = "FarmerRegistered"
    <3> DEFINE slots == <<Plain(p)>>
               new == Handled(index, Event("FarmerRegistered", p, slots))
    <3>1. index' = new
      BY <1>1, <2>2, ProcessActivity
    <3>2. Len(slots) = 1
      OBVIOUS
    <3> HIDE DEF slots
    <3>3. DbType(new) /\ new.rows = index.rows /\ new.users = index.users
      BY <1>a, <1>b, <3>2, HandledFarmer
    <3> HIDE DEF new
    <3>4. QED
      BY <1>1, <1>2, <2>1, <3>1, <3>3, NoRowChanges
  <2>3. CASE action = "CampaignStatusChanged"
    <3> DEFINE slots == <<Plain(p), Enum(action)>>
               new == Handled(index, Event("CampaignStatusUpdated", id, slots))
    <3>1. index' = new
      BY <1>1, <2>3, ProcessActivity DEF StatusMirror
    <3>2. StatusIn(slots) = NoText
      BY <1>a, Readings
    <3> HIDE DEF slots
    <3>3. /\ OnlyRow(index, new, id)
          /\ new.rows[id].known = index.rows[id].known
          /\ new.rows[id].farmer = index.rows[id].farmer
          /\ new.rows[id].escrow = index.rows[id].escrow
          /\ new.rows[id].title = index.rows[id].title
          /\ new.rows[id].status = IF index.rows[id].known
                                   THEN KeepUnless(StatusIn(slots), index.rows[id].status)
                                   ELSE index.rows[id].status
      BY <1>a, <3>2, HandledStatus
    <3> HIDE DEF new
    <3>4. new.rows[id].status = index.rows[id].status
      BY <3>2, <3>3 DEF KeepUnless
    <3>5. RowFits(id)'
      BY <1>a, <1>1, <1>3, <2>1, <3>1, <3>3, <3>4 DEF RowFits, Linked, ToldByEscrow
    <3>6. QED
      BY <1>a, <1>1, <1>2, <1>3, <2>1, <3>1, <3>3, <3>5, OneRowChanges
  <2>4. CASE action \notin {"FarmerRegistered", "CampaignStatusChanged"}
    <3>1. index' = index
      BY <1>1, <1>5, <2>4, ProcessActivity
    <3>2. QED
      BY <1>a, <1>1, <1>2, <2>1, <3>1, NoRowChanges
  <2>5. QED
    BY <2>2, <2>3, <2>4
<1>6. QED
  BY <1>2, <1>4, <1>5

\* All invocations together.
LEMMA StepIndexInv ==
  ASSUME IndexInv, RegistryIndexNext
  PROVE  IndexInv' /\ LogGrows(store, store')
  BY AdministerKeeps, FarmerJoinsKeeps, RegistrationKeeps, LinkKeeps, CreationKeeps,
     PersonReportKeeps, AdminReportKeeps, ContractReportKeeps, ReconciliationKeeps,
     EscrowRaisesKeeps, EscrowNotifiesKeeps, EscrowSilentKeeps
     DEF RegistryIndexNext

-----------------------------------------------------------------------------
(* The theorems.                                                             *)

\* The registry's lists fit its records and the index fits both, always.
THEOREM IndexFits == RegistryIndexSpec => []IndexInv
<1>1. RegistryIndexInit => IndexInv
  BY InitIndexInv
<1>2. IndexInv /\ [RegistryIndexNext]_registryIndexVars => IndexInv'
  <2> SUFFICES ASSUME IndexInv, [RegistryIndexNext]_registryIndexVars PROVE IndexInv'
    OBVIOUS
  <2>1. CASE UNCHANGED registryIndexVars
    BY <2>1 DEF IndexInv, RowFits, UserFits, ToldByEscrow, registryIndexVars
  <2>2. QED
    BY <2>1, StepIndexInv
<1>3. QED
  BY <1>1, <1>2, PTL DEF RegistryIndexSpec

\* ListsMatchRecords: enumeration, farmers' pages and logs, in whatever order people and
\* contracts call, and for every page length.
THEOREM ListsMatch == RegistryIndexSpec => []ListsMatchRecords
<1>1. IndexInv => ListsMatchRecords
  BY StoreInvMatches DEF IndexInv
<1>2. QED
  BY <1>1, IndexFits, PTL

\* LogOnlyGrows: no call takes an entry out of a page, or puts one before another.
THEOREM LogsOnlyGrow == RegistryIndexSpec => LogOnlyGrows
<1>1. IndexInv /\ [RegistryIndexNext]_registryIndexVars =>
        [\A id \in Ids : \A page \in DOMAIN store.log[id] :
           /\ page \in DOMAIN store'.log[id]
           /\ IsPrefix(store.log[id][page], store'.log[id][page])]_store
  BY StepIndexInv DEF LogGrows, registryIndexVars
<1>2. QED
  BY <1>1, IndexFits, PTL DEF RegistryIndexSpec, LogOnlyGrows

\* IndexFollowsRecord: the status in the index is the one its last writer gave it, the
\* registry or the escrow itself; under an SDK that decodes an enum to a bare string it
\* may be the escrow's own events' alone.
THEOREM FollowsRecord == RegistryIndexSpec => []IndexFollowsRecord
<1>1. IndexInv => IndexFollowsRecord
  BY DEF IndexInv, RowFits, IndexFollowsRecord, FollowsLastWriter
<1>2. QED
  BY <1>1, IndexFits, PTL

\* RowsMatchRegistration: titles, names, farmers and contracts in the index are those
\* that were registered and linked, for every way of decoding an enum.
THEOREM MatchesRegistration == RegistryIndexSpec => []RowsMatchRegistration
<1>1. IndexInv => TextsSurviveMirrors
  BY DEF IndexInv, RowFits, UserFits, TextsSurviveMirrors
<1>2. IndexInv => RowsNameTheRegistrant
  BY DEF IndexInv, RowFits, RowsNameTheRegistrant
<1>3. IndexInv => RowsMatchRegistration
  BY <1>1, <1>2 DEF RowsMatchRegistration
<1>4. QED
  BY <1>3, IndexFits, PTL
=============================================================================
