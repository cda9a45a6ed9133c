-------------------------- MODULE WorksheetsProofs --------------------------
(***************************************************************************)
(* Theorems about CalmSpec of Worksheets, for any number of windows,       *)
(* connections, worksheets, and messages in flight; and, at the end, about *)
(* SerialSpec of StoredSession, which keeps what the windows store.        *)
(***************************************************************************)
EXTENDS StoredSession, HsArrayProofs

\* A panel made of worksheets created so far (u); the last worksheet of every
\* connection is there to be shown, if a worksheet was selected last.
Sound(p, u)  == p \in Panel /\ Dense(p.at) /\ Tabs(p) \subseteq u
Remembers(p) == \A c \in Conn : p.last[c] \in {folder, undefined} \cup (Visible(p) \cap Of(c))
Good(p, u)   == Sound(p, u) /\ Remembers(p)

\* What an open window w shows.
Choice(p, w)  == (Tabs(p) \cap Of(conn[w])) \cup {folder}
Settled(p, w) ==
  /\ p.selected \in (Visible(p) \cap Of(conn[w])) \cup {folder}
  /\ \/ p.last[conn[w]] = p.selected
     \/ p.selected = folder /\ p.last[conn[w]] = undefined

\* A session, wherever it is.
Stored(s, u) == /\ Good(s, u) /\ s.hidden = Blank.hidden
                /\ s.selected \in Tabs(s) \cup {folder} \/ s = Blank

MessageSet == [conn : Conn, at : [Tab -> Nat \cup {Absent}], text : [Tab -> Nat]]
Sendable(m, u) ==
  m \in MessageSet /\ Dense(m.at) /\ Live(m.at) \subseteq u \cap Of(m.conn)

Windows  == /\ panel \in [Window -> Panel]
            /\ up \in [Window -> {"off", "booting", "on"}]
            /\ \A w \in Window : /\ Good(panel[w], used)
                                 /\ up[w] = "on" => Settled(panel[w], w)
Sessions == /\ Stored(row, used)
            /\ post \in [Window -> [status : {"idle", "sent", "orphan", "answered"}, data : Panel]]
            /\ fetch \in [Window -> Panel \cup {NotLoading}]
            /\ \A w \in Window : /\ Stored(post[w].data, used)
                                 /\ up[w] = "booting" \/ fetch[w] # NotLoading => Stored(fetch[w], used)
Messages == /\ chan \in [Window -> Seq(MessageSet)]
            /\ \A w \in Window : \A i \in DOMAIN chan[w] : Sendable(chan[w][i], used)
Counts   == used \subseteq Tab /\ edits \in Nat /\ stale \in [Window -> SUBSET Tab]

IInv == Windows /\ Sessions /\ Messages /\ Counts

-----------------------------------------------------------------------------
\* The fields of a panel, and of one after selectTab.
LEMMA Fields ==
  ASSUME NEW p \in Panel
  PROVE  /\ p.at \in Arrays(Tab) /\ p.hidden \in [Tab -> BOOLEAN] /\ p.text \in [Tab -> Nat]
         /\ p.selected \in Tab \cup {folder, undefined}
         /\ p.last \in [Conn -> Tab \cup {folder, undefined}]
         /\ Tabs(p) = {t \in Tab : p.at[t] # Absent} /\ Tabs(p) = Live(p.at)
         /\ Visible(p) = {t \in Tabs(p) : ~p.hidden[t]}
BY DEF Panel, Arrays, Tabs, Live, Visible

LEMMA SelectedFields ==
  ASSUME NEW p \in Panel, NEW w \in Window, NEW t \in Tab \cup {folder}
  PROVE  LET q == Selected(p, w, t)
         IN  /\ q \in Panel /\ q.at = p.at /\ q.text = p.text /\ q.selected = t
             /\ \A x \in Tab : q.hidden[x] = (p.hidden[x] /\ x # t)
             /\ q.last[conn[w]] = t
             /\ \A c \in Conn \ {conn[w]} : q.last[c] = p.last[c]
BY ConnAssumption DEF Selected, Panel

\* selectTab of a worksheet of the window's connection, or of the folder.
LEMMA SelectedGood ==
  ASSUME NEW u, NEW p, Good(p, u), NEW w \in Window, NEW t \in Choice(p, w)
  PROVE  LET q == Selected(p, w, t)
         IN  Good(q, u) /\ Settled(q, w) /\ Tabs(q) = Tabs(p)
<1> DEFINE q == Selected(p, w, t)
<1>1. /\ p \in Panel /\ t \in Tab \cup {folder}
      /\ t = folder \/ (t \in Tabs(p) /\ t \in Of(conn[w]))
  BY Fields DEF Good, Sound, Choice
<1>2. /\ q \in Panel /\ q.at = p.at /\ q.selected = t
      /\ \A x \in Tab : q.hidden[x] = (p.hidden[x] /\ x # t)
      /\ q.last[conn[w]] = t
      /\ \A c \in Conn \ {conn[w]} : q.last[c] = p.last[c]
  BY <1>1, SelectedFields
<1> HIDE DEF q
<1>3. Tabs(q) = Tabs(p)
  BY <1>2 DEF Tabs
<1>4. Visible(p) \subseteq Visible(q) /\ (t # folder => t \in Visible(q))
  BY <1>1, <1>2, <1>3, Fields
<1>5. Remembers(q)
  BY <1>1, <1>2, <1>4 DEF Remembers, Good
<1>6. Good(q, u) /\ Settled(q, w)
  BY <1>1, <1>2, <1>3, <1>4, <1>5 DEF Good, Sound, Settled
<1> QED
  BY <1>3, <1>6 DEF q

\* createTab: t is new.
LEMMA CreatedGood ==
  ASSUME NEW u, NEW p, Good(p, u), NEW w \in Window, NEW t \in Of(conn[w]) \ u
  PROVE  LET q == Created(p, w, t)
         IN  Good(q, u \cup {t}) /\ Settled(q, w) /\ Tabs(q) = Tabs(p) \cup {t}
<1> DEFINE r == [p EXCEPT !.at = Push(p.at, t)]
<1>1. p \in Panel /\ Dense(p.at) /\ Tabs(p) \subseteq u /\ t \in Tab /\ t \notin Live(p.at)
  BY Fields DEF Good, Sound, Of, Tabs
<1>2. p.at \in Arrays(Tab)
  BY <1>1, Fields
<1>3. Push(p.at, t) \in Arrays(Tab) /\ Live(Push(p.at, t)) = Live(p.at) \cup {t} /\ Dense(Push(p.at, t))
  BY <1>1, <1>2, PushElements, PushDense
<1>4. /\ r \in Panel /\ r.at = Push(p.at, t)
      /\ r.hidden = p.hidden /\ r.last = p.last
  BY <1>1, <1>3 DEF Panel, Arrays
<1> HIDE DEF r
<1>5. Tabs(r) = Tabs(p) \cup {t}
  BY <1>3, <1>4 DEF Tabs
<1>6. Visible(p) \subseteq Visible(r)
  BY <1>1, <1>4, <1>5, Fields
<1>7. Good(r, u \cup {t})
  BY <1>1, <1>3, <1>4, <1>5, <1>6 DEF Good, Sound, Remembers
<1>8. t \in Choice(r, w)
  BY <1>5 DEF Choice
<1> QED
  BY <1>5, <1>7, <1>8, SelectedGood DEF Created, r

-----------------------------------------------------------------------------
\* hideTab of a worksheet t of the window, with next selected in its place.
LEMMA ClosedGood ==
  ASSUME NEW u, NEW p, Good(p, u), NEW w \in Window,
         NEW t \in Tabs(p) \cap Of(conn[w]), NEW n \in Choice(p, w)
  PROVE  LET q == Selected([Selected(p, w, n) EXCEPT !.hidden[t] = TRUE], w, n)
         IN  Good(q, u) /\ Settled(q, w)
<1> DEFINE r == Selected(p, w, n)
           s == [r EXCEPT !.hidden[t] = TRUE]
           q == Selected(s, w, n)
<1>1. /\ p \in Panel /\ t \in Tab /\ n \in Tab \cup {folder} /\ Dense(p.at) /\ Tabs(p) \subseteq u
      /\ n = folder \/ (n \in Tabs(p) /\ n \in Of(conn[w]))
  BY Fields DEF Good, Sound, Choice
<1>2. /\ r \in Panel /\ r.at = p.at
      /\ \A c \in Conn \ {conn[w]} : r.last[c] = p.last[c]
      /\ \A x \in Tab : r.hidden[x] = (p.hidden[x] /\ x # n)
  BY <1>1, SelectedFields
<1> HIDE DEF r
<1>3. /\ s \in Panel /\ s.at = p.at /\ s.last = r.last
      /\ \A x \in Tab \ {t} : s.hidden[x] = r.hidden[x]
  BY <1>1, <1>2 DEF Panel
<1> HIDE DEF s
<1>4. /\ q \in Panel /\ q.at = p.at /\ q.selected = n /\ q.last[conn[w]] = n
      /\ \A x \in Tab : q.hidden[x] = (s.hidden[x] /\ x # n)
      /\ \A c \in Conn \ {conn[w]} : q.last[c] = p.last[c]
  BY <1>1, <1>2, <1>3, SelectedFields
<1> HIDE DEF q
<1>5. Tabs(q) = Tabs(p)
  BY <1>4 DEF Tabs
<1>6. (n # folder => n \in Visible(q)) /\ Visible(p) \ {t} \subseteq Visible(q)
  BY <1>1, <1>2, <1>3, <1>4, <1>5, Fields
<1>7. \A c \in Conn \ {conn[w]} : p.last[c] # t
  BY <1>1, UndefinedAssumption DEF Good, Remembers, Of
<1>8. Remembers(q)
  BY <1>1, <1>4, <1>6, <1>7 DEF Good, Remembers
<1> QED
  BY <1>1, <1>4, <1>5, <1>6, <1>8 DEF Good, Sound, Settled, q, s, r

\* deleteTab of a worksheet t of the window that is not selected any more.
LEMMA RemovedGood ==
  ASSUME NEW u, NEW p, Good(p, u), NEW w \in Window, Settled(p, w),
         NEW t \in Tabs(p) \cap Of(conn[w]), t # p.selected
  PROVE  Good(Remove(p, t), u) /\ Settled(Remove(p, t), w)
<1> DEFINE q == Remove(p, t)
<1>1. p \in Panel /\ t \in Tab /\ Dense(p.at) /\ Tabs(p) \subseteq u
  BY Fields DEF Good, Sound
<1>2. p.at \in Arrays(Tab) /\ {t} \in SUBSET Live(p.at)
  BY <1>1, Fields
<1>3. /\ Drop(p.at, {t}) \in Arrays(Tab) /\ Dense(Drop(p.at, {t}))
      /\ Live(Drop(p.at, {t})) = Live(p.at) \ {t}
  BY <1>1, <1>2, DropElements, DropDense
<1>4. /\ q \in Panel /\ q.at = Drop(p.at, {t}) /\ q.last = p.last /\ q.selected = p.selected
      /\ \A x \in Tab \ {t} : q.hidden[x] = p.hidden[x]
  BY <1>1, <1>3 DEF Panel, Arrays, Remove
<1> HIDE DEF q
<1>5. Tabs(q) = Tabs(p) \ {t}
  BY <1>3, <1>4 DEF Tabs
<1>6. Visible(p) \ {t} \subseteq Visible(q)
  BY <1>1, <1>4, <1>5, Fields
<1>7. \A c \in Conn : p.last[c] # t
  BY <1>1, UndefinedAssumption DEF Good, Remembers, Of, Settled
<1> QED
  BY <1>1, <1>3, <1>4, <1>5, <1>6, <1>7 DEF Good, Sound, Remembers, Settled, q

\* Worksheets other than those of S are left out of what is sent.
LEMMA PayloadFields ==
  ASSUME NEW u, NEW p, Good(p, u), NEW S \in SUBSET Tabs(p)
  PROVE  LET q == Payload(p, S)
         IN  /\ q \in Panel /\ Dense(q.at) /\ Tabs(q) = S
             /\ q.hidden = Blank.hidden /\ q.selected = p.selected /\ q.last = p.last
             /\ \A t \in S : q.text[t] = p.text[t]
<1>1. p \in Panel /\ Dense(p.at) /\ p.at \in Arrays(Tab)
  BY Fields DEF Good, Sound
<1>2. Tabs(p) = Live(p.at) /\ Tabs(p) \ S \in SUBSET Live(p.at)
  BY <1>1, Fields
<1> DEFINE a == Drop(p.at, Tabs(p) \ S)
<1>3. a \in Arrays(Tab) /\ Dense(a) /\ Live(a) = Live(p.at) \ (Tabs(p) \ S)
  BY <1>1, <1>2, DropElements, DropDense
<1>4. Live(a) = S
  BY <1>2, <1>3
<1> DEFINE x == [t \in Tab |-> IF t \in S THEN p.text[t] ELSE 0]
<1>5. x \in [Tab -> Nat] /\ \A t \in S : x[t] = p.text[t]
  BY <1>1, Fields
<1>6. Blank.hidden \in [Tab -> BOOLEAN]
  BY DEF Blank
<1>7. Payload(p, S) = [p EXCEPT !.at = a, !.hidden = Blank.hidden, !.text = x]
  BY DEF Payload
<1> HIDE DEF a, x
<1> QED
  BY <1>1, <1>3, <1>4, <1>5, <1>6, <1>7 DEF Panel, Arrays, Tabs

\* What save posts is a session.
LEMMA PayloadStored ==
  ASSUME NEW u, NEW p, Good(p, u), p.selected \in Visible(p) \cup {folder}
  PROVE  Stored(Payload(p, Visible(p)), u)
<1> DEFINE q == Payload(p, Visible(p))
<1>1. p \in Panel /\ Visible(p) \in SUBSET Tabs(p) /\ Visible(p) \in SUBSET Tab /\ Tabs(p) \subseteq u
  BY Fields DEF Good, Sound
<1>2. /\ q \in Panel /\ Dense(q.at) /\ Tabs(q) = Visible(p)
      /\ q.hidden = Blank.hidden /\ q.selected = p.selected /\ q.last = p.last
  BY <1>1, PayloadFields
<1> HIDE DEF q
<1>3. \A t \in Tab : ~q.hidden[t]
  BY <1>2 DEF Blank
<1>4. Visible(q) = Visible(p)
  BY <1>1, <1>2, <1>3, Fields
<1> QED
  BY <1>1, <1>2, <1>4 DEF Stored, Good, Sound, Remembers, q

\* What it broadcasts are worksheets of its own connection.
LEMMA MessageSendable ==
  ASSUME NEW u, NEW w \in Window, Good(panel[w], u)
  PROVE  /\ Sendable(Message(w), u)
         /\ Message(w).conn = conn[w] /\ Live(Message(w).at) = OwnVisible(w)
         /\ \A t \in OwnVisible(w) : Message(w).text[t] = panel[w].text[t]
<1> DEFINE p == panel[w]
           q == Payload(p, OwnVisible(w))
<1>1. p \in Panel /\ Tabs(p) \subseteq u
  BY DEF Good, Sound
<1>2. OwnVisible(w) \in SUBSET Tabs(p) /\ OwnVisible(w) \subseteq Of(conn[w])
  BY <1>1, Fields DEF OwnVisible
<1>3. /\ q \in Panel /\ Dense(q.at) /\ Tabs(q) = OwnVisible(w)
      /\ \A t \in OwnVisible(w) : q.text[t] = panel[w].text[t]
  BY <1>2, PayloadFields
<1>4. Message(w) = [conn |-> conn[w], at |-> q.at, text |-> q.text]
  BY DEF Message
<1> HIDE DEF p, q
<1>5. q.at \in Arrays(Tab) /\ q.text \in [Tab -> Nat] /\ conn[w] \in Conn
  BY <1>3, Fields, ConnAssumption
<1>6. /\ Message(w) \in MessageSet /\ Message(w).at = q.at /\ Message(w).conn = conn[w]
      /\ Message(w).text = q.text
  BY <1>4, <1>5 DEF MessageSet, Arrays
<1> QED
  BY <1>1, <1>2, <1>3, <1>6 DEF Sendable, Tabs

-----------------------------------------------------------------------------
LEMMA FirstIn ==
  ASSUME NEW u, NEW p, Good(p, u), NEW tabs \in SUBSET Tabs(p), tabs # {}
  PROVE  First(p, tabs) \in tabs
<1>1. p.at \in Arrays(Tab) /\ Dense(p.at) /\ Tabs(p) = Live(p.at)
  BY Fields DEF Good, Sound
<1>2. \E x \in tabs : \A y \in tabs : p.at[x] <= p.at[y]
  BY <1>1, Ends
<1> QED
  BY <1>2 DEF First

\* a is the array at (over S), with the unknown elements of b appended in their
\* order.
Appended(a, at, b, S) ==
  LET D == Live(b) \ Live(at)
  IN  /\ a \in [S -> Int]
      /\ \A t \in D : a[t] = Cardinality(Live(at)) + Before(b, D, t)
      /\ \A t \in S \ D : a[t] = at[t]

LEMMA AppendDense ==
  ASSUME NEW S, NEW at \in Arrays(S), Dense(at), NEW b \in Arrays(S), Dense(b),
         NEW a, Appended(a, at, b, S)
  PROVE  a \in Arrays(S) /\ Dense(a) /\ Live(a) = Live(at) \cup Live(b)
<1> SUFFICES ASSUME NEW D, D = Live(b) \ Live(at),
                    a \in [S -> Int],
                    \A t \in D : a[t] = Cardinality(Live(at)) + Before(b, D, t),
                    \A t \in S \ D : a[t] = at[t]
             PROVE  a \in Arrays(S) /\ Dense(a) /\ Live(a) = Live(at) \cup Live(b)
  BY DEF Appended
<1> DEFINE n == Cardinality(Live(at))
           m == Cardinality(D)
<1>0. D \in SUBSET Live(b)
  OBVIOUS
<1>1. IsFiniteSet(Live(at)) /\ n \in Nat /\ Live(at) \subseteq S /\ D \subseteq S
  BY <1>0, FS_CardinalityType, LiveIndex DEF Dense
<1>2. /\ IsFiniteSet(D) /\ m \in Nat
      /\ \A x \in D : Before(b, D, x) \in 0..(m - 1)
      /\ \A x, y \in D : Before(b, D, x) = Before(b, D, y) => x = y
  <2>1. b \in Arrays(S) /\ Dense(b)
    OBVIOUS
  <2> QED BY ONLY <1>0, <2>1, BeforeOrder
<1>3. IsFiniteSet(Live(at) \cup D) /\ Cardinality(Live(at) \cup D) = n + m
  <2>1. Live(at) \cap D = {}
    OBVIOUS
  <2>2. Cardinality({}) = 0
    BY FS_EmptySet
  <2>3. /\ IsFiniteSet(Live(at) \cup D)
        /\ Cardinality(Live(at) \cup D) = n + m - Cardinality(Live(at) \cap D)
    BY <1>1, <1>2, FS_Union
  <2>4. Cardinality(Live(at) \cap D) = 0
    BY <2>1, <2>2
  <2> HIDE DEF n, m
  <2> QED BY <1>1, <1>2, <2>3, <2>4
<1>4. \A x \in Live(at) : at[x] \in 0..(n - 1) /\ x \notin D
  BY DEF Dense
<1>5. \A x \in S : at[x] \in Nat \cup {Absent} /\ (x \in Live(at) <=> at[x] # Absent)
  BY LiveIndex DEF Arrays
<1> HIDE DEF n, m
<1>6. \A x \in D : a[x] = n + Before(b, D, x) /\ a[x] \in n..(n + m - 1) /\ a[x] \in Nat
  <2> TAKE x \in D
  <2>1. a[x] = n + Before(b, D, x)
    BY DEF n
  <2>2. Before(b, D, x) \in 0..(m - 1)
    BY <1>2
  <2> QED BY <1>1, <1>2, <2>1, <2>2
<1>7. \A x \in S \ D : a[x] = at[x]
  OBVIOUS
<1>8. \A t \in S : a[t] \in Nat \cup {Absent}
  BY <1>1, <1>5, <1>6, <1>7
<1>9. a \in Arrays(S)
  BY <1>8 DEF Arrays
<1>10. Live(a) = Live(at) \cup D
  BY <1>1, <1>4, <1>5, <1>6, <1>7, <1>9, LiveIndex DEF Absent
<1>11. \A x \in Live(a) : a[x] \in 0..(Cardinality(Live(a)) - 1)
  <2>1. Live(a) = Live(at) \cup D /\ Cardinality(Live(a)) = n + m
    BY <1>3, <1>10
  <2>2. \A x \in Live(at) : a[x] \in 0..(n + m - 1)
    BY <1>1, <1>2, <1>4, <1>7
  <2>3. \A x \in D : a[x] \in 0..(n + m - 1)
    BY ONLY <1>1, <1>2, <1>6
  <2>4. \A x \in Live(at) \cup D : a[x] \in 0..(n + m - 1)
    BY <2>2, <2>3
  <2> DEFINE L == Live(a)
             k == Cardinality(Live(a))
  <2>5. L = Live(at) \cup D /\ k = n + m /\ n \in Nat /\ m \in Nat
    BY <1>1, <1>2, <2>1
  <2> HIDE DEF L, k
  <2>6. \A x \in L : a[x] \in 0..(k - 1)
    BY <2>4, <2>5
  <2> QED BY <2>6 DEF L, k
<1>12. \A x, y \in Live(a) : a[x] = a[y] => x = y
  <2> TAKE x \in Live(a), y \in Live(a)
  <2>1. CASE x \in D /\ y \in D
    <3>1. Before(b, D, x) \in 0..(m - 1) /\ Before(b, D, y) \in 0..(m - 1)
      BY <1>2, <2>1
    <3>2. a[x] = n + Before(b, D, x) /\ a[y] = n + Before(b, D, y)
      BY <1>6, <2>1
    <3>3. a[x] = a[y] => Before(b, D, x) = Before(b, D, y)
      BY <1>1, <3>1, <3>2
    <3> QED BY <1>2, <2>1, <3>3
  <2>2. CASE x \in Live(at) /\ y \in Live(at)
    BY <1>1, <1>4, <1>7, <2>2 DEF Dense
  <2>3. CASE (x \in D) # (y \in D)
    BY <1>1, <1>2, <1>4, <1>6, <1>7, <1>10, <2>3
  <2> QED BY <1>4, <1>10, <2>1, <2>2, <2>3
<1> QED
  BY <1>3, <1>9, <1>10, <1>11, <1>12 DEF Dense

-----------------------------------------------------------------------------
\* A broadcast of another connection: the window goes on showing what it
\* shows, and the worksheets of its own connection are as before.
LEMMA MergedGood ==
  ASSUME NEW u, NEW p, Good(p, u), NEW w \in Window,
         NEW m, Sendable(m, u), m.conn # conn[w]
  PROVE  /\ Good(Merge(p, m), u)
         /\ Settled(p, w) => Settled(Merge(p, m), w)
         /\ \A t \in Of(conn[w]) : /\ t \in Tabs(p) <=> t \in Tabs(Merge(p, m))
                                   /\ Merge(p, m).text[t] = p.text[t]
                                   /\ Merge(p, m).hidden[t] = p.hidden[t]
         /\ Tabs(Merge(p, m)) = Tabs(p) \cup Live(m.at)
         /\ \A t \in Tab :
              /\ Merge(p, m).hidden[t] = (p.hidden[t] /\ t \notin Live(m.at))
              /\ Merge(p, m).text[t] = IF t \in Live(m.at) THEN m.text[t] ELSE p.text[t]
<1> DEFINE new == Live(m.at) \ Tabs(p)
           a == [t \in Tab |-> IF t \in new THEN Cardinality(Tabs(p)) + Before(m.at, new, t)
                                            ELSE p.at[t]]
           h == [t \in Tab |-> p.hidden[t] /\ t \notin Live(m.at)]
           x == [t \in Tab |-> IF t \in Live(m.at) THEN m.text[t] ELSE p.text[t]]
           q == Merge(p, m)
<1>1. /\ p \in Panel /\ Dense(p.at) /\ p.at \in Arrays(Tab) /\ Tabs(p) = Live(p.at)
      /\ p.hidden \in [Tab -> BOOLEAN] /\ p.text \in [Tab -> Nat] /\ Tabs(p) \subseteq u
      /\ Tabs(p) \subseteq Tab
  BY Fields DEF Good, Sound
<1>2. /\ m.at \in Arrays(Tab) /\ Dense(m.at) /\ m.text \in [Tab -> Nat]
      /\ Live(m.at) \subseteq u \cap Of(m.conn)
  BY DEF Sendable, MessageSet, Arrays
<1>3. Live(m.at) \cap Of(conn[w]) = {}
  BY <1>2 DEF Of
<1>4. new = Live(m.at) \ Live(p.at) /\ Tabs(p) = Live(p.at)
  BY <1>1
<1>5. a \in Arrays(Tab) /\ Dense(a) /\ Live(a) = Live(p.at) \cup Live(m.at)
  <2> HIDE DEF new
  <2> DEFINE n == Cardinality(Tabs(p))
  <2>0. IsFiniteSet(Live(p.at)) /\ n \in Nat /\ n = Cardinality(Live(p.at))
    BY <1>1, <1>4, FS_CardinalityType DEF Dense
  <2>1. a \in [Tab -> Int]
    <3>1. new \in SUBSET Live(m.at)
      BY <1>4
    <3>2. \A t \in new : Before(m.at, new, t) \in 0..(Cardinality(new) - 1)
      BY <1>2, <3>1, BeforeOrder
    <3>3. \A t \in Tab : p.at[t] \in Int
      BY <1>1 DEF Arrays, Absent
    <3> HIDE DEF n
    <3>4. \A t \in new : n + Before(m.at, new, t) \in Int
      BY <2>0, <3>2
    <3> QED BY <3>3, <3>4 DEF n
  <2>2. /\ \A t \in new : a[t] = Cardinality(Tabs(p)) + Before(m.at, new, t)
        /\ \A t \in Tab \ new : a[t] = p.at[t]
    BY <1>2, <1>4, LiveIndex
  <2>3. \A t \in new : a[t] = Cardinality(Live(p.at)) + Before(m.at, new, t)
    BY <2>0, <2>2
  <2> HIDE DEF a
  <2>4. p.at \in Arrays(Tab) /\ Dense(p.at) /\ m.at \in Arrays(Tab) /\ Dense(m.at)
    BY <1>1, <1>2
  <2>5. new = Live(m.at) \ Live(p.at) /\ \A t \in Tab \ new : a[t] = p.at[t]
    BY <1>4, <2>2
  <2>6. Appended(a, p.at, m.at, Tab)
    BY <2>1, <2>3, <2>5 DEF Appended
  <2> QED BY <2>4, <2>6, AppendDense
<1>6. h \in [Tab -> BOOLEAN] /\ x \in [Tab -> Nat]
  BY <1>1, <1>2
<1>7. q = [p EXCEPT !.at = a, !.hidden = h, !.text = x]
  BY DEF Merge
<1> HIDE DEF a
<1>8. \A t \in Tab : /\ h[t] = (p.hidden[t] /\ t \notin Live(m.at))
                     /\ x[t] = IF t \in Live(m.at) THEN m.text[t] ELSE p.text[t]
  OBVIOUS
<1> HIDE DEF h, x
<1>9. /\ q \in Panel /\ q.at = a /\ q.hidden = h /\ q.text = x
      /\ q.last = p.last /\ q.selected = p.selected
  BY <1>1, <1>5, <1>6, <1>7 DEF Panel, Arrays
<1> HIDE DEF q
<1>10. Tabs(q) = Tabs(p) \cup Live(m.at)
  BY <1>4, <1>5, <1>9 DEF Tabs
<1>11. Visible(p) \subseteq Visible(q)
  BY <1>1, <1>8, <1>9, <1>10, Fields
<1>12. Good(q, u)
  BY <1>1, <1>2, <1>5, <1>9, <1>10, <1>11 DEF Good, Sound, Remembers
<1>13. Settled(p, w) => Settled(q, w)
  BY <1>9, <1>11 DEF Settled
<1>14. ASSUME NEW t \in Of(conn[w])
       PROVE  /\ t \in Tabs(p) <=> t \in Tabs(q)
              /\ q.text[t] = p.text[t]
              /\ q.hidden[t] = p.hidden[t]
  <2>1. t \in Tab /\ t \notin Live(m.at)
    BY <1>3 DEF Of
  <2> QED BY <1>1, <1>8, <1>9, <1>10, <2>1
<1> QED
  BY <1>8, <1>9, <1>10, <1>12, <1>13, <1>14 DEF q

\* The next panel of a window that opens with session p.
LEMMA OpenedGood ==
  ASSUME NEW w \in Window, NEW p, Stored(p, used), used \subseteq Tab, Opened(w, p),
         panel \in [Window -> Panel]
  PROVE  /\ used \subseteq used' /\ used' \subseteq Tab
         /\ \E q \in Panel : Good(q, used') /\ Settled(q, w) /\ Show(w, q, {})
<1> DEFINE c   == conn[w]
           own == Tabs(p) \cap Of(c)
<1>1. Good(p, used) /\ p.hidden = Blank.hidden /\ p \in Panel /\ c \in Conn
  BY ConnAssumption DEF Stored, Good, Sound
<1>2. Visible(p) \subseteq Tabs(p)
  BY DEF Visible
<1>3. CASE /\ p.last[c] # undefined
           /\ Show(w, Selected(p, w, p.last[c]), {})
           /\ UNCHANGED used
  <2>1. p.last[c] \in Choice(p, w)
    BY <1>1, <1>2, <1>3 DEF Good, Remembers, Choice
  <2> DEFINE q == Selected(p, w, p.last[c])
  <2>2. Good(q, used) /\ Settled(q, w)
    BY <1>1, <2>1, SelectedGood
  <2> HIDE DEF q
  <2>3. q \in Panel
    BY <2>2 DEF Good, Sound
  <2> QED BY <1>3, <2>2, <2>3 DEF q
<1>4. CASE /\ p.last[c] = undefined /\ own # {}
           /\ Show(w, Selected(p, w, IF p.selected \in own THEN p.selected ELSE First(p, own)), {})
           /\ UNCHANGED used
  <2> DEFINE t == IF p.selected \in own THEN p.selected ELSE First(p, own)
             q == Selected(p, w, t)
  <2>1. First(p, own) \in own
    BY <1>1, <1>4, FirstIn
  <2>2. t \in Choice(p, w)
    BY <2>1 DEF Choice
  <2> HIDE DEF t
  <2>3. Good(q, used) /\ Settled(q, w)
    BY <1>1, <2>2, SelectedGood
  <2> HIDE DEF q
  <2>4. q \in Panel
    BY <2>3 DEF Good, Sound
  <2> QED BY <1>4, <2>3, <2>4 DEF q, t
<1>5. CASE /\ p.last[c] = undefined /\ own = {}
           /\ Give(c)
           /\ Show(w, Created(p, w, NewTab(c)), {})
  <2> DEFINE t == NewTab(c)
             q == Created(p, w, t)
  <2>1. t \in Of(c) \ used /\ used' = used \cup {t} /\ t \in Tab
    BY <1>5 DEF Give, NewTab, Of
  <2> HIDE DEF t
  <2>2. Good(q, used \cup {t}) /\ Settled(q, w)
    BY <1>1, <2>1, CreatedGood
  <2> HIDE DEF q
  <2>3. q \in Panel
    BY <2>2 DEF Good, Sound
  <2> QED BY <1>5, <2>1, <2>2, <2>3 DEF q, t
<1> QED
  BY <1>3, <1>4, <1>5 DEF Opened

-----------------------------------------------------------------------------
\* Ids are only ever added to used: what was good before is good after.
LEMMA MoreUsed ==
  ASSUME NEW u, NEW v, u \subseteq v
  PROVE  /\ \A p : Good(p, u) => Good(p, v)
         /\ \A s : Stored(s, u) => Stored(s, v)
         /\ \A m : Sendable(m, u) => Sendable(m, v)
BY DEF Good, Sound, Stored, Sendable

LEMMA SessionsKept ==
  ASSUME Sessions, used \subseteq used', row' = row, post' = post, fetch' = fetch,
         \A w \in Window : up'[w] = "booting" => up[w] = "booting"
  PROVE  Sessions'
<1>1. \A s : Stored(s, used) => Stored(s, used')
  BY MoreUsed
<1> QED
  BY <1>1 DEF Sessions

LEMMA MessagesKept ==
  ASSUME Messages, used \subseteq used', chan' = chan
  PROVE  Messages'
<1>1. \A m : Sendable(m, used) => Sendable(m, used')
  BY MoreUsed
<1> QED
  BY <1>1 DEF Messages

\* Window w gets the panel q.
LEMMA WindowStep ==
  ASSUME Windows, used \subseteq used', NEW w \in Window, NEW q,
         Good(q, used'), up'[w] = "on" => Settled(q, w),
         panel' = [panel EXCEPT ![w] = q],
         up' \in [Window -> {"off", "booting", "on"}],
         \A x \in Window \ {w} : up'[x] = up[x]
  PROVE  Windows'
<1>1. \A p : Good(p, used) => Good(p, used')
  BY MoreUsed
<1>2. q \in Panel /\ panel' \in [Window -> Panel]
  BY DEF Good, Sound, Windows
<1>3. panel'[w] = q /\ \A x \in Window \ {w} : panel'[x] = panel[x]
  BY DEF Windows
<1>4. ASSUME NEW x \in Window
      PROVE  Good(panel'[x], used') /\ (up'[x] = "on" => Settled(panel'[x], x))
  BY <1>1, <1>3 DEF Windows
<1> QED
  BY <1>2, <1>4 DEF Windows

\* A step of the user of window w that shows q.
LEMMA ShowStep ==
  ASSUME IInv, NEW w \in Window, up[w] = "on", NEW q, NEW gone \in SUBSET Tab,
         used \subseteq used', used' \subseteq Tab,
         Good(q, used'), Settled(q, w), Show(w, q, gone),
         up' = up, row' = row, post' = post, fetch' = fetch, chan' = chan, edits' = edits
  PROVE  IInv'
<1>1. Windows'
  BY WindowStep DEF IInv, Show, Windows
<1>2. Sessions' /\ Messages'
  BY SessionsKept, MessagesKept DEF IInv
<1>3. Counts'
  BY DEF IInv, Counts, Show
<1> QED
  BY <1>1, <1>2, <1>3 DEF IInv

-----------------------------------------------------------------------------
LEMMA BlankStored == Stored(Blank, {})
<1>1. Blank \in Panel
  BY DEF Blank, Panel
<1>2. /\ Blank.at = [t \in Tab |-> Absent] /\ Blank.hidden = [t \in Tab |-> FALSE]
      /\ \A c \in Conn : Blank.last[c] = undefined
  BY DEF Blank
<1>3. Live(Blank.at) = {}
  BY <1>2 DEF Live
<1>4. Dense(Blank.at)
  BY <1>3, FS_EmptySet DEF Dense
<1> QED
  BY <1>1, <1>2, <1>3, <1>4 DEF Stored, Good, Sound, Remembers, Tabs

LEMMA InitInvariant == Init => IInv
<1> SUFFICES ASSUME Init PROVE IInv
  OBVIOUS
<1>1. Stored(Blank, used) /\ Good(Blank, used) /\ Blank \in Panel
  BY BlankStored DEF Init, Stored, Good, Sound
<1>2. Windows
  BY <1>1 DEF Init, Windows
<1>3. Sessions
  BY <1>1 DEF Init, Sessions, NotSaving, NotLoading
<1>4. Messages
  BY DEF Init, Messages
<1>5. Counts
  BY DEF Init, Counts
<1> QED
  BY <1>2, <1>3, <1>4, <1>5 DEF IInv

-----------------------------------------------------------------------------
LEMMA CreateKeeps ==
  ASSUME IInv, NEW w \in Window, Create(w)
  PROVE  IInv'
<1> DEFINE t == NewTab(conn[w])
           q == Created(panel[w], w, t)
<1>1. up[w] = "on" /\ Good(panel[w], used)
  BY DEF Create, IInv, Windows
<1>2. t \in Of(conn[w]) \ used /\ t \in Tab /\ used' = used \cup {t} /\ Show(w, q, {})
  BY DEF Create, Give, NewTab, Of
<1> HIDE DEF t
<1>3. Good(q, used') /\ Settled(q, w)
  BY <1>1, <1>2, CreatedGood
<1> HIDE DEF q
<1>4. used \subseteq used' /\ used' \subseteq Tab
  BY <1>2 DEF IInv, Counts
<1>5. /\ up' = up /\ row' = row /\ post' = post /\ fetch' = fetch
      /\ chan' = chan /\ edits' = edits
  BY DEF Create
<1> QED
  BY <1>1, <1>2, <1>3, <1>4, <1>5, ShowStep

\* A click on a worksheet of the window, or on the folder.
LEMMA SelectKeeps ==
  ASSUME IInv, NEW w \in Window, NEW t \in Tab \cup {folder},
         (t \in Tab /\ Select(w, t)) \/ (t = folder /\ SelectFolder(w))
  PROVE  IInv'
<1> DEFINE q == Selected(panel[w], w, t)
<1>1. up[w] = "on" /\ Good(panel[w], used) /\ t \in Choice(panel[w], w)
  BY DEF Select, SelectFolder, IInv, Windows, Own, Choice
<1>2. Good(q, used) /\ Settled(q, w)
  BY <1>1, SelectedGood
<1> HIDE DEF q
<1>3. /\ up' = up /\ row' = row /\ post' = post /\ fetch' = fetch
      /\ chan' = chan /\ edits' = edits /\ used' = used /\ Show(w, q, {})
  BY DEF Select, SelectFolder, q
<1>4. used \subseteq used' /\ used' \subseteq Tab /\ Good(q, used')
  BY <1>2, <1>3 DEF IInv, Counts
<1> QED
  BY <1>1, <1>2, <1>3, <1>4, ShowStep

LEMMA EditKeeps ==
  ASSUME IInv, NEW w \in Window, Edit(w)
  PROVE  IInv'
<1> DEFINE p == panel[w]
           t == p.selected
           q == [p EXCEPT !.text[t] = edits']
<1>1. /\ up[w] = "on" /\ Good(p, used) /\ Settled(p, w) /\ p \in Panel
      /\ edits' = edits + 1 /\ edits' \in Nat
  BY DEF Edit, IInv, Windows, Good, Sound, Counts
<1>2. t \in Tab
  BY <1>1, Fields DEF Edit
<1>3. panel' = [panel EXCEPT ![w] = q]
  BY DEF Edit
<1> HIDE DEF p
<1>4. /\ q \in Panel /\ q.at = p.at /\ q.hidden = p.hidden
      /\ q.selected = p.selected /\ q.last = p.last
  BY <1>1, <1>2 DEF Panel
<1> HIDE DEF q
<1>5. Tabs(q) = Tabs(p)
  BY <1>4 DEF Tabs
<1>6. Visible(q) = Visible(p)
  BY <1>4, <1>5 DEF Visible
<1>7. Good(q, used) /\ Settled(q, w)
  BY <1>1, <1>4, <1>5, <1>6 DEF Good, Sound, Remembers, Settled
<1>8. /\ up' = up /\ row' = row /\ post' = post /\ fetch' = fetch
      /\ chan' = chan /\ used' = used /\ stale' = stale
  BY DEF Edit
<1>9. Windows'
  BY <1>3, <1>7, <1>8, WindowStep DEF IInv, Windows
<1>10. Sessions' /\ Messages'
  BY <1>8, SessionsKept, MessagesKept DEF IInv
<1>11. Counts'
  BY <1>1, <1>8 DEF IInv, Counts
<1> QED
  BY <1>9, <1>10, <1>11 DEF IInv

LEMMA CloseKeeps ==
  ASSUME IInv, NEW w \in Window, NEW t \in Tab, Close(w, t)
  PROVE  IInv'
<1> DEFINE p    == panel[w]
           prev == Previous(p, OwnVisible(w), t)
           next == IF t # p.selected THEN p.selected
                   ELSE IF prev # {} THEN CHOOSE x \in prev : TRUE
                   ELSE First(p, OwnVisible(w))
           q    == Selected([Selected(p, w, next) EXCEPT !.hidden[t] = TRUE], w, next)
<1>1. up[w] = "on" /\ Good(p, used) /\ Settled(p, w) /\ t \in OwnVisible(w)
  BY DEF Close, IInv, Windows
<1>2. OwnVisible(w) \subseteq Tabs(p) \cap Of(conn[w])
  BY DEF OwnVisible, Visible
<1>3. First(p, OwnVisible(w)) \in OwnVisible(w)
  BY <1>1, <1>2, FirstIn
<1>4. prev \subseteq OwnVisible(w)
  BY DEF Previous
<1>5. p.selected \in OwnVisible(w) \cup {folder}
  BY <1>1 DEF Settled, OwnVisible
<1>6. next \in Choice(p, w)
  <2>1. next \in OwnVisible(w) \cup {folder}
    <3> HIDE DEF prev, p
    <3> QED BY <1>3, <1>4, <1>5
  <2> HIDE DEF next
  <2> QED BY <1>2, <2>1 DEF Choice
<1>7. Show(w, q, {})
  BY DEF Close
<1> HIDE DEF next
<1>8. Good(q, used) /\ Settled(q, w)
  BY <1>1, <1>2, <1>6, ClosedGood
<1> HIDE DEF q
<1>9. /\ up' = up /\ row' = row /\ post' = post /\ fetch' = fetch
      /\ chan' = chan /\ edits' = edits /\ used' = used
  BY DEF Close
<1>10. used \subseteq used' /\ used' \subseteq Tab /\ Good(q, used')
  BY <1>8, <1>9 DEF IInv, Counts
<1> QED
  BY <1>1, <1>7, <1>8, <1>9, <1>10, ShowStep

LEMMA DeleteKeeps ==
  ASSUME IInv, NEW w \in Window, NEW t \in Tab, Delete(w, t)
  PROVE  IInv'
<1> DEFINE p    == panel[w]
           rest == Own(w) \ {t}
<1>1. up[w] = "on" /\ Good(p, used) /\ Settled(p, w) /\ t \in Tabs(p) \cap Of(conn[w])
  BY DEF Delete, IInv, Windows, Own
<1>2. used \subseteq Tab /\ {t} \in SUBSET Tab
  BY DEF IInv, Counts
<1>3. ASSUME NEW r, NEW u, used \subseteq u, u \subseteq Tab, used' = u,
             Good(r, u), Settled(r, w), t \in Tabs(r), t # r.selected, Show(w, Remove(r, t), {t})
      PROVE  IInv'
  <2> DEFINE q == Remove(r, t)
  <2>1. Good(q, u) /\ Settled(q, w)
    BY <1>1, <1>3, RemovedGood
  <2> HIDE DEF q
  <2>2. /\ up' = up /\ row' = row /\ post' = post /\ fetch' = fetch
        /\ chan' = chan /\ edits' = edits
    BY DEF Delete
  <2>3. Show(w, q, {t})
    BY <1>3 DEF q
  <2> QED BY <1>1, <1>2, <1>3, <2>1, <2>2, <2>3, ShowStep
<1>4. CASE t # p.selected /\ Show(w, Remove(p, t), {t}) /\ UNCHANGED used
  BY <1>1, <1>2, <1>3, <1>4
<1>5. CASE /\ t = p.selected /\ rest # {}
           /\ Show(w, Remove(Selected(p, w, First(p, rest)), t), {t})
           /\ UNCHANGED used
  <2> DEFINE x == First(p, rest)
             r == Selected(p, w, x)
  <2>1. rest \subseteq Tabs(p) \cap Of(conn[w]) /\ t \notin rest
    BY DEF Own
  <2>2. x \in rest
    BY <1>1, <1>5, <2>1, FirstIn
  <2>3. x \in Choice(p, w) /\ x # t
    BY <2>1, <2>2 DEF Choice
  <2> HIDE DEF x
  <2>4. Good(r, used) /\ Settled(r, w) /\ Tabs(r) = Tabs(p)
    BY <1>1, <2>3, SelectedGood
  <2>5. r.selected = x
    BY <1>1, <2>3, Fields, SelectedFields DEF Good, Sound, Choice
  <2>6. Show(w, Remove(r, t), {t}) /\ used' = used
    BY <1>5 DEF x
  <2> HIDE DEF r
  <2> QED BY <1>1, <1>2, <1>3, <2>3, <2>4, <2>5, <2>6
<1>6. CASE /\ t = p.selected /\ rest = {}
           /\ Give(conn[w])
           /\ Show(w, Remove(Created(p, w, NewTab(conn[w])), t), {t})
  <2> DEFINE x == NewTab(conn[w])
             r == Created(p, w, x)
  <2>1. x \in Of(conn[w]) \ used /\ x \in Tab /\ used' = used \cup {x}
    BY <1>6 DEF Give, NewTab, Of
  <2> HIDE DEF x
  <2>2. Good(r, used \cup {x}) /\ Settled(r, w) /\ Tabs(r) = Tabs(p) \cup {x}
    BY <1>1, <2>1, CreatedGood
  <2>3. t \in used
    BY <1>1 DEF Good, Sound
  <2>4. r.selected = x
    <3>1. [p EXCEPT !.at = Push(p.at, x)].selected = p.selected
      BY <1>1 DEF Good, Sound, Panel
    <3> QED BY <1>1 DEF Created, Selected, Good, Sound, Panel
  <2>5. Show(w, Remove(r, t), {t})
    BY <1>6 DEF x
  <2> HIDE DEF r
  <2> QED BY <1>1, <1>2, <1>3, <2>1, <2>2, <2>3, <2>4, <2>5
<1> QED
  BY <1>4, <1>5, <1>6 DEF Delete

-----------------------------------------------------------------------------
\* Store and Lose, which differ in the stored session only.
LEMMA AnswerKeeps ==
  ASSUME IInv, NEW w \in Window, Store(w) \/ Lose(w)
  PROVE  IInv'
<1>1. /\ panel' = panel /\ up' = up /\ fetch' = fetch /\ chan' = chan
      /\ used' = used /\ edits' = edits /\ stale' = stale
      /\ row' \in {row, post[w].data}
      /\ post' = [post EXCEPT ![w] = [status |-> IF @.status = "sent" THEN "answered" ELSE "idle",
                                      data |-> Blank]]
  BY DEF Store, Lose
<1>2. Stored(row, used) /\ \A x \in Window : Stored(post[x].data, used)
  BY DEF IInv, Sessions
<1>3. Stored(Blank, used) /\ Blank \in Panel
  BY BlankStored, MoreUsed DEF Stored, Good, Sound
<1>4. Stored(row', used)
  BY <1>1, <1>2
<1>5. /\ post' \in [Window -> [status : {"idle", "sent", "orphan", "answered"}, data : Panel]]
      /\ post'[w].data = Blank
      /\ \A x \in Window \ {w} : post'[x] = post[x]
  BY <1>1, <1>3 DEF IInv, Sessions
<1>6. \A x \in Window : Stored(post'[x].data, used)
  BY <1>2, <1>3, <1>5
<1>7. Sessions'
  BY <1>1, <1>4, <1>5, <1>6 DEF IInv, Sessions
<1>8. Windows' /\ Messages' /\ Counts'
  BY <1>1 DEF IInv, Windows, Messages, Counts
<1> QED
  BY <1>7, <1>8 DEF IInv

LEMMA SaveKeeps ==
  ASSUME IInv, NEW w \in Window, Save(w)
  PROVE  IInv'
<1> DEFINE d == Payload(panel[w], Visible(panel[w]))
<1>1. /\ panel' = panel /\ up' = up /\ fetch' = fetch /\ chan' = chan /\ row' = row
      /\ used' = used /\ edits' = edits /\ stale' = stale
      /\ post' = [post EXCEPT ![w] = [status |-> "sent", data |-> d]]
  BY DEF Save
<1>2. Stored(d, used)
  BY PayloadStored DEF Save, IInv, Windows, Settled
<1> HIDE DEF d
<1>3. d \in Panel
  BY <1>2 DEF Stored, Good, Sound
<1>4. /\ post' \in [Window -> [status : {"idle", "sent", "orphan", "answered"}, data : Panel]]
      /\ post'[w].data = d
      /\ \A x \in Window \ {w} : post'[x] = post[x]
  BY <1>1, <1>3 DEF IInv, Sessions
<1>5. Sessions'
  BY <1>1, <1>2, <1>4 DEF IInv, Sessions
<1>6. Windows' /\ Messages' /\ Counts'
  BY <1>1 DEF IInv, Windows, Messages, Counts
<1> QED
  BY <1>5, <1>6 DEF IInv

LEMMA BroadcastKeeps ==
  ASSUME IInv, NEW w \in Window, Broadcast(w)
  PROVE  IInv'
<1> DEFINE m == Message(w)
<1>1. /\ panel' = panel /\ up' = up /\ fetch' = fetch /\ row' = row
      /\ used' = used /\ edits' = edits /\ stale' = stale
      /\ post' = [post EXCEPT ![w] = NotSaving]
      /\ chan' = [x \in Window |-> IF x # w /\ up[x] # "off" THEN Append(chan[x], m) ELSE chan[x]]
  BY DEF Broadcast
<1>2. Stored(Blank, used) /\ Blank \in Panel
  BY BlankStored, MoreUsed DEF Stored, Good, Sound
<1>3. /\ post' \in [Window -> [status : {"idle", "sent", "orphan", "answered"}, data : Panel]]
      /\ post'[w].data = Blank
      /\ \A x \in Window \ {w} : post'[x] = post[x]
  BY <1>1, <1>2 DEF IInv, Sessions, NotSaving
<1>4. Sessions'
  BY <1>1, <1>2, <1>3 DEF IInv, Sessions
<1>5. Sendable(m, used) /\ m \in MessageSet
  BY MessageSendable DEF IInv, Windows, Sendable
<1> HIDE DEF m
<1>6. ASSUME NEW x \in Window
      PROVE  /\ chan'[x] \in Seq(MessageSet)
             /\ \A i \in DOMAIN chan'[x] : Sendable(chan'[x][i], used)
  <2>1. chan[x] \in Seq(MessageSet) /\ \A i \in DOMAIN chan[x] : Sendable(chan[x][i], used)
    BY DEF IInv, Messages
  <2>2. CASE chan'[x] = Append(chan[x], m)
    BY <1>5, <2>1, <2>2
  <2> QED BY <1>1, <2>1, <2>2
<1>7. Messages'
  BY <1>1, <1>6 DEF Messages
<1>8. Windows' /\ Counts'
  BY <1>1 DEF IInv, Windows, Counts
<1> QED
  BY <1>4, <1>7, <1>8 DEF IInv

\* Receive, whatever the channel: the head of the queue is used up.
LEMMA ReceiveKeeps ==
  ASSUME IInv, NEW w \in Window, Receive(w)
  PROVE  /\ IInv'
         /\ \A t \in Of(conn[w]) : /\ t \in Tabs(panel[w]) <=> t \in Tabs(panel'[w])
                                   /\ panel'[w].text[t] = panel[w].text[t]
                                   /\ panel'[w].hidden[t] = panel[w].hidden[t]
<1> DEFINE m == Head(chan[w])
           q == IF m.conn = conn[w] THEN panel[w] ELSE Merge(panel[w], m)
<1>1. /\ up' = up /\ fetch' = fetch /\ row' = row /\ post' = post
      /\ used' = used /\ edits' = edits /\ stale' = stale
      /\ chan[w] # <<>> /\ chan' = [chan EXCEPT ![w] = Tail(chan[w])]
      /\ panel' = IF m.conn = conn[w] THEN panel ELSE [panel EXCEPT ![w] = Merge(panel[w], m)]
  BY DEF Receive
<1>2. chan[w] \in Seq(MessageSet) /\ \A i \in DOMAIN chan[w] : Sendable(chan[w][i], used)
  BY DEF IInv, Messages
<1>3. /\ Sendable(m, used) /\ Tail(chan[w]) \in Seq(MessageSet)
      /\ \A i \in DOMAIN Tail(chan[w]) : Sendable(Tail(chan[w])[i], used)
  BY <1>1, <1>2
<1>4. Good(panel[w], used) /\ panel \in [Window -> Panel] /\ (up[w] = "on" => Settled(panel[w], w))
  BY DEF IInv, Windows
<1>5. panel' = [panel EXCEPT ![w] = q]
  BY <1>1, <1>4
<1> HIDE DEF m
<1>6. /\ Good(q, used) /\ (up[w] = "on" => Settled(q, w))
      /\ \A t \in Of(conn[w]) : /\ t \in Tabs(panel[w]) <=> t \in Tabs(q)
                                /\ q.text[t] = panel[w].text[t]
                                /\ q.hidden[t] = panel[w].hidden[t]
  <2>1. CASE m.conn = conn[w]
    BY <1>4, <2>1
  <2>2. CASE m.conn # conn[w]
    <3> DEFINE p == panel[w]
               r == Merge(p, m)
    <3>1. /\ Good(r, used)
          /\ Settled(p, w) => Settled(r, w)
          /\ \A t \in Of(conn[w]) : /\ t \in Tabs(p) <=> t \in Tabs(r)
                                    /\ r.text[t] = p.text[t]
                                    /\ r.hidden[t] = p.hidden[t]
      BY <1>3, <1>4, <2>2, MergedGood
    <3> QED BY <1>4, <2>2, <3>1
  <2> QED BY <2>1, <2>2
<1> HIDE DEF q
<1>7. Windows'
  BY <1>1, <1>5, <1>6, WindowStep DEF IInv, Windows
<1>8. Sessions'
  BY <1>1, SessionsKept DEF IInv
<1>9. Messages'
  <2>1. chan'[w] = Tail(chan[w]) /\ \A x \in Window \ {w} : chan'[x] = chan[x]
    BY <1>1 DEF IInv, Messages
  <2>2. chan' \in [Window -> Seq(MessageSet)]
    BY <1>1, <1>3 DEF IInv, Messages
  <2> QED BY <1>1, <1>3, <2>1, <2>2 DEF IInv, Messages
<1>10. Counts'
  BY <1>1 DEF IInv, Counts
<1>11. panel'[w] = q
  BY <1>4, <1>5
<1> QED
  BY <1>6, <1>7, <1>8, <1>9, <1>10, <1>11 DEF IInv

LEMMA BootKeeps ==
  ASSUME IInv, NEW w \in Window, Boot(w)
  PROVE  IInv'
<1>1. /\ panel' = [panel EXCEPT ![w] = Blank]
      /\ up' = [up EXCEPT ![w] = "booting"]
      /\ fetch' = [fetch EXCEPT ![w] = row]
      /\ chan' = [chan EXCEPT ![w] = <<>>]
      /\ stale' = [stale EXCEPT ![w] = {}]
      /\ row' = row /\ used' = used /\ edits' = edits
  BY DEF Boot
<1>2. Stored(Blank, used) /\ Good(Blank, used) /\ Blank \in Panel
  BY BlankStored, MoreUsed DEF Stored, Good, Sound
<1>3. /\ up' \in [Window -> {"off", "booting", "on"}]
      /\ up'[w] = "booting" /\ \A x \in Window \ {w} : up'[x] = up[x]
  BY <1>1 DEF IInv, Windows
<1>4. Windows'
  BY <1>1, <1>2, <1>3, WindowStep DEF IInv
<1>5. \E r \in [status : {"idle", "sent", "orphan", "answered"}, data : Panel] :
         post' = [post EXCEPT ![w] = r] /\ Stored(r.data, used)
  <2>1. /\ post[w] \in [status : {"idle", "sent", "orphan", "answered"}, data : Panel]
        /\ Stored(post[w].data, used)
    BY DEF IInv, Sessions
  <2>2. CASE post[w].status = "sent"
    <3> DEFINE r == [post[w] EXCEPT !.status = "orphan"]
    <3>1. post' = [post EXCEPT ![w] = r]
      BY <2>2 DEF Boot
    <3>2. /\ r \in [status : {"idle", "sent", "orphan", "answered"}, data : Panel]
          /\ r.data = post[w].data
      BY <2>1
    <3> QED BY <2>1, <3>1, <3>2
  <2>3. CASE post[w].status = "orphan"
    <3>1. post' = [post EXCEPT ![w] = post[w]]
      BY <2>3 DEF Boot
    <3> QED BY <2>1, <3>1
  <2>4. CASE post[w].status \notin {"sent", "orphan"}
    <3>1. post' = [post EXCEPT ![w] = NotSaving]
      BY <2>4 DEF Boot
    <3>2. /\ NotSaving \in [status : {"idle", "sent", "orphan", "answered"}, data : Panel]
          /\ NotSaving.data = Blank
      BY <1>2 DEF NotSaving
    <3> QED BY <1>2, <3>1, <3>2
  <2> QED BY <2>2, <2>3, <2>4
<1>6. Sessions'
  <2>1. PICK r \in [status : {"idle", "sent", "orphan", "answered"}, data : Panel] :
           post' = [post EXCEPT ![w] = r] /\ Stored(r.data, used)
    BY <1>5
  <2>2. /\ post' \in [Window -> [status : {"idle", "sent", "orphan", "answered"}, data : Panel]]
        /\ \A x \in Window : Stored(post'[x].data, used)
    BY <2>1 DEF IInv, Sessions
  <2>3. Stored(row, used) /\ row \in Panel
    BY DEF IInv, Sessions, Stored, Good, Sound
  <2>4. /\ fetch' \in [Window -> Panel \cup {NotLoading}]
        /\ fetch'[w] = row /\ \A x \in Window \ {w} : fetch'[x] = fetch[x]
    BY <1>1, <2>3 DEF IInv, Sessions
  <2> QED BY <1>1, <1>3, <2>2, <2>3, <2>4 DEF IInv, Sessions
<1>7. Messages'
  <2>1. /\ chan' \in [Window -> Seq(MessageSet)]
        /\ chan'[w] = <<>> /\ \A x \in Window \ {w} : chan'[x] = chan[x]
    BY <1>1 DEF IInv, Messages
  <2> QED BY <1>1, <2>1 DEF IInv, Messages
<1>8. Counts'
  BY <1>1 DEF IInv, Counts
<1> QED
  BY <1>4, <1>6, <1>7, <1>8 DEF IInv

LEMMA OpenKeeps ==
  ASSUME IInv, NEW w \in Window, Open(w)
  PROVE  IInv'
<1>1. /\ up[w] = "booting" /\ Opened(w, fetch[w])
      /\ fetch' = [fetch EXCEPT ![w] = NotLoading]
      /\ row' = row /\ post' = post /\ chan' = chan /\ edits' = edits
      /\ up' = [up EXCEPT ![w] = "on"]
  BY DEF Open, Opened
<1>2. Stored(fetch[w], used)
  BY <1>1 DEF IInv, Sessions
<1>3. used \subseteq Tab /\ panel \in [Window -> Panel]
  BY DEF IInv, Counts, Windows
<1>4. used \subseteq used' /\ used' \subseteq Tab
  BY <1>1, <1>2, <1>3, OpenedGood
<1>5. PICK q \in Panel : Good(q, used') /\ Settled(q, w) /\ Show(w, q, {})
  BY <1>1, <1>2, <1>3, OpenedGood
<1>6. panel' = [panel EXCEPT ![w] = q] /\ stale' \in [Window -> SUBSET Tab]
  BY <1>5 DEF Show, IInv, Counts
<1>7. /\ up' \in [Window -> {"off", "booting", "on"}]
      /\ up'[w] = "on" /\ \A x \in Window \ {w} : up'[x] = up[x]
  BY <1>1 DEF IInv, Windows
<1>8. Windows'
  BY <1>4, <1>5, <1>6, <1>7, WindowStep DEF IInv
<1>9. /\ fetch' \in [Window -> Panel \cup {NotLoading}]
      /\ fetch'[w] = NotLoading /\ \A x \in Window \ {w} : fetch'[x] = fetch[x]
  BY <1>1 DEF IInv, Sessions
<1>10. \A s : Stored(s, used) => Stored(s, used')
  BY <1>4, MoreUsed
<1>11. Sessions'
  BY <1>1, <1>7, <1>9, <1>10 DEF IInv, Sessions
<1>12. Messages'
  BY <1>1, <1>4, MessagesKept DEF IInv
<1>13. Counts'
  BY <1>1, <1>4, <1>6 DEF IInv, Counts
<1> QED
  BY <1>8, <1>11, <1>12, <1>13 DEF IInv

\* The folder was selected last in the window that saved: Init throws, and the
\* window shows the session as it came.
LEMMA OpenDanglingKeeps ==
  ASSUME IInv, NEW w \in Window, OpenDangling(w)
  PROVE  IInv'
<1> DEFINE q == fetch[w]
<1>1. /\ up[w] = "booting" /\ q.last[conn[w]] = undefined
      /\ q.selected \notin Tabs(q) \cup {undefined}
      /\ fetch' = [fetch EXCEPT ![w] = NotLoading]
      /\ row' = row /\ post' = post /\ chan' = chan /\ edits' = edits /\ used' = used
      /\ up' = [up EXCEPT ![w] = "on"] /\ Show(w, q, {})
  BY DEF OpenDangling
<1>2. Stored(q, used) /\ q \in Panel
  BY <1>1 DEF IInv, Sessions, Stored, Good, Sound
<1>3. q.selected = folder
  BY <1>1, <1>2 DEF Stored, Blank
<1>4. Good(q, used) /\ Settled(q, w)
  BY <1>1, <1>2, <1>3 DEF Stored, Settled
<1>5. panel' = [panel EXCEPT ![w] = q] /\ stale' \in [Window -> SUBSET Tab]
  BY <1>1 DEF Show, IInv, Counts
<1> HIDE DEF q
<1>6. /\ up' \in [Window -> {"off", "booting", "on"}]
      /\ up'[w] = "on" /\ \A x \in Window \ {w} : up'[x] = up[x]
  BY <1>1 DEF IInv, Windows
<1>7. Windows'
  BY <1>1, <1>4, <1>5, <1>6, WindowStep DEF IInv
<1>8. /\ fetch' \in [Window -> Panel \cup {NotLoading}]
      /\ fetch'[w] = NotLoading /\ \A x \in Window \ {w} : fetch'[x] = fetch[x]
  BY <1>1 DEF IInv, Sessions
<1>9. Sessions'
  BY <1>1, <1>6, <1>8 DEF IInv, Sessions
<1>10. Messages' /\ Counts'
  BY <1>1, <1>5 DEF IInv, Messages, Counts
<1> QED
  BY <1>7, <1>9, <1>10 DEF IInv

-----------------------------------------------------------------------------
LEMMA NextKeeps == IInv /\ [CalmNext]_vars => IInv'
<1> SUFFICES ASSUME IInv, [CalmNext]_vars
             PROVE  IInv'
  OBVIOUS
<1>1. ASSUME NEW w \in Window, NEW t \in Tab, Select(w, t) \/ Close(w, t) \/ Delete(w, t)
      PROVE  IInv'
  <2>1. CASE Select(w, t)
    BY <2>1, SelectKeeps
  <2> QED BY <1>1, <2>1, CloseKeeps, DeleteKeeps
<1>2. ASSUME NEW w \in Window, SelectFolder(w) \/ Create(w) \/ Edit(w) \/ Save(w)
      PROVE  IInv'
  BY <1>2, SelectKeeps, CreateKeeps, EditKeeps, SaveKeeps
<1>3. ASSUME NEW w \in Window, Sync(w)
      PROVE  IInv'
  BY <1>3, AnswerKeeps, BroadcastKeeps, ReceiveKeeps DEF Sync
<1>4. ASSUME NEW w \in Window, Boot(w) \/ Open(w) \/ OpenDangling(w)
      PROVE  IInv'
  BY <1>4, BootKeeps, OpenKeeps, OpenDanglingKeeps
<1>5. CASE UNCHANGED vars
  BY <1>5 DEF vars, IInv, Windows, Sessions, Messages, Counts
<1> QED
  BY <1>1, <1>2, <1>3, <1>4, <1>5 DEF CalmNext, User

\* Every window, every session and every broadcast is good in every state.
THEOREM Invariant == CalmSpec => []IInv
BY InitInvariant, NextKeeps, PTL DEF CalmSpec

\* Every variable has its type, and the worksheets of every window and of the
\* stored session are numbered from 0 without gaps: what indexOf relies on in
\* every handler of queryPanel.tabs.
THEOREM TypeCorrect == CalmSpec => []TypeOK
<1>1. IInv => TypeOK
  BY DEF IInv, Windows, Sessions, Messages, Counts, TypeOK, Stored, Good, Sound, MessageSet
<1> QED
  BY <1>1, Invariant, PTL

\* Whatever the users do and whatever the other windows broadcast, an open
\* window shows a visible worksheet of its own connection, the one selectTab
\* recorded for the connection; or none, and then the folder was clicked, here or
\* in the window that saved the session this one opened with.
THEOREM ShowsOwn == CalmSpec => []SelectionExists
<1>1. IInv => SelectionExists
  BY DEF IInv, Windows, Settled, SelectionExists, OwnVisible
<1> QED
  BY <1>1, Invariant, PTL

\* No interleaving of saves, answers, reloads and broadcasts stores or loads a
\* session whose selected or last worksheets it does not hold, but for those that
\* name the folder.
THEOREM StoredCoherent == CalmSpec => []SessionsCoherent
<1>1. ASSUME NEW s, NEW u, Stored(s, u)
      PROVE  Coherent(s)
  BY <1>1 DEF Stored, Good, Remembers, Visible, Coherent
<1>2. IInv => SessionsCoherent
  BY <1>1 DEF IInv, Sessions, SessionsCoherent
<1> QED
  BY <1>2, Invariant, PTL

\* onmessage leaves the worksheets of the receiver's connection alone, whatever
\* copies of them the sender holds.
THEOREM ReceiveKeepsOwn == CalmSpec => OwnWorksheetsKept
<1> DEFINE Kept == \A w \in Window : Receive(w) =>
              \A t \in Of(conn[w]) : /\ t \in Tabs(panel[w]) <=> t \in Tabs(panel[w]')
                                     /\ panel'[w].text[t] = panel[w].text[t]
                                     /\ panel'[w].hidden[t] = panel[w].hidden[t]
<1>1. IInv => [Kept]_vars
  BY ReceiveKeeps
<1>2. CalmSpec => [][Kept]_vars
  BY <1>1, Invariant, PTL
<1> QED
  BY <1>2 DEF OwnWorksheetsKept
-----------------------------------------------------------------------------
(***************************************************************************)
(* Theorems about SerialSpec of StoredSession: when saves follow one       *)
(* another the stored session loses nothing, for any number of windows,    *)
(* connections, worksheets and edits.                                      *)
(*                                                                         *)
(* The argument follows a save on its way: what a window is about to store *)
(* fits what is kept; while its broadcast is due or under way, the other   *)
(* windows may lack its worksheets, and then they have them.               *)
(***************************************************************************)

NowKept(t) == kept[t] # Absent

\* A panel that shows t as it was stored last.
Has(p, t) == t \in Visible(p) /\ p.text[t] = kept[t]

\* One save, one round of broadcasts, or one opening is under way.
OneAtATime ==
  /\ \A w \in Window : post[w].status # "orphan"
  /\ \A w, u \in Window :
       /\ post[w].status # "idle" => /\ chan[u] = <<>> /\ up[u] # "booting"
                                     /\ u = w \/ post[u].status = "idle"
       /\ chan[w] # <<>> => Tail(chan[w]) = <<>> /\ up[u] # "booting"
       /\ up[w] = "booting" => fetch[w] = row /\ (u = w \/ up[u] # "booting")

\* A session on its way to the server holds what was kept, and of its own
\* connection what its window still shows.
SentFits ==
  \A w \in Window : post[w].status = "sent" =>
    \A t \in Tab :
      /\ of[t] = conn[w] /\ t \in Tabs(post[w].data) =>
           t \in Visible(panel[w]) /\ panel[w].text[t] = post[w].data.text[t]
      /\ of[t] # conn[w] /\ NowKept(t) =>
           t \in Tabs(post[w].data) /\ post[w].data.text[t] = kept[t]

\* A window that is about to broadcast shows what it stored.
AnsweredFits ==
  \A w \in Window : post[w].status = "answered" =>
    \A t \in Of(conn[w]) : NowKept(t) => Has(panel[w], t)

\* A broadcast holds what its connection stored.
MessagesFit ==
  \A u \in Window : chan[u] # <<>> =>
    \A t \in Of(Head(chan[u]).conn) :
      NowKept(t) => t \in Live(Head(chan[u]).at) /\ Head(chan[u]).text[t] = kept[t]

\* A broadcast of t's connection is due or under way to u.
Coming(u, t) ==
  \/ chan[u] # <<>> /\ Head(chan[u]).conn = of[t]
  \/ \E v \in Window : conn[v] = of[t] /\ post[v].status = "answered"

\* An open window shows what other connections stored, or is about to hear of it.
WindowsFit ==
  \A u \in Window : up[u] = "on" =>
    \A t \in Tab : of[t] # conn[u] /\ NowKept(t) => Has(panel[u], t) \/ Coming(u, t)

Serial ==
  /\ OneAtATime /\ SentFits /\ AnsweredFits /\ MessagesFit /\ WindowsFit
  /\ NothingLost /\ kept \in [Tab -> Nat \cup {Absent}]

SInv == IInv /\ Serial

-----------------------------------------------------------------------------
(***************************************************************************)
(* Panels that go on showing what they showed.                             *)
(***************************************************************************)
Keeps(p, q, S) == \A t \in S : t \in Visible(p) => t \in Visible(q) /\ q.text[t] = p.text[t]

LEMMA SelectedKeeps ==
  ASSUME NEW p \in Panel, NEW w \in Window, NEW t \in Tab \cup {folder}
  PROVE  Keeps(p, Selected(p, w, t), Tab)
<1> DEFINE q == Selected(p, w, t)
<1>1. /\ q \in Panel /\ q.at = p.at /\ q.text = p.text
      /\ \A x \in Tab : q.hidden[x] = (p.hidden[x] /\ x # t)
  BY SelectedFields
<1> HIDE DEF q
<1>2. Tabs(q) = Tabs(p)
  BY <1>1 DEF Tabs
<1>3. Keeps(p, q, Tab)
  BY <1>1, <1>2 DEF Keeps, Visible
<1> QED BY <1>3 DEF q

LEMMA CreatedKeeps ==
  ASSUME NEW u, NEW p, Good(p, u), NEW w \in Window, NEW t \in Of(conn[w]) \ u
  PROVE  Keeps(p, Created(p, w, t), Tab)
<1> DEFINE r == [p EXCEPT !.at = Push(p.at, t)]
<1>1. p \in Panel /\ Dense(p.at) /\ Tabs(p) \subseteq u /\ t \in Tab
  BY DEF Good, Sound, Of
<1>2. p.at \in Arrays(Tab) /\ Tabs(p) = Live(p.at)
  BY <1>1, Fields
<1>3. Push(p.at, t) \in Arrays(Tab) /\ Live(Push(p.at, t)) = Live(p.at) \cup {t}
  BY <1>1, <1>2, PushElements
<1>4. /\ r \in Panel /\ r.at = Push(p.at, t)
      /\ r.hidden = p.hidden /\ r.text = p.text
  BY <1>1, <1>3 DEF Panel, Arrays
<1> HIDE DEF r
<1>5. Tabs(r) = Tabs(p) \cup {t}
  BY <1>2, <1>3, <1>4 DEF Tabs
<1>6. Keeps(p, r, Tab)
  BY <1>4, <1>5 DEF Keeps, Visible
<1>7. Keeps(r, Selected(r, w, t), Tab)
  BY <1>1, <1>4, SelectedKeeps
<1>8. Keeps(p, Selected(r, w, t), Tab)
  BY <1>6, <1>7 DEF Keeps
<1> QED BY <1>8 DEF Created, r

LEMMA ClosedKeeps ==
  ASSUME NEW p \in Panel, NEW w \in Window, NEW t \in Tab, NEW n \in Tab \cup {folder}
  PROVE  Keeps(p, Selected([Selected(p, w, n) EXCEPT !.hidden[t] = TRUE], w, n), Tab \ {t})
<1> DEFINE r == Selected(p, w, n)
           s == [r EXCEPT !.hidden[t] = TRUE]
<1>1. r \in Panel
  BY SelectedFields
<1>2. Keeps(p, r, Tab)
  BY SelectedKeeps
<1> HIDE DEF r
<1>3. /\ s \in Panel /\ s.at = r.at /\ s.text = r.text
      /\ \A x \in Tab \ {t} : s.hidden[x] = r.hidden[x]
  BY <1>1 DEF Panel
<1> HIDE DEF s
<1>4. Tabs(s) = Tabs(r)
  BY <1>3 DEF Tabs
<1>5. Keeps(r, s, Tab \ {t})
  BY <1>3, <1>4 DEF Keeps, Visible
<1>6. Keeps(s, Selected(s, w, n), Tab)
  BY <1>3, SelectedKeeps
<1>7. Keeps(p, Selected(s, w, n), Tab \ {t})
  BY <1>2, <1>5, <1>6 DEF Keeps
<1> QED BY <1>7 DEF s, r

LEMMA RemovedKeeps ==
  ASSUME NEW p \in Panel, Dense(p.at), NEW t \in Tabs(p)
  PROVE  Keeps(p, Remove(p, t), Tab \ {t})
<1> DEFINE q == Remove(p, t)
<1>1. p.at \in Arrays(Tab) /\ Tabs(p) = Live(p.at) /\ {t} \in SUBSET Live(p.at) /\ t \in Tab
  BY Fields
<1>2. /\ Drop(p.at, {t}) \in Arrays(Tab)
      /\ Live(Drop(p.at, {t})) = Live(p.at) \ {t}
  BY <1>1, DropElements
<1>3. /\ q.at = Drop(p.at, {t})
      /\ \A x \in Tab \ {t} : q.hidden[x] = p.hidden[x] /\ q.text[x] = p.text[x]
  BY <1>1, <1>2 DEF Panel, Arrays, Remove
<1> HIDE DEF q
<1>4. Tabs(q) = Tabs(p) \ {t}
  BY <1>1, <1>2, <1>3 DEF Tabs
<1>5. Keeps(p, q, Tab \ {t})
  BY <1>3, <1>4 DEF Keeps, Visible
<1> QED BY <1>5 DEF q

\* What init shows of the session it got.
LEMMA OpenedKeeps ==
  ASSUME NEW w \in Window, NEW p, Stored(p, used), Opened(w, p)
  PROVE  \E q : Show(w, q, {}) /\ Keeps(p, q, Tab)
<1> DEFINE c   == conn[w]
           own == Tabs(p) \cap Of(c)
<1>1. Good(p, used) /\ p \in Panel /\ c \in Conn
  BY ConnAssumption DEF Stored, Good, Sound
<1>2. ASSUME NEW t \in Tab \cup {folder}, Show(w, Selected(p, w, t), {})
      PROVE  \E q : Show(w, q, {}) /\ Keeps(p, q, Tab)
  BY <1>1, <1>2, SelectedKeeps
<1>3. Visible(p) \subseteq Tab /\ Tabs(p) \subseteq Tab
  BY <1>1, Fields
<1>4. CASE /\ p.last[c] # undefined
           /\ Show(w, Selected(p, w, p.last[c]), {})
  <2>1. p.last[c] \in Tab \cup {folder}
    BY <1>1, <1>3, <1>4 DEF Good, Remembers
  <2> QED BY <1>2, <1>4, <2>1
<1>5. CASE /\ own # {}
           /\ Show(w, Selected(p, w, IF p.selected \in own THEN p.selected ELSE First(p, own)), {})
  <2> DEFINE t == IF p.selected \in own THEN p.selected ELSE First(p, own)
  <2>1. First(p, own) \in own
    BY <1>1, <1>5, FirstIn
  <2>2. t \in Tab
    BY <1>3, <2>1
  <2>3. Show(w, Selected(p, w, t), {})
    BY <1>5
  <2> HIDE DEF t
  <2> QED BY <1>2, <2>2, <2>3
<1>6. CASE Give(c) /\ Show(w, Created(p, w, NewTab(c)), {})
  <2>1. NewTab(c) \in Of(c) \ used
    BY <1>6 DEF Give, NewTab
  <2>2. Keeps(p, Created(p, w, NewTab(c)), Tab)
    BY <1>1, <2>1, CreatedKeeps
  <2> QED BY <1>6, <2>2
<1> QED BY <1>4, <1>5, <1>6 DEF Opened

-----------------------------------------------------------------------------
(***************************************************************************)
(* The steps.                                                              *)
(***************************************************************************)

\* A step of the user of window w: nothing is sent, and the window goes on showing
\* what other connections stored, and all it showed while its save is under way.
LEMMA UserStep ==
  ASSUME SInv, NEW w \in Window, NEW q, NEW S,
         panel' = [panel EXCEPT ![w] = q], Keeps(panel[w], q, S),
         Tab \ Of(conn[w]) \subseteq S, post[w].status # "idle" => Tab \subseteq S,
         UNCHANGED <<up, row, post, fetch, chan, kept>>
  PROVE  Serial'
<1>1. /\ panel'[w] = q /\ \A u \in Window \ {w} : panel'[u] = panel[u]
      /\ panel \in [Window -> Panel]
  BY DEF SInv, IInv, Windows
<1>2. /\ up' = up /\ row' = row /\ post' = post /\ fetch' = fetch /\ chan' = chan /\ kept' = kept
  OBVIOUS
<1>3. OneAtATime' /\ MessagesFit' /\ NothingLost' /\ kept' \in [Tab -> Nat \cup {Absent}]
  BY <1>2 DEF SInv, Serial, OneAtATime, MessagesFit, NowKept, NothingLost
<1>4. SentFits'
  <2>1. \A u \in Window, t \in Tab :
           t \in Visible(panel[u]) /\ post[u].status # "idle" =>
             t \in Visible(panel'[u]) /\ panel'[u].text[t] = panel[u].text[t]
    BY <1>1 DEF Keeps
  <2> QED BY <1>2, <2>1 DEF SInv, Serial, SentFits, NowKept
<1>5. AnsweredFits'
  <2>1. ASSUME NEW u \in Window, post[u].status = "answered", NEW t \in Of(conn[u]), kept[t] # Absent
        PROVE  t \in Visible(panel'[u]) /\ panel'[u].text[t] = kept[t]
    <3>1. t \in Tab /\ t \in Visible(panel[u]) /\ panel[u].text[t] = kept[t]
      BY <2>1 DEF SInv, Serial, AnsweredFits, NowKept, Has, Of
    <3> QED BY <1>1, <2>1, <3>1 DEF Keeps
  <2> QED BY <1>2, <2>1 DEF AnsweredFits, NowKept, Has
<1>6. WindowsFit'
  <2>1. ASSUME NEW u \in Window, up[u] = "on", NEW t \in Tab, of[t] # conn[u], kept[t] # Absent
        PROVE  \/ t \in Visible(panel'[u]) /\ panel'[u].text[t] = kept[t]
               \/ Coming(u, t)
    <3>1. Has(panel[u], t) \/ Coming(u, t)
      BY <2>1 DEF SInv, Serial, WindowsFit, NowKept
    <3>2. CASE Has(panel[u], t)
      BY <1>1, <2>1, <3>2 DEF Keeps, Has, Of
    <3> QED BY <3>1, <3>2
  <2>2. ASSUME NEW u \in Window, NEW t PROVE Coming(u, t)' <=> Coming(u, t)
    BY <1>2 DEF Coming
  <2> QED BY <1>2, <2>1, <2>2 DEF WindowsFit, NowKept, Has
<1> QED BY <1>3, <1>4, <1>5, <1>6 DEF Serial

LEMMA AnyTimeSteps ==
  ASSUME SInv, NEW w \in Window, UNCHANGED kept,
         Create(w) \/ SelectFolder(w) \/ \E t \in Tab : Select(w, t)
  PROVE  Serial'
<1>1. Good(panel[w], used) /\ panel[w] \in Panel /\ panel \in [Window -> Panel]
  BY DEF SInv, IInv, Windows
<1>2. ASSUME NEW q, Show(w, q, {}), Keeps(panel[w], q, Tab), UNCHANGED <<up, row, post, fetch, chan>>
      PROVE  Serial'
  BY <1>2, UserStep DEF Show
<1>3. CASE Create(w)
  <2>1. NewTab(conn[w]) \in Of(conn[w]) \ used
    BY <1>3 DEF Create, Give, NewTab
  <2>2. Keeps(panel[w], Created(panel[w], w, NewTab(conn[w])), Tab)
    BY <1>1, <2>1, CreatedKeeps
  <2> QED BY <1>2, <1>3, <2>2 DEF Create
<1>4. ASSUME NEW t \in Tab, Select(w, t) PROVE Serial'
  <2>1. Keeps(panel[w], Selected(panel[w], w, t), Tab)
    BY <1>1, SelectedKeeps
  <2> QED BY <1>2, <1>4, <2>1 DEF Select
<1>5. CASE SelectFolder(w)
  <2>1. Keeps(panel[w], Selected(panel[w], w, folder), Tab)
    BY <1>1, SelectedKeeps
  <2> QED BY <1>2, <1>5, <2>1 DEF SelectFolder
<1> QED BY <1>3, <1>4, <1>5

LEMMA QuietSteps ==
  ASSUME SInv, NEW w \in Window, Quiet, UNCHANGED kept,
         Edit(w) \/ \E t \in Tab : Close(w, t) \/ Delete(w, t)
  PROVE  Serial'
<1>1. /\ Good(panel[w], used) /\ panel[w] \in Panel /\ Dense(panel[w].at)
      /\ up[w] = "on" => Settled(panel[w], w)
  BY DEF SInv, IInv, Windows, Good, Sound
<1>2. post[w].status = "idle"
  BY DEF Quiet
<1>3. ASSUME NEW q, NEW t \in Of(conn[w]), panel' = [panel EXCEPT ![w] = q],
             Keeps(panel[w], q, Tab \ {t}), UNCHANGED <<up, row, post, fetch, chan>>
      PROVE  Serial'
  <2>1. Tab \ Of(conn[w]) \subseteq Tab \ {t}
    BY <1>3
  <2> QED BY <1>2, <1>3, <2>1, UserStep
<1>4. CASE Edit(w)
  <2> DEFINE p == panel[w]
             t == p.selected
             q == [p EXCEPT !.text[t] = edits']
  <2>1. t \in Of(conn[w]) /\ t \in Tab
    BY <1>1, <1>4, Fields, UndefinedAssumption DEF Edit, Settled, Of
  <2>2. panel' = [panel EXCEPT ![w] = q] /\ UNCHANGED <<up, row, post, fetch, chan>>
    BY <1>4 DEF Edit
  <2> HIDE DEF p
  <2>3. /\ q.at = p.at /\ q.hidden = p.hidden
        /\ \A x \in Tab \ {t} : q.text[x] = p.text[x]
    BY <1>1, <2>1 DEF Panel, p
  <2> HIDE DEF q
  <2>4. Keeps(p, q, Tab \ {t})
    BY <2>3 DEF Keeps, Visible, Tabs
  <2> HIDE DEF t
  <2> QED BY <1>3, <2>1, <2>2, <2>4 DEF p
<1>5. ASSUME NEW t \in Tab, Close(w, t) PROVE Serial'
  <2> DEFINE p    == panel[w]
             prev == Previous(p, OwnVisible(w), t)
             next == IF t # p.selected THEN p.selected
                     ELSE IF prev # {} THEN CHOOSE x \in prev : TRUE
                     ELSE First(p, OwnVisible(w))
             q    == Selected([Selected(p, w, next) EXCEPT !.hidden[t] = TRUE], w, next)
  <2>1. up[w] = "on" /\ t \in OwnVisible(w) /\ Show(w, q, {}) /\ UNCHANGED <<up, row, post, fetch, chan>>
    BY <1>5 DEF Close
  <2>2. OwnVisible(w) \subseteq Tabs(p) /\ OwnVisible(w) \subseteq Of(conn[w])
    BY DEF OwnVisible, Visible
  <2>3. First(p, OwnVisible(w)) \in OwnVisible(w) /\ prev \subseteq OwnVisible(w)
    BY <1>1, <2>1, <2>2, FirstIn DEF Previous
  <2>4. p.selected \in OwnVisible(w) \cup {folder}
    BY <1>1, <2>1 DEF Settled, OwnVisible
  <2>5. next \in OwnVisible(w) \cup {folder}
    <3> HIDE DEF prev, p
    <3> QED BY <2>3, <2>4
  <2>6. next \in Tab \cup {folder}
    BY <2>2, <2>5 DEF Of
  <2> HIDE DEF next
  <2>7. Keeps(p, q, Tab \ {t})
    BY <1>1, <2>6, ClosedKeeps
  <2> HIDE DEF q
  <2> QED BY <1>3, <2>1, <2>2, <2>7 DEF Show
<1>6. ASSUME NEW t \in Tab, Delete(w, t) PROVE Serial'
  <2> DEFINE p == panel[w]
  <2>1. up[w] = "on" /\ t \in Tabs(p) /\ t \in Of(conn[w]) /\ UNCHANGED <<up, row, post, fetch, chan>>
    BY <1>6 DEF Delete, Own
  <2>2. ASSUME NEW r, NEW u, Good(r, u), t \in Tabs(r), Keeps(p, r, Tab), Show(w, Remove(r, t), {t})
        PROVE  Serial'
    <3>1. Keeps(r, Remove(r, t), Tab \ {t})
      BY <2>2, RemovedKeeps DEF Good, Sound
    <3>2. Keeps(p, Remove(r, t), Tab \ {t})
      BY <2>2, <3>1 DEF Keeps
    <3> QED BY <1>3, <2>1, <2>2, <3>2 DEF Show
  <2>3. CASE Show(w, Remove(p, t), {t})
    BY <1>1, <2>1, <2>2, <2>3 DEF Keeps
  <2>4. CASE /\ Own(w) \ {t} # {}
             /\ Show(w, Remove(Selected(p, w, First(p, Own(w) \ {t})), t), {t})
    <3> DEFINE x == First(p, Own(w) \ {t})
    <3>1. Own(w) \ {t} \in SUBSET Tabs(p)
      BY DEF Own
    <3>2. x \in Own(w) \ {t}
      BY <1>1, <2>4, <3>1, FirstIn
    <3>3. x \in Choice(p, w) /\ x \in Tab
      BY <3>2 DEF Own, Of, Choice
    <3> HIDE DEF x
    <3>4. Good(Selected(p, w, x), used) /\ Tabs(Selected(p, w, x)) = Tabs(p)
      BY <1>1, <3>3, SelectedGood
    <3>5. Keeps(p, Selected(p, w, x), Tab)
      BY <1>1, <3>3, SelectedKeeps
    <3>6. Show(w, Remove(Selected(p, w, x), t), {t})
      BY <2>4 DEF x
    <3> QED BY <2>1, <2>2, <3>4, <3>5, <3>6
  <2>5. CASE Give(conn[w]) /\ Show(w, Remove(Created(p, w, NewTab(conn[w])), t), {t})
    <3> DEFINE x == NewTab(conn[w])
    <3>1. x \in Of(conn[w]) \ used
      BY <2>5 DEF Give, NewTab
    <3> HIDE DEF x
    <3>2. Good(Created(p, w, x), used \cup {x}) /\ Tabs(Created(p, w, x)) = Tabs(p) \cup {x}
      BY <1>1, <3>1, CreatedGood
    <3>3. Keeps(p, Created(p, w, x), Tab)
      BY <1>1, <3>1, CreatedKeeps
    <3>4. Show(w, Remove(Created(p, w, x), t), {t})
      BY <2>5 DEF x
    <3> QED BY <2>1, <2>2, <3>2, <3>3, <3>4
  <2> QED BY <1>6, <2>3, <2>4, <2>5 DEF Delete
<1> QED BY <1>4, <1>5, <1>6

-----------------------------------------------------------------------------
\* In a quiet state nothing is coming, so every window has what was kept, and what
\* it posts holds it.
LEMMA SaveStep ==
  ASSUME SInv, NEW w \in Window, Quiet, UNCHANGED kept, Save(w)
  PROVE  Serial'
<1> DEFINE d == Payload(panel[w], Visible(panel[w]))
<1>1. /\ panel' = panel /\ up' = up /\ fetch' = fetch /\ chan' = chan /\ row' = row /\ kept' = kept
      /\ up[w] = "on" /\ post' = [post EXCEPT ![w] = [status |-> "sent", data |-> d]]
  BY DEF Save
<1>2. \A u \in Window : post[u].status = "idle" /\ chan[u] = <<>> /\ up[u] # "booting"
  BY DEF Quiet
<1>3. /\ Tabs(d) = Visible(panel[w])
      /\ \A t \in Visible(panel[w]) : d.text[t] = panel[w].text[t]
  <2>1. Good(panel[w], used) /\ Visible(panel[w]) \in SUBSET Tabs(panel[w])
    BY DEF SInv, IInv, Windows, Visible
  <2> QED BY <2>1, PayloadFields
<1> HIDE DEF d
<1>4. /\ post'[w].status = "sent" /\ post'[w].data = d
      /\ \A u \in Window \ {w} : post'[u] = post[u]
  BY <1>1 DEF SInv, IInv, Sessions
<1>5. OneAtATime'
  BY <1>1, <1>2, <1>4 DEF OneAtATime
<1>6. SentFits'
  <2>1. ASSUME NEW t \in Tab, of[t] # conn[w], kept[t] # Absent
        PROVE  t \in Tabs(d) /\ d.text[t] = kept[t]
    <3>1. ~ Coming(w, t)
      BY <1>2 DEF Coming
    <3>2. Has(panel[w], t)
      BY <1>1, <2>1, <3>1 DEF SInv, Serial, WindowsFit, NowKept
    <3> QED BY <1>3, <3>2 DEF Has
  <2> QED BY <1>1, <1>2, <1>3, <1>4, <2>1 DEF SentFits, NowKept
<1>7. AnsweredFits'
  BY <1>2, <1>4 DEF AnsweredFits
<1>8. MessagesFit' /\ NothingLost' /\ kept' \in [Tab -> Nat \cup {Absent}]
  BY <1>1 DEF SInv, Serial, MessagesFit, NowKept, NothingLost
<1>9. WindowsFit'
  <2>1. ASSUME NEW u \in Window, NEW t PROVE ~ Coming(u, t)
    BY <1>2 DEF Coming
  <2> QED BY <1>1, <2>1 DEF SInv, Serial, WindowsFit, NowKept, Has
<1> QED BY <1>5, <1>6, <1>7, <1>8, <1>9 DEF Serial

\* The session is stored; its window is about to broadcast what it stored.
LEMMA StoreStep ==
  ASSUME SInv, NEW w \in Window, StoreNoted(w)
  PROVE  Serial'
<1> DEFINE d == post[w].data
<1>1. /\ panel' = panel /\ up' = up /\ fetch' = fetch /\ chan' = chan
      /\ post[w].status \in {"sent", "orphan"} /\ row' = d
      /\ post' = [post EXCEPT ![w] = [status |-> IF @.status = "sent" THEN "answered" ELSE "idle",
                                      data |-> Blank]]
  BY DEF StoreNoted, Store
<1>2. kept' = [t \in Tab |-> IF of[t] # conn[w] THEN kept[t]
                             ELSE IF t \in Tabs(d) THEN d.text[t] ELSE Absent]
  BY <1>1 DEF StoreNoted
<1>3. post[w].status = "sent"
  BY <1>1 DEF SInv, Serial, OneAtATime
<1>4. /\ post'[w].status = "answered"
      /\ \A u \in Window \ {w} : post'[u] = post[u]
  BY <1>1, <1>3 DEF SInv, IInv, Sessions
<1>5. \A u \in Window : chan[u] = <<>> /\ up[u] # "booting" /\ (u = w \/ post[u].status = "idle")
  BY <1>3 DEF SInv, Serial, OneAtATime
<1>6. d.text \in [Tab -> Nat] /\ Tabs(d) \subseteq Tab
  <2>1. d \in Panel
    BY DEF SInv, IInv, Sessions, Stored, Good, Sound
  <2> QED BY <2>1, Fields
<1>7. \A t \in Tab : /\ of[t] = conn[w] /\ t \in Tabs(d) =>
                          t \in Visible(panel[w]) /\ panel[w].text[t] = d.text[t]
                     /\ of[t] # conn[w] /\ kept[t] # Absent => t \in Tabs(d) /\ d.text[t] = kept[t]
  BY <1>3 DEF SInv, Serial, SentFits, NowKept
<1> HIDE DEF d
<1>8. /\ \A t \in Tab : of[t] # conn[w] => kept'[t] = kept[t]
      /\ \A t \in Tab : of[t] = conn[w] /\ kept'[t] # Absent => t \in Tabs(d) /\ kept'[t] = d.text[t]
  BY <1>2
<1>9. kept' \in [Tab -> Nat \cup {Absent}]
  BY <1>2, <1>6 DEF SInv, Serial
<1>10. NothingLost'
  BY <1>1, <1>7, <1>8 DEF NothingLost
<1>11. OneAtATime'
  BY <1>1, <1>4, <1>5 DEF OneAtATime
<1>12. SentFits' /\ MessagesFit'
  BY <1>1, <1>4, <1>5 DEF SentFits, MessagesFit
<1>13. AnsweredFits'
  BY <1>1, <1>4, <1>5, <1>7, <1>8 DEF AnsweredFits, NowKept, Has, Of
<1>14. WindowsFit'
  <2>1. ASSUME NEW u \in Window, up[u] = "on", NEW t \in Tab, of[t] # conn[u], kept'[t] # Absent
        PROVE  (t \in Visible(panel[u]) /\ panel[u].text[t] = kept'[t]) \/ Coming(u, t)'
    <3>1. CASE of[t] = conn[w]
      BY <1>4, <3>1 DEF Coming
    <3>2. CASE of[t] # conn[w]
      <4>1. ~ Coming(u, t)
        BY <1>3, <1>5 DEF Coming
      <4>2. Has(panel[u], t)
        BY <1>8, <2>1, <3>2, <4>1 DEF SInv, Serial, WindowsFit, NowKept
      <4> QED BY <1>8, <3>2, <4>2 DEF Has
    <3> QED BY <3>1, <3>2
  <2> QED BY <1>1, <2>1 DEF WindowsFit, NowKept, Has
<1> QED BY <1>9, <1>10, <1>11, <1>12, <1>13, <1>14 DEF Serial

LEMMA OneMessage ==
  ASSUME NEW S, NEW m \in S
  PROVE  Append(<<>>, m) = <<m>> /\ Head(<<m>>) = m /\ Tail(<<m>>) = <<>> /\ <<m>> # <<>>
OBVIOUS

\* Every other window gets the broadcast; those of other connections need it.
LEMMA BroadcastStep ==
  ASSUME SInv, NEW w \in Window, UNCHANGED kept, Broadcast(w)
  PROVE  Serial'
<1> DEFINE m == Message(w)
<1>1. /\ panel' = panel /\ up' = up /\ fetch' = fetch /\ row' = row /\ kept' = kept
      /\ post[w].status = "answered" /\ post' = [post EXCEPT ![w] = NotSaving]
      /\ chan' = [u \in Window |-> IF u # w /\ up[u] # "off" THEN Append(chan[u], m) ELSE chan[u]]
  BY DEF Broadcast
<1>2. \A u \in Window : chan[u] = <<>> /\ up[u] # "booting" /\ (u = w \/ post[u].status = "idle")
  BY <1>1 DEF SInv, Serial, OneAtATime
<1>3. \A u \in Window : post'[u].status = "idle"
  BY <1>1, <1>2 DEF SInv, IInv, Sessions, NotSaving
<1>4. /\ m.conn = conn[w] /\ Live(m.at) = OwnVisible(w)
      /\ \A t \in OwnVisible(w) : m.text[t] = panel[w].text[t]
  BY MessageSendable DEF SInv, IInv, Windows
<1> HIDE DEF m
<1>5. \A u \in Window : chan'[u] = IF u # w /\ up[u] # "off" THEN <<m>> ELSE <<>>
  <2>1. Append(<<>>, m) = <<m>>
    BY OneMessage
  <2> QED BY <1>1, <1>2, <2>1
<1>6. \A u \in Window : chan'[u] # <<>> => Head(chan'[u]) = m /\ Tail(chan'[u]) = <<>>
  <2>1. Head(<<m>>) = m /\ Tail(<<m>>) = <<>>
    BY OneMessage
  <2> QED BY <1>5, <2>1
<1>7. OneAtATime'
  BY <1>1, <1>2, <1>3, <1>6 DEF OneAtATime
<1>8. SentFits' /\ AnsweredFits'
  BY <1>3 DEF SentFits, AnsweredFits
<1>9. MessagesFit'
  <2>1. ASSUME NEW t \in Of(conn[w]), kept[t] # Absent
        PROVE  t \in Live(m.at) /\ m.text[t] = kept[t]
    <3>1. Has(panel[w], t)
      BY <1>1, <2>1 DEF SInv, Serial, AnsweredFits, NowKept
    <3>2. t \in OwnVisible(w)
      BY <2>1, <3>1 DEF Has, OwnVisible
    <3> QED BY <1>4, <3>1, <3>2 DEF Has
  <2> QED BY <1>1, <1>4, <1>6, <2>1 DEF MessagesFit, NowKept
<1>10. NothingLost' /\ kept' \in [Tab -> Nat \cup {Absent}]
  BY <1>1 DEF SInv, Serial, NothingLost
<1>11. WindowsFit'
  <2>1. ASSUME NEW u \in Window, up[u] = "on", NEW t \in Tab, of[t] # conn[u], kept[t] # Absent
        PROVE  Has(panel[u], t) \/ Coming(u, t)'
    <3>1. CASE Coming(u, t)
      <4>1. of[t] = conn[w]
        BY <1>2, <3>1 DEF Coming
      <4>2. chan'[u] = <<m>>
        BY <1>5, <2>1, <4>1
      <4> QED BY <1>4, <4>1, <4>2 DEF Coming
    <3> QED BY <2>1, <3>1 DEF SInv, Serial, WindowsFit, NowKept
  <2> QED BY <1>1, <2>1 DEF WindowsFit, NowKept, Has
<1> QED BY <1>7, <1>8, <1>9, <1>10, <1>11 DEF Serial

\* A window merges the broadcast it gets, or hears only of its own connection.
LEMMA ReceiveStep ==
  ASSUME SInv, NEW w \in Window, UNCHANGED kept, Receive(w)
  PROVE  Serial'
<1> DEFINE m == Head(chan[w])
           p == panel[w]
<1>1. /\ up' = up /\ fetch' = fetch /\ row' = row /\ post' = post /\ kept' = kept
      /\ chan[w] # <<>> /\ chan' = [chan EXCEPT ![w] = Tail(chan[w])]
      /\ panel' = IF m.conn = conn[w] THEN panel ELSE [panel EXCEPT ![w] = Merge(p, m)]
  BY DEF Receive
<1>2. \A u \in Window : post[u].status = "idle" /\ up[u] # "booting" /\ Tail(chan[w]) = <<>>
  BY <1>1 DEF SInv, Serial, OneAtATime
<1>3. /\ chan'[w] = <<>> /\ \A u \in Window \ {w} : chan'[u] = chan[u]
      /\ \A u \in Window \ {w} : panel'[u] = panel[u]
  BY <1>1, <1>2 DEF SInv, IInv, Messages, Windows
<1>4. OneAtATime' /\ SentFits' /\ AnsweredFits'
  BY <1>1, <1>2, <1>3 DEF SInv, Serial, OneAtATime, SentFits, AnsweredFits
<1>5. MessagesFit' /\ NothingLost' /\ kept' \in [Tab -> Nat \cup {Absent}]
  BY <1>1, <1>3 DEF SInv, Serial, MessagesFit, NowKept, NothingLost
<1>6. ASSUME NEW t \in Tab, of[t] # conn[w], kept[t] # Absent, up[w] = "on"
      PROVE  t \in Visible(panel'[w]) /\ panel'[w].text[t] = kept[t]
  <2>1. Has(p, t) \/ m.conn = of[t]
    BY <1>2, <1>6 DEF SInv, Serial, WindowsFit, NowKept, Coming
  <2>2. CASE m.conn = conn[w]
    BY <1>1, <1>6, <2>1, <2>2 DEF Has
  <2>3. CASE m.conn # conn[w]
    <3>1. Sendable(m, used) /\ Good(p, used) /\ panel \in [Window -> Panel]
      <4>1. chan[w] \in Seq(MessageSet) /\ \A i \in DOMAIN chan[w] : Sendable(chan[w][i], used)
        BY DEF SInv, IInv, Messages
      <4> QED BY <1>1, <4>1 DEF SInv, IInv, Windows
    <3>2. m.conn = of[t] => t \in Live(m.at) /\ m.text[t] = kept[t]
      BY <1>1, <1>6 DEF SInv, Serial, MessagesFit, NowKept, Of
    <3>3. t \in Live(m.at) => m.conn = of[t]
      BY <3>1 DEF Sendable, Of
    <3>4. panel'[w] = Merge(p, m)
      BY <1>1, <2>3, <3>1
    <3> HIDE DEF m, p
    <3>5. /\ Tabs(Merge(p, m)) = Tabs(p) \cup Live(m.at)
          /\ Merge(p, m).hidden[t] = (p.hidden[t] /\ t \notin Live(m.at))
          /\ Merge(p, m).text[t] = IF t \in Live(m.at) THEN m.text[t] ELSE p.text[t]
      BY <2>3, <3>1, MergedGood
    <3>6. t \in Visible(Merge(p, m)) /\ Merge(p, m).text[t] = kept[t]
      BY <2>1, <3>2, <3>3, <3>5 DEF Has, Visible
    <3> QED BY <3>4, <3>6
  <2> QED BY <2>2, <2>3
<1>7. WindowsFit'
  <2>1. ASSUME NEW u \in Window \ {w}, NEW t PROVE Coming(u, t)' <=> Coming(u, t)
    BY <1>1, <1>3 DEF Coming
  <2>2. ASSUME NEW u \in Window \ {w}, up[u] = "on", NEW t \in Tab, of[t] # conn[u], kept[t] # Absent
        PROVE  (t \in Visible(panel'[u]) /\ panel'[u].text[t] = kept[t]) \/ Coming(u, t)'
    BY <1>3, <2>1, <2>2 DEF SInv, Serial, WindowsFit, NowKept, Has
  <2> QED BY <1>1, <1>6, <2>2 DEF WindowsFit, NowKept, Has
<1> QED BY <1>4, <1>5, <1>7 DEF Serial

-----------------------------------------------------------------------------
\* In a quiet state a window is opened or reloaded.
LEMMA BootStep ==
  ASSUME SInv, NEW w \in Window, Quiet, UNCHANGED kept, Boot(w)
  PROVE  Serial'
<1>1. \A u \in Window : post[u].status = "idle" /\ chan[u] = <<>> /\ up[u] # "booting"
  BY DEF Quiet
<1>2. /\ row' = row /\ kept' = kept
      /\ post' = [post EXCEPT ![w] = NotSaving]
      /\ chan' = [chan EXCEPT ![w] = <<>>] /\ fetch' = [fetch EXCEPT ![w] = row]
      /\ up' = [up EXCEPT ![w] = "booting"] /\ panel' = [panel EXCEPT ![w] = Blank]
  BY <1>1 DEF Boot
<1>3. /\ \A u \in Window : post'[u].status = "idle" /\ chan'[u] = <<>>
      /\ fetch'[w] = row /\ up'[w] = "booting"
      /\ \A u \in Window \ {w} : up'[u] = up[u] /\ panel'[u] = panel[u]
  BY <1>1, <1>2 DEF SInv, IInv, Sessions, Messages, Windows, NotSaving
<1>4. OneAtATime' /\ SentFits' /\ AnsweredFits' /\ MessagesFit'
  BY <1>1, <1>2, <1>3 DEF OneAtATime, SentFits, AnsweredFits, MessagesFit
<1>5. NothingLost' /\ kept' \in [Tab -> Nat \cup {Absent}]
  BY <1>2 DEF SInv, Serial, NothingLost
<1>6. WindowsFit'
  <2>1. ASSUME NEW u \in Window, NEW t PROVE ~ Coming(u, t)
    BY <1>1 DEF Coming
  <2>2. ASSUME NEW u \in Window \ {w}, up[u] = "on", NEW t \in Tab, of[t] # conn[u], kept[t] # Absent
        PROVE  t \in Visible(panel'[u]) /\ panel'[u].text[t] = kept[t]
    BY <1>3, <2>1, <2>2 DEF SInv, Serial, WindowsFit, NowKept, Has
  <2> QED BY <1>2, <1>3, <2>2 DEF WindowsFit, NowKept, Has
<1> QED BY <1>4, <1>5, <1>6 DEF Serial

\* It opens with the stored session, which holds all that was kept.
LEMMA OpenStep ==
  ASSUME SInv, NEW w \in Window, UNCHANGED kept, Open(w) \/ OpenDangling(w)
  PROVE  Serial'
<1>1. /\ up[w] = "booting" /\ up' = [up EXCEPT ![w] = "on"]
      /\ Opened(w, fetch[w]) \/ Show(w, fetch[w], {})
      /\ fetch' = [fetch EXCEPT ![w] = NotLoading]
      /\ row' = row /\ post' = post /\ chan' = chan /\ kept' = kept
  BY DEF Open, OpenDangling, Opened
<1>2. /\ \A u \in Window : post[u].status = "idle" /\ chan[u] = <<>> /\ (u = w \/ up[u] # "booting")
      /\ fetch[w] = row
  BY <1>1 DEF SInv, Serial, OneAtATime
<1>3. Stored(row, used)
  BY DEF SInv, IInv, Sessions
<1>4. PICK q : Show(w, q, {}) /\ Keeps(row, q, Tab)
  BY <1>1, <1>2, <1>3, OpenedKeeps DEF Keeps
<1>5. /\ panel'[w] = q /\ up'[w] = "on"
      /\ \A u \in Window \ {w} : panel'[u] = panel[u] /\ up'[u] = up[u]
  BY <1>1, <1>4 DEF SInv, IInv, Windows, Show
<1>6. OneAtATime' /\ SentFits' /\ AnsweredFits' /\ MessagesFit'
  BY <1>1, <1>2, <1>5 DEF OneAtATime, SentFits, AnsweredFits, MessagesFit
<1>7. NothingLost' /\ kept' \in [Tab -> Nat \cup {Absent}]
  BY <1>1 DEF SInv, Serial, NothingLost
<1>8. ASSUME NEW t \in Tab, kept[t] # Absent
      PROVE  t \in Visible(q) /\ q.text[t] = kept[t]
  <2>1. t \in Tabs(row) /\ row.text[t] = kept[t]
    BY <1>8 DEF SInv, Serial, NothingLost
  <2>2. ~ row.hidden[t]
    BY <1>3 DEF Stored, Blank
  <2>3. t \in Visible(row)
    BY <2>1, <2>2 DEF Visible
  <2> QED BY <1>4, <2>1, <2>3 DEF Keeps
<1>9. WindowsFit'
  <2>1. ASSUME NEW u \in Window, NEW t PROVE ~ Coming(u, t)
    BY <1>2 DEF Coming
  <2>2. ASSUME NEW u \in Window \ {w}, up[u] = "on", NEW t \in Tab, of[t] # conn[u], kept[t] # Absent
        PROVE  t \in Visible(panel'[u]) /\ panel'[u].text[t] = kept[t]
    BY <1>5, <2>1, <2>2 DEF SInv, Serial, WindowsFit, NowKept, Has
  <2> QED BY <1>1, <1>5, <1>8, <2>2 DEF WindowsFit, NowKept, Has
<1> QED BY <1>6, <1>7, <1>9 DEF Serial

-----------------------------------------------------------------------------
LEMMA InitSerial == SerialInit => SInv
<1> SUFFICES ASSUME SerialInit PROVE SInv
  OBVIOUS
<1>1. IInv
  BY InitInvariant DEF SerialInit
<1>2. /\ \A w \in Window : post[w].status = "idle" /\ chan[w] = <<>> /\ up[w] = "off"
      /\ \A t \in Tab : kept[t] = Absent
      /\ kept \in [Tab -> Nat \cup {Absent}]
  BY DEF SerialInit, Init, NotSaving
<1>3. Serial
  BY <1>2 DEF Serial, OneAtATime, SentFits, AnsweredFits, MessagesFit, WindowsFit, NothingLost, NowKept
<1> QED BY <1>1, <1>3 DEF SInv

\* A serial step is a step of Worksheets without failed loads.
LEMMA SerialIsCalm ==
  ASSUME [SerialNext]_storedVars
  PROVE  [CalmNext]_vars
<1>1. ASSUME NEW w \in Window, StoreNoted(w) \/ SerialStep(w) PROVE CalmNext
  BY <1>1 DEF StoreNoted, SerialStep, CalmNext, User, Sync
<1> QED BY <1>1 DEF SerialNext, storedVars

LEMMA SerialKeeps == SInv /\ [SerialNext]_storedVars => SInv'
<1> SUFFICES ASSUME SInv, [SerialNext]_storedVars PROVE Serial'
  BY SerialIsCalm, NextKeeps DEF SInv
<1>1. ASSUME NEW w \in Window, SerialStep(w), UNCHANGED kept PROVE Serial'
  BY <1>1, AnyTimeSteps, QuietSteps, SaveStep, BroadcastStep, ReceiveStep, BootStep, OpenStep
     DEF SerialStep
<1>2. ASSUME NEW w \in Window, StoreNoted(w) PROVE Serial'
  BY <1>2, StoreStep
<1>3. CASE UNCHANGED storedVars
  BY <1>3 DEF storedVars, vars, SInv, Serial, OneAtATime, SentFits, AnsweredFits, MessagesFit,
              WindowsFit, Coming, NothingLost, NowKept, Has
<1> QED BY <1>1, <1>2, <1>3 DEF SerialNext

\* The inductive invariant: wherever a save has got to, each panel, session and
\* broadcast agrees with what was stored last.
THEOREM SerialInvariant == SerialSpec => []SInv
  BY InitSerial, SerialKeeps, PTL DEF SerialSpec

\* While saves follow one another, the stored session holds every worksheet its own
\* connection has stored, with the text it stored last, whichever window saves.
THEOREM StoredSessionLosesNothing == SerialSpec => []NothingLost
<1>1. SInv => NothingLost
  BY DEF SInv, Serial
<1> QED BY <1>1, SerialInvariant, PTL
==============================================================================
