------------------------- MODULE ConnectionsProofs --------------------------
(***************************************************************************)
(* Theorems about Connections, for any connections and databases, any      *)
(* lists the server answers with, and any number of loads and attempts.    *)
(***************************************************************************)
EXTENDS Connections, SequenceTheorems, TLAPS

-----------------------------------------------------------------------------
(* Types, with their sets named.                                           *)

Names       == Name \cup {Nothing}
Trees       == [Name -> Tree]
ShownRecord == [name : Names, load : Nat, tree : Tree]
PanelRecord == [on : BOOLEAN, mount : Nat, timers : Nat, due : BOOLEAN, shown : ShownRecord]
BootRecord  == [at : {"state", "connections", "done"}, tries : 0 .. Tries]

WindowTypes ==
  /\ list \in Seq(Name) /\ trees \in Seq(Trees)
  /\ selected \in Names /\ remembered \in Names
  /\ panel \in PanelRecord /\ loading \in {"off", "on", "restored", "stranded"}
  /\ boot \in BootRecord /\ chooser \in BOOLEAN /\ moves \in 0 .. MaxMoves

-----------------------------------------------------------------------------
(* What holds of the loads.                                                *)

Asks(j) == j.at \in {"databases", "again"}

\* Of a load j, when the list is l, the n-th that was loaded, and the panel has
\* been mounted m times.  The index of a load that asks for the databases is
\* that of its connection in the list it read, if that is still the list.
JobHolds(j, l, n, m) ==
  /\ j \in Job /\ j.load \in 0 .. n /\ j.mount <= m
  /\ (j.at = "schemata") <=> (j.wait # {})
  /\ Asks(j) => /\ j.load > 0 /\ j.index > 0
                /\ j.load = n => l = <<>> \/ (j.index \in DOMAIN l /\ l[j.index] = j.conn)

AllHold(js, l, n, m) == \A k \in DOMAIN js : JobHolds(js[k], l, n, m)

JobsHold ==
  /\ list # <<>> => trees # <<>>
  /\ jobs \in Seq(Job)
  /\ AllHold(jobs, list, load, panel.mount)

\* Init takes the connections away before it asks for them; the chooser is open
\* only once Init is done, and chooses from the list.
BootHolds ==
  /\ chooser => ~panel.on /\ boot.at = "done" /\ (selected = Nothing \/ Listed(selected))
  /\ boot.at = "connections" => list = <<>>
  /\ boot.at = "state" => list = <<>> \/ Listed(selected)

-----------------------------------------------------------------------------
(* What holds of the panel.                                                *)

\* A blank panel shows no database, and nothing is of a list yet to come.
ShownHolds ==
  /\ panel.shown.name = Nothing => panel.shown.tree = Bare
  /\ panel.shown.load <= load

Due == boot.at # "done" \/ Listed(selected)

\* While Init runs, or when the selected connection is in the list, the panel
\* shows that or nothing, and its own loads are about that.
NameShown == panel.on /\ Due => panel.shown.name \in {selected, Nothing}
NameAsked ==
  panel.on /\ Due =>
    \A k \in DOMAIN jobs :
      jobs[k].by = "panel" /\ jobs[k].mount = panel.mount => jobs[k].conn = selected

\* Once Init is done, a panel that does not show it yet has been told to.
PanelNotified ==
  panel.on /\ boot.at = "done" /\ Listed(selected) =>
    panel.shown.name = selected \/ panel.timers > 0

\* Unless it has been told to draw itself again, the panel shows what is loaded.
PanelFresh ==
  (panel.on /\ ~panel.due /\ Listed(selected)
     /\ panel.shown.name = selected /\ panel.shown.load = load)
   => panel.shown.tree = trees[load][selected]

PanelHolds == ShownHolds /\ NameShown /\ NameAsked /\ PanelNotified /\ PanelFresh

IInv == WindowTypes /\ JobsHold /\ BootHolds /\ PanelHolds /\ SpinnerServes

LEMMA TypesNamed == IInv => TypeOK
<1> SUFFICES ASSUME IInv PROVE TypeOK
  OBVIOUS
<1>1. \A k \in DOMAIN jobs : /\ jobs[k].load \in 0 .. load
                             /\ jobs[k].at \in {"databases", "again"} => jobs[k].index > 0
                             /\ (jobs[k].at = "schemata") <=> (jobs[k].wait # {})
  BY DEF IInv, JobsHold, AllHold, JobHolds, Asks
<1> QED
  BY <1>1 DEF IInv, WindowTypes, JobsHold, BootHolds, TypeOK, Names, Trees, PanelRecord,
     ShownRecord, BootRecord

-----------------------------------------------------------------------------
(* Lists, trees and what is shown of them.                                 *)

LEMMA ListedHere ==
  ASSUME NEW l \in Seq(Name), NEW n
  PROVE  /\ n \in Range(l) <=> \E i \in DOMAIN l : l[i] = n
         /\ n \in Range(l) => n \in Name /\ n # Nothing /\ l # <<>>
BY NothingAssumption DEF Range

LEMMA IndexListed ==
  ASSUME WindowTypes, NEW n, Listed(n)
  PROVE  IndexOf(n) \in DOMAIN list /\ list[IndexOf(n)] = n
BY ListedHere DEF WindowTypes, Listed, IndexOf

LEMMA BareTree == Bare \in Tree /\ Keys(Bare) = {}
BY DEF Bare, Tree, Keys

\* What View shows of a connection, of the trees as they are or will be.
LEMMA Viewed ==
  ASSUME WindowTypes, NEW ts \in Seq(Trees), list # <<>> => ts # <<>>, NEW n \in Names
  PROVE  /\ View(n, ts) \in ShownRecord /\ View(n, ts).load = Len(ts)
         /\ Listed(n) => View(n, ts).name = n /\ View(n, ts).tree = ts[Len(ts)][n]
         /\ ~Listed(n) => View(n, ts).name = Nothing /\ View(n, ts).tree = Bare
<1>1. Len(ts) \in Nat
  OBVIOUS
<1>2. CASE Listed(n)
  <2>1. n \in Name /\ ts # <<>>
    BY <1>2, ListedHere DEF WindowTypes, Listed
  <2>2. ts[Len(ts)] \in Trees
    BY <2>1
  <2> QED
    BY <1>1, <1>2, <2>1, <2>2 DEF View, ShownRecord, Names, Trees
<1>3. CASE ~Listed(n)
  BY <1>1, <1>3, BareTree DEF View, ShownRecord, Names
<1> QED
  BY <1>2, <1>3

\* The view of a connection in the state at hand.
LEMMA ViewedNow ==
  ASSUME IInv, NEW n \in Names
  PROVE  /\ View(n, trees) \in ShownRecord /\ View(n, trees).load = load
         /\ View(n, trees).name \in {n, Nothing}
         /\ Listed(n) => View(n, trees).name = n /\ View(n, trees).tree = trees[load][n]
         /\ View(n, trees).name = Nothing => View(n, trees).tree = Bare
<1>1. WindowTypes /\ trees \in Seq(Trees) /\ (list # <<>> => trees # <<>>) /\ list \in Seq(Name)
  BY DEF IInv, WindowTypes, JobsHold
<1>2. Listed(n) => n # Nothing
  BY <1>1, ListedHere DEF Listed
<1> QED
  BY <1>1, <1>2, Viewed DEF load

-----------------------------------------------------------------------------
(* Loads come, change and go.                                              *)

LEMMA Removed ==
  ASSUME NEW S, NEW s \in Seq(S), NEW k \in DOMAIN s
  PROVE  /\ RemoveAt(s, k) \in Seq(S)
         /\ \A i \in DOMAIN RemoveAt(s, k) : \E m \in DOMAIN s : RemoveAt(s, k)[i] = s[m]
         /\ \A m \in DOMAIN s \ {k} : \E i \in DOMAIN RemoveAt(s, k) : RemoveAt(s, k)[i] = s[m]
<1> DEFINE u == SubSeq(s, 1, k - 1)  v == SubSeq(s, k + 1, Len(s))
<1>1. k \in 1 .. Len(s) /\ DOMAIN s = 1 .. Len(s) /\ Len(s) \in Nat /\ \A i \in 1 .. Len(s) : s[i] \in S
  OBVIOUS
<1>2. /\ u \in Seq(S) /\ Len(u) = k - 1 /\ \A i \in 1 .. k - 1 : u[i] = s[i]
  <2>1. \A i \in 1 .. k - 1 : s[i] \in S
    BY <1>1
  <2>2. 1 \in Int /\ k - 1 \in Int
    BY <1>1
  <2>3. /\ SubSeq(s, 1, k - 1) \in Seq(S)
        /\ Len(SubSeq(s, 1, k - 1)) = IF 1 <= k - 1 THEN k - 1 - 1 + 1 ELSE 0
        /\ \A i \in 1 .. k - 1 - 1 + 1 : SubSeq(s, 1, k - 1)[i] = s[1 + i - 1]
    BY <2>1, <2>2, SubSeqProperties
  <2>4. Len(u) = k - 1
    BY <1>1, <2>3
  <2>5. ASSUME NEW i \in 1 .. k - 1 PROVE u[i] = s[i]
    <3>1. i \in 1 .. k - 1 - 1 + 1 /\ 1 + i - 1 = i
      BY <1>1
    <3> QED
      BY <2>3, <3>1
  <2> QED
    BY <2>3, <2>4, <2>5
<1>3. /\ v \in Seq(S) /\ Len(v) = Len(s) - k /\ \A i \in 1 .. Len(s) - k : v[i] = s[k + i]
  <2>1. \A i \in k + 1 .. Len(s) : s[i] \in S
    BY <1>1
  <2>2. k + 1 \in Int /\ Len(s) \in Int
    BY <1>1
  <2>3. /\ SubSeq(s, k + 1, Len(s)) \in Seq(S)
        /\ Len(SubSeq(s, k + 1, Len(s))) = IF k + 1 <= Len(s) THEN Len(s) - (k + 1) + 1 ELSE 0
        /\ \A i \in 1 .. Len(s) - (k + 1) + 1 : SubSeq(s, k + 1, Len(s))[i] = s[k + 1 + i - 1]
    BY <2>1, <2>2, SubSeqProperties
  <2>4. Len(v) = Len(s) - k
    BY <1>1, <2>3
  <2>5. ASSUME NEW i \in 1 .. Len(s) - k PROVE v[i] = s[k + i]
    <3>1. i \in 1 .. Len(s) - (k + 1) + 1 /\ k + 1 + i - 1 = k + i
      BY <1>1
    <3> QED
      BY <2>3, <3>1
  <2> QED
    BY <2>3, <2>4, <2>5
<1>4. RemoveAt(s, k) = u \o v
  BY DEF RemoveAt
<1> HIDE DEF u, v
<1> DEFINE w == u \o v
<1>5. /\ w \in Seq(S) /\ DOMAIN w = 1 .. Len(s) - 1
      /\ \A i \in 1 .. Len(s) - 1 : w[i] = IF i <= k - 1 THEN s[i] ELSE s[i + 1]
  <2>1. /\ w \in Seq(S) /\ Len(w) = Len(u) + Len(v)
        /\ \A i \in 1 .. Len(u) + Len(v) : w[i] = IF i <= Len(u) THEN u[i] ELSE v[i - Len(u)]
    BY <1>2, <1>3, ConcatProperties
  <2>2. Len(w) = Len(s) - 1 /\ DOMAIN w = 1 .. Len(w)
    BY <1>1, <1>2, <1>3, <2>1
  <2>3. \A i \in 1 .. Len(s) - 1 : w[i] = IF i <= k - 1 THEN u[i] ELSE v[i - (k - 1)]
    BY <1>1, <1>2, <1>3, <2>1
  <2>4. ASSUME NEW i \in 1 .. Len(s) - 1 PROVE w[i] = IF i <= k - 1 THEN s[i] ELSE s[i + 1]
    <3>1. CASE i <= k - 1
      BY <1>1, <1>2, <2>3, <3>1
    <3>2. CASE ~(i <= k - 1)
      <4>1. i - (k - 1) \in 1 .. Len(s) - k /\ k + (i - (k - 1)) = i + 1
        BY <1>1, <3>2
      <4> QED
        BY <1>3, <2>3, <3>2, <4>1
    <3> QED
      BY <3>1, <3>2
  <2> QED
    BY <2>1, <2>2, <2>4
<1> HIDE DEF w
<1>6. \A i \in DOMAIN w : \E m \in DOMAIN s : w[i] = s[m]
  BY <1>1, <1>5
<1>7. ASSUME NEW m \in DOMAIN s \ {k} PROVE \E i \in DOMAIN w : w[i] = s[m]
  <2>1. CASE m < k
    BY <1>1, <1>5, <2>1
  <2>2. CASE m > k
    <3>1. m - 1 \in 1 .. Len(s) - 1 /\ ~(m - 1 <= k - 1) /\ (m - 1) + 1 = m
      BY <1>1, <2>2
    <3> QED
      BY <1>5, <3>1
  <2> QED
    BY <1>1, <2>1, <2>2
<1> QED
  BY <1>4, <1>5, <1>6, <1>7 DEF w

\* A load holds what it did when the lists go on, or go, and the panel is
\* mounted anew.
LEMMA JobStays ==
  ASSUME NEW j, NEW l, NEW n \in Nat, NEW m \in Nat, JobHolds(j, l, n, m),
         NEW l2, NEW n2 \in Nat, NEW m2 \in Nat, m2 >= m,
         n2 > n \/ (n2 = n /\ l2 \in {l, <<>>})
  PROVE  JobHolds(j, l2, n2, m2)
BY DEF JobHolds, Job

\* What is known of the loads before a step.
LEMMA JobsHere ==
  ASSUME IInv
  PROVE  /\ jobs \in Seq(Job) /\ load \in Nat /\ panel.mount \in Nat
         /\ \A k \in DOMAIN jobs : /\ jobs[k] \in Job
                                   /\ JobHolds(jobs[k], list, load, panel.mount)
BY DEF IInv, JobsHold, AllHold, JobHolds, WindowTypes, PanelRecord, load

\* The loads after a step: each is one of before, as far along as it was, or one
\* that has gone on, or a new one, which is about the selected connection if it
\* is the panel's.  At least one that clears the spinner stays, if there was one.
Same(i, j) == i.by = j.by /\ i.conn = j.conn /\ i.mount = j.mount

JobsGoOn(new) ==
  /\ new \in Seq(Job)
  /\ \A i \in DOMAIN new : (\E k \in DOMAIN jobs : Same(new[i], jobs[k])) 
  /\ \A k \in DOMAIN jobs : jobs[k].by # "plain" => \E i \in DOMAIN new : new[i].by # "plain"

LEMMA JobReplaced ==
  ASSUME IInv, NEW k \in DOMAIN jobs, NEW j, NEW l, NEW n, NEW m,
         JobHolds(j, l, n, m), Same(j, jobs[k]),
         AllHold(jobs, l, n, m)
  PROVE  /\ JobsGoOn([jobs EXCEPT ![k] = j])
         /\ AllHold([jobs EXCEPT ![k] = j], l, n, m)
<1> DEFINE new == [jobs EXCEPT ![k] = j]
<1>1. jobs \in Seq(Job) /\ k \in 1 .. Len(jobs) /\ j \in Job /\ DOMAIN jobs = 1 .. Len(jobs)
  BY JobsHere DEF JobHolds
<1>2. new \in Seq(Job) /\ DOMAIN new = DOMAIN jobs
      /\ \A i \in DOMAIN jobs : new[i] = IF i = k THEN j ELSE jobs[i]
  BY <1>1, ExceptSeq
<1> HIDE DEF new
<1>3. AllHold(new, l, n, m)
  BY <1>2 DEF AllHold
<1>4. \A i \in DOMAIN new : Same(new[i], jobs[i])
  BY <1>2 DEF Same
<1>5. JobsGoOn(new)
  BY <1>2, <1>4 DEF JobsGoOn, Same
<1> QED
  BY <1>3, <1>5 DEF new

LEMMA JobRemoved ==
  ASSUME IInv, NEW k \in DOMAIN jobs
  PROVE  /\ RemoveAt(jobs, k) \in Seq(Job)
         /\ \A i \in DOMAIN RemoveAt(jobs, k) : \E m \in DOMAIN jobs : RemoveAt(jobs, k)[i] = jobs[m]
         /\ jobs[k].by = "plain" => JobsGoOn(RemoveAt(jobs, k))
<1> DEFINE new == RemoveAt(jobs, k)
<1>1. /\ new \in Seq(Job) /\ \A i \in DOMAIN new : \E m \in DOMAIN jobs : new[i] = jobs[m]
  BY JobsHere, Removed
<1>2. \A m \in DOMAIN jobs \ {k} : \E i \in DOMAIN new : new[i] = jobs[m]
  BY JobsHere, Removed
<1> HIDE DEF new
<1>3. jobs[k].by = "plain" => JobsGoOn(new)
  BY <1>1, <1>2 DEF JobsGoOn, Same
<1> QED
  BY <1>1, <1>3 DEF new

LEMMA JobAdded ==
  ASSUME IInv, NEW j \in Job
  PROVE  /\ Append(jobs, j) \in Seq(Job)
         /\ \A i \in DOMAIN Append(jobs, j) : Append(jobs, j)[i] = j \/ \E k \in DOMAIN jobs : Append(jobs, j)[i] = jobs[k]
         /\ \A k \in DOMAIN jobs : \E i \in DOMAIN Append(jobs, j) : Append(jobs, j)[i] = jobs[k]
         /\ \E i \in DOMAIN Append(jobs, j) : Append(jobs, j)[i] = j
<1> DEFINE new == Append(jobs, j)
<1>1. /\ new \in Seq(Job) /\ Len(new) = Len(jobs) + 1 /\ new[Len(jobs) + 1] = j
      /\ \A i \in 1 .. Len(jobs) : new[i] = jobs[i]
  BY JobsHere, AppendProperties
<1>2. DOMAIN new = 1 .. Len(jobs) + 1 /\ DOMAIN jobs = 1 .. Len(jobs) /\ Len(jobs) \in Nat
  BY <1>1, JobsHere
<1> HIDE DEF new
<1>3. \A i \in DOMAIN new : new[i] = j \/ \E k \in DOMAIN jobs : new[i] = jobs[k]
  BY <1>1, <1>2
<1>4. \A k \in DOMAIN jobs : \E i \in DOMAIN new : new[i] = jobs[k]
  BY <1>1, <1>2
<1>5. \E i \in DOMAIN new : new[i] = j
  <2>1. Len(jobs) + 1 \in DOMAIN new
    BY <1>2
  <2> QED
    BY <1>1, <2>1
<1> QED
  BY <1>1, <1>3, <1>4, <1>5 DEF new

-----------------------------------------------------------------------------
(* What a load asks for next.                                              *)

LEMMA DoneHolds ==
  ASSUME NEW l, NEW n \in Nat, NEW m \in Nat, NEW j \in Job, j.mount <= m, j.wait = {}
  PROVE  JobHolds(Done(j), l, n, m) /\ Same(Done(j), j) /\ ~Asks(Done(j))
<1>1. /\ Done(j) \in Job /\ Done(j).at = "end" /\ Done(j).load = 0 /\ Done(j).wait = j.wait
      /\ Done(j).by = j.by /\ Done(j).conn = j.conn /\ Done(j).mount = j.mount
  BY DEF Done, Job
<1> QED
  BY <1>1 DEF JobHolds, Asks, Same

LEMMA AskedHolds ==
  ASSUME IInv, NEW j \in Job, j.mount <= panel.mount, j.wait = {},
         NEW at \in {"databases", "again"}
  PROVE  JobHolds(AskDatabases(j, at), list, load, panel.mount) /\ Same(AskDatabases(j, at), j)
<1>1. load \in Nat /\ panel.mount \in Nat /\ WindowTypes /\ list \in Seq(Name)
  BY JobsHere DEF IInv, WindowTypes
<1>2. CASE ~Listed(j.conn)
  BY <1>1, <1>2, DoneHolds DEF AskDatabases
<1>3. CASE Listed(j.conn)
  <2> DEFINE r == [j EXCEPT !.at = at, !.load = load, !.index = IndexOf(j.conn)]
  <2>1. IndexOf(j.conn) \in DOMAIN list /\ list[IndexOf(j.conn)] = j.conn
    BY <1>1, <1>3, IndexListed
  <2>2. IndexOf(j.conn) \in Nat /\ IndexOf(j.conn) > 0
    BY <1>1, <2>1
  <2>3. load > 0
    <3>1. list # <<>>
      BY <1>1, <1>3, ListedHere DEF Listed
    <3>2. trees # <<>> /\ trees \in Seq(Trees)
      BY <3>1 DEF IInv, JobsHold, WindowTypes
    <3> QED
      BY <3>2 DEF load
  <2>4. /\ r \in Job /\ r.load = load /\ r.index = IndexOf(j.conn) /\ r.conn = j.conn
        /\ r.by = j.by /\ r.mount = j.mount /\ r.at = at /\ r.wait = {}
    BY <1>1, <2>2 DEF Job
  <2> HIDE DEF r
  <2>5. JobHolds(r, list, load, panel.mount) /\ Same(r, j)
    BY <1>1, <2>1, <2>2, <2>3, <2>4 DEF JobHolds, Same
  <2> QED
    BY <1>3, <2>5 DEF AskDatabases, r
<1> QED
  BY <1>2, <1>3

LEMMA SchemataAsked ==
  ASSUME NEW l, NEW n \in Nat, NEW m \in Nat, NEW j \in Job, j.mount <= m, j.wait = {},
         NEW tree \in Tree
  PROVE  JobHolds(AskSchemata(j, tree), l, n, m) /\ Same(AskSchemata(j, tree), j)
<1>1. CASE Keys(tree) = {}
  BY <1>1, DoneHolds DEF AskSchemata
<1>2. CASE Keys(tree) # {}
  <2> DEFINE r == [Done(j) EXCEPT !.at = "schemata", !.wait = Keys(tree)]
  <2>1. Done(j) \in Job /\ Same(Done(j), j) /\ Done(j).load = 0 /\ Keys(tree) \in SUBSET DB
    BY DEF Done, Job, Same, Keys
  <2>2. /\ r \in Job /\ r.load = 0 /\ r.at = "schemata" /\ r.wait = Keys(tree)
        /\ r.by = j.by /\ r.conn = j.conn /\ r.mount = j.mount
    BY <2>1 DEF Job, Same
  <2> HIDE DEF r
  <2>3. JobHolds(r, l, n, m) /\ Same(r, j)
    BY <1>2, <2>2 DEF JobHolds, Same, Asks
  <2> QED
    BY <1>2, <2>3 DEF AskSchemata, r
<1> QED
  BY <1>1, <1>2

\* With the trees as they are after the answer.
LEMMA AllAsked ==
  ASSUME IInv, NEW j \in Job, j.mount <= panel.mount, j.wait = {},
         NEW ts \in Seq(Trees), list # <<>> => ts # <<>>
  PROVE  JobHolds(AllSchemata(j, ts), list, load, panel.mount) /\ Same(AllSchemata(j, ts), j)
<1>1. WindowTypes /\ load \in Nat /\ panel.mount \in Nat /\ j.conn \in Names
  BY JobsHere DEF IInv, Job, Names
<1>2. View(j.conn, ts).tree \in Tree
  BY <1>1, Viewed DEF ShownRecord
<1> DEFINE tree == View(j.conn, ts).tree
<1> HIDE DEF tree
<1>3. tree \in Tree
  BY <1>2 DEF tree
<1>4. JobHolds(AskSchemata(j, tree), list, load, panel.mount) /\ Same(AskSchemata(j, tree), j)
  BY <1>1, <1>3, SchemataAsked
<1>5. JobHolds(AskDatabases(j, "again"), list, load, panel.mount) /\ Same(AskDatabases(j, "again"), j)
  BY AskedHolds
<1>6. AllSchemata(j, ts) \in {AskSchemata(j, tree), AskDatabases(j, "again")}
  BY DEF AllSchemata, tree
<1> QED
  BY <1>4, <1>5, <1>6

-----------------------------------------------------------------------------
(* What the panel is after a step.                                         *)

PanelIs(p, on, mount, timers, due, shown) ==
  p \in PanelRecord /\ p.on = on /\ p.mount = mount /\ p.timers = timers
  /\ p.due = due /\ p.shown = shown

LEMMA PanelRecords ==
  ASSUME NEW p \in PanelRecord, NEW s \in ShownRecord, NEW n \in Nat, NEW b \in BOOLEAN
  PROVE  /\ PanelIs([p EXCEPT !.due = b], p.on, p.mount, p.timers, b, p.shown)
         /\ PanelIs([p EXCEPT !.timers = n], p.on, p.mount, n, p.due, p.shown)
         /\ PanelIs([p EXCEPT !.shown = s], p.on, p.mount, p.timers, p.due, s)
         /\ PanelIs(Left(p), FALSE, p.mount, 0, FALSE, p.shown)
         /\ PanelIs(Mounted(n, s), TRUE, n, 1, FALSE, s)
         /\ PanelIs(p, p.on, p.mount, p.timers, p.due, p.shown)
<1>1. PanelIs([p EXCEPT !.due = b], p.on, p.mount, p.timers, b, p.shown)
  BY DEF PanelRecord, PanelIs
<1>2. PanelIs([p EXCEPT !.timers = n], p.on, p.mount, n, p.due, p.shown)
  BY DEF PanelRecord, PanelIs
<1>3. PanelIs([p EXCEPT !.shown = s], p.on, p.mount, p.timers, p.due, s)
  BY DEF PanelRecord, PanelIs
<1>4. PanelIs(Left(p), FALSE, p.mount, 0, FALSE, p.shown)
  <2>1. ASSUME NEW c \in BOOLEAN, NEW z \in Nat
        PROVE  PanelIs([p EXCEPT !.on = c, !.due = c, !.timers = z], c, p.mount, z, c, p.shown)
    BY DEF PanelRecord, PanelIs
  <2> QED
    BY <2>1, Zenon DEF Left
<1>5. PanelIs(Mounted(n, s), TRUE, n, 1, FALSE, s)
  BY Zenon DEF Mounted, PanelIs, PanelRecord
<1> QED
  BY <1>1, <1>2, <1>3, <1>4, <1>5 DEF PanelIs

\* The panel drawn again or mounted anew shows what is preferred of the list.
LEMMA PreferredNamed ==
  ASSUME IInv, list # <<>>
  PROVE  Preferred \in Names /\ (Listed(selected) => Preferred = selected)
<1>1. list \in Seq(Name) /\ selected \in Names /\ remembered \in Names
  BY DEF IInv, WindowTypes
<1>2. Head(list) \in Name
  BY <1>1, HeadTailProperties
<1> QED
  BY <1>1, <1>2 DEF Preferred, Names

\* After a mount: the panel shows the selected connection if that is listed.
ShowsAnew(s) ==
  /\ s \in ShownRecord /\ s.load <= load
  /\ s.name = Nothing => s.tree = Bare
  /\ Listed(selected) => s.name = selected /\ s.load = load /\ s.tree = trees[load][selected]
  /\ list = <<>> => s.name = Nothing

LEMMA ViewsAnew ==
  ASSUME IInv
  PROVE  /\ list # <<>> => ShowsAnew(View(Preferred, trees))
         /\ ShowsAnew(View(selected, trees))
         /\ list = <<>> => ShowsAnew(View(Nothing, trees))
<1>1. list \in Seq(Name) /\ selected \in Names /\ Nothing \in Names /\ load \in Nat
  BY JobsHere DEF IInv, WindowTypes, Names
<1>2. list = <<>> => ~Listed(selected) /\ ~Listed(Nothing)
  BY <1>1, ListedHere DEF Listed
<1>3. Listed(selected) => list # <<>>
  BY <1>1, ListedHere DEF Listed
<1>4. ASSUME list # <<>> PROVE ShowsAnew(View(Preferred, trees))
  BY <1>1, <1>4, PreferredNamed, ViewedNow DEF ShowsAnew
<1>5. ShowsAnew(View(selected, trees))
  <2>1. ~Listed(selected) => View(selected, trees).name = Nothing
    BY <1>1, Viewed DEF IInv, WindowTypes, JobsHold
  <2> QED
    BY <1>1, <1>2, <2>1, ViewedNow DEF ShowsAnew
<1>6. ASSUME list = <<>> PROVE ShowsAnew(View(Nothing, trees))
  <2>1. View(Nothing, trees).name = Nothing
    BY <1>1, <1>2, <1>6, Viewed DEF IInv, WindowTypes, JobsHold
  <2> QED
    BY <1>1, <1>2, <1>6, <2>1, ViewedNow DEF ShowsAnew
<1> QED
  BY <1>4, <1>5, <1>6

LEMMA MountIs ==
  ASSUME IInv
  PROVE  \E s : ShowsAnew(s) /\ PanelIs(Mount, TRUE, panel.mount + 1, 1, FALSE, s)
<1> DEFINE p == Mounted(panel.mount + 1, View(Nothing, trees))
<1>1. Nothing \in Names /\ panel.mount + 1 \in Nat /\ panel \in PanelRecord
  BY JobsHere DEF IInv, WindowTypes, Names
<1>2. View(Nothing, trees) \in ShownRecord
  BY <1>1, ViewedNow
<1>3. PanelIs(p, TRUE, panel.mount + 1, 1, FALSE, View(Nothing, trees))
  BY <1>1, <1>2, PanelRecords
<1> HIDE DEF p
<1>4. CASE list = <<>>
  BY <1>3, <1>4, ViewsAnew DEF Mount, Redrawn, p
<1>5. CASE list # <<>>
  <2>1. ShowsAnew(View(Preferred, trees)) /\ View(Preferred, trees) \in ShownRecord
    BY <1>5, ViewsAnew DEF ShowsAnew
  <2>2. PanelIs([p EXCEPT !.shown = View(Preferred, trees)],
                p.on, p.mount, p.timers, p.due, View(Preferred, trees))
    <3>1. p \in PanelRecord /\ 0 \in Nat /\ TRUE \in BOOLEAN
      BY <1>3 DEF PanelIs
    <3> QED
      BY <2>1, <3>1, PanelRecords
  <2>3. PanelIs([p EXCEPT !.shown = View(Preferred, trees)],
                TRUE, panel.mount + 1, 1, FALSE, View(Preferred, trees))
    BY <1>3, <2>2 DEF PanelIs
  <2>4. Mount = [p EXCEPT !.shown = View(Preferred, trees)]
    BY <1>5 DEF Mount, Redrawn, p
  <2> QED
    BY <2>1, <2>3, <2>4
<1> QED
  BY <1>4, <1>5

-----------------------------------------------------------------------------
(* The steps of a load.                                                    *)

LEMMA JobsFollow ==
  ASSUME IInv, JobsGoOn(jobs'), UNCHANGED selected, loading' = "on" => loading = "on",
         panel'.on /\ Due' => panel.on /\ Due /\ panel'.mount = panel.mount
  PROVE  NameAsked' /\ SpinnerServes'
<1>1. NameAsked'
  <2> SUFFICES ASSUME panel'.on, Due', NEW i \in DOMAIN jobs',
                      jobs'[i].by = "panel", jobs'[i].mount = panel'.mount
               PROVE  jobs'[i].conn = selected'
    BY DEF NameAsked
  <2>1. PICK k \in DOMAIN jobs : Same(jobs'[i], jobs[k])
    BY DEF JobsGoOn
  <2> QED
    BY <2>1 DEF IInv, PanelHolds, NameAsked, Same
<1>2. SpinnerServes'
  BY DEF IInv, SpinnerServes, JobsGoOn
<1> QED
  BY <1>1, <1>2

\* The panel and what it is about are as they were.
LEMMA PanelStays ==
  ASSUME IInv, UNCHANGED <<list, trees, selected, boot, chooser, panel>>
  PROVE  /\ BootHolds' /\ ShownHolds' /\ NameShown' /\ PanelNotified' /\ PanelFresh'
         /\ load' = load /\ (list' # <<>> => trees' # <<>>) /\ (Due' <=> Due)
<1>1. BootHolds'
  BY DEF IInv, BootHolds, Listed
<1>2. ShownHolds' /\ NameShown' /\ PanelNotified' /\ PanelFresh'
  BY DEF IInv, PanelHolds, ShownHolds, NameShown, PanelNotified, PanelFresh, Listed, Due, load
<1>3. load' = load /\ (list' # <<>> => trees' # <<>>) /\ (Due' <=> Due)
  BY DEF IInv, JobsHold, load, Due, Listed
<1> QED
  BY <1>1, <1>2, <1>3

LEMMA FireSteps == ASSUME IInv, NEW k \in DOMAIN jobs, Fire(k) PROVE IInv' /\ trees' = trees
<1> DEFINE j == AskDatabases(jobs[k], "databases")
<1>1. /\ jobs[k].at = "timer" /\ jobs' = [jobs EXCEPT ![k] = j]
      /\ UNCHANGED <<list, trees, selected, remembered, panel, loading, boot, chooser, moves>>
  BY DEF Fire
<1>2. jobs[k] \in Job /\ jobs[k].wait = {} /\ jobs[k].mount <= panel.mount
  BY <1>1, JobsHere DEF JobHolds
<1>3. JobHolds(j, list, load, panel.mount) /\ Same(j, jobs[k])
  BY <1>2, AskedHolds
<1> HIDE DEF j
<1>4. JobsGoOn(jobs') /\ AllHold(jobs', list, load, panel.mount)
  BY <1>1, <1>3, JobReplaced DEF IInv, JobsHold
<1>5. /\ BootHolds' /\ ShownHolds' /\ NameShown' /\ PanelNotified' /\ PanelFresh'
      /\ load' = load /\ (list' # <<>> => trees' # <<>>) /\ (Due' <=> Due)
  BY <1>1, PanelStays
<1>6. NameAsked' /\ SpinnerServes'
  BY <1>1, <1>4, <1>5, JobsFollow
<1>7. JobsHold'
  BY <1>1, <1>4, <1>5 DEF JobsHold, JobsGoOn
<1>8. WindowTypes'
  BY <1>1 DEF IInv, WindowTypes
<1> QED
  BY <1>1, <1>5, <1>6, <1>7, <1>8 DEF IInv, PanelHolds

\* What an answer may do to the trees, unless it is due to an older list.
Keeps(u) ==
  \A n \in Name : /\ Grows(trees[load][n], u[load][n])
                  /\ Keys(u[load][n]) \ Keys(trees[load][n]) \subseteq databases[n]

LEMMA KeepsSame == Keeps(trees)
BY DEF Keeps, Grows, Keys

\* The answer for the databases of a load, as it is stored.
LEMMA DatabasesStored ==
  ASSUME IInv, NEW k \in DOMAIN jobs, Asks(jobs[k]), jobs[k].index \in DOMAIN list
  PROVE  /\ Databases(jobs[k]) \in Seq(Trees) /\ Len(Databases(jobs[k])) = load
         /\ ~Late(jobs[k]) => Keeps(Databases(jobs[k]))
<1> DEFINE j == jobs[k]
           n == list[j.index]
           new == [trees[load] EXCEPT ![n] = Added(j)]
<1>1. /\ j \in Job /\ j.load \in 1 .. load /\ list # <<>> /\ trees # <<>>
      /\ trees \in Seq(Trees) /\ load = Len(trees) /\ load \in DOMAIN trees /\ n \in Name
      /\ j.conn \in Name /\ (j.load = load => n = j.conn)
  <2>1. JobHolds(j, list, load, panel.mount) /\ j \in Job
    BY JobsHere
  <2>2. list # <<>> /\ list \in Seq(Name) /\ trees \in Seq(Trees) /\ (list # <<>> => trees # <<>>)
    BY DEF IInv, WindowTypes, JobsHold
  <2>3. j.load \in 1 .. load /\ (j.load = load => n = j.conn)
    BY <2>1, <2>2 DEF JobHolds
  <2>4. load = Len(trees) /\ load \in DOMAIN trees
    BY <2>2 DEF load
  <2> QED
    BY <2>1, <2>2, <2>3, <2>4 DEF Job
<1>2. trees[load] \in Trees /\ trees[j.load] \in Trees
  BY <1>1
<1> HIDE DEF j, n
<1>3. trees[j.load][j.conn] \in Tree /\ trees[load][n] \in Tree
  BY <1>1, <1>2 DEF Trees
<1>4. Added(j) \in Tree
  BY <1>3 DEF Added, Tree
<1>5. new \in Trees
  BY <1>1, <1>2, <1>4 DEF Trees
<1>6. new[n] = Added(j) /\ \A m \in Name \ {n} : new[m] = trees[load][m]
  BY <1>1, <1>2 DEF Trees
<1>7. Databases(j) = [trees EXCEPT ![load] = new]
  BY <1>1 DEF Databases, j, n
<1> HIDE DEF new
<1>8. /\ Databases(j) \in Seq(Trees) /\ Len(Databases(j)) = load /\ Databases(j)[load] = new
  BY <1>1, <1>5, <1>7, ExceptSeq
<1>9. ASSUME j.load = load PROVE Keeps(Databases(j))
  <2>1. n = j.conn
    BY <1>1, <1>9
  <2>2. \A d \in DB : Added(j)[d] = IF trees[load][n][d] = "absent" /\ d \in databases[n]
                                    THEN "bare" ELSE trees[load][n][d]
    BY <1>9, <2>1 DEF Added
  <2>3. Grows(trees[load][n], new[n]) /\ Keys(new[n]) \ Keys(trees[load][n]) \subseteq databases[n]
    BY <1>6, <2>2 DEF Grows, Keys
  <2>4. ASSUME NEW m \in Name \ {n}
        PROVE  Grows(trees[load][m], new[m]) /\ Keys(new[m]) \ Keys(trees[load][m]) \subseteq databases[m]
    BY <1>6, <2>4 DEF Grows, Keys
  <2> QED
    BY <1>8, <2>3, <2>4 DEF Keeps
<1> QED
  BY <1>8, <1>9 DEF Late, j, Asks

\* The answer for the schemata of a database, as it is stored.
LEMMA SchemataStored ==
  ASSUME IInv, NEW k \in DOMAIN jobs, NEW d \in jobs[k].wait, Stores(jobs[k], d)
  PROVE  LET ts == [trees EXCEPT ![load][jobs[k].conn][d] = "full"] IN
           ts \in Seq(Trees) /\ Len(ts) = load /\ Keeps(ts)
<1> DEFINE n == jobs[k].conn
           tree == [trees[load][n] EXCEPT ![d] = "full"]
           new == [trees[load] EXCEPT ![n] = tree]
           ts == [trees EXCEPT ![load][n][d] = "full"]
<1>1. /\ n \in Name /\ d \in DB /\ trees \in Seq(Trees) /\ load = Len(trees) /\ load \in DOMAIN trees
      /\ trees[load][n][d] # "absent"
  <2>1. Listed(n) /\ trees[load][n][d] # "absent"
    BY DEF Stores
  <2>2. list \in Seq(Name) /\ trees \in Seq(Trees) /\ (list # <<>> => trees # <<>>)
    BY DEF IInv, WindowTypes, JobsHold
  <2>3. n \in Name /\ list # <<>>
    BY <2>1, <2>2, ListedHere DEF Listed
  <2>4. d \in DB
    BY JobsHere DEF Job
  <2> QED
    BY <2>1, <2>2, <2>3, <2>4 DEF load
<1> HIDE DEF n
<1>2. trees[load] \in Trees /\ trees[load][n] \in Tree
  BY <1>1 DEF Trees
<1>3. tree \in Tree /\ tree[d] = "full" /\ \A c \in DB \ {d} : tree[c] = trees[load][n][c]
  BY <1>1, <1>2 DEF Tree
<1>4. ts = [trees EXCEPT ![load] = new]
  BY <1>1, <1>2 DEF Trees, Tree
<1> HIDE DEF tree
<1>5. new \in Trees /\ new[n] = tree /\ \A m \in Name \ {n} : new[m] = trees[load][m]
  BY <1>1, <1>2, <1>3 DEF Trees
<1> HIDE DEF new, ts
<1>6. ts \in Seq(Trees) /\ Len(ts) = load /\ ts[load] = new
  BY <1>1, <1>4, <1>5, ExceptSeq
<1>7. Grows(trees[load][n], new[n]) /\ Keys(new[n]) \ Keys(trees[load][n]) \subseteq databases[n]
  BY <1>1, <1>3, <1>5 DEF Grows, Keys
<1>8. ASSUME NEW m \in Name \ {n}
      PROVE  Grows(trees[load][m], new[m]) /\ Keys(new[m]) \ Keys(trees[load][m]) \subseteq databases[m]
  BY <1>5, <1>8 DEF Grows, Keys
<1>9. Keeps(ts)
  BY <1>6, <1>7, <1>8 DEF Keeps
<1> QED
  BY <1>6, <1>9 DEF ts, n

\* An answer that is stored has the panel drawn again, and nothing else of it.
LEMMA StoredPanel ==
  ASSUME IInv, UNCHANGED <<list, selected, boot, chooser>>, trees' \in Seq(Trees), Len(trees') = load,
         panel' = Refreshed(panel) \/ (panel' = panel /\ trees' = trees)
  PROVE  /\ BootHolds' /\ ShownHolds' /\ NameShown' /\ PanelNotified' /\ PanelFresh'
         /\ panel' \in PanelRecord /\ panel'.mount = panel.mount /\ panel'.on = panel.on
         /\ load' = load /\ (list' # <<>> => trees' # <<>>) /\ (Due' <=> Due)
<1>1. /\ panel' \in PanelRecord /\ panel'.mount = panel.mount /\ panel'.on = panel.on
      /\ panel'.timers = panel.timers /\ panel'.shown = panel.shown
      /\ (panel'.due = panel.on \/ (panel' = panel /\ trees' = trees))
  <2>1. panel \in PanelRecord /\ panel.on \in BOOLEAN /\ panel.mount \in Nat /\ panel.shown \in ShownRecord
    BY DEF IInv, WindowTypes, PanelRecord
  <2>2. PanelIs([panel EXCEPT !.due = panel.on], panel.on, panel.mount, panel.timers, panel.on, panel.shown)
    BY <2>1, PanelRecords
  <2>3. PanelIs(Refreshed(panel), panel.on, panel.mount, panel.timers, panel.on, panel.shown)
    BY <2>2 DEF Refreshed
  <2> QED
    BY <2>1, <2>3 DEF PanelIs
<1>2. load' = load /\ (list' # <<>> => trees' # <<>>) /\ (Due' <=> Due)
  <2>1. trees # <<>> /\ trees \in Seq(Trees) => trees' # <<>>
    BY DEF load
  <2> QED
    BY <2>1 DEF IInv, WindowTypes, JobsHold, load, Due, Listed
<1>3. BootHolds'
  BY <1>1 DEF IInv, BootHolds, Listed
<1>4. ShownHolds' /\ NameShown' /\ PanelNotified'
  BY <1>1, <1>2 DEF IInv, PanelHolds, ShownHolds, NameShown, PanelNotified, Listed
<1>5. PanelFresh'
  BY <1>1, <1>2 DEF IInv, PanelHolds, PanelFresh, Listed
<1> QED
  BY <1>1, <1>2, <1>3, <1>4, <1>5

\* What a step does to the trees.
StepKeeps == (load' = load /\ \A k \in DOMAIN jobs : ~Late(jobs[k])) => Keeps(trees')

LEMMA JobGoesOn ==
  ASSUME IInv, NEW k \in DOMAIN jobs, Asks(jobs[k]),
         NEW ts \in Seq(Trees), Len(ts) = load
  PROVE  LET j   == jobs[k]
             new == IF j.at = "databases" THEN AllSchemata(j, ts) ELSE AskSchemata(j, ts[j.load][j.conn])
         IN  JobHolds(new, list, load, panel.mount) /\ Same(new, j)
<1> DEFINE j == jobs[k]
<1>1. /\ j \in Job /\ j.mount <= panel.mount /\ j.wait = {} /\ j.load \in 1 .. load /\ j.conn \in Name
      /\ load \in Nat /\ panel.mount \in Nat
  BY JobsHere DEF JobHolds, Asks, Job
<1>2. list # <<>> => ts # <<>>
  <2>1. list # <<>> => load # 0
    BY DEF IInv, JobsHold, WindowTypes, load
  <2> QED
    BY <2>1
<1> HIDE DEF j
<1>3. JobHolds(AllSchemata(j, ts), list, load, panel.mount) /\ Same(AllSchemata(j, ts), j)
  BY <1>1, <1>2, AllAsked
<1>4. ts[j.load][j.conn] \in Tree
  <2>1. ts[j.load] \in Trees
    BY <1>1
  <2> QED
    BY <1>1, <2>1 DEF Trees
<1>5. /\ JobHolds(AskSchemata(j, ts[j.load][j.conn]), list, load, panel.mount)
      /\ Same(AskSchemata(j, ts[j.load][j.conn]), j)
  BY <1>1, <1>4, SchemataAsked
<1> QED
  BY <1>3, <1>5 DEF j

LEMMA AnswerDatabasesSteps ==
  ASSUME IInv, NEW k \in DOMAIN jobs, AnswerDatabases(k)
  PROVE  IInv' /\ StepKeeps
<1> DEFINE j == jobs[k]
           next == IF j.at = "databases" THEN AllSchemata(j, trees') ELSE AskSchemata(j, trees'[j.load][j.conn])
<1>1. /\ Asks(j)
      /\ \/ j.index \in DOMAIN list /\ trees' = Databases(j) /\ panel' = Refreshed(panel)
         \/ trees' = trees /\ panel' = panel
      /\ jobs' = IF j.by = "plain" THEN RemoveAt(jobs, k) ELSE [jobs EXCEPT ![k] = next]
      /\ UNCHANGED <<list, selected, remembered, loading, boot, chooser, moves>>
  BY DEF AnswerDatabases, Asks
<1>2. /\ trees' \in Seq(Trees) /\ Len(trees') = load
      /\ (trees' = trees \/ (~Late(j) => Keeps(trees')))
  <2>1. trees \in Seq(Trees) /\ Len(trees) = load
    BY DEF IInv, WindowTypes, load
  <2> QED
    BY <1>1, <2>1, DatabasesStored
<1>3. /\ BootHolds' /\ ShownHolds' /\ NameShown' /\ PanelNotified' /\ PanelFresh'
      /\ panel' \in PanelRecord /\ panel'.mount = panel.mount /\ panel'.on = panel.on
      /\ load' = load /\ (list' # <<>> => trees' # <<>>) /\ (Due' <=> Due)
  BY <1>1, <1>2, StoredPanel
<1>4. JobHolds(next, list, load, panel.mount) /\ Same(next, j)
  BY <1>1, <1>2, JobGoesOn
<1> HIDE DEF next
<1>5. JobsGoOn(jobs') /\ AllHold(jobs', list, load, panel.mount)
  <2>1. CASE j.by = "plain"
    BY <1>1, <2>1, JobRemoved, JobsHere DEF AllHold
  <2>2. CASE j.by # "plain"
    BY <1>1, <1>4, <2>2, JobReplaced DEF IInv, JobsHold
  <2> QED
    BY <2>1, <2>2
<1>6. NameAsked' /\ SpinnerServes'
  BY <1>1, <1>3, <1>5, JobsFollow
<1>7. JobsHold'
  BY <1>1, <1>3, <1>5 DEF JobsHold, JobsGoOn
<1>8. WindowTypes'
  BY <1>1, <1>2, <1>3 DEF IInv, WindowTypes
<1>9. StepKeeps
  BY <1>2, KeepsSame DEF StepKeeps
<1> QED
  BY <1>3, <1>6, <1>7, <1>8, <1>9 DEF IInv, PanelHolds

LEMMA AnswerSchemataSteps ==
  ASSUME IInv, NEW k \in DOMAIN jobs, AnswerSchemata(k)
  PROVE  IInv' /\ StepKeeps
<1>1. PICK d \in jobs[k].wait, ok \in BOOLEAN :
        LET stored == ok /\ Stores(jobs[k], d) IN
          /\ trees' = IF stored THEN [trees EXCEPT ![load][jobs[k].conn][d] = "full"] ELSE trees
          /\ panel' = IF stored THEN Refreshed(panel) ELSE panel
          /\ jobs' = [jobs EXCEPT ![k].wait = jobs[k].wait \ {d},
                                  ![k].at = IF jobs[k].wait = {d} THEN "end" ELSE jobs[k].at]
          /\ UNCHANGED <<list, selected, remembered, loading, boot, chooser, moves>>
  BY DEF AnswerSchemata
<1> DEFINE j == [jobs[k] EXCEPT !.wait = jobs[k].wait \ {d},
                                !.at = IF jobs[k].wait = {d} THEN "end" ELSE jobs[k].at]
<1>2. UNCHANGED <<list, selected, remembered, loading, boot, chooser, moves>>
  BY <1>1
<1>3. /\ trees' \in Seq(Trees) /\ Len(trees') = load /\ Keeps(trees')
      /\ panel' = Refreshed(panel) \/ (panel' = panel /\ trees' = trees)
  <2>1. CASE ok /\ Stores(jobs[k], d)
    BY <1>1, <2>1, SchemataStored
  <2>2. CASE ~(ok /\ Stores(jobs[k], d))
    <3>1. trees' = trees /\ panel' = panel
      BY <1>1, <2>2
    <3>2. trees \in Seq(Trees) /\ Len(trees) = load
      BY DEF IInv, WindowTypes, load
    <3> QED
      BY <3>1, <3>2, KeepsSame
  <2> QED
    BY <2>1, <2>2
<1>4. /\ BootHolds' /\ ShownHolds' /\ NameShown' /\ PanelNotified' /\ PanelFresh'
      /\ panel' \in PanelRecord /\ panel'.mount = panel.mount /\ panel'.on = panel.on
      /\ load' = load /\ (list' # <<>> => trees' # <<>>) /\ (Due' <=> Due)
  BY <1>2, <1>3, StoredPanel
<1>5. jobs' = [jobs EXCEPT ![k] = j]
  BY <1>1, JobsHere
<1>6. JobHolds(j, list, load, panel.mount) /\ Same(j, jobs[k])
  <2>1. jobs[k] \in Job /\ JobHolds(jobs[k], list, load, panel.mount) /\ jobs[k].at = "schemata"
    BY JobsHere DEF JobHolds
  <2>2. /\ j \in Job /\ j.wait = jobs[k].wait \ {d}
        /\ j.at = (IF jobs[k].wait = {d} THEN "end" ELSE "schemata")
        /\ j.by = jobs[k].by /\ j.conn = jobs[k].conn /\ j.mount = jobs[k].mount
        /\ j.load = jobs[k].load
    BY <2>1 DEF Job
  <2> HIDE DEF j
  <2> QED
    BY <2>1, <2>2 DEF JobHolds, Same, Asks
<1> HIDE DEF j
<1>7. JobsGoOn(jobs') /\ AllHold(jobs', list, load, panel.mount)
  BY <1>5, <1>6, JobReplaced DEF IInv, JobsHold
<1>8. NameAsked' /\ SpinnerServes'
  BY <1>2, <1>4, <1>7, JobsFollow
<1>9. JobsHold'
  BY <1>2, <1>4, <1>7 DEF JobsHold, JobsGoOn
<1>10. WindowTypes'
  BY <1>2, <1>3, <1>4 DEF IInv, WindowTypes
<1>11. StepKeeps
  BY <1>3 DEF StepKeeps
<1> QED
  BY <1>4, <1>8, <1>9, <1>10, <1>11 DEF IInv, PanelHolds

LEMMA EndSteps == ASSUME IInv, NEW k \in DOMAIN jobs, End(k) PROVE IInv' /\ trees' = trees
<1> DEFINE j == jobs[k]
           s == View(j.conn, trees)
<1>1. /\ loading' = SpinnerAfter(j)
      /\ panel' = IF j.by = "panel" /\ Reaches(j) THEN [panel EXCEPT !.shown = s] ELSE panel
      /\ jobs' = RemoveAt(jobs, k)
      /\ UNCHANGED <<list, trees, selected, remembered, boot, chooser, moves>>
  BY DEF End
<1>2. /\ j \in Job /\ j.conn \in Names /\ panel \in PanelRecord
      /\ panel.mount \in Nat /\ panel.on \in BOOLEAN /\ load' = load
  BY <1>1, JobsHere DEF IInv, WindowTypes, PanelRecord, Job, Names, load
<1>3. /\ s \in ShownRecord /\ s.load = load /\ s.name \in {j.conn, Nothing}
      /\ Listed(j.conn) => s.name = j.conn /\ s.tree = trees[load][j.conn]
      /\ s.name = Nothing => s.tree = Bare
  BY <1>2, ViewedNow
<1> HIDE DEF s
<1>4. /\ panel' \in PanelRecord /\ panel'.on = panel.on /\ panel'.mount = panel.mount
      /\ panel'.timers = panel.timers /\ panel'.due = panel.due
      /\ \/ panel' = panel
         \/ j.by = "panel" /\ panel.on /\ j.mount = panel.mount /\ panel'.shown = s
  <2>1. PanelIs([panel EXCEPT !.shown = s], panel.on, panel.mount, panel.timers, panel.due, s)
    BY <1>2, <1>3, PanelRecords
  <2> QED
    BY <1>1, <1>2, <2>1 DEF PanelIs, Reaches
<1>5. /\ jobs' \in Seq(Job) /\ (j.by = "plain" => JobsGoOn(jobs'))
      /\ \A i \in DOMAIN jobs' : \E m \in DOMAIN jobs : jobs'[i] = jobs[m]
  BY <1>1, JobRemoved
<1>6. JobsHold'
  <2>1. AllHold(jobs', list, load, panel.mount)
    BY <1>5, JobsHere DEF AllHold
  <2> QED
    BY <1>1, <1>2, <1>4, <1>5, <2>1 DEF IInv, JobsHold
<1>7. loading' \in {"off", "on", "restored", "stranded"}
      /\ (loading' = "on" => loading = "on" /\ j.by = "plain")
  BY <1>1, <1>2 DEF SpinnerAfter, Job, IInv, WindowTypes
<1>8. WindowTypes'
  BY <1>1, <1>4, <1>7 DEF IInv, WindowTypes
<1>9. SpinnerServes'
  BY <1>5, <1>7 DEF IInv, SpinnerServes, JobsGoOn
<1>10. (Due' <=> Due) /\ (Listed(selected)' <=> Listed(selected))
  BY <1>1 DEF Due, Listed
<1>11. NameAsked'
  <2> SUFFICES ASSUME panel'.on, Due', NEW i \in DOMAIN jobs',
                      jobs'[i].by = "panel", jobs'[i].mount = panel'.mount
               PROVE  jobs'[i].conn = selected'
    BY DEF NameAsked
  <2>1. PICK m \in DOMAIN jobs : jobs'[i] = jobs[m]
    BY <1>5
  <2> QED
    BY <1>1, <1>4, <1>10, <2>1 DEF IInv, PanelHolds, NameAsked
<1>12. BootHolds'
  BY <1>1, <1>4, <1>10 DEF IInv, BootHolds
<1>13. CASE panel' = panel
  BY <1>1, <1>6, <1>8, <1>9, <1>11, <1>13, PanelStays DEF IInv, PanelHolds
<1>14. CASE j.by = "panel" /\ panel.on /\ j.mount = panel.mount /\ panel'.shown = s
  <2>1. Due => j.conn = selected
    BY <1>14 DEF IInv, PanelHolds, NameAsked
  <2>2. ShownHolds'
    BY <1>2, <1>3, <1>14, JobsHere DEF ShownHolds
  <2>3. NameShown'
    BY <1>1, <1>3, <1>10, <1>14, <2>1 DEF NameShown
  <2>4. PanelNotified' /\ PanelFresh'
    BY <1>1, <1>2, <1>3, <1>4, <1>10, <1>14, <2>1 DEF PanelNotified, PanelFresh, Due
  <2> QED
    BY <1>1, <1>6, <1>8, <1>9, <1>11, <1>12, <2>2, <2>3, <2>4 DEF IInv, PanelHolds
<1> QED
  BY <1>4, <1>13, <1>14

-----------------------------------------------------------------------------
(* The steps of the panel, the choosers and Init.                          *)

\* The loads are as they were; the list may be gone, and the panel a new one.
LEMMA JobsRest ==
  ASSUME IInv, list' \in {list, <<>>}, UNCHANGED <<trees, jobs>>, panel'.on => selected' = selected,
         panel'.mount \in Nat, panel'.mount >= panel.mount,
         panel'.on /\ Due' => (panel.on /\ Due) \/ panel'.mount > panel.mount,
         loading' = "on" => loading = "on"
  PROVE  JobsHold' /\ NameAsked' /\ SpinnerServes'
<1>1. load' = load /\ load \in Nat /\ panel.mount \in Nat
  BY JobsHere DEF load
<1>2. AllHold(jobs', list', load', panel'.mount)
  <2> SUFFICES ASSUME NEW k \in DOMAIN jobs PROVE JobHolds(jobs[k], list', load', panel'.mount)
    BY DEF AllHold
  <2>1. JobHolds(jobs[k], list, load, panel.mount)
    BY JobsHere
  <2> QED
    BY <1>1, <2>1, JobStays
<1>3. JobsHold'
  BY <1>2 DEF IInv, JobsHold
<1>4. NameAsked'
  <2> SUFFICES ASSUME panel'.on, Due', NEW i \in DOMAIN jobs,
                      jobs[i].by = "panel", jobs[i].mount = panel'.mount
               PROVE  jobs[i].conn = selected'
    BY DEF NameAsked
  <2>1. jobs[i].mount <= panel.mount /\ jobs[i].mount \in Nat
    BY JobsHere DEF JobHolds, Job
  <2> QED
    BY <1>1, <2>1 DEF IInv, PanelHolds, NameAsked
<1>5. SpinnerServes'
  BY DEF IInv, SpinnerServes
<1> QED
  BY <1>3, <1>4, <1>5

\* A load was started.
LEMMA JobsCome ==
  ASSUME IInv, NEW j, JobHolds(j, list, load, panel.mount), jobs' = Append(jobs, j),
         UNCHANGED <<list, trees>>, panel'.on => selected' = selected,
         panel'.mount \in Nat, panel'.mount >= panel.mount,
         panel'.on /\ Due' => (panel.on /\ Due) \/ panel'.mount > panel.mount,
         j.by = "panel" /\ Due' => j.conn = selected,
         loading' = "on" => loading = "on" \/ j.by # "plain"
  PROVE  JobsHold' /\ NameAsked' /\ SpinnerServes'
<1>1. load' = load /\ load \in Nat /\ panel.mount \in Nat
  BY JobsHere DEF load
<1>2. /\ jobs' \in Seq(Job)
      /\ \A i \in DOMAIN jobs' : jobs'[i] = j \/ \E k \in DOMAIN jobs : jobs'[i] = jobs[k]
      /\ \A k \in DOMAIN jobs : \E i \in DOMAIN jobs' : jobs'[i] = jobs[k]
      /\ \E i \in DOMAIN jobs' : jobs'[i] = j
  BY JobAdded DEF JobHolds
<1>3. \A i \in DOMAIN jobs' : JobHolds(jobs'[i], list, load, panel.mount)
  BY <1>2, JobsHere
<1>4. JobsHold'
  <2>1. AllHold(jobs', list', load', panel'.mount)
    BY <1>1, <1>3, JobStays DEF AllHold
  <2> QED
    BY <1>2, <2>1 DEF IInv, JobsHold
<1>5. NameAsked'
  <2> SUFFICES ASSUME panel'.on, Due', NEW i \in DOMAIN jobs',
                      jobs'[i].by = "panel", jobs'[i].mount = panel'.mount
               PROVE  jobs'[i].conn = selected
    BY DEF NameAsked
  <2>1. jobs'[i].mount <= panel.mount /\ jobs'[i].mount \in Nat
    BY <1>3 DEF JobHolds, Job
  <2>2. CASE jobs'[i] = j
    BY <2>2
  <2>3. CASE \E k \in DOMAIN jobs : jobs'[i] = jobs[k]
    BY <1>1, <2>1, <2>3 DEF IInv, PanelHolds, NameAsked
  <2> QED
    BY <1>2, <2>2, <2>3
<1>6. SpinnerServes'
  BY <1>2 DEF IInv, SpinnerServes
<1> QED
  BY <1>4, <1>5, <1>6

\* The panel shows something else.
LEMMA PanelShows ==
  ASSUME IInv, UNCHANGED <<list, trees, selected>>, NEW s \in ShownRecord, panel'.shown = s,
         s.load <= load, s.name = Nothing => s.tree = Bare,
         panel'.on /\ Due' => s.name \in {selected, Nothing},
         Listed(selected) => s.name = selected /\ s.tree = trees[load][selected]
  PROVE  ShownHolds' /\ NameShown' /\ PanelNotified' /\ PanelFresh'
<1>1. load' = load /\ (Listed(selected)' <=> Listed(selected))
  BY DEF load, Listed
<1>2. ShownHolds'
  BY <1>1 DEF ShownHolds
<1>3. NameShown'
  BY DEF NameShown
<1>4. PanelNotified' /\ PanelFresh'
  BY <1>1 DEF PanelNotified, PanelFresh
<1> QED
  BY <1>2, <1>3, <1>4

\* Drawn again or mounted, the panel shows the selected connection, or nothing
\* while Init runs.
LEMMA PanelAnew ==
  ASSUME IInv, UNCHANGED <<list, trees, selected>>, NEW s, ShowsAnew(s), panel'.shown = s,
         boot'.at # "done" => list = <<>> \/ Listed(selected)
  PROVE  ShownHolds' /\ NameShown' /\ PanelNotified' /\ PanelFresh'
<1>1. Due' => list = <<>> \/ Listed(selected)
  BY DEF Due, Listed
<1>2. /\ s \in ShownRecord /\ s.load <= load /\ (s.name = Nothing => s.tree = Bare)
      /\ (Due' => s.name \in {selected, Nothing})
      /\ (Listed(selected) => s.name = selected /\ s.tree = trees[load][selected])
  BY <1>1 DEF ShowsAnew
<1> QED
  BY <1>2, PanelShows

LEMMA NewJobIs ==
  ASSUME IInv, NEW by \in {"panel", "init", "menu", "plain"}, NEW n \in Name
  PROVE  /\ NewJob(by, n) \in Job /\ NewJob(by, n).mount <= panel.mount /\ NewJob(by, n).wait = {}
         /\ NewJob(by, n).by = by /\ NewJob(by, n).conn = n
<1> DEFINE j == NewJob(by, n)
<1>1. panel.mount \in Nat
  BY JobsHere
<1>2. /\ j \in Job /\ j.mount = panel.mount /\ j.wait = {} /\ j.by = by /\ j.conn = n
  BY <1>1 DEF NewJob, Job
<1> QED
  BY <1>1, <1>2

\* A chooser asks for the databases of a connection, or does not.
LEMMA Asking ==
  ASSUME IInv, NEW n \in Names, AskIfBare(n),
         UNCHANGED <<list, trees, loading>>, panel'.on => selected' = selected,
         panel'.mount \in Nat, panel'.mount >= panel.mount,
         panel'.on /\ Due' => (panel.on /\ Due) \/ panel'.mount > panel.mount
  PROVE  JobsHold' /\ NameAsked' /\ SpinnerServes'
<1>1. CASE jobs' = jobs
  BY <1>1, JobsRest
<1>2. CASE Listed(n) /\ jobs' = Append(jobs, AskDatabases(NewJob("plain", n), "databases"))
  <2> DEFINE j == NewJob("plain", n)
  <2>1. n \in Name
    BY <1>2, ListedHere DEF IInv, WindowTypes, Listed
  <2>2. j \in Job /\ j.mount <= panel.mount /\ j.wait = {} /\ j.by = "plain"
    BY <2>1, NewJobIs
  <2> HIDE DEF j
  <2>3. /\ JobHolds(AskDatabases(j, "databases"), list, load, panel.mount)
        /\ AskDatabases(j, "databases").by = "plain"
    BY <2>2, AskedHolds DEF Same
  <2> QED
    BY <1>2, <2>3, JobsCome DEF j
<1> QED
  BY <1>1, <1>2 DEF AskIfBare

LEMMA BootStays ==
  ASSUME IInv, UNCHANGED <<list, selected, boot, chooser>>, panel'.on => panel.on
  PROVE  BootHolds' /\ (Due' <=> Due)
BY DEF IInv, BootHolds, Due, Listed

LEMMA LeavePanelSteps == ASSUME IInv, LeavePanel PROVE IInv' /\ trees' = trees
<1>1. /\ panel' = Left(panel) /\ moves < MaxMoves /\ moves' = moves + 1
      /\ UNCHANGED <<list, trees, selected, remembered, loading, boot, chooser, jobs>>
  BY DEF LeavePanel, Act
<1>2. PanelIs(panel', FALSE, panel.mount, 0, FALSE, panel.shown)
  <2>1. panel \in PanelRecord /\ panel.shown \in ShownRecord /\ 0 \in Nat /\ FALSE \in BOOLEAN
    BY DEF IInv, WindowTypes, PanelRecord
  <2> QED
    BY <1>1, <2>1, PanelRecords
<1>3. panel'.on = FALSE /\ panel'.mount = panel.mount /\ panel'.shown = panel.shown /\ panel' \in PanelRecord
  BY <1>2 DEF PanelIs
<1>4. JobsHold' /\ NameAsked' /\ SpinnerServes'
  BY <1>1, <1>3, JobsRest, JobsHere
<1>5. BootHolds'
  BY <1>1, <1>3, BootStays
<1>6. ShownHolds' /\ NameShown' /\ PanelNotified' /\ PanelFresh'
  BY <1>1, <1>3 DEF IInv, PanelHolds, ShownHolds, NameShown, PanelNotified, PanelFresh, load
<1>7. WindowTypes'
  BY <1>1, <1>3, BoundsAssumption DEF IInv, WindowTypes
<1> QED
  BY <1>1, <1>4, <1>5, <1>6, <1>7 DEF IInv, PanelHolds

LEMMA RefreshEffectSteps == ASSUME IInv, RefreshEffect PROVE IInv' /\ trees' = trees
<1>1. /\ panel' = [Redrawn(panel) EXCEPT !.due = FALSE]
      /\ UNCHANGED <<list, trees, selected, remembered, loading, boot, chooser, jobs, moves>>
  BY DEF RefreshEffect
<1>2. panel \in PanelRecord /\ panel.shown \in ShownRecord /\ 0 \in Nat /\ FALSE \in BOOLEAN
      /\ list \in Seq(Name) /\ panel.mount \in Nat
  BY DEF IInv, WindowTypes, PanelRecord
<1>3. ASSUME PanelIs(panel', panel.on, panel.mount, panel.timers, FALSE, panel'.shown),
             ShownHolds' /\ NameShown' /\ PanelNotified' /\ PanelFresh'
      PROVE  IInv'
  <2>1. panel' \in PanelRecord /\ panel'.on = panel.on /\ panel'.mount = panel.mount
    BY <1>3 DEF PanelIs
  <2>2. BootHolds' /\ (Due' <=> Due)
    BY <1>1, <2>1, BootStays
  <2>3. JobsHold' /\ NameAsked' /\ SpinnerServes'
    BY <1>1, <1>2, <2>1, <2>2, JobsRest
  <2>4. WindowTypes'
    BY <1>1, <2>1 DEF IInv, WindowTypes
  <2> QED
    BY <1>3, <2>2, <2>3, <2>4 DEF IInv, PanelHolds
<1>4. CASE list = <<>>
  <2>1. PanelIs(panel', panel.on, panel.mount, panel.timers, FALSE, panel.shown)
    BY <1>1, <1>2, <1>4, PanelRecords DEF Redrawn
  <2>2. /\ panel'.on = panel.on /\ panel'.shown = panel.shown
        /\ PanelIs(panel', panel.on, panel.mount, panel.timers, FALSE, panel'.shown)
    BY <2>1 DEF PanelIs
  <2>3. ~Listed(selected)' /\ load' = load /\ (Due' <=> Due)
    BY <1>1, <1>2, <1>4, ListedHere DEF Listed, load, Due
  <2>4. ShownHolds' /\ NameShown' /\ PanelNotified' /\ PanelFresh'
    BY <1>1, <2>2, <2>3 DEF IInv, PanelHolds, ShownHolds, NameShown, PanelNotified, PanelFresh
  <2> QED
    BY <1>1, <1>3, <2>2, <2>4
<1>5. CASE list # <<>>
  <2> DEFINE s == View(Preferred, trees)
             p == [panel EXCEPT !.shown = s]
  <2>1. ShowsAnew(s) /\ s \in ShownRecord
    BY <1>5, ViewsAnew DEF ShowsAnew
  <2> HIDE DEF s
  <2>2. PanelIs(p, panel.on, panel.mount, panel.timers, panel.due, s)
    BY <1>2, <2>1, PanelRecords
  <2> HIDE DEF p
  <2>3. PanelIs([p EXCEPT !.due = FALSE], p.on, p.mount, p.timers, FALSE, p.shown)
    BY <1>2, <2>2, PanelRecords DEF PanelIs
  <2>4. panel' = [p EXCEPT !.due = FALSE]
    BY <1>1, <1>5 DEF Redrawn, p, s
  <2>5. PanelIs(panel', panel.on, panel.mount, panel.timers, FALSE, panel'.shown) /\ panel'.shown = s
    BY <2>2, <2>3, <2>4 DEF PanelIs
  <2>6. boot'.at # "done" => list = <<>> \/ Listed(selected)
    BY <1>1 DEF IInv, BootHolds, WindowTypes, BootRecord
  <2>7. ShownHolds' /\ NameShown' /\ PanelNotified' /\ PanelFresh'
    BY <1>1, <2>1, <2>5, <2>6, PanelAnew
  <2> QED
    BY <1>1, <1>3, <2>5, <2>7
<1> QED
  BY <1>1, <1>4, <1>5

\* A mount, after the panel was left or a chooser was closed.
LEMMA MountSteps ==
  ASSUME IInv, panel' = Mount, ~chooser', UNCHANGED <<list, trees, selected>>,
         boot'.at # "done" => list = <<>> \/ Listed(selected),
         boot'.at = "connections" => list = <<>>
  PROVE  /\ panel' \in PanelRecord /\ panel'.mount \in Nat /\ panel'.mount > panel.mount
         /\ BootHolds' /\ ShownHolds' /\ NameShown' /\ PanelNotified' /\ PanelFresh'
<1>1. PICK s : ShowsAnew(s) /\ PanelIs(panel', TRUE, panel.mount + 1, 1, FALSE, s)
  BY MountIs
<1>2. panel' \in PanelRecord /\ panel'.mount = panel.mount + 1 /\ panel'.shown = s
  BY <1>1 DEF PanelIs
<1>3. ShownHolds' /\ NameShown' /\ PanelNotified' /\ PanelFresh'
  BY <1>1, <1>2, PanelAnew
<1>4. BootHolds'
  BY DEF BootHolds, Listed
<1> QED
  BY <1>2, <1>3, <1>4, JobsHere

LEMMA ReturnToPanelSteps == ASSUME IInv, ReturnToPanel PROVE IInv' /\ trees' = trees
<1>1. /\ ~chooser /\ panel' = Mount
      /\ UNCHANGED <<list, trees, selected, remembered, loading, boot, chooser, jobs, moves>>
  BY DEF ReturnToPanel
<1>2. /\ boot'.at # "done" => list = <<>> \/ Listed(selected)
      /\ boot'.at = "connections" => list = <<>>
  BY <1>1 DEF IInv, BootHolds, WindowTypes, BootRecord
<1>3. /\ panel' \in PanelRecord /\ panel'.mount \in Nat /\ panel'.mount > panel.mount
      /\ BootHolds' /\ ShownHolds' /\ NameShown' /\ PanelNotified' /\ PanelFresh'
  BY <1>1, <1>2, MountSteps
<1>4. JobsHold' /\ NameAsked' /\ SpinnerServes'
  BY <1>1, <1>3, JobsHere, JobsRest
<1>5. WindowTypes'
  BY <1>1, <1>3 DEF IInv, WindowTypes
<1> QED
  BY <1>1, <1>3, <1>4, <1>5 DEF IInv, PanelHolds

LEMMA CloseSteps ==
  ASSUME IInv, Close, \/ selected # Nothing /\ boot' = [at |-> "state", tries |-> 0]
                      \/ UNCHANGED boot
  PROVE  IInv' /\ trees' = trees
<1>1. /\ chooser /\ chooser' = FALSE /\ panel' = Mount /\ AskIfBare(selected)
      /\ UNCHANGED <<list, trees, selected, remembered, loading, moves>>
  BY DEF Close
<1>2. boot.at = "done" /\ (selected = Nothing \/ Listed(selected)) /\ selected \in Names
  BY <1>1 DEF IInv, BootHolds, WindowTypes
<1>3. boot' \in BootRecord /\ (boot'.at = "done" \/ (boot'.at = "state" /\ Listed(selected)))
  <2>1. CASE UNCHANGED boot
    BY <1>2, <2>1 DEF IInv, WindowTypes
  <2>2. CASE selected # Nothing /\ boot' = [at |-> "state", tries |-> 0]
    BY <1>2, <2>2, BoundsAssumption DEF BootRecord
  <2> QED
    BY <2>1, <2>2
<1>4. /\ panel' \in PanelRecord /\ panel'.mount \in Nat /\ panel'.mount > panel.mount
      /\ BootHolds' /\ ShownHolds' /\ NameShown' /\ PanelNotified' /\ PanelFresh'
  BY <1>1, <1>3, MountSteps
<1>5. JobsHold' /\ NameAsked' /\ SpinnerServes'
  BY <1>1, <1>2, <1>4, JobsHere, Asking
<1>6. WindowTypes'
  BY <1>1, <1>3, <1>4 DEF IInv, WindowTypes
<1> QED
  BY <1>1, <1>4, <1>5, <1>6 DEF IInv, PanelHolds

LEMMA ChooseSteps == ASSUME IInv, NEW n \in Name, Choose(n) PROVE IInv' /\ trees' = trees
<1>1. /\ chooser /\ Listed(n) /\ selected' = n /\ remembered' = n /\ AskIfBare(n)
      /\ UNCHANGED <<list, trees, panel, loading, boot, chooser, moves>>
  BY DEF Choose
<1>2. ~panel.on /\ boot.at = "done" /\ panel.mount \in Nat /\ n \in Names
  BY <1>1, JobsHere DEF IInv, BootHolds, Names
<1>3. JobsHold' /\ NameAsked' /\ SpinnerServes'
  BY <1>1, <1>2, Asking
<1>4. BootHolds'
  BY <1>1, <1>2 DEF BootHolds, Listed
<1>5. ShownHolds' /\ NameShown' /\ PanelNotified' /\ PanelFresh'
  BY <1>1, <1>2 DEF IInv, PanelHolds, ShownHolds, NameShown, PanelNotified, PanelFresh, load
<1>6. WindowTypes'
  BY <1>1, <1>2 DEF IInv, WindowTypes
<1> QED
  BY <1>1, <1>3, <1>4, <1>5, <1>6 DEF IInv, PanelHolds

LEMMA ShowWorksheetSteps == ASSUME IInv, ShowWorksheet PROVE IInv' /\ trees' = trees
<1>1. /\ moves < MaxMoves /\ moves' = moves + 1 /\ AskIfBare(selected)
      /\ UNCHANGED <<list, trees, selected, remembered, panel, loading, boot, chooser>>
  BY DEF ShowWorksheet, Act
<1>2. /\ BootHolds' /\ ShownHolds' /\ NameShown' /\ PanelNotified' /\ PanelFresh' /\ (Due' <=> Due)
  BY <1>1, PanelStays
<1>3. JobsHold' /\ NameAsked' /\ SpinnerServes'
  BY <1>1, <1>2, JobsHere, Asking DEF IInv, WindowTypes
<1>4. WindowTypes'
  BY <1>1, BoundsAssumption DEF IInv, WindowTypes
<1> QED
  BY <1>1, <1>2, <1>3, <1>4 DEF IInv, PanelHolds

\* loadConnection is asked for the connection that is selected, if that counts.
LEMMA LoadSteps ==
  ASSUME IInv, NEW n \in Name, NEW p \in PanelRecord, p.on = panel.on, p.mount = panel.mount,
         LoadConnection(n, p), Due => n = selected, moves' \in 0 .. MaxMoves,
         UNCHANGED <<list, trees, selected, remembered, boot, chooser>>
  PROVE  IInv'
<1> DEFINE s == View(n, trees)
           j == [NewJob("panel", n) EXCEPT !.at = "timer"]
<1>1. panel' = [p EXCEPT !.shown = s] /\ loading' = "on" /\ jobs' = Append(jobs, j)
  BY DEF LoadConnection
<1>2. /\ n \in Names /\ 0 \in Nat /\ FALSE \in BOOLEAN /\ panel.mount \in Nat
      /\ selected \in Names /\ load \in Nat
  BY JobsHere DEF Names, IInv, WindowTypes
<1>3. /\ s \in ShownRecord /\ s.load = load /\ s.name \in {n, Nothing}
      /\ Listed(n) => s.name = n /\ s.tree = trees[load][n]
      /\ s.name = Nothing => s.tree = Bare
  BY <1>2, ViewedNow
<1> HIDE DEF s
<1>4. PanelIs(panel', p.on, p.mount, p.timers, p.due, s)
  BY <1>1, <1>2, <1>3, PanelRecords
<1>5. panel' \in PanelRecord /\ panel'.on = panel.on /\ panel'.mount = panel.mount /\ panel'.shown = s
  BY <1>4 DEF PanelIs
<1>6. BootHolds' /\ (Due' <=> Due)
  BY <1>5, BootStays
<1>7. /\ panel'.on /\ Due' => s.name \in {selected, Nothing}
      /\ Listed(selected) => s.name = selected /\ s.tree = trees[load][selected]
      /\ s.load <= load
  BY <1>2, <1>3, <1>6 DEF Due
<1>8. ShownHolds' /\ NameShown' /\ PanelNotified' /\ PanelFresh'
  BY <1>3, <1>5, <1>7, PanelShows
<1>9. JobHolds(j, list, load, panel.mount) /\ j.by = "panel" /\ j.conn = n
  <2>1. /\ NewJob("panel", n) \in Job /\ NewJob("panel", n).mount <= panel.mount /\ NewJob("panel", n).wait = {}
        /\ NewJob("panel", n).by = "panel" /\ NewJob("panel", n).conn = n /\ NewJob("panel", n).load = 0
    BY NewJobIs DEF NewJob
  <2>2. /\ j \in Job /\ j.mount <= panel.mount /\ j.wait = {} /\ j.at = "timer" /\ j.load = 0
        /\ j.by = "panel" /\ j.conn = n
    BY <2>1 DEF Job
  <2> HIDE DEF j
  <2> QED
    BY <1>2, <2>2 DEF JobHolds, Asks
<1> HIDE DEF j
<1>10. JobsHold' /\ NameAsked' /\ SpinnerServes'
  BY <1>1, <1>2, <1>5, <1>6, <1>9, JobsCome
<1>11. WindowTypes'
  BY <1>1, <1>5 DEF IInv, WindowTypes
<1> QED
  BY <1>6, <1>8, <1>10, <1>11 DEF IInv, PanelHolds

LEMMA SelectTimerSteps == ASSUME IInv, SelectTimer PROVE IInv' /\ trees' = trees
<1> DEFINE p == [panel EXCEPT !.timers = @ - 1]
<1>1. /\ panel.timers > 0
      /\ \/ selected \in {Nothing, panel.shown.name} /\ panel' = p /\ UNCHANGED <<loading, jobs>>
         \/ selected \notin {Nothing, panel.shown.name} /\ LoadConnection(selected, p)
      /\ UNCHANGED <<list, trees, selected, remembered, boot, chooser, moves>>
  BY DEF SelectTimer
<1>2. panel \in PanelRecord /\ panel.timers - 1 \in Nat /\ panel.shown \in ShownRecord
      /\ panel.mount \in Nat /\ selected \in Names /\ moves \in 0 .. MaxMoves
  BY <1>1 DEF IInv, WindowTypes, PanelRecord
<1>3. PanelIs(p, panel.on, panel.mount, panel.timers - 1, panel.due, panel.shown)
  <2>1. PanelIs([panel EXCEPT !.timers = panel.timers - 1], panel.on, panel.mount,
                panel.timers - 1, panel.due, panel.shown)
    BY <1>2, PanelRecords
  <2> QED
    BY <2>1
<1> HIDE DEF p
<1>4. p \in PanelRecord /\ p.on = panel.on /\ p.mount = panel.mount
  BY <1>3 DEF PanelIs
<1>5. CASE selected \notin {Nothing, panel.shown.name}
  <2>1. selected \in Name
    BY <1>2, <1>5 DEF Names
  <2> QED
    BY <1>1, <1>2, <1>4, <1>5, <2>1, LoadSteps
<1>6. CASE selected \in {Nothing, panel.shown.name}
  <2>1. panel' = p /\ UNCHANGED <<loading, jobs>>
    BY <1>1, <1>6
  <2>2. /\ panel'.on = panel.on /\ panel'.mount = panel.mount /\ panel'.due = panel.due
        /\ panel'.shown = panel.shown /\ panel' \in PanelRecord
    BY <1>3, <2>1 DEF PanelIs
  <2>3. BootHolds' /\ (Due' <=> Due)
    BY <1>1, <2>2, BootStays
  <2>4. JobsHold' /\ NameAsked' /\ SpinnerServes'
    BY <1>1, <1>2, <2>1, <2>2, <2>3, JobsRest
  <2>5. ShownHolds' /\ NameShown' /\ PanelFresh'
    BY <1>1, <2>2, <2>3 DEF IInv, PanelHolds, ShownHolds, NameShown, PanelFresh, Listed, load
  <2>6. PanelNotified'
    <3>1. Listed(selected) => selected # Nothing
      BY ListedHere DEF IInv, WindowTypes, Listed
    <3> QED
      BY <1>1, <1>6, <2>2, <3>1 DEF PanelNotified, Listed
  <2>7. WindowTypes'
    BY <1>1, <2>1, <2>2 DEF IInv, WindowTypes
  <2> QED
    BY <1>1, <2>3, <2>4, <2>5, <2>6, <2>7 DEF IInv, PanelHolds
<1> QED
  BY <1>1, <1>5, <1>6

LEMMA RefreshAllSteps == ASSUME IInv, RefreshAll PROVE IInv' /\ trees' = trees
<1>1. /\ moves < MaxMoves /\ moves' = moves + 1 /\ panel.on /\ panel.shown.name # Nothing
      /\ LoadConnection(panel.shown.name, panel)
      /\ UNCHANGED <<list, trees, selected, remembered, boot, chooser>>
  BY DEF RefreshAll, Act
<1>2. panel \in PanelRecord /\ panel.shown.name \in Name /\ moves' \in 0 .. MaxMoves
  BY <1>1, BoundsAssumption DEF IInv, WindowTypes, PanelRecord, ShownRecord, Names
<1>3. Due => panel.shown.name = selected
  BY <1>1 DEF IInv, PanelHolds, NameShown
<1> QED
  BY <1>1, <1>2, <1>3, LoadSteps

LEMMA RefreshDatabaseSteps ==
  ASSUME IInv, NEW d \in DB, RefreshDatabase(d) PROVE IInv' /\ trees' = trees
<1> DEFINE n == panel.shown.name
           j == [NewJob("menu", n) EXCEPT !.at = "schemata", !.wait = {d}]
<1>1. /\ moves < MaxMoves /\ moves' = moves + 1 /\ d \in Keys(panel.shown.tree)
      /\ loading' = "on" /\ jobs' = Append(jobs, j)
      /\ UNCHANGED <<list, trees, selected, remembered, panel, boot, chooser>>
  BY DEF RefreshDatabase, Act
<1>2. n \in Name
  <2>1. panel.shown.tree # Bare
    BY <1>1, BareTree
  <2> QED
    BY <2>1 DEF IInv, WindowTypes, PanelRecord, ShownRecord, Names, PanelHolds, ShownHolds
<1>3. /\ BootHolds' /\ ShownHolds' /\ NameShown' /\ PanelNotified' /\ PanelFresh' /\ (Due' <=> Due)
  BY <1>1, PanelStays
<1>4. JobHolds(j, list, load, panel.mount) /\ j.by = "menu"
  <2> DEFINE i == NewJob("menu", n)
  <2>1. i \in Job /\ i.mount <= panel.mount /\ i.by = "menu" /\ i.load = 0
    BY <1>2, NewJobIs DEF NewJob
  <2> HIDE DEF i
  <2>2. /\ j = [i EXCEPT !.at = "schemata", !.wait = {d}]
    BY DEF i
  <2>3. j \in Job /\ j.mount <= panel.mount /\ j.by = "menu" /\ j.load = 0 /\ j.at = "schemata" /\ j.wait = {d}
    BY <2>1, <2>2 DEF Job
  <2> HIDE DEF j
  <2> QED
    BY <2>3, JobsHere DEF JobHolds, Asks
<1> HIDE DEF j, n
<1>5. JobsHold' /\ NameAsked' /\ SpinnerServes'
  BY <1>1, <1>3, <1>4, JobsHere, JobsCome
<1>6. WindowTypes'
  BY <1>1, BoundsAssumption DEF IInv, WindowTypes
<1> QED
  BY <1>1, <1>3, <1>5, <1>6 DEF IInv, PanelHolds

LEMMA RetrySteps == ASSUME IInv, Retry PROVE IInv' /\ trees' = trees
<1>1. /\ boot.at = "connections" /\ boot.tries < Tries /\ boot' = [boot EXCEPT !.tries = @ + 1]
      /\ UNCHANGED <<list, trees, selected, remembered, panel, loading, chooser, jobs, moves>>
  BY DEF Retry
<1>2. boot' \in BootRecord /\ boot'.at = boot.at
  BY <1>1, BoundsAssumption DEF IInv, WindowTypes, BootRecord
<1>3. (Due' <=> Due) /\ panel.mount \in Nat /\ load' = load
  BY <1>1, <1>2, JobsHere DEF Due, Listed, load
<1>4. JobsHold' /\ NameAsked' /\ SpinnerServes'
  BY <1>1, <1>3, JobsRest
<1>5. BootHolds'
  BY <1>1, <1>2 DEF IInv, BootHolds, Listed
<1>6. ShownHolds' /\ NameShown' /\ PanelNotified' /\ PanelFresh'
  BY <1>1, <1>2, <1>3 DEF IInv, PanelHolds, ShownHolds, NameShown, PanelNotified, PanelFresh, Listed
<1>7. WindowTypes'
  BY <1>1, <1>2 DEF IInv, WindowTypes
<1> QED
  BY <1>1, <1>4, <1>5, <1>6, <1>7 DEF IInv, PanelHolds

LEMMA NoConnectionsSteps == ASSUME IInv, NoConnections PROVE IInv' /\ trees' = trees
<1>1. /\ boot.at = "connections" /\ boot' = [boot EXCEPT !.at = "done"]
      /\ panel' \in {panel, Notified(panel, 1)}
      /\ UNCHANGED <<list, trees, selected, remembered, loading, chooser, jobs, moves>>
  BY DEF NoConnections
<1>2. boot' \in BootRecord /\ boot'.at = "done" /\ list = <<>> /\ ~chooser
  BY <1>1 DEF IInv, WindowTypes, BootRecord, BootHolds
<1>3. ~Listed(selected)' /\ ~Due' /\ panel.mount \in Nat /\ load' = load
  BY <1>1, <1>2, JobsHere, ListedHere DEF Listed, Due, load, IInv, WindowTypes
<1>4. /\ panel' \in PanelRecord /\ panel'.on = panel.on /\ panel'.mount = panel.mount /\ panel'.shown = panel.shown
  <2>1. panel \in PanelRecord
    BY DEF IInv, WindowTypes
  <2>2. Notified(panel, 1) \in PanelRecord /\ Notified(panel, 1).on = panel.on
        /\ Notified(panel, 1).mount = panel.mount /\ Notified(panel, 1).shown = panel.shown
    BY <2>1 DEF Notified, PanelRecord
  <2> QED
    BY <1>1, <2>1, <2>2
<1>5. JobsHold' /\ NameAsked' /\ SpinnerServes'
  BY <1>1, <1>3, <1>4, JobsRest
<1>6. BootHolds'
  BY <1>1, <1>2 DEF BootHolds
<1>7. ShownHolds' /\ NameShown' /\ PanelNotified' /\ PanelFresh'
  BY <1>1, <1>3, <1>4 DEF IInv, PanelHolds, ShownHolds, NameShown, PanelNotified, PanelFresh
<1>8. WindowTypes'
  BY <1>1, <1>2, <1>4 DEF IInv, WindowTypes
<1> QED
  BY <1>1, <1>5, <1>6, <1>7, <1>8 DEF IInv, PanelHolds

LEMMA StateLoadedSteps ==
  ASSUME IInv, NEW ok \in BOOLEAN, StateLoaded(ok) PROVE IInv' /\ trees' = trees
<1>1. /\ boot.at = "state" /\ boot' = [at |-> "connections", tries |-> 1] /\ list' = <<>>
      /\ loading' \in {"off", "restored"} \/ loading' = loading
      /\ \/ panel' = Mounted(panel.mount + 1, View(Nothing, trees)) /\ ~panel.on
         \/ panel' = panel
      /\ UNCHANGED <<trees, selected, remembered, chooser, jobs, moves>>
  BY DEF StateLoaded
<1>2. boot' \in BootRecord /\ boot'.at = "connections" /\ ~chooser
  BY <1>1, BoundsAssumption DEF BootRecord, IInv, BootHolds
<1>3. ~Listed(selected)' /\ Due' /\ Due /\ load' = load /\ load \in Nat
  <2>1. list' = <<>> /\ list' \in Seq(Name)
    BY <1>1
  <2>2. ~Listed(selected)'
    BY <2>1, ListedHere DEF Listed
  <2> QED
    BY <1>1, <1>2, <2>2, JobsHere DEF Due, load
<1>4. /\ panel \in PanelRecord /\ panel.mount \in Nat /\ panel.mount + 1 \in Nat /\ Nothing \in Names
  BY DEF IInv, WindowTypes, PanelRecord, Names
<1>5. /\ panel' \in PanelRecord
      /\ \/ panel'.on = panel.on /\ panel'.mount = panel.mount /\ panel'.shown = panel.shown
         \/ panel'.mount > panel.mount /\ panel'.shown = View(Nothing, trees)
  <2>1. View(Nothing, trees) \in ShownRecord
    BY <1>4, ViewedNow
  <2>2. PanelIs(Mounted(panel.mount + 1, View(Nothing, trees)), TRUE, panel.mount + 1, 1, FALSE, View(Nothing, trees))
    BY <1>4, <2>1, PanelRecords
  <2> QED
    BY <1>1, <1>4, <2>2 DEF PanelIs
<1>6. JobsHold' /\ NameAsked' /\ SpinnerServes'
  <2>1. panel'.mount \in Nat /\ panel'.mount >= panel.mount
    BY <1>4, <1>5 DEF PanelRecord
  <2> QED
    BY <1>1, <1>3, <1>5, <2>1, JobsRest
<1>7. BootHolds'
  BY <1>1, <1>2 DEF BootHolds
<1>8. ShownHolds' /\ NameShown'
  <2>1. View(Nothing, trees).load = load /\ View(Nothing, trees).name = Nothing
        /\ View(Nothing, trees).tree = Bare
    BY <1>4, ViewedNow
  <2> QED
    BY <1>1, <1>3, <1>5, <2>1 DEF IInv, PanelHolds, ShownHolds, NameShown
<1>9. PanelNotified' /\ PanelFresh'
  BY <1>3 DEF PanelNotified, PanelFresh
<1>10. WindowTypes'
  <2>1. list' \in Seq(Name)
    BY <1>1
  <2> QED
    BY <1>1, <1>2, <1>5, <2>1 DEF IInv, WindowTypes
<1> QED
  BY <1>1, <1>6, <1>7, <1>8, <1>9, <1>10 DEF IInv, PanelHolds

\* The loads that loadConnections starts, for the list it has just stored.
LEMMA AskedNext ==
  ASSUME list' \in Seq(Name), trees' \in Seq(Trees), trees' # <<>>, panel'.mount \in Nat,
         selected' \in Name, NEW by \in {"plain", "init"}, NEW at \in {"databases", "again"}
  PROVE  /\ JobHolds(AskDatabases(NewJob(by, selected), at)', list', load', panel'.mount)
         /\ (AskDatabases(NewJob(by, selected), at)').by = by
<1> DEFINE i == NewJob(by, selected)'
           j == AskDatabases(NewJob(by, selected), at)'
<1>1. load' \in Nat \ {0}
  BY DEF load
<1>2. /\ i \in Job /\ i.mount = panel'.mount /\ i.wait = {} /\ i.by = by /\ i.conn = selected'
      /\ i.load = 0 /\ i.index = 0 /\ i.at = "end"
  BY DEF NewJob, Job
<1>3. CASE Listed(selected)'
  <2> DEFINE x == IndexOf(selected)'
  <2>1. \E n \in DOMAIN list' : list'[n] = selected'
    BY <1>3, ListedHere DEF Listed
  <2>2. x \in DOMAIN list' /\ list'[x] = selected' /\ x \in Nat \ {0}
    BY <2>1 DEF IndexOf
  <2>3. j = [i EXCEPT !.at = at, !.load = load', !.index = x]
    BY <1>2, <1>3 DEF AskDatabases
  <2> HIDE DEF i, j, x
  <2>4. /\ j \in Job /\ j.at = at /\ j.load = load' /\ j.index = x /\ j.conn = selected'
        /\ j.mount = panel'.mount /\ j.wait = {} /\ j.by = by
    BY <1>1, <1>2, <2>2, <2>3 DEF Job
  <2>5. JobHolds(j, list', load', panel'.mount)
    BY <1>1, <2>2, <2>4 DEF JobHolds, Asks
  <2> QED
    BY <2>4, <2>5 DEF j
<1>4. CASE ~Listed(selected)'
  <2>1. j = Done(i)
    BY <1>2, <1>4 DEF AskDatabases, Done
  <2> HIDE DEF i, j
  <2>2. load' \in Nat /\ panel'.mount \in Nat /\ i \in Job /\ i.mount <= panel'.mount /\ i.wait = {}
    BY <1>1, <1>2
  <2>3. JobHolds(Done(i), list', load', panel'.mount) /\ Same(Done(i), i)
    BY <2>2, DoneHolds
  <2> QED
    BY <1>2, <2>1, <2>3 DEF j, Same
<1> QED
  BY <1>3, <1>4

LEMMA SomeConnectionsSteps ==
  ASSUME IInv, NEW l \in Listings, SomeConnections(l) PROVE IInv' /\ load' # load
<1> DEFINE plain == AskDatabases(NewJob("plain", selected), "databases")'
           init  == AllSchemata(NewJob("init", selected), trees)'
           blank == [n \in Name |-> Bare]
<1>1. /\ boot.at = "connections" /\ boot' = [boot EXCEPT !.at = "done"]
      /\ l # <<>> /\ list' = l /\ trees' = Append(trees, blank)
      /\ selected' = selected \/ (selected = Nothing /\ selected' = remembered)
      /\ \/ /\ selected' = Nothing /\ chooser' = TRUE /\ panel' = Left(panel) /\ UNCHANGED <<loading, jobs>>
         \/ /\ selected' # Nothing /\ chooser' = chooser /\ loading' = "on"
            /\ panel' = Notified(panel, 1) \/ panel' = Notified(panel, 2)
            /\ jobs' = jobs \o <<plain, init>>
      /\ UNCHANGED <<remembered, moves>>
  BY DEF SomeConnections
<1> HIDE DEF plain, init
<1>2. /\ list' \in Seq(Name) /\ boot' \in BootRecord /\ boot'.at = "done" /\ list = <<>> /\ ~chooser
      /\ selected' \in Names /\ panel \in PanelRecord /\ panel.mount \in Nat /\ load \in Nat
  BY <1>1, ServerAssumption, JobsHere DEF IInv, WindowTypes, BootRecord, BootHolds
<1>3. /\ trees' \in Seq(Trees) /\ load' = load + 1 /\ trees' # <<>> /\ trees'[load'] = blank
  <2>1. blank \in Trees /\ trees \in Seq(Trees)
    BY BareTree DEF Trees, IInv, WindowTypes
  <2> HIDE DEF blank
  <2>2. trees' \in Seq(Trees) /\ Len(trees') = Len(trees) + 1 /\ trees'[Len(trees) + 1] = blank
    BY <1>1, <2>1, AppendProperties
  <2> QED
    BY <2>1, <2>2 DEF load
<1>4. /\ panel' \in PanelRecord /\ panel'.mount = panel.mount /\ panel'.shown = panel.shown
      /\ panel'.on => panel.on /\ (selected' # Nothing => panel'.timers > 0)
      /\ selected' = Nothing => ~panel'.on
  <2>1. panel.on \in BOOLEAN /\ panel.timers \in Nat /\ panel.shown \in ShownRecord
    BY <1>2 DEF PanelRecord
  <2>2. PanelIs(Left(panel), FALSE, panel.mount, 0, FALSE, panel.shown)
    BY <1>2, <2>1, PanelRecords
  <2>3. ASSUME NEW n \in {1, 2}
        PROVE  LET p == Notified(panel, n) IN
                 /\ p \in PanelRecord /\ p.mount = panel.mount /\ p.shown = panel.shown
                 /\ p.on => panel.on /\ p.timers > 0
    BY <1>2, <2>1 DEF Notified, PanelRecord
  <2> QED
    BY <1>1, <2>2, <2>3 DEF PanelIs
<1>5. Due => ShownHolds /\ NameShown /\ NameAsked
  BY DEF IInv, PanelHolds
<1>6. Due
  BY <1>1 DEF Due
<1>7. ShownHolds'
  BY <1>2, <1>3, <1>4 DEF IInv, PanelHolds, ShownHolds, WindowTypes, PanelRecord, ShownRecord
<1>8. NameShown'
  BY <1>1, <1>4, <1>5, <1>6 DEF NameShown
<1>9. PanelFresh'
  <2>1. panel.shown.load <= load /\ panel.shown.load \in Nat
    BY <1>2 DEF IInv, PanelHolds, ShownHolds, PanelRecord, ShownRecord
  <2> QED
    BY <1>2, <1>3, <1>4, <2>1 DEF PanelFresh
<1>10. PanelNotified'
  BY <1>4 DEF PanelNotified
<1>11. BootHolds'
  BY <1>1, <1>2, <1>4 DEF BootHolds
<1>12. ASSUME NEW k \in DOMAIN jobs
       PROVE  /\ JobHolds(jobs[k], list', load', panel'.mount)
              /\ panel'.on /\ Due' /\ jobs[k].by = "panel" /\ jobs[k].mount = panel'.mount
                   => jobs[k].conn = selected'
  <2>1. JobHolds(jobs[k], list, load, panel.mount) /\ jobs[k].conn \in Name
    BY JobsHere DEF Job
  <2>2. load' > load /\ load' \in Nat /\ panel'.mount >= panel.mount /\ panel'.mount \in Nat
    BY <1>2, <1>3, <1>4
  <2>3. JobHolds(jobs[k], list', load', panel'.mount)
    BY <1>2, <2>1, <2>2, JobStays
  <2> QED
    BY <1>1, <1>4, <1>5, <1>6, <2>1, <2>3, NothingAssumption DEF NameAsked
<1>13. CASE selected' = Nothing
  <2>1. UNCHANGED <<loading, jobs>> /\ chooser' = TRUE
    BY <1>1, <1>13
  <2>2. JobsHold'
    BY <1>3, <1>12, <2>1 DEF IInv, JobsHold, AllHold
  <2>3. NameAsked' /\ SpinnerServes'
    BY <1>4, <1>13, <2>1 DEF NameAsked, IInv, SpinnerServes
  <2>4. WindowTypes'
    BY <1>1, <1>2, <1>3, <1>4, <2>1 DEF IInv, WindowTypes
  <2> QED
    BY <1>3, <1>2, <1>7, <1>8, <1>9, <1>10, <1>11, <2>2, <2>3, <2>4 DEF IInv, PanelHolds
<1>14. CASE selected' # Nothing
  <2>1. chooser' = chooser /\ loading' = "on" /\ jobs' = jobs \o <<plain, init>> /\ selected' \in Name
        /\ panel'.mount \in Nat
    BY <1>1, <1>2, <1>4, <1>14 DEF Names
  <2>2. init = AskDatabases(NewJob("init", selected), "again")'
    <3>1. (NewJob("init", selected)').conn = selected'
      BY DEF NewJob
    <3>2. View(selected, trees)'.tree = Bare
      BY <1>3, <2>1 DEF View, load
    <3>3. Keys(View(selected, trees)'.tree) = {}
      BY <3>2, BareTree
    <3> QED
      BY <3>1, <3>3 DEF init, AllSchemata
  <2>3. /\ JobHolds(plain, list', load', panel'.mount) /\ plain.by = "plain"
        /\ JobHolds(init, list', load', panel'.mount) /\ init.by = "init"
    BY <1>2, <1>3, <2>1, <2>2, AskedNext DEF plain
  <2>4. /\ jobs' \in Seq(Job) /\ init \in {jobs'[i] : i \in DOMAIN jobs'}
        /\ \A i \in DOMAIN jobs' : jobs'[i] \in {plain, init} \/ \E k \in DOMAIN jobs : jobs'[i] = jobs[k]
    <3>1. jobs \in Seq(Job) /\ <<plain, init>> \in Seq(Job) /\ Len(<<plain, init>>) = 2
      BY <2>3, JobsHere DEF JobHolds
    <3>2. /\ jobs' \in Seq(Job) /\ Len(jobs') = Len(jobs) + 2
          /\ \A i \in 1 .. Len(jobs) + 2 :
               jobs'[i] = IF i <= Len(jobs) THEN jobs[i] ELSE <<plain, init>>[i - Len(jobs)]
      BY <2>1, <3>1, ConcatProperties
    <3>3. Len(jobs) \in Nat /\ DOMAIN jobs = 1 .. Len(jobs) /\ DOMAIN jobs' = 1 .. Len(jobs) + 2
      BY <3>1, <3>2
    <3>4. jobs'[Len(jobs) + 2] = init /\ jobs'[Len(jobs) + 1] = plain
      BY <3>2, <3>3
    <3>5. \A i \in DOMAIN jobs' : i \in DOMAIN jobs \/ i = Len(jobs) + 1 \/ i = Len(jobs) + 2
      BY <3>3
    <3>6. \A i \in DOMAIN jobs : jobs'[i] = jobs[i]
      BY <3>2, <3>3
    <3>7. Len(jobs) + 2 \in DOMAIN jobs'
      BY <3>3
    <3> QED
      BY <3>2, <3>4, <3>5, <3>6, <3>7
  <2>5. JobsHold'
    BY <1>3, <1>12, <2>3, <2>4 DEF JobsHold, AllHold
  <2>6. NameAsked'
    BY <1>12, <2>3, <2>4 DEF NameAsked
  <2>7. SpinnerServes'
    BY <2>3, <2>4 DEF SpinnerServes
  <2>8. WindowTypes'
    BY <1>1, <1>2, <1>3, <1>4, <2>1 DEF IInv, WindowTypes
  <2> QED
    BY <1>2, <1>3, <1>7, <1>8, <1>9, <1>10, <1>11, <2>5, <2>6, <2>7, <2>8 DEF IInv, PanelHolds
<1> QED
  BY <1>13, <1>14

-----------------------------------------------------------------------------
(* The invariant, and what follows from it.                                *)

LEMMA InitHolds == Init => IInv
<1> SUFFICES ASSUME Init PROVE IInv
  OBVIOUS
<1>1. /\ list = <<>> /\ trees = <<>> /\ selected \in Names /\ remembered \in Names
      /\ panel = Mounted(1, View(Nothing, trees)) /\ loading = "off"
      /\ boot = [at |-> "state", tries |-> 0] /\ chooser = FALSE /\ jobs = <<>> /\ moves = 0
  BY DEF Init, Names
<1> DEFINE s == View(Nothing, trees)
<1>2. ~Listed(Nothing) /\ ~Listed(selected) /\ load = 0
  <2>1. list \in Seq(Name)
    BY <1>1
  <2> QED
    BY <1>1, <2>1, ListedHere DEF Listed, load
<1>3. s \in ShownRecord /\ s.name = Nothing /\ s.tree = Bare /\ s.load = load
  BY <1>1, <1>2, BareTree DEF View, ShownRecord, Names, load
<1> HIDE DEF s
<1>4. PanelIs(panel, TRUE, 1, 1, FALSE, s)
  <2>1. PanelIs(Mounted(1, s), TRUE, 1, 1, FALSE, s)
    BY <1>3, Zenon DEF Mounted, PanelIs, PanelRecord
  <2> QED
    BY <1>1, <2>1 DEF s
<1>5. panel \in PanelRecord /\ panel.shown = s /\ panel.mount = 1
  BY <1>4 DEF PanelIs
<1>6. boot \in BootRecord /\ boot.at = "state"
  BY <1>1, BoundsAssumption DEF BootRecord
<1>7. WindowTypes
  <2>1. list \in Seq(Name) /\ trees \in Seq(Trees) /\ moves \in 0 .. MaxMoves
    BY <1>1, BoundsAssumption
  <2> QED
    BY <1>1, <1>5, <1>6, <2>1 DEF WindowTypes
<1>8. JobsHold
  BY <1>1 DEF JobsHold, AllHold
<1>9. BootHolds
  BY <1>1, <1>6 DEF BootHolds
<1>10. PanelHolds
  BY <1>1, <1>2, <1>3, <1>5 DEF PanelHolds, ShownHolds, NameShown, NameAsked, PanelNotified, PanelFresh
<1>11. SpinnerServes
  BY <1>1 DEF SpinnerServes
<1> QED
  BY <1>7, <1>8, <1>9, <1>10, <1>11 DEF IInv

LEMMA Steps == IInv /\ [Next]_vars => IInv' /\ StepKeeps
<1> SUFFICES ASSUME IInv, [Next]_vars PROVE IInv' /\ StepKeeps
  OBVIOUS
<1>1. ASSUME trees' = trees PROVE StepKeeps
  BY <1>1, KeepsSame DEF StepKeeps
<1>2. CASE Load
  <2> SUFFICES ASSUME NEW k \in DOMAIN jobs,
                      Fire(k) \/ AnswerDatabases(k) \/ AnswerSchemata(k) \/ End(k)
               PROVE  IInv' /\ StepKeeps
    BY <1>2 DEF Load
  <2>1. CASE Fire(k)
    BY <1>1, <2>1, FireSteps
  <2>2. CASE AnswerDatabases(k)
    BY <2>2, AnswerDatabasesSteps
  <2>3. CASE AnswerSchemata(k)
    BY <2>3, AnswerSchemataSteps
  <2>4. CASE End(k)
    BY <1>1, <2>4, EndSteps
  <2> QED
    BY <2>1, <2>2, <2>3, <2>4
<1>3. CASE Start
  <2>1. CASE \E ok \in BOOLEAN : StateLoaded(ok)
    BY <1>1, <2>1, StateLoadedSteps
  <2>2. CASE Retry
    BY <1>1, <2>2, RetrySteps
  <2>3. CASE NoConnections
    BY <1>1, <2>3, NoConnectionsSteps
  <2>4. CASE \E l \in Listings : SomeConnections(l)
    BY <2>4, SomeConnectionsSteps DEF StepKeeps
  <2> QED
    BY <1>3, <2>1, <2>2, <2>3, <2>4 DEF Start
<1>4. CASE SelectTimer
  BY <1>1, <1>4, SelectTimerSteps
<1>5. CASE RefreshEffect
  BY <1>1, <1>5, RefreshEffectSteps
<1>6. CASE User
  <2>1. CASE RefreshAll
    BY <1>1, <2>1, RefreshAllSteps
  <2>2. CASE \E d \in DB : RefreshDatabase(d)
    BY <1>1, <2>2, RefreshDatabaseSteps
  <2>3. CASE LeavePanel
    BY <1>1, <2>3, LeavePanelSteps
  <2>4. CASE ReturnToPanel
    BY <1>1, <2>4, ReturnToPanelSteps
  <2>5. CASE \E n \in Name : Choose(n)
    BY <1>1, <2>5, ChooseSteps
  <2>6. CASE OK \/ Hide
    BY <1>1, <2>6, CloseSteps DEF OK, Hide
  <2>7. CASE ShowWorksheet
    BY <1>1, <2>7, ShowWorksheetSteps
  <2> QED
    BY <1>6, <2>1, <2>2, <2>3, <2>4, <2>5, <2>6, <2>7 DEF User
<1>7. CASE UNCHANGED vars
  <2>1. UNCHANGED <<list, trees, selected, remembered, panel, loading, boot, chooser, jobs, moves>>
    BY <1>7 DEF vars
  <2>2. /\ BootHolds' /\ ShownHolds' /\ NameShown' /\ PanelNotified' /\ PanelFresh' /\ (Due' <=> Due)
    BY <2>1, PanelStays
  <2>3. JobsHold' /\ NameAsked' /\ SpinnerServes'
    BY <2>1, <2>2, JobsHere, JobsRest
  <2>4. WindowTypes'
    BY <2>1 DEF IInv, WindowTypes
  <2> QED
    BY <1>1, <2>1, <2>2, <2>3, <2>4 DEF IInv, PanelHolds
<1> QED
  BY <1>2, <1>3, <1>4, <1>5, <1>6, <1>7 DEF Next

\* In every state a window can be in, every load that asks for databases holds
\* the index of its connection in the list it read, and what the panel shows,
\* its timers and its effects are in step with the list and its trees.
THEOREM WindowInvariant == Spec => []IInv
BY InitHolds, Steps, PTL DEF Spec

\* Every variable has its type; a load waits for schemata of some database or
\* for none, and no dialog is open over a mounted panel.
THEOREM TypeCorrect == Spec => []TypeOK
BY WindowInvariant, TypesNamed, PTL

\* The panel's spinner turns only while some load in flight will clear it.
THEOREM SpinnersServe == Spec => []SpinnerServes
<1>1. IInv => SpinnerServes
  BY DEF IInv
<1> QED
  BY <1>1, WindowInvariant, PTL

\* With nothing in flight, the panel shows the selected connection as loaded.
THEOREM PanelsAgree == Spec => []PanelAgrees
<1>1. IInv => PanelAgrees
  <2> SUFFICES ASSUME IInv, Quiet, panel.on, Listed(selected)
               PROVE  /\ panel.shown.name = selected
                      /\ panel.shown.load = load => panel.shown.tree = trees[load][selected]
    BY DEF PanelAgrees
  <2>1. panel.shown.name = selected
    BY DEF IInv, PanelHolds, PanelNotified, Quiet
  <2> QED
    BY <2>1 DEF IInv, PanelHolds, PanelFresh, Quiet
<1> QED
  BY <1>1, WindowInvariant, PTL

\* Answers in any order add databases and schemata to the connection they are
\* about, and take none away, unless one is due to a list that was replaced.
THEOREM AnswersOnlyAdd == Spec => AnswersKeepTrees
<1>1. ASSUME IInv, [Next]_vars
      PROVE  [ trees # <<>> /\ load' = load /\ (\A k \in DOMAIN jobs : ~Late(jobs[k])) =>
                 \A n \in Name : LET t == trees[load][n]  u == trees'[load][n] IN
                   Grows(t, u) /\ Keys(u) \ Keys(t) \subseteq databases[n] ]_vars
  BY <1>1, Steps DEF StepKeeps, Keeps
<1> QED
  BY <1>1, WindowInvariant, PTL DEF Spec, AnswersKeepTrees
=============================================================================
