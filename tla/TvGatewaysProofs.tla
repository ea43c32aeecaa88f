-------------------------- MODULE TvGatewaysProofs --------------------------
(***************************************************************************)
(* Theorems about TvGateways, for any addresses the user may enter.        *)
(*                                                                         *)
(* The list the app has is the one the mirror has, for as long as the      *)
(* mirror takes every write and localStorage has written out nothing.      *)
(***************************************************************************)
EXTENDS TvGateways, FiniteSetTheorems, SequenceTheorems, TLAPS

\* No address is in the list twice.
Distinct(list) == \A i, j \in 1..Len(list) : list[i] = list[j] => i = j

\* A list of Gateways, in the app or in a backend.
IsList(list) == list \in Seq(Hosts) /\ Distinct(list)

Among(list, h) == \E i \in 1..Len(list) : list[i] = h

\* What the app and the backends have are lists.
Lists ==
    /\ IsList(gateways)
    /\ stored = [b \in Backends |-> stored[b]]
    /\ \A b \in Backends : stored[b] = NoValue \/ IsList(stored[b])
    /\ flushed = NoValue \/ IsList(flushed)

\* The active Gateway and the editor's are saved ones, where they must be.
App ==
    /\ active = None \/ active \in [host : Hosts, id : BOOLEAN]
    /\ link \in {"off", "trying", "open"} /\ (link # "off" => active # None)
    /\ editor \in {"add", "closed"} \/ (editor \in Hosts /\ Among(gateways, editor))
    /\ pending => editor # "closed"
    /\ active # None /\ active.id = TRUE => Among(gateways, active.host)

\* Without the app localStorage has what was written out.
AtRest == ~running => /\ active = None /\ link = "off" /\ editor = "closed" /\ ~pending
                      /\ stored["localStorage"] = flushed

\* What was once written out stays, in some version.
Mirrored ==
    /\ flushed # NoValue => stored["localStorage"] # NoValue
    /\ flushed = NoValue /\ "tizen.preference" \notin refused =>
           \/ stored["tizen.preference"] = gateways
           \/ stored["tizen.preference"] = NoValue /\ gateways = <<>>

Flags == running \in BOOLEAN /\ pending \in BOOLEAN /\ refused \subseteq Backends

ListInv == Flags /\ Lists /\ App /\ AtRest /\ Mirrored
-----------------------------------------------------------------------------
(***************************************************************************)
(* What the list's operations do to a list without repetitions.            *)
(***************************************************************************)
\* What a list of Gateways is made of.
LEMMA ListFacts ==
    ASSUME NEW s, IsList(s)
    PROVE  /\ Len(s) \in Nat /\ DOMAIN s = 1..Len(s) /\ \A i \in 1..Len(s) : s[i] \in Hosts
           /\ s # NoValue
BY LenProperties, ElementOfSeq, GatewaysAssumption DEF IsList

\* An active Gateway is not None.
LEMMA ActiveRecord ==
    ASSUME NEW r \in [host : Hosts, id : BOOLEAN]
    PROVE  r # None
BY GatewaysAssumption

\* A TV without Gateways has a list.
LEMMA EmptyList == IsList(<<>>) /\ ~\E h : Among(<<>>, h)
BY DEF IsList, Distinct, Among

\* An address that is in the list has one place in it.
LEMMA OnePlace ==
    ASSUME NEW s, IsList(s), NEW h, Among(s, h)
    PROVE  Cardinality({i \in DOMAIN s : s[i] = h}) = 1
<1>1. PICK i \in 1..Len(s) : s[i] = h
  BY DEF Among
<1>2. {j \in DOMAIN s : s[j] = h} = {i}
  BY <1>1, ListFacts DEF IsList, Distinct
<1>3. QED
  BY <1>2, FS_Singleton

\* A Gateway that is not there yet goes to the end, and the others stay.
LEMMA AppendedList ==
    ASSUME NEW s, IsList(s), NEW h \in Hosts, ~Among(s, h)
    PROVE  /\ IsList(Append(s, h)) /\ \A g : Among(s, g) => Among(Append(s, h), g)
           /\ Among(Append(s, h), h)
<1> DEFINE t == Append(s, h)
<1>1. /\ Len(s) \in Nat /\ t \in Seq(Hosts) /\ Len(t) = Len(s) + 1 /\ t[Len(s) + 1] = h
      /\ \A i \in 1..Len(s) : t[i] = s[i]
  BY AppendProperties, ListFacts DEF IsList
<1> HIDE DEF t
<1>2. Distinct(t)
  BY <1>1 DEF IsList, Distinct, Among
<1>3. Among(t, h) /\ \A g : Among(s, g) => Among(t, g)
  BY <1>1 DEF Among
<1>4. QED
  BY <1>1, <1>2, <1>3 DEF IsList, t

\* Upsert: a Gateway that is there stays in its place.
LEMMA UpsertedList ==
    ASSUME IsList(gateways), NEW h \in Hosts, NEW s,
           s = IF Saved(h) THEN gateways ELSE Append(gateways, h)
    PROVE  IsList(s) /\ Among(s, h) /\ \A g : Among(gateways, g) => Among(s, g)
<1>1. Saved(h) <=> Among(gateways, h)
  BY DEF Saved, Contains, Among
<1>2. QED
  BY <1>1, AppendedList

\* Where an address of the list is found.
LEMMA FoundIndex ==
    ASSUME IsList(gateways), NEW h, Among(gateways, h)
    PROVE  findIndex(h) \in 1..Len(gateways) /\ gateways[findIndex(h)] = h
<1>1. \E i \in DOMAIN gateways : gateways[i] = h
  BY ListFacts DEF Among
<1>2. QED
  BY <1>1, ListFacts DEF findIndex

\* An edited Gateway takes the place of its former address.
LEMMA ReplacedList ==
    ASSUME IsList(gateways), NEW previous, NEW h \in Hosts, Replaceable(previous, h)
    PROVE  LET s == [gateways EXCEPT ![findIndex(previous)] = h] IN IsList(s) /\ Among(s, h)
<1> DEFINE s == [gateways EXCEPT ![findIndex(previous)] = h]
           i == findIndex(previous)
<1>1. Among(gateways, previous) /\ (h = previous \/ ~Among(gateways, h))
  BY DEF Replaceable, Saved, Contains, Among
<1>2. i \in 1..Len(gateways) /\ gateways[i] = previous
  BY <1>1, FoundIndex
<1> HIDE DEF i
<1>3. /\ s \in Seq(Hosts) /\ Len(s) = Len(gateways) /\ s[i] = h
      /\ \A j \in 1..Len(gateways) : j # i => s[j] = gateways[j]
  BY <1>2, ListFacts, ExceptSeq DEF IsList, i
<1> HIDE DEF s
<1>4. Among(s, h)
  BY <1>2, <1>3 DEF Among
<1>5. Distinct(s)
  BY <1>1, <1>2, <1>3 DEF IsList, Distinct, Among
<1>6. QED
  BY <1>3, <1>4, <1>5 DEF IsList, s

\* All but the removed Gateway stay.
LEMMA RemovedList ==
    ASSUME IsList(gateways), NEW h, Among(gateways, h)
    PROVE  LET s == RemoveAt(gateways, findIndex(h)) IN
           IsList(s) /\ \A g : g # h /\ Among(gateways, g) => Among(s, g)
<1> DEFINE s == RemoveAt(gateways, findIndex(h))
           n == Len(gateways)
           i == findIndex(h)
           q == SubSeq(gateways, 1, i - 1)
           r == SubSeq(gateways, i + 1, n)
<1>1. i \in 1..n /\ gateways[i] = h /\ n \in Nat /\ gateways \in Seq(Hosts)
  BY FoundIndex, ListFacts DEF IsList
<1> HIDE DEF i
<1>2. /\ q \in Seq(Hosts) /\ Len(q) = i - 1 /\ \A j \in 1..i - 1 : q[j] = gateways[j]
      /\ r \in Seq(Hosts) /\ Len(r) = n - i /\ \A j \in 1..n - i : r[j] = gateways[i + j]
  BY <1>1, SubSeqProperties
<1>3. s = q \o r
  BY DEF RemoveAt, i
<1> HIDE DEF q, r, s
<1>4. /\ s \in Seq(Hosts) /\ Len(s) = n - 1
      /\ \A j \in 1..n - 1 : s[j] = gateways[IF j < i THEN j ELSE j + 1]
  <2>1. /\ s \in Seq(Hosts) /\ Len(s) = Len(q) + Len(r)
        /\ \A j \in 1..Len(s) : s[j] = IF j <= Len(q) THEN q[j] ELSE r[j - Len(q)]
    <3>1. /\ q \o r \in Seq(Hosts) /\ Len(q \o r) = Len(q) + Len(r)
          /\ \A j \in 1..Len(q) + Len(r) : (q \o r)[j] = IF j <= Len(q) THEN q[j] ELSE r[j - Len(q)]
      BY <1>2, ConcatProperties
    <3>2. QED
      BY <1>3, <3>1
  <2>2. Len(s) = n - 1
    BY <1>1, <1>2, <2>1
  <2>3. ASSUME NEW j \in 1..n - 1 PROVE s[j] = gateways[IF j < i THEN j ELSE j + 1]
    <3>1. CASE j < i
      <4>1. j \in 1..i - 1 /\ j <= Len(q)
        BY <1>1, <1>2, <3>1
      <4>2. QED
        BY <1>2, <2>1, <2>2, <3>1, <4>1
    <3>2. CASE ~(j < i)
      <4>1. j - (i - 1) \in 1..n - i /\ ~(j <= Len(q)) /\ i + (j - (i - 1)) = j + 1
        BY <1>1, <1>2, <3>2
      <4>2. s[j] = r[j - (i - 1)]
        BY <1>2, <2>1, <2>2, <4>1
      <4>3. QED
        BY <1>2, <3>2, <4>1, <4>2
    <3>3. QED
      BY <3>1, <3>2
  <2>4. QED
    BY <2>1, <2>2, <2>3
<1>5. Distinct(s)
  <2> SUFFICES ASSUME NEW j \in 1..n - 1, NEW k \in 1..n - 1, s[j] = s[k] PROVE j = k
    BY <1>4 DEF Distinct
  <2> DEFINE at(m) == IF m < i THEN m ELSE m + 1
  <2>1. at(j) \in 1..n /\ at(k) \in 1..n /\ (at(j) = at(k) => j = k)
    BY <1>1
  <2>2. gateways[at(j)] = gateways[at(k)]
    BY <1>4
  <2> HIDE DEF at
  <2>3. QED
    BY <2>1, <2>2 DEF IsList, Distinct
<1>6. ASSUME NEW g, g # h, Among(gateways, g) PROVE Among(s, g)
  <2>1. PICK j \in 1..n : gateways[j] = g
    BY <1>6 DEF Among
  <2>2. CASE j < i
    BY <1>1, <1>4, <2>1, <2>2 DEF Among
  <2>3. CASE i < j
    <3>1. j - 1 \in 1..n - 1 /\ s[j - 1] = gateways[j]
      BY <1>1, <1>4, <2>1, <2>3
    <3>2. QED
      BY <1>4, <2>1, <3>1 DEF Among
  <2>4. QED
    BY <1>1, <1>6, <2>1, <2>2, <2>3
<1>7. QED
  BY <1>4, <1>5, <1>6 DEF IsList, s

\* A list without repetitions is read as it was written.
LEMMA NormalList == ASSUME NEW s, IsList(s) PROVE normalizeList(s) = s
<1> DEFINE n == Len(s)
           first == {i \in DOMAIN s : \A j \in 1..i - 1 : s[j] # s[i]}
           place(i) == Cardinality({j \in first : j <= i})
<1>1. n \in Nat /\ DOMAIN s = 1..n /\ s \in Seq(Hosts)
  BY ListFacts DEF IsList
<1>2. first = 1..n
  BY <1>1 DEF IsList, Distinct
<1> HIDE DEF first
<1>3. Cardinality(first) = n
  BY <1>1, <1>2, FS_Interval
<1>4. ASSUME NEW i \in 1..n PROVE place(i) = i
  <2>1. {j \in first : j <= i} = 1..i
    BY <1>1, <1>2
  <2>2. QED
    <3>1. i \in Int /\ 1 <= i
      BY <1>1
    <3>2. Cardinality(1..i) = i
      BY <3>1, FS_Interval
    <3>3. QED
      BY <2>1, <3>2
<1> DEFINE entry(k) == CHOOSE i \in first : place(i) = k
<1> HIDE DEF place
<1>5. ASSUME NEW k \in 1..n PROVE entry(k) = k
  BY <1>2, <1>4
<1>6. normalizeList(s) = [k \in 1..Cardinality(first) |-> s[entry(k)]]
  BY DEF normalizeList, first, place
<1> HIDE DEF entry
<1>7. [k \in 1..Cardinality(first) |-> s[entry(k)]] = [k \in 1..n |-> s[k]]
  BY <1>3, <1>5
<1>8. s = [k \in 1..n |-> s[k]]
  BY <1>1
<1>9. QED
  BY <1>6, <1>7, <1>8
-----------------------------------------------------------------------------
(***************************************************************************)
(* Writing, and the steps of the app.                                      *)
(***************************************************************************)
\* setItem: each backend takes the list or keeps what it had; the mirror takes it unless it throws.
LEMMA SetItemFacts ==
    ASSUME ListInv, NEW list, IsList(list), NEW threw \in SUBSET Backends, SetItem(list, threw)
    PROVE  /\ stored' = [b \in Backends |-> stored'[b]]
           /\ \A b \in Backends : stored'[b] \in {list, stored[b]}
           /\ "tizen.preference" \notin refused' => stored'["tizen.preference"] = list
           /\ refused' \subseteq Backends /\ refused \cup threw \subseteq refused'
           /\ flushed' = flushed
<1>1. PICK taken \in SUBSET Backends :
          /\ stored' = [b \in Backends |-> IF b \in taken THEN list ELSE stored[b]]
          /\ refused' = refused \cup threw \cup (Backends \ taken)
          /\ flushed' = flushed
  BY DEF SetItem
<1>2. "tizen.preference" \in Backends
  BY DEF Backends
<1>3. QED
  BY <1>1, <1>2 DEF ListInv, Flags

\* A list that is written is the one the app has.
LEMMA WrittenLists ==
    ASSUME ListInv, IsList(gateways'), NEW threw \in SUBSET Backends, SetItem(gateways', threw)
    PROVE  Lists' /\ Mirrored' /\ refused' \subseteq Backends
<1>1. /\ stored' = [b \in Backends |-> stored'[b]]
      /\ \A b \in Backends : stored'[b] \in {gateways', stored[b]}
      /\ "tizen.preference" \notin refused' => stored'["tizen.preference"] = gateways'
      /\ refused' \subseteq Backends /\ flushed' = flushed
  BY SetItemFacts
<1>2. Lists'
  BY <1>1 DEF ListInv, Lists
<1>3. "localStorage" \in Backends /\ gateways' # NoValue
  BY ListFacts DEF Backends
<1>4. Mirrored'
  BY <1>1, <1>3 DEF ListInv, Mirrored
<1>5. QED
  BY <1>1, <1>2, <1>4

\* While it runs, the app keeps the list or saves another one.
LEMMA Running ==
    ASSUME ListInv, running = TRUE, running' = running, pending' \in BOOLEAN, App',
           Keep \/ (IsList(gateways') /\ SetItem(gateways', {}))
    PROVE  ListInv'
<1>1. CASE Keep
  BY <1>1 DEF Keep, storage, ListInv, Flags, Lists, AtRest, Mirrored
<1>2. CASE IsList(gateways') /\ SetItem(gateways', {})
  <2>1. Lists' /\ Mirrored' /\ refused' \subseteq Backends
    BY <1>2, WrittenLists
  <2>2. QED
    BY <2>1 DEF ListInv, Flags, AtRest
<1>3. QED
  BY <1>1, <1>2

\* The first start of the app finds nothing.
LEMMA ListInitHolds == ListInit => ListInv
<1> SUFFICES ASSUME ListInit PROVE ListInv
  OBVIOUS
<1> USE DEF ListInit
<1>1. Lists
  BY EmptyList DEF Lists
<1>2. Flags /\ App /\ AtRest /\ Mirrored
  BY DEF Flags, App, AtRest, Mirrored, Backends
<1>3. QED
  BY <1>1, <1>2 DEF ListInv

\* What the user does without changing the list.
LEMMA UserKeeps ==
    ASSUME ListInv,
           \/ CancelEditor
           \/ \E h \in Hosts : ConnectGatewayFromEditor(h) \/ ActivateGateway(h)
           \/ \E target \in Hosts \cup {"add"} : OpenEditor(target)
    PROVE  ListInv'
<1> USE DEF ListInv
<1>1. CASE CancelEditor
  <2>1. running = TRUE
    BY <1>1 DEF CancelEditor, AtRest, Flags
  <2>2. App'
    BY <1>1 DEF CancelEditor, Keep, App
  <2>3. QED
    BY <1>1, <2>1, <2>2, Running DEF CancelEditor
<1>2. ASSUME NEW h \in Hosts, ConnectGatewayFromEditor(h) PROVE ListInv'
  <2>1. running = TRUE
    BY <1>2 DEF ConnectGatewayFromEditor, AtRest, Flags
  <2>2. active' \in [host : Hosts, id : BOOLEAN] /\ active'.id = FALSE
    BY <1>2 DEF ConnectGatewayFromEditor
  <2>3. App'
    BY <1>2, <2>2, ActiveRecord DEF ConnectGatewayFromEditor, Keep, App
  <2>4. QED
    BY <1>2, <2>1, <2>3, Running DEF ConnectGatewayFromEditor
<1>3. ASSUME NEW h \in Hosts, ActivateGateway(h) PROVE ListInv'
  <2>1. active' \in [host : Hosts, id : BOOLEAN] /\ active'.host = h
    BY <1>3 DEF ActivateGateway
  <2>2. Among(gateways, h) /\ link' \in {"off", "trying", "open"} /\ running = TRUE
    BY <1>3 DEF ActivateGateway, Saved, Contains, Among, App, Flags
  <2>3. App'
    BY <1>3, <2>1, <2>2, ActiveRecord DEF ActivateGateway, Keep, App
  <2>4. QED
    BY <1>3, <2>2, <2>3, Running DEF ActivateGateway, Flags
<1>4. ASSUME NEW target \in Hosts \cup {"add"}, OpenEditor(target) PROVE ListInv'
  <2>1. running = TRUE /\ (target = "add" \/ (target \in Hosts /\ Among(gateways, target)))
    BY <1>4 DEF OpenEditor, Saved, Contains, Among, Flags
  <2>2. App'
    BY <1>4, <2>1 DEF OpenEditor, Keep, App
  <2>3. QED
    BY <1>4, <2>1, <2>2, Running DEF OpenEditor, Flags
<1>5. QED
  BY <1>1, <1>2, <1>3, <1>4

\* A Gateway that is removed is no longer the active one.
LEMMA RemoveKeeps ==
    ASSUME ListInv, NEW h \in Hosts, RemoveGateway(h)
    PROVE  ListInv'
<1> USE DEF ListInv
<1>1. /\ running = TRUE /\ running' = running /\ editor = "closed" /\ Among(gateways, h)
      /\ editor' = editor /\ pending' = pending
  BY DEF RemoveGateway, Saved, Contains, Among, Flags
<1>2. gateways' = RemoveAt(gateways, findIndex(h)) /\ SetItem(gateways', {})
  BY DEF RemoveGateway, Save
<1>3. IsList(gateways') /\ \A g : g # h /\ Among(gateways, g) => Among(gateways', g)
  BY <1>1, <1>2, RemovedList DEF Lists
<1>4. App'
  <2>1. CASE active = [host |-> h, id |-> TRUE]
    BY <1>1, <2>1 DEF RemoveGateway, App
  <2>2. CASE active # [host |-> h, id |-> TRUE]
    <3>1. active' = active /\ link' = link
      BY <2>2 DEF RemoveGateway
    <3>2. active # None /\ active.id = TRUE => active.host # h
      <4>1. SUFFICES ASSUME active # None, active.id = TRUE, active.host = h PROVE FALSE
        OBVIOUS
      <4>2. active \in [host : Hosts, id : BOOLEAN]
        BY <4>1 DEF App
      <4>3. active = [host |-> h, id |-> TRUE]
        BY <4>1, <4>2
      <4>4. QED
        BY <2>2, <4>3
    <3>3. "closed" \notin Hosts
      BY GatewaysAssumption
    <3>4. QED
      BY <1>1, <1>3, <3>1, <3>2, <3>3 DEF App
  <2>3. QED
    BY <2>1, <2>2
<1>5. QED
  BY <1>1, <1>2, <1>3, <1>4, Running DEF Flags

\* A validation that fails leaves the Gateway that was edited.
LEMMA ValidationKeeps ==
    ASSUME ListInv, pending, ValidationFailed
    PROVE  ListInv'
<1> USE DEF ListInv
<1>1. /\ running = TRUE /\ running' = running /\ editor' = editor /\ pending' = FALSE
      /\ link' = "off" /\ Keep
  BY DEF ValidationFailed, AtRest, Flags
<1>2. active' = IF editor = "add" THEN None ELSE [host |-> editor, id |-> TRUE]
  BY DEF ValidationFailed
<1>3. CASE editor = "add"
  BY <1>1, <1>2, <1>3, Running DEF App, Keep
<1>4. CASE editor # "add"
  <2>1. editor \in Hosts /\ Among(gateways, editor)
    BY <1>4 DEF App
  <2>2. active' \in [host : Hosts, id : BOOLEAN] /\ active'.host = editor
    BY <1>2, <1>4, <2>1
  <2>3. App'
    BY <1>1, <2>1, <2>2 DEF App, Keep
  <2>4. QED
    BY <1>1, <2>3, Running
<1>5. QED
  BY <1>3, <1>4

\* The socket opens and closes; an address that is taken ends the validation.
LEMMA LinkKeeps ==
    ASSUME ListInv, Opened \/ Closed \/ Duplicate
    PROVE  ListInv'
<1> USE DEF ListInv
<1>1. CASE Opened
  <2>1. running = TRUE
    BY <1>1 DEF Opened, AtRest, Flags
  <2>2. App'
    BY <1>1 DEF Opened, Keep, App
  <2>3. QED
    BY <1>1, <2>1, <2>2, Running DEF Opened, Flags
<1>2. CASE Closed
  <2>1. CASE pending /\ ValidationFailed
    BY <2>1, ValidationKeeps
  <2>2. CASE ~(pending /\ ValidationFailed)
    <3>1. /\ link # "off" /\ link' = "trying" /\ Keep
          /\ UNCHANGED <<running, active, editor, pending>>
      BY <1>2, <2>2 DEF Closed
    <3>2. running = TRUE
      BY <3>1 DEF AtRest, Flags
    <3>3. App'
      BY <3>1 DEF Keep, App
    <3>4. QED
      BY <3>1, <3>2, <3>3, Running DEF Flags
  <2>3. QED
    BY <2>1, <2>2
<1>3. CASE Duplicate
  <2>1. running = TRUE
    BY <1>3 DEF Duplicate, AtRest, Flags
  <2>2. App'
    BY <1>3 DEF Duplicate, Keep, App
  <2>3. QED
    BY <1>3, <2>1, <2>2, Running DEF Duplicate
<1>4. QED
  BY <1>1, <1>2, <1>3

\* A status saves the active Gateway, as a new one or in place of the one edited.
LEMMA StatusKeeps ==
    ASSUME ListInv, RefreshStored \/ Accept
    PROVE  ListInv'
<1> USE DEF ListInv
<1> DEFINE h == active.host
<1>1. /\ link = "open" /\ link' = link /\ running' = running
      /\ active' = [active EXCEPT !.id = TRUE]
  BY DEF RefreshStored, Accept
<1>2. running = TRUE /\ active # None /\ active \in [host : Hosts, id : BOOLEAN]
  BY <1>1 DEF AtRest, App, Flags
<1>3. h \in Hosts /\ active' \in [host : Hosts, id : BOOLEAN] /\ active'.host = h
  BY <1>1, <1>2
<1> HIDE DEF h
<1>4. CASE RefreshStored
  <2>1. /\ gateways' = IF Saved(h) THEN gateways ELSE Append(gateways, h)
        /\ SetItem(gateways', {}) /\ editor' = editor /\ pending' = pending
    BY <1>4 DEF RefreshStored, Upsert, Save, h
  <2>2. IsList(gateways') /\ Among(gateways', h) /\ \A g : Among(gateways, g) => Among(gateways', g)
    BY <1>3, <2>1, UpsertedList DEF Lists
  <2>3. App'
    BY <1>1, <1>2, <1>3, <2>1, <2>2, ActiveRecord DEF App
  <2>4. QED
    BY <1>1, <1>2, <2>1, <2>2, <2>3, Running DEF Flags
<1>5. CASE Accept
  <2>1. editor' = "closed" /\ pending' = FALSE
    BY <1>5 DEF Accept
  <2>2. SetItem(gateways', {}) /\ IsList(gateways') /\ Among(gateways', h)
    <3>1. CASE editor = "add"
      <4>1. /\ gateways' = IF Saved(h) THEN gateways ELSE Append(gateways, h)
            /\ SetItem(gateways', {})
        BY <1>5, <3>1 DEF Accept, Upsert, Save, h
      <4>2. QED
        BY <1>3, <4>1, UpsertedList DEF Lists
    <3>2. CASE editor # "add"
      <4>1. /\ gateways' = [gateways EXCEPT ![findIndex(editor)] = h] /\ Replaceable(editor, h)
            /\ SetItem(gateways', {})
        BY <1>5, <3>2 DEF Accept, Replace, Save, h
      <4>2. QED
        BY <1>3, <4>1, ReplacedList DEF Lists
    <3>3. QED
      BY <3>1, <3>2
  <2>3. App'
    BY <1>1, <1>2, <1>3, <2>1, <2>2, ActiveRecord DEF App
  <2>4. QED
    BY <1>1, <1>2, <2>1, <2>2, <2>3, Running
<1>6. QED
  BY <1>4, <1>5

\* A MAC address changes no address.
LEMMA LearnKeeps ==
    ASSUME ListInv, NEW h \in Hosts, LearnMacAddress(h)
    PROVE  ListInv'
<1> USE DEF ListInv
<1>1. /\ gateways' = IF Saved(h) THEN gateways ELSE Append(gateways, h)
      /\ SetItem(gateways', {}) /\ running = TRUE
      /\ UNCHANGED <<running, active, link, editor, pending>>
  BY DEF LearnMacAddress, Upsert, Save, Flags
<1>2. IsList(gateways') /\ \A g : Among(gateways, g) => Among(gateways', g)
  BY <1>1, UpsertedList DEF Lists
<1>3. App'
  BY <1>1, <1>2 DEF App
<1>4. QED
  BY <1>1, <1>2, <1>3, Running DEF Flags

\* The start of the app: with nothing written out, the mirror is read, and it has the list.
LEMMA LaunchReads ==
    ASSUME ListInv, Launch
    PROVE  /\ ListInv'
           /\ flushed = NoValue /\ "tizen.preference" \notin refused' => gateways' = gateways
<1> USE DEF ListInv
<1>1. PICK readable \in SUBSET Backends :
        LET read(b) == IF b \in readable THEN stored[b] ELSE NoValue
            recovered == read("localStorage") = NoValue /\ read("tizen.preference") # NoValue
            value == IF recovered THEN read("tizen.preference") ELSE read("localStorage")
        IN /\ gateways' = IF value = NoValue THEN <<>> ELSE normalizeList(value)
           /\ IF recovered
              THEN SetItem(value, Backends \ readable)
              ELSE refused' = refused \cup (Backends \ readable) /\ UNCHANGED <<stored, flushed>>
  BY DEF Launch
<1> DEFINE local == IF "localStorage" \in readable THEN stored["localStorage"] ELSE NoValue
           mirror == IF "tizen.preference" \in readable THEN stored["tizen.preference"] ELSE NoValue
           recovered == local = NoValue /\ mirror # NoValue
           value == IF recovered THEN mirror ELSE local
<1>2. /\ gateways' = IF value = NoValue THEN <<>> ELSE normalizeList(value)
      /\ recovered => SetItem(value, Backends \ readable)
      /\ ~recovered => /\ refused' = refused \cup (Backends \ readable)
                       /\ stored' = stored /\ flushed' = flushed
  BY <1>1
<1>3. /\ running = FALSE /\ running' = TRUE /\ UNCHANGED <<active, link, editor, pending>>
  BY DEF Launch, Flags
<1>4. "localStorage" \in Backends /\ "tizen.preference" \in Backends
  BY DEF Backends
<1>5. value = NoValue \/ IsList(value)
  BY <1>4 DEF Lists
<1>6. gateways' = (IF value = NoValue THEN <<>> ELSE value) /\ IsList(gateways')
  BY <1>2, <1>5, NormalList, EmptyList
<1>7. App'
  BY <1>3, EmptyList DEF App, AtRest
<1>8. /\ Lists' /\ refused' \subseteq Backends /\ flushed' = flushed
      /\ flushed # NoValue => stored'["localStorage"] # NoValue
  <2>1. CASE recovered
    <3>1. gateways' = value /\ SetItem(gateways', Backends \ readable)
      BY <1>2, <1>6, <2>1
    <3>2. Lists' /\ Mirrored' /\ refused' \subseteq Backends /\ flushed' = flushed
      BY <1>6, <3>1, WrittenLists, SetItemFacts
    <3>3. QED
      BY <3>2 DEF Mirrored
  <2>2. CASE ~recovered
    BY <1>2, <1>6, <2>2 DEF Lists, Flags, Mirrored
  <2>3. QED
    BY <2>1, <2>2
<1>9. ASSUME flushed = NoValue, "tizen.preference" \notin refused'
      PROVE  /\ gateways' = gateways
             /\ \/ stored'["tizen.preference"] = gateways'
                \/ stored'["tizen.preference"] = NoValue /\ gateways' = <<>>
  <2>1. local = NoValue
    BY <1>3, <1>9 DEF AtRest
  <2>2. CASE recovered
    <3>1. /\ "tizen.preference" \notin refused \cup (Backends \ readable)
          /\ stored'["tizen.preference"] = value
      BY <1>2, <1>5, <1>9, <2>2, SetItemFacts
    <3>2. value = stored["tizen.preference"] /\ value # NoValue /\ gateways' = value
      BY <1>6, <2>2
    <3>3. QED
      BY <1>9, <3>1, <3>2 DEF Mirrored
  <2>3. CASE ~recovered
    <3>1. "tizen.preference" \notin refused /\ "tizen.preference" \in readable
      BY <1>2, <1>4, <1>9, <2>3
    <3>2. stored["tizen.preference"] = NoValue /\ value = NoValue
      BY <2>1, <2>3, <3>1
    <3>3. gateways = <<>>
      BY <1>9, <3>1, <3>2, ListFacts DEF Mirrored, Lists
    <3>4. QED
      BY <1>2, <1>6, <2>3, <3>2, <3>3
  <2>4. QED
    BY <2>2, <2>3
<1>10. Mirrored'
  BY <1>8, <1>9 DEF Mirrored
<1>11. Flags' /\ AtRest'
  BY <1>3, <1>8 DEF Flags, AtRest
<1>12. QED
  BY <1>7, <1>8, <1>9, <1>10, <1>11

\* What is written out is a list that localStorage had.
LEMMA FlushKeeps == ASSUME ListInv, Flush PROVE ListInv'
<1> USE DEF ListInv, Flush
<1>1. "localStorage" \in Backends
  BY DEF Backends
<1>2. Lists'
  BY <1>1 DEF Lists
<1>3. Flags' /\ App'
  BY DEF Flags, App
<1>4. AtRest' /\ Mirrored'
  BY DEF AtRest, Mirrored
<1>5. QED
  BY <1>2, <1>3, <1>4

\* A kill takes localStorage back to what was written out, and leaves the mirror.
LEMMA KillKeeps == ASSUME ListInv, Kill PROVE ListInv'
<1> USE DEF ListInv
<1>1. /\ stored' = [stored EXCEPT !["localStorage"] = flushed] /\ running' = FALSE
      /\ active' = None /\ link' = "off" /\ editor' = "closed" /\ pending' = FALSE
      /\ UNCHANGED <<gateways, flushed, refused>>
  BY DEF Kill
<1>2. "localStorage" \in Backends /\ "tizen.preference" # "localStorage"
  BY DEF Backends
<1>3. Lists'
  BY <1>1 DEF Lists
<1>4. Flags' /\ App'
  BY <1>1 DEF Flags, App
<1>5. AtRest' /\ Mirrored'
  BY <1>1, <1>2 DEF AtRest, Mirrored, Lists
<1>6. QED
  BY <1>3, <1>4, <1>5

\* Every step of the TV keeps the invariant.
LEMMA ListStep == ListInv /\ [ListNext]_listVars => ListInv'
<1> SUFFICES ASSUME ListInv, [ListNext]_listVars PROVE ListInv'
  OBVIOUS
<1>1. CASE UNCHANGED listVars
  BY <1>1 DEF listVars, storage, ListInv, Flags, Lists, App, AtRest, Mirrored
<1>2. CASE Launch \/ Flush \/ Kill
  BY <1>2, LaunchReads, FlushKeeps, KillKeeps
<1>3. CASE \/ CancelEditor
           \/ \E h \in Hosts : ConnectGatewayFromEditor(h) \/ ActivateGateway(h)
           \/ \E target \in Hosts \cup {"add"} : OpenEditor(target)
  BY <1>3, UserKeeps
<1>4. CASE Opened \/ Closed \/ Duplicate
  BY <1>4, LinkKeeps
<1>5. CASE ValidationTimeout
  BY <1>5, ValidationKeeps DEF ValidationTimeout
<1>6. CASE RefreshStored \/ Accept
  BY <1>6, StatusKeeps
<1>7. CASE \E h \in Hosts : RemoveGateway(h) \/ LearnMacAddress(h)
  BY <1>7, RemoveKeeps, LearnKeeps
<1>8. QED
  BY <1>1, <1>2, <1>3, <1>4, <1>5, <1>6, <1>7 DEF ListNext
-----------------------------------------------------------------------------
\* At any time: no list has an address twice, the active and the edited Gateway are in the
\* list, and the mirror has the list unless it refused it or localStorage kept one.
THEOREM ListInvariant == ListSpec => []ListInv
BY ListInitHolds, ListStep, PTL DEF ListSpec

\* The variables hold what the code can put in them, at any time.
THEOREM ListTypesHold == ListSpec => []ListTypeOK
<1>1. ListInv => ListTypeOK
  <2> SUFFICES ASSUME ListInv PROVE ListTypeOK
    OBVIOUS
  <2> USE DEF ListInv
  <2>1. running \in BOOLEAN /\ pending \in BOOLEAN /\ refused \subseteq Backends
    BY DEF Flags
  <2>2. gateways \in Seq(Hosts) /\ flushed \in Seq(Hosts) \cup {NoValue}
    BY DEF Lists, IsList
  <2>3. stored \in [Backends -> Seq(Hosts) \cup {NoValue}]
    BY DEF Lists, IsList
  <2>4. QED
    BY <2>1, <2>2, <2>3 DEF App, ListTypeOK
<1>2. QED
  BY <1>1, ListInvariant, PTL

\* A Gateway the TV knows by its id is in the list, once: app.js removes, edits and saves
\* Gateways so that no status of the connected one brings a former address back.
THEOREM ActiveIsSavedOnce == ListSpec => []ActiveSavedOnce
<1>1. ListInv => ActiveSavedOnce
  BY OnePlace DEF ListInv, Lists, App, ActiveSavedOnce
<1>2. QED
  BY <1>1, ListInvariant, PTL

\* After a kill the app starts with the list it had, if localStorage was never written out
\* and tizen.preference never threw (durable-storage.js:4-14).
THEOREM MirrorReturnsList == ListSpec => OnlyOlderListsReturn
<1>1. ListInv /\ [ListNext]_listVars =>
          [~running /\ running' /\ stored["localStorage"] = NoValue
           /\ "tizen.preference" \notin refused' => gateways' = gateways]_listVars
  <2> SUFFICES ASSUME ListInv, ListNext, ~running, running', stored["localStorage"] = NoValue,
                      "tizen.preference" \notin refused'
               PROVE  gateways' = gateways
    OBVIOUS
  <2>1. flushed = NoValue
    BY DEF ListInv, AtRest
  <2>2. CASE Launch
    BY <2>1, <2>2, LaunchReads
  <2>3. CASE ~Launch
    BY <2>3 DEF ListNext, Flush, Kill, CancelEditor, Opened, Closed, ValidationTimeout,
       ValidationFailed, RefreshStored, Accept, Duplicate, ConnectGatewayFromEditor,
       ActivateGateway, RemoveGateway, LearnMacAddress, OpenEditor
  <2>4. QED
    BY <2>2, <2>3
<1>2. QED
  BY <1>1, ListInvariant, PTL DEF ListSpec, OnlyOlderListsReturn
=============================================================================
