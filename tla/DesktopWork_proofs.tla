--------------------------- MODULE DesktopWork_proofs ---------------------------
(***************************************************************************)
(* Proofs about the windows of the desktop app that keep the user's work:   *)
(* the execution history (History), for any workspaces, environments,       *)
(* responses, filters, limits and numbers of runs, and the request editor   *)
(* (V1Editor), for any projects, requests, documents, checks and numbers of *)
(* steps.                                                                   *)
(***************************************************************************)
EXTENDS Desktop, WellFoundedInduction, TLAPS

(* What is known of a run under way and of a row that was recorded. *)
RunOk ==
  [uid : Nat, legacy : BOOLEAN, ws : Workspaces, env : Envs, method : Methods,
   moved : BOOLEAN, rechosen : BOOLEAN, edited : BOOLEAN]
RowOk ==
  [id : Nat, uid : Nat, run : RunOk, env : Envs, status : Statuses \cup {None},
   body : [size : 0 .. MaxBody, truncated : BOOLEAN], method : Methods]

(* A run whose marks say that nothing changed can be recorded as it is. *)
RunFits(r) ==
  /\ ~r.moved => r.ws = ws
  /\ ~r.rechosen => r.env = env
  /\ r.legacy /\ ~r.moved /\ ~r.edited => r.method = defs[ws]
RowFits(row, w) ==
  /\ row.run.ws = w \/ row.run.moved
  /\ row.env = row.run.env \/ row.run.rechosen
  /\ row.method = row.run.method \/ (row.run.legacy /\ (row.run.moved \/ row.run.edited))

(* The rows of a store come in the order of their ids, all given before. *)
Numbered(rows, next) ==
  /\ \A k \in DOMAIN rows : rows[k].id < next
  /\ \A j, k \in DOMAIN rows : j < k => rows[j].id < rows[k].id
StoreOk(store, w) ==
  /\ store \in [rows : Seq(RowOk), next : Nat]
  /\ Numbered(store.rows, store.next)
  /\ \A k \in DOMAIN store.rows : RowFits(store.rows[k], w)

(* A ticked id names the run that was ticked, or none any more. *)
Ticks(id, t, store) ==
  /\ id < store.next
  /\ \A k \in DOMAIN store.rows : store.rows[k].id = id => store.rows[k].uid = t.uid
TickOk == [uid : Nat, ws : Workspaces]
Stored1(row, store) == \E k \in DOMAIN store.rows : store.rows[k] = row
UiOk ==
  [filter : Filters, rows : Seq(RowOk), loaded : BOOLEAN, selected : Seq(Nat), ticked : Seq(TickOk)]

(* What is ticked, and what is listed. *)
TickedOk(u, all) ==
  /\ Len(u.selected) <= 2 /\ Len(u.ticked) = Len(u.selected)
  /\ \A j, k \in DOMAIN u.selected : u.selected[j] = u.selected[k] => j = k
  /\ \A k \in DOMAIN u.selected : Ticks(u.selected[k], u.ticked[k], all[u.ticked[k].ws])
Listed(rows, store) == \A k \in DOMAIN rows : Stored1(rows[k], store)
ListedOk(u, store) == u.loaded => Listed(u.rows, store)

OpenOk ==
  /\ ws \in Workspaces /\ env \in Envs /\ defs \in [Workspaces -> Methods] /\ made \in Nat
  /\ snaps \in [Workspaces -> Envs \cup {None}]
StoresOk(all) == DOMAIN all = Workspaces /\ \A w \in Workspaces : StoreOk(all[w], w)
RunsOk == running \subseteq RunOk /\ \A r \in running : RunFits(r)
HistoryInv ==
  OpenOk /\ StoresOk(stores) /\ RunsOk /\ ui \in UiOk /\ TickedOk(ui, stores) /\ ListedOk(ui, stores[ws])

WorkInv == focus = "history" => HistoryInv

-----------------------------------------------------------------------------
(* Induction over the naturals, from the least counterexample. *)
LEMMA Least ==
  ASSUME NEW T \in SUBSET Nat, T # {}
  PROVE  \E x \in T : \A y \in T : x <= y
<1> DEFINE R == OpToRel(<, Nat)
<1>1. IsWellFoundedOn(R, Nat)
  BY NatLessThanWellFounded
<1>2. \A x, y \in Nat : y < x => <<y, x>> \in R
  BY DEF OpToRel
<1> HIDE DEF R
<1>3. PICK x \in T : \A y \in T : ~(<<y, x>> \in R)
  BY <1>1, WFMin
<1>4. \A y \in T : ~(y < x)
  BY <1>2, <1>3
<1>5. \A y \in T : y \in Nat /\ x \in Nat
  OBVIOUS
<1>. QED
  BY <1>4, <1>5

LEMMA Inductive ==
  ASSUME NEW T \in SUBSET Nat, 0 \in T, \A n \in T : n + 1 \in T
  PROVE  T = Nat
<1>1. SUFFICES ASSUME Nat \ T # {} PROVE FALSE
  OBVIOUS
<1>2. PICK x \in Nat \ T : \A y \in Nat \ T : x <= y
  BY <1>1, Least
<1>3. x # 0 /\ x - 1 \in Nat
  BY <1>2
<1>4. x - 1 \in T
  BY <1>2, <1>3
<1>. QED
  BY <1>2, <1>3, <1>4

(* What is picked stands at the places given, in their order. *)
PickedAt(r, q, places, last, at) ==
  /\ at \in [DOMAIN r -> places \cap 1 .. last]
  /\ \A i \in DOMAIN r : r[i] = q[at[i]]
  /\ \A i, j \in DOMAIN r : i < j => at[i] < at[j]
  /\ \A p \in places \cap 1 .. last : \E i \in DOMAIN r : at[i] = p

PicksTo(f, q, places, n) ==
  /\ DOMAIN f = 0 .. n /\ f[0] = << >>
  /\ \A k \in 1 .. n :
       f[k] = IF k \in places THEN Append(f[k - 1], q[k]) ELSE f[k - 1]

LEMMA PicksExist ==
  ASSUME NEW n \in Nat, NEW q, NEW places
  PROVE  \E f : PicksTo(f, q, places, n) /\ f = [k \in 0 .. n |-> f[k]]
<1> DEFINE T == {m \in Nat : \E f : PicksTo(f, q, places, m)}
<1>1. 0 \in T
  <2>1. PicksTo([k \in 0 .. 0 |-> << >>], q, places, 0)
    BY DEF PicksTo
  <2>. QED
    BY <2>1
<1>2. ASSUME NEW m \in T PROVE m + 1 \in T
  <2>1. PICK f : PicksTo(f, q, places, m)
    OBVIOUS
  <2> DEFINE last == IF m + 1 \in places THEN Append(f[m], q[m + 1]) ELSE f[m]
             g == [k \in 0 .. (m + 1) |-> IF k = m + 1 THEN last ELSE f[k]]
  <2>2. g[m + 1] = last /\ \A k \in 0 .. m : g[k] = f[k]
    OBVIOUS
  <2>3. ASSUME NEW k \in 1 .. (m + 1)
        PROVE  g[k] = IF k \in places THEN Append(g[k - 1], q[k]) ELSE g[k - 1]
    <3>1. CASE k = m + 1
      <4>1. k - 1 = m /\ m \in 0 .. m
        BY <3>1
      <4>2. g[k - 1] = f[m]
        BY <2>2, <4>1
      <4> HIDE DEF g
      <4>. QED
        BY <2>2, <3>1, <4>2
    <3>2. CASE k \in 1 .. m
      <4>1. k \in 0 .. m /\ k - 1 \in 0 .. m
        BY <3>2
      <4>2. g[k] = f[k] /\ g[k - 1] = f[k - 1]
        BY <2>2, <4>1
      <4> HIDE DEF g
      <4>. QED
        BY <2>1, <3>2, <4>2 DEF PicksTo
    <3>3. k = m + 1 \/ k \in 1 .. m
      OBVIOUS
    <3> HIDE DEF g
    <3>. QED
      BY <3>1, <3>2, <3>3
  <2>4. DOMAIN g = 0 .. (m + 1) /\ g[0] = << >>
    BY <2>1, <2>2 DEF PicksTo
  <2> HIDE DEF g
  <2>5. PicksTo(g, q, places, m + 1)
    BY <2>3, <2>4 DEF PicksTo
  <2>. QED
    BY <2>5
<1>3. T = Nat
  <2>1. T \in SUBSET Nat
    OBVIOUS
  <2> HIDE DEF T
  <2>. QED
    BY <1>1, <1>2, <2>1, Inductive
<1>4. PICK f : PicksTo(f, q, places, n)
  BY <1>3
<1>5. PicksTo([k \in 0 .. n |-> f[k]], q, places, n)
  BY <1>4 DEF PicksTo
<1>. QED
  BY <1>5

Grown(s, r, q, places, k) == s = IF k \in places THEN Append(r, q[k]) ELSE r

LEMMA PickOne ==
  ASSUME NEW X, NEW q \in Seq(X), NEW places \in SUBSET (DOMAIN q), NEW k \in DOMAIN q,
         NEW r \in Seq(X), NEW at, PickedAt(r, q, places, k - 1, at),
         NEW s, Grown(s, r, q, places, k)
  PROVE  s \in Seq(X) /\ \E to : PickedAt(s, q, places, k, to)
<1>0. k \in 1 .. Len(q) /\ Len(q) \in Nat /\ DOMAIN q = 1 .. Len(q) /\ Len(r) \in Nat /\ DOMAIN r = 1 .. Len(r)
  OBVIOUS
<1>1. CASE k \notin places
  <2>1. places \cap 1 .. k = places \cap 1 .. (k - 1)
    BY <1>0, <1>1
  <2>2. PickedAt(s, q, places, k, at)
    BY <1>1, <2>1 DEF PickedAt, Grown
  <2>. QED
    BY <1>1, <2>2 DEF Grown
<1>2. CASE k \in places
  <2> DEFINE n == Len(r) + 1
             to == [i \in 1 .. n |-> IF i = n THEN k ELSE at[i]]
  <2>1. /\ s \in Seq(X) /\ DOMAIN s = 1 .. n /\ s[n] = q[k]
        /\ \A i \in DOMAIN r : s[i] = r[i]
    BY <1>2 DEF Grown
  <2>2. DOMAIN to = 1 .. n /\ to[n] = k /\ \A i \in DOMAIN r : to[i] = at[i]
    BY <1>0
  <2>3. \A i \in 1 .. n : i = n \/ i \in DOMAIN r
    BY <1>0
  <2>4. n \in 1 .. n /\ n \notin DOMAIN r /\ DOMAIN r \subseteq 1 .. n
    BY <1>0
  <2>5. \A i \in DOMAIN r : at[i] \in places /\ at[i] \in 1 .. (k - 1) /\ at[i] < k /\ at[i] \in 1 .. k
    <3>1. \A i \in DOMAIN r : at[i] \in places \cap 1 .. (k - 1)
      BY DEF PickedAt
    <3>. QED
      BY <1>0, <3>1
  <2> HIDE DEF n, to
  <2>6. to \in [DOMAIN s -> places \cap 1 .. k]
    <3>1. \A i \in 1 .. n : to[i] \in places \cap 1 .. k
      BY <1>0, <1>2, <2>2, <2>3, <2>5
    <3>2. to = [i \in 1 .. n |-> to[i]]
      BY <2>2 DEF to
    <3>. QED
      BY <2>1, <3>1, <3>2
  <2>7. \A i \in DOMAIN s : s[i] = q[to[i]]
    BY <2>1, <2>2, <2>3 DEF PickedAt
  <2>8. ASSUME NEW i \in DOMAIN s, NEW j \in DOMAIN s, i < j PROVE to[i] < to[j]
    <3>1. i \in DOMAIN r
      BY <1>0, <2>1, <2>8 DEF n
    <3>2. CASE j = n
      BY <2>2, <2>5, <3>1, <3>2
    <3>3. CASE j \in DOMAIN r
      BY <2>2, <2>8, <3>1, <3>3 DEF PickedAt
    <3>. QED
      BY <2>1, <2>3, <3>2, <3>3
  <2>9. ASSUME NEW p \in places \cap 1 .. k PROVE \E i \in DOMAIN s : to[i] = p
    <3>1. CASE p = k
      BY <2>1, <2>2, <2>4, <3>1
    <3>2. CASE p \in 1 .. (k - 1)
      <4>1. PICK i \in DOMAIN r : at[i] = p
        BY <3>2 DEF PickedAt
      <4>. QED
        BY <2>1, <2>2, <2>4, <4>1
    <3>3. p = k \/ p \in 1 .. (k - 1)
      BY <1>0
    <3>. QED
      BY <3>1, <3>2, <3>3
  <2>10. PickedAt(s, q, places, k, to)
    BY <2>6, <2>7, <2>8, <2>9 DEF PickedAt
  <2>. QED
    BY <2>1, <2>10
<1>. QED
  BY <1>1, <1>2

LEMMA PickedFacts ==
  ASSUME NEW X, NEW q \in Seq(X), NEW places \in SUBSET (DOMAIN q)
  PROVE  /\ History1!Picked(q, places) \in Seq(X)
         /\ \E at : PickedAt(History1!Picked(q, places), q, places, Len(q), at)
<1> DEFINE n == Len(q)
           Is(f) == f = [k \in 0 .. Len(q) |->
                           IF k = 0 THEN << >>
                           ELSE IF k \in places THEN Append(f[k - 1], q[k]) ELSE f[k - 1]]
<1>0. n \in Nat /\ DOMAIN q = 1 .. n
  OBVIOUS
<1>1. PICK g : PicksTo(g, q, places, n) /\ g = [k \in 0 .. n |-> g[k]]
  BY <1>0, PicksExist
<1>2. Is(g)
  <2>1. ASSUME NEW k \in 0 .. n
        PROVE  g[k] = IF k = 0 THEN << >>
                      ELSE IF k \in places THEN Append(g[k - 1], q[k]) ELSE g[k - 1]
    <3>1. CASE k = 0
      BY <1>1, <3>1 DEF PicksTo
    <3>2. CASE k # 0
      <4>1. k \in 1 .. n
        BY <1>0, <3>2
      <4>2. g[k] = IF k \in places THEN Append(g[k - 1], q[k]) ELSE g[k - 1]
        BY <1>1, <4>1 DEF PicksTo
      <4>. QED
        BY <3>2, <4>2
    <3>. QED
      BY <3>1, <3>2
  <2>. QED
    BY <1>1, <2>1
<1>3. PICK f : Is(f) /\ History1!Picked(q, places) = f[n]
  <2>1. Is(CHOOSE f : Is(f))
    BY <1>2
  <2>. QED
    BY <2>1 DEF History1!Picked
<1>4. f[0] = << >> /\ \A k \in 1 .. n : f[k] = IF k \in places THEN Append(f[k - 1], q[k]) ELSE f[k - 1]
  <2>1. 0 \in 0 .. n
    BY <1>0
  <2>2. ASSUME NEW k \in 1 .. n
        PROVE  f[k] = IF k \in places THEN Append(f[k - 1], q[k]) ELSE f[k - 1]
    <3>1. k \in 0 .. n /\ k # 0
      BY <1>0
    <3>. QED
      BY <1>3, <3>1
  <2>3. f[0] = << >>
    BY <1>3, <2>1
  <2>. QED
    BY <2>2, <2>3
<1> HIDE DEF Is
<1> DEFINE Sound(k) == f[k] \in Seq(X) /\ \E at : PickedAt(f[k], q, places, k, at)
           T == {k \in Nat : k <= n => Sound(k)}
<1>5. 0 \in T
  <2>1. f[0] = << >> /\ << >> \in Seq(X) /\ DOMAIN << >> = {} /\ 1 .. 0 = {}
    BY <1>4
  <2>2. PickedAt(f[0], q, places, 0, [i \in {} |-> 0])
    BY <2>1 DEF PickedAt
  <2>. QED
    BY <2>1, <2>2
<1>6. ASSUME NEW j \in T PROVE j + 1 \in T
  <2>1. SUFFICES ASSUME j + 1 <= n PROVE Sound(j + 1)
    OBVIOUS
  <2>2. j \in Nat /\ j + 1 \in 1 .. n /\ j + 1 \in DOMAIN q /\ (j + 1) - 1 = j /\ Sound(j)
    BY <1>0, <2>1
  <2>3. Grown(f[j + 1], f[j], q, places, j + 1)
    BY <1>4, <2>2 DEF Grown
  <2>4. PICK at : PickedAt(f[j], q, places, (j + 1) - 1, at)
    BY <2>2
  <2>. QED
    BY <2>2, <2>3, <2>4, PickOne
<1>7. T = Nat
  <2>1. T \in SUBSET Nat
    OBVIOUS
  <2> HIDE DEF T
  <2>. QED
    BY <1>5, <1>6, <2>1, Inductive
<1>8. n \in T
  BY <1>0, <1>7
<1>. QED
  BY <1>0, <1>3, <1>8

-----------------------------------------------------------------------------
(* The store: an id stands for one row. *)
LEMMA StoreIds ==
  ASSUME NEW w, NEW store, StoreOk(store, w), NEW k \in DOMAIN store.rows
  PROVE  /\ History1!Has(store, store.rows[k].id)
         /\ History1!Get(store, store.rows[k].id) = store.rows[k]
         /\ \A j \in DOMAIN store.rows : store.rows[j].id = store.rows[k].id => j = k
<1>1. /\ store.rows \in Seq(RowOk) /\ DOMAIN store.rows \subseteq Nat
      /\ \A j \in DOMAIN store.rows : store.rows[j].id \in Nat
      /\ \A i, j \in DOMAIN store.rows : i < j => store.rows[i].id < store.rows[j].id
  <2>1. store.rows \in Seq(RowOk) /\ Numbered(store.rows, store.next)
    BY DEF StoreOk
  <2>2. \A j \in DOMAIN store.rows : store.rows[j] \in RowOk
    BY <2>1
  <2>3. \A row \in RowOk : row.id \in Nat
    BY DEF RowOk
  <2>4. DOMAIN store.rows \subseteq Nat
    BY <2>1
  <2>. QED
    BY <2>1, <2>2, <2>3, <2>4 DEF Numbered
<1>2. \A j \in DOMAIN store.rows : store.rows[j].id = store.rows[k].id => j = k
  <2> SUFFICES ASSUME NEW j \in DOMAIN store.rows, store.rows[j].id = store.rows[k].id
               PROVE  j = k
    OBVIOUS
  <2>1. ~(j < k) /\ ~(k < j)
    BY <1>1
  <2>2. j \in Nat /\ k \in Nat
    BY <1>1
  <2>. QED
    BY <2>1, <2>2
<1>. QED
  BY <1>2 DEF History1!Has, History1!Get

(* What becomes of a store: rows go, and the one that comes has a new id. *)
Follows(later, store) ==
  /\ later.next >= store.next
  /\ \A k \in DOMAIN later.rows :
       later.rows[k].id = store.next \/ Stored1(later.rows[k], store)

LEMMA TicksFollow ==
  ASSUME NEW w, NEW store, StoreOk(store, w), NEW later, StoreOk(later, w), Follows(later, store),
         NEW id \in Nat, NEW t, Ticks(id, t, store)
  PROVE  Ticks(id, t, later)
<1>1. store.next \in Nat /\ later.next \in Nat /\ id < store.next /\ id # store.next
  BY DEF StoreOk, Ticks
<1>2. id < later.next
  BY <1>1 DEF Follows
<1>3. ASSUME NEW k \in DOMAIN later.rows, later.rows[k].id = id
      PROVE  later.rows[k].uid = t.uid
  <2>1. PICK j \in DOMAIN store.rows : store.rows[j] = later.rows[k]
    BY <1>1, <1>3 DEF Follows, Stored1
  <2>. QED
    BY <1>3, <2>1 DEF Ticks
<1>. QED
  BY <1>2, <1>3 DEF Ticks

LEMMA RecordKeeps ==
  ASSUME NEW w, NEW store, StoreOk(store, w), NEW entry \in RowOk, RowFits(entry, w)
  PROVE  LET later == History1!RecordRaw(store, entry)
         IN /\ StoreOk(later, w) /\ Follows(later, store)
            /\ \A row : Stored1(row, store) => Stored1(row, later)
<1> DEFINE new == [entry EXCEPT !.id = store.next]
           later == History1!RecordRaw(store, entry)
<1>1. store.rows \in Seq(RowOk) /\ store.next \in Nat /\ Numbered(store.rows, store.next)
      /\ \A k \in DOMAIN store.rows : RowFits(store.rows[k], w)
  BY DEF StoreOk
<1>2. new \in RowOk /\ new.id = store.next /\ RowFits(new, w)
  BY <1>1 DEF RowOk, RowFits
<1>3. later.rows = Append(store.rows, new) /\ later.next = store.next + 1
      /\ later = [rows |-> Append(store.rows, new), next |-> store.next + 1]
  BY DEF History1!RecordRaw, History1!NextId
<1> HIDE DEF new, later
<1>4. /\ later.rows \in Seq(RowOk) /\ Len(store.rows) \in Nat
      /\ DOMAIN later.rows = 1 .. (Len(store.rows) + 1) /\ DOMAIN store.rows = 1 .. Len(store.rows)
      /\ later.rows[Len(store.rows) + 1] = new
      /\ \A k \in DOMAIN store.rows : later.rows[k] = store.rows[k]
  BY <1>1, <1>2, <1>3
<1>5. \A k \in DOMAIN later.rows : k = Len(store.rows) + 1 \/ k \in DOMAIN store.rows
  BY <1>4
<1>6. \A k \in DOMAIN store.rows : store.rows[k].id \in Nat /\ store.rows[k].id < store.next
  <2>1. \A k \in DOMAIN store.rows : store.rows[k] \in RowOk
    BY <1>1
  <2>. QED
    BY <1>1, <2>1 DEF Numbered, RowOk
<1>7. \A k \in DOMAIN later.rows : later.rows[k].id < later.next
  BY <1>1, <1>2, <1>3, <1>4, <1>5, <1>6
<1>8. ASSUME NEW j \in DOMAIN later.rows, NEW k \in DOMAIN later.rows, j < k
      PROVE  later.rows[j].id < later.rows[k].id
  <2>1. j \in DOMAIN store.rows
    BY <1>4, <1>8
  <2>2. CASE k \in DOMAIN store.rows
    BY <1>1, <1>4, <1>8, <2>1, <2>2 DEF Numbered
  <2>3. CASE k = Len(store.rows) + 1
    BY <1>2, <1>4, <1>6, <2>1, <2>3
  <2>. QED
    BY <1>5, <2>2, <2>3
<1>9. \A k \in DOMAIN later.rows : RowFits(later.rows[k], w)
  BY <1>1, <1>2, <1>4, <1>5
<1>10. StoreOk(later, w)
  <2>1. later \in [rows : Seq(RowOk), next : Nat]
    BY <1>1, <1>3, <1>4
  <2>. QED
    BY <1>7, <1>8, <1>9, <2>1 DEF StoreOk, Numbered
<1>11. Follows(later, store)
  BY <1>1, <1>2, <1>3, <1>4, <1>5 DEF Follows, Stored1
<1>12. ASSUME NEW row, Stored1(row, store) PROVE Stored1(row, later)
  <2>1. PICK k \in DOMAIN store.rows : store.rows[k] = row
    BY <1>12 DEF Stored1
  <2>2. k \in DOMAIN later.rows /\ later.rows[k] = row
    BY <1>4, <2>1
  <2>. QED
    BY <2>2 DEF Stored1
<1>. QED
  BY <1>10, <1>11, <1>12 DEF later

(* A selection of the rows, in their order. *)
SameRows(rows, store, places) ==
  /\ \A k \in DOMAIN rows : \E p \in places : rows[k] = store.rows[p]
  /\ \A p \in places : \E k \in DOMAIN rows : rows[k] = store.rows[p]

LEMMA PickedStore ==
  ASSUME NEW w, NEW store, StoreOk(store, w), NEW places \in SUBSET DOMAIN store.rows,
         NEW rows, rows = History1!Picked(store.rows, places)
  PROVE  /\ rows \in Seq(RowOk)
         /\ \A k \in DOMAIN rows : Stored1(rows[k], store)
         /\ \A j, k \in DOMAIN rows : j < k => rows[j].id < rows[k].id
         /\ SameRows(rows, store, places)
<1>1. store.rows \in Seq(RowOk) /\ DOMAIN store.rows = 1 .. Len(store.rows)
      /\ \A i, j \in DOMAIN store.rows : i < j => store.rows[i].id < store.rows[j].id
  BY DEF StoreOk, Numbered
<1>2. rows \in Seq(RowOk)
  BY <1>1, PickedFacts
<1>3. PICK at : PickedAt(rows, store.rows, places, Len(store.rows), at)
  BY <1>1, PickedFacts
<1>4. places \cap 1 .. Len(store.rows) = places
  BY <1>1
<1>5. \A k \in DOMAIN rows : at[k] \in places /\ at[k] \in DOMAIN store.rows /\ rows[k] = store.rows[at[k]]
  BY <1>3, <1>4 DEF PickedAt
<1>6. \A j, k \in DOMAIN rows : j < k => rows[j].id < rows[k].id
  BY <1>1, <1>3, <1>5 DEF PickedAt
<1>7. \A p \in places : \E k \in DOMAIN rows : rows[k] = store.rows[p]
  BY <1>3, <1>4, <1>5 DEF PickedAt
<1>. QED
  BY <1>2, <1>5, <1>6, <1>7 DEF Stored1, SameRows

LEMMA WithoutKeeps ==
  ASSUME NEW w, NEW store, StoreOk(store, w), NEW id
  PROVE  LET later == History1!Without(store, id)
         IN StoreOk(later, w) /\ Follows(later, store)
<1> DEFINE later == History1!Without(store, id)
           places == {k \in DOMAIN store.rows : store.rows[k].id # id}
           rows == History1!Picked(store.rows, places)
<1>1. store \in [rows : Seq(RowOk), next : Nat] /\ Numbered(store.rows, store.next)
      /\ \A k \in DOMAIN store.rows : RowFits(store.rows[k], w)
  BY DEF StoreOk
<1>2. later = [rows |-> rows, next |-> store.next] /\ later.rows = rows /\ later.next = store.next
  BY <1>1 DEF History1!Without
<1>3. places \in SUBSET DOMAIN store.rows
  OBVIOUS
<1> HIDE DEF places, later
<1>4. /\ rows \in Seq(RowOk)
      /\ \A k \in DOMAIN rows : Stored1(rows[k], store)
      /\ \A j, k \in DOMAIN rows : j < k => rows[j].id < rows[k].id
  BY <1>3, PickedStore
<1> HIDE DEF rows
<1>5. \A k \in DOMAIN rows : rows[k].id < store.next /\ RowFits(rows[k], w)
  BY <1>1, <1>4 DEF Stored1, Numbered
<1>6. later \in [rows : Seq(RowOk), next : Nat]
  BY <1>1, <1>2, <1>4
<1>7. StoreOk(later, w)
  BY <1>2, <1>4, <1>5, <1>6 DEF StoreOk, Numbered
<1>8. Follows(later, store)
  BY <1>1, <1>2, <1>4 DEF Follows
<1>. QED
  BY <1>7, <1>8 DEF later

-----------------------------------------------------------------------------
(* The query: a row is found when it passes each of the clauses given. *)
LEMMA SelectsJoin ==
  ASSUME NEW X, NEW x \in Seq(X), NEW y \in Seq(X), NEW row
  PROVE  /\ x \o y \in Seq(X)
         /\ History1!Selects(x \o y, row) <=> History1!Selects(x, row) /\ History1!Selects(y, row)
<1> DEFINE z == x \o y
           Ok(c) == History1!Passes(row, c.column, c.value)
<1>1. /\ z \in Seq(X) /\ DOMAIN z = 1 .. (Len(x) + Len(y)) /\ Len(x) \in Nat /\ Len(y) \in Nat
      /\ DOMAIN x = 1 .. Len(x) /\ DOMAIN y = 1 .. Len(y)
  OBVIOUS
<1>2. \A k \in DOMAIN z : z[k] = IF k <= Len(x) THEN x[k] ELSE y[k - Len(x)]
  OBVIOUS
<1>3. \A q : History1!Selects(q, row) <=> \A k \in DOMAIN q : Ok(q[k])
  BY DEF History1!Selects, History1!Placeholder
<1> HIDE DEF z, Ok
<1>4. ASSUME \A k \in DOMAIN z : Ok(z[k])
      PROVE  (\A k \in DOMAIN x : Ok(x[k])) /\ \A k \in DOMAIN y : Ok(y[k])
  <2>1. \A k \in DOMAIN x : k \in DOMAIN z /\ z[k] = x[k]
    BY <1>1, <1>2
  <2>2. \A k \in DOMAIN y : Len(x) + k \in DOMAIN z /\ z[Len(x) + k] = y[k]
    <3>1. \A k \in DOMAIN y : /\ Len(x) + k \in DOMAIN z /\ ~(Len(x) + k <= Len(x))
                              /\ (Len(x) + k) - Len(x) = k
      BY <1>1
    <3>. QED
      BY <1>2, <3>1
  <2>3. \A k \in DOMAIN x : Ok(x[k])
    BY <1>4, <2>1
  <2>4. \A k \in DOMAIN y : Ok(y[k])
    BY <1>4, <2>2
  <2>. QED
    BY <2>3, <2>4
<1>5. ASSUME \A k \in DOMAIN x : Ok(x[k]), \A k \in DOMAIN y : Ok(y[k]), NEW k \in DOMAIN z
      PROVE  Ok(z[k])
  <2>1. CASE k <= Len(x)
    <3>1. k \in DOMAIN x /\ z[k] = x[k]
      BY <1>1, <1>2, <2>1
    <3>. QED
      BY <1>5, <3>1
  <2>2. CASE ~(k <= Len(x))
    <3>1. k - Len(x) \in DOMAIN y /\ z[k] = y[k - Len(x)]
      BY <1>1, <1>2, <2>2
    <3>. QED
      BY <1>5, <3>1
  <2>. QED
    BY <2>1, <2>2
<1>6. (\A k \in DOMAIN z : Ok(z[k])) <=> (\A k \in DOMAIN x : Ok(x[k])) /\ \A k \in DOMAIN y : Ok(y[k])
  BY <1>4, <1>5
<1>. QED
  BY <1>1, <1>3, <1>6 DEF z

LEMMA ClauseSays ==
  ASSUME NEW column, NEW value, NEW row, NEW X, [column |-> column, value |-> value] \in X
  PROVE  /\ History1!Clause(column, value) \in Seq(X)
         /\ History1!Selects(History1!Clause(column, value), row)
              <=> value = None \/ History1!Passes(row, column, value)
<1> DEFINE c == [column |-> column, value |-> value]
           one == <<c>>
<1>1. CASE value = None
  <2>1. History1!Clause(column, value) = << >>
    BY <1>1 DEF History1!Clause
  <2>2. History1!Selects(<< >>, row)
    BY DEF History1!Selects
  <2>. QED
    BY <1>1, <2>1, <2>2
<1>2. CASE value # None
  <2>1. History1!Clause(column, value) = one
    BY <1>2 DEF History1!Clause
  <2>2. one \in Seq(X) /\ DOMAIN one = {1} /\ one[1] = c
    OBVIOUS
  <2>3. c.column = column /\ c.value = value
    OBVIOUS
  <2> HIDE DEF one, c
  <2>4. History1!Selects(one, row) <=> History1!Passes(row, column, value)
    BY <2>2, <2>3 DEF History1!Selects, History1!Placeholder
  <2>. QED
    BY <1>2, <2>1, <2>2, <2>4
<1>. QED
  BY <1>1, <1>2

LEMMA QueryFits ==
  ASSUME NEW filter, NEW row \in RowOk
  PROVE  History1!Selects(History1!Given(filter), row) <=> History1!Fits(row, filter)
<1> DEFINE range == History1!RangeOf(filter.class)
           low == range[1]
           high == range[2]
           X == {[column |-> "method", value |-> filter.method],
                 [column |-> "min", value |-> low], [column |-> "max", value |-> high]}
           m == History1!Clause("method", filter.method)
           a == History1!Clause("min", low)
           b == History1!Clause("max", high)
<1>1. /\ m \in Seq(X) /\ a \in Seq(X) /\ b \in Seq(X)
      /\ History1!Selects(m, row) <=> filter.method = None \/ History1!Passes(row, "method", filter.method)
      /\ History1!Selects(a, row) <=> low = None \/ History1!Passes(row, "min", low)
      /\ History1!Selects(b, row) <=> high = None \/ History1!Passes(row, "max", high)
  <2>1. /\ [column |-> "method", value |-> filter.method] \in X
        /\ [column |-> "min", value |-> low] \in X /\ [column |-> "max", value |-> high] \in X
    OBVIOUS
  <2> HIDE DEF X, low, high
  <2>. QED
    BY <2>1, ClauseSays
<1>2. History1!Given(filter) = (m \o a) \o b
  BY DEF History1!Given
<1> HIDE DEF m, a, b, X
<1>3. m \o a \in Seq(X)
      /\ (History1!Selects(m \o a, row) <=> History1!Selects(m, row) /\ History1!Selects(a, row))
  BY <1>1, SelectsJoin
<1>4. History1!Selects((m \o a) \o b, row) <=>
        History1!Selects(m \o a, row) /\ History1!Selects(b, row)
  BY <1>1, <1>3, SelectsJoin
<1>5. row.status \in Nat \cup {None} /\ None \notin Nat
  BY HistoryAssumption DEF RowOk
<1>6. (low = None \/ History1!Passes(row, "min", low))
      /\ (high = None \/ History1!Passes(row, "max", high))
        <=> CASE filter.class = "2xx" -> row.status # None /\ row.status \in 200 .. 299
              [] filter.class = "5xx" -> row.status # None /\ row.status \in 500 .. 599
              [] OTHER -> TRUE
  <2>1. CASE filter.class = "2xx"
    <3>1. low = 200 /\ high = 299
      BY <2>1 DEF History1!RangeOf
    <3>2. History1!Passes(row, "min", 200) <=> row.status # None /\ row.status >= 200
      BY DEF History1!Passes
    <3>3. History1!Passes(row, "max", 299) <=> row.status # None /\ row.status <= 299
      BY DEF History1!Passes
    <3> HIDE DEF low, high
    <3>4. 200 # None /\ 299 # None
      BY <1>5
    <3>5. row.status # None =>
            (row.status >= 200 /\ row.status <= 299 <=> row.status \in 200 .. 299)
      BY <1>5
    <3>. QED
      BY <2>1, <3>1, <3>2, <3>3, <3>4, <3>5
  <2>2. CASE filter.class # "2xx" /\ filter.class = "5xx"
    <3>1. low = 500 /\ high = 599
      BY <2>2 DEF History1!RangeOf
    <3>2. History1!Passes(row, "min", 500) <=> row.status # None /\ row.status >= 500
      BY DEF History1!Passes
    <3>3. History1!Passes(row, "max", 599) <=> row.status # None /\ row.status <= 599
      BY DEF History1!Passes
    <3> HIDE DEF low, high
    <3>4. 500 # None /\ 599 # None
      BY <1>5
    <3>5. row.status # None =>
            (row.status >= 500 /\ row.status <= 599 <=> row.status \in 500 .. 599)
      BY <1>5
    <3>. QED
      BY <2>2, <3>1, <3>2, <3>3, <3>4, <3>5
  <2>3. CASE filter.class # "2xx" /\ filter.class # "5xx"
    <3>1. low = None /\ high = None
      BY <2>3 DEF History1!RangeOf
    <3> HIDE DEF low, high
    <3>. QED
      BY <2>3, <3>1
  <2>. QED
    BY <2>1, <2>2, <2>3
<1>7. filter.method = None \/ History1!Passes(row, "method", filter.method)
        <=> filter.method \in {None, row.method}
  BY DEF History1!Passes
<1> HIDE DEF low, high
<1>. QED
  BY <1>1, <1>2, <1>3, <1>4, <1>6, <1>7 DEF History1!Fits

(* The list: the newest rows that fit, as many as the limit allows. *)
LEMMA ListIs ==
  ASSUME NEW w, NEW store, StoreOk(store, w), NEW filter,
         NEW rows, rows = History1!List(store, filter)
  PROVE  /\ rows \in Seq(RowOk) /\ \A k \in DOMAIN rows : Stored1(rows[k], store)
         /\ \A k \in DOMAIN rows : History1!Fits(rows[k], filter)
         /\ \A j, k \in DOMAIN rows : j < k => rows[j].id > rows[k].id
         /\ \A p \in DOMAIN store.rows : History1!Fits(store.rows[p], filter) =>
              \/ \E k \in DOMAIN rows : rows[k] = store.rows[p]
              \/ Len(rows) = Limit /\ \A k \in DOMAIN rows : store.rows[p].id < rows[k].id
<1> DEFINE places == {k \in DOMAIN store.rows : History1!Selects(History1!Given(filter), store.rows[k])}
           found == History1!Picked(store.rows, places)
           n == Len(found)
           size == IF n < Limit THEN n ELSE Limit
<1>1. /\ found \in Seq(RowOk)
      /\ \A k \in DOMAIN found : Stored1(found[k], store)
      /\ \A j, k \in DOMAIN found : j < k => found[j].id < found[k].id
      /\ \A k \in DOMAIN found : \E p \in places : found[k] = store.rows[p]
      /\ \A p \in places : \E k \in DOMAIN found : found[k] = store.rows[p]
  <2>1. places \in SUBSET DOMAIN store.rows
    OBVIOUS
  <2>2. found = History1!Picked(store.rows, places)
    OBVIOUS
  <2> HIDE DEF places, found
  <2>3. found \in Seq(RowOk) /\ \A k \in DOMAIN found : Stored1(found[k], store)
    BY <2>1, <2>2, PickedStore
  <2>4. \A j, k \in DOMAIN found : j < k => found[j].id < found[k].id
    BY <2>1, <2>2, PickedStore
  <2>5. SameRows(found, store, places)
    BY <2>1, <2>2, PickedStore
  <2>. QED
    BY <2>3, <2>4, <2>5 DEF SameRows
<1>2. \A p \in DOMAIN store.rows : store.rows[p] \in RowOk
  BY DEF StoreOk
<1>3. \A p \in DOMAIN store.rows : p \in places <=> History1!Fits(store.rows[p], filter)
  BY <1>2, QueryFits
<1>4. rows = [k \in 1 .. (IF Len(History1!NewestFirst(found)) < Limit
                           THEN Len(History1!NewestFirst(found)) ELSE Limit)
                |-> History1!NewestFirst(found)[k]]
  BY DEF History1!List
<1> HIDE DEF places, found
<1>5. n \in Nat /\ DOMAIN found = 1 .. n /\ Limit \in Nat
  BY <1>1, HistoryAssumption
<1>6. \A k \in 1 .. n : n + 1 - k \in 1 .. n /\ n + 1 - (n + 1 - k) = k
  BY <1>5
<1>7. History1!NewestFirst(found) = [k \in 1 .. n |-> found[n + 1 - k]]
  BY <1>5 DEF History1!NewestFirst
<1>8. Len(History1!NewestFirst(found)) = n
  <2> HIDE DEF n
  <2>1. ASSUME NEW k \in 1 .. n PROVE found[n + 1 - k] \in RowOk
    <3>1. n + 1 - k \in DOMAIN found
      BY <1>5, <1>6
    <3>. QED
      BY <1>1, <3>1
  <2>2. History1!NewestFirst(found) \in [1 .. n -> RowOk]
    BY <1>7, <2>1
  <2>3. \A f \in [1 .. n -> RowOk] : Len(f) = n
    BY <1>5
  <2>. QED
    BY <2>2, <2>3
<1> HIDE DEF n
<1>9. size \in Nat /\ size <= n /\ size <= Limit /\ (size < n => size = Limit)
  BY <1>5
<1>10. rows = [k \in 1 .. size |-> found[n + 1 - k]]
  <2>1. rows = [k \in 1 .. size |-> History1!NewestFirst(found)[k]]
    BY <1>4, <1>8
  <2> HIDE DEF size
  <2>2. \A k \in 1 .. size : k \in 1 .. n
    BY <1>5, <1>9
  <2>3. \A k \in 1 .. size : History1!NewestFirst(found)[k] = found[n + 1 - k]
    BY <1>7, <2>2
  <2>. QED
    BY <2>1, <2>3
<1> HIDE DEF size
<1>11. DOMAIN rows = 1 .. size
       /\ \A k \in 1 .. size : k \in 1 .. n /\ n + 1 - k \in DOMAIN found /\ rows[k] = found[n + 1 - k]
  <2>1. \A k \in 1 .. size : k \in 1 .. n
    BY <1>5, <1>9
  <2>2. \A k \in 1 .. size : n + 1 - k \in DOMAIN found
    BY <1>5, <1>6, <2>1
  <2>3. DOMAIN rows = 1 .. size /\ \A k \in 1 .. size : rows[k] = found[n + 1 - k]
    BY <1>10
  <2>. QED
    BY <2>1, <2>2, <2>3
<1>12. rows \in Seq(RowOk) /\ Len(rows) = size
  <2>1. \A i \in DOMAIN found : found[i] \in RowOk
    BY <1>1
  <2>2. \A k \in 1 .. size : found[n + 1 - k] \in RowOk
    BY <1>11, <2>1
  <2>3. rows \in [1 .. size -> RowOk]
    BY <1>10, <2>2
  <2>4. \A f \in [1 .. size -> RowOk] : f \in Seq(RowOk) /\ Len(f) = size
    BY <1>9
  <2>. QED
    BY <2>3, <2>4
<1>13. \A k \in DOMAIN rows : Stored1(rows[k], store) /\ History1!Fits(rows[k], filter)
  <2> SUFFICES ASSUME NEW k \in DOMAIN rows
               PROVE  Stored1(rows[k], store) /\ History1!Fits(rows[k], filter)
    OBVIOUS
  <2>1. n + 1 - k \in DOMAIN found /\ rows[k] = found[n + 1 - k]
    BY <1>11
  <2>2. PICK p \in places : found[n + 1 - k] = store.rows[p]
    BY <1>1, <2>1
  <2>3. p \in DOMAIN store.rows
    BY DEF places
  <2>. QED
    BY <1>1, <1>3, <2>1, <2>2, <2>3
<1>14. \A k \in DOMAIN found : found[k].id \in Nat
  <2>1. \A k \in DOMAIN found : found[k] \in RowOk
    BY <1>1
  <2>. QED
    BY <2>1 DEF RowOk
<1>15. ASSUME NEW j \in DOMAIN rows, NEW k \in DOMAIN rows, j < k PROVE rows[j].id > rows[k].id
  <2>1. n + 1 - k < n + 1 - j
    BY <1>5, <1>11, <1>15
  <2>2. found[n + 1 - k].id < found[n + 1 - j].id
    BY <1>1, <1>11, <2>1
  <2>. QED
    BY <1>11, <1>14, <2>2
<1>16. ASSUME NEW p \in DOMAIN store.rows, History1!Fits(store.rows[p], filter)
       PROVE  \/ \E k \in DOMAIN rows : rows[k] = store.rows[p]
              \/ Len(rows) = Limit /\ \A k \in DOMAIN rows : store.rows[p].id < rows[k].id
  <2>1. PICK i \in DOMAIN found : found[i] = store.rows[p]
    BY <1>1, <1>3, <1>16
  <2>2. i \in 1 .. n /\ n + 1 - i \in 1 .. n /\ n + 1 - (n + 1 - i) = i
    BY <1>5, <1>6
  <2>3. CASE n + 1 - i <= size
    <3>1. n + 1 - i \in 1 .. size
      BY <1>9, <2>2, <2>3
    <3>. QED
      BY <1>11, <2>1, <2>2, <3>1
  <2>4. CASE n + 1 - i > size
    <3>1. size < n
      BY <1>5, <1>9, <2>2, <2>4
    <3>2. ASSUME NEW k \in DOMAIN rows PROVE store.rows[p].id < rows[k].id
      <4>1. k \in 1 .. size /\ n + 1 - k \in DOMAIN found /\ rows[k] = found[n + 1 - k]
        BY <1>11
      <4>2. i < n + 1 - k
        BY <1>5, <1>9, <2>2, <2>4, <4>1
      <4>. QED
        BY <1>1, <2>1, <4>1, <4>2
    <3>. QED
      BY <1>9, <1>12, <3>1, <3>2
  <2>5. n + 1 - i <= size \/ n + 1 - i > size
    BY <1>5, <1>9, <2>2
  <2>. QED
    BY <2>3, <2>4, <2>5
<1>. QED
  BY <1>12, <1>13, <1>15, <1>16

-----------------------------------------------------------------------------
(* The window. *)

LEMMA TickedTypes ==
  ASSUME NEW all, NEW u \in UiOk, TickedOk(u, all), NEW k \in DOMAIN u.selected
  PROVE  k \in DOMAIN u.ticked /\ u.selected[k] \in Nat /\ u.ticked[k] \in TickOk /\ u.ticked[k].ws \in Workspaces
<1>1. u.selected \in Seq(Nat) /\ u.ticked \in Seq(TickOk) /\ Len(u.selected) = Len(u.ticked)
  BY DEF UiOk, TickedOk
<1>2. k \in DOMAIN u.ticked /\ u.selected[k] \in Nat /\ u.ticked[k] \in TickOk
  BY <1>1
<1>. QED
  BY <1>2 DEF TickOk

(* What was ticked stays so when one store changes and names no id anew. *)
Replaced(now, all, w, later) == now = [all EXCEPT ![w] = later]

LEMMA TickedStays ==
  ASSUME NEW all, StoresOk(all), NEW w \in Workspaces, NEW later, StoreOk(later, w), Follows(later, all[w]),
         NEW u \in UiOk, TickedOk(u, all), NEW now, Replaced(now, all, w, later)
  PROVE  StoresOk(now) /\ now[w] = later /\ TickedOk(u, now)
<1>1. /\ DOMAIN now = Workspaces /\ now[w] = later
      /\ \A v \in Workspaces : v # w => now[v] = all[v]
  BY DEF StoresOk, Replaced
<1>2. StoresOk(now)
  <2>1. \A v \in Workspaces : StoreOk(now[v], v)
    BY <1>1 DEF StoresOk
  <2>. QED
    BY <1>1, <2>1 DEF StoresOk
<1>3. ASSUME NEW k \in DOMAIN u.selected
      PROVE  Ticks(u.selected[k], u.ticked[k], now[u.ticked[k].ws])
  <2>1. u.selected[k] \in Nat /\ u.ticked[k].ws \in Workspaces
    BY TickedTypes
  <2>2. Ticks(u.selected[k], u.ticked[k], all[u.ticked[k].ws])
    BY DEF TickedOk
  <2>3. CASE u.ticked[k].ws = w
    <3>1. StoreOk(all[w], w) /\ Ticks(u.selected[k], u.ticked[k], all[w])
      BY <2>2, <2>3 DEF StoresOk
    <3>2. Ticks(u.selected[k], u.ticked[k], later)
      BY <2>1, <3>1, TicksFollow
    <3>. QED
      BY <1>1, <2>3, <3>2
  <2>4. CASE u.ticked[k].ws # w
    BY <1>1, <2>1, <2>2, <2>4
  <2>. QED
    BY <2>3, <2>4
<1>. QED
  BY <1>1, <1>2, <1>3 DEF TickedOk

(* Another list, filter or mark leaves alone what is ticked. *)
LEMMA TickedSame ==
  ASSUME NEW all, NEW u, NEW v, v.selected = u.selected, v.ticked = u.ticked, TickedOk(u, all)
  PROVE  TickedOk(v, all)
BY DEF TickedOk

(* A list that was loaded lists what is stored. *)
LEMMA RefreshKeeps ==
  ASSUME NEW w, NEW store, StoreOk(store, w), NEW u \in UiOk, NEW filter \in Filters,
         NEW v, v = History1!Refreshed(u, store, filter)
  PROVE  /\ v \in UiOk /\ ListedOk(v, store) /\ v.selected = u.selected /\ v.ticked = u.ticked
<1> DEFINE rows == History1!List(store, filter)
<1>1. rows \in Seq(RowOk) /\ \A k \in DOMAIN rows : Stored1(rows[k], store)
  <2>1. \E r : r = rows
    OBVIOUS
  <2> HIDE DEF rows
  <2>2. rows = History1!List(store, filter)
    BY DEF rows
  <2>. QED
    BY <2>2, ListIs
<1>2. v = [u EXCEPT !.rows = rows, !.filter = filter, !.loaded = TRUE]
  BY DEF History1!Refreshed
<1> HIDE DEF rows
<1>3. v \in UiOk /\ v.rows = rows /\ v.selected = u.selected /\ v.ticked = u.ticked
  BY <1>1, <1>2 DEF UiOk
<1>. QED
  BY <1>1, <1>3 DEF ListedOk, Listed

LEMMA HistoryInit ==
  ASSUME History1!Init
  PROVE  HistoryInv
<1>1. /\ ws \in Workspaces /\ env \in Envs /\ defs \in [Workspaces -> Methods]
      /\ snaps \in [Workspaces -> Envs \cup {None}]
      /\ stores = [w \in Workspaces |-> [rows |-> << >>, next |-> 1]]
      /\ ui = [filter |-> History1!NoFilter, rows |-> << >>, loaded |-> FALSE, selected |-> << >>,
               ticked |-> << >>]
      /\ running = {} /\ made = 0
  BY DEF History1!Init
<1>2. << >> \in Seq(RowOk) /\ << >> \in Seq(Nat) /\ << >> \in Seq(TickOk) /\ Len(<< >>) = 0
      /\ DOMAIN << >> = {}
  OBVIOUS
<1>3. OpenOk /\ RunsOk
  BY <1>1 DEF OpenOk, RunsOk
<1>4. StoresOk(stores)
  <2>1. ASSUME NEW w \in Workspaces PROVE StoreOk(stores[w], w)
    <3>1. stores[w] = [rows |-> << >>, next |-> 1]
      BY <1>1
    <3>2. stores[w].rows = << >> /\ stores[w].next = 1
      BY <3>1
    <3>3. stores[w] \in [rows : Seq(RowOk), next : Nat]
      BY <1>2, <3>1
    <3>4. \A k \in DOMAIN stores[w].rows : FALSE
      BY <1>2, <3>2
    <3>5. Numbered(stores[w].rows, stores[w].next)
      BY <3>4 DEF Numbered
    <3>. QED
      BY <3>3, <3>4, <3>5 DEF StoreOk
  <2>. QED
    BY <1>1, <2>1 DEF StoresOk
<1>5. ui \in UiOk
  BY <1>1, <1>2, HistoryAssumption DEF UiOk
<1>6. TickedOk(ui, stores) /\ ListedOk(ui, stores[ws])
  BY <1>1, <1>2 DEF TickedOk, ListedOk
<1>. QED
  BY <1>3, <1>4, <1>5, <1>6 DEF HistoryInv

-----------------------------------------------------------------------------
(* One lemma for each action. *)
LEMMA HistoryStart ==
  ASSUME HistoryInv, NEW legacy \in BOOLEAN, History1!Start(legacy)
  PROVE  HistoryInv'
<1> DEFINE run == History1!Run(legacy)
<1>1. OpenOk /\ RunsOk
  BY DEF HistoryInv
<1>2. running' = running \cup {run} /\ made' = made + 1 /\ UNCHANGED <<ws, env, defs, snaps, stores, ui>>
  BY DEF History1!Start
<1>3. run \in RunOk /\ RunFits(run)
  BY <1>1 DEF OpenOk, RunOk, RunFits, History1!Run
<1> HIDE DEF run
<1>4. OpenOk'
  BY <1>1, <1>2 DEF OpenOk
<1>5. RunsOk'
  BY <1>1, <1>2, <1>3 DEF RunsOk, RunFits
<1>6. (StoresOk(stores) /\ ui \in UiOk /\ TickedOk(ui, stores) /\ ListedOk(ui, stores[ws]))'
  BY <1>2 DEF HistoryInv
<1>. QED
  BY <1>4, <1>5, <1>6 DEF HistoryInv

LEMMA HistoryChooseEnv ==
  ASSUME HistoryInv, NEW e \in Envs, History1!ChooseEnv(e)
  PROVE  HistoryInv'
<1>1. OpenOk /\ RunsOk
  BY DEF HistoryInv
<1>2. /\ env' = e /\ running' = {[r EXCEPT !.rechosen = TRUE] : r \in running}
      /\ UNCHANGED <<ws, defs, snaps, stores, ui, made>>
  BY DEF History1!ChooseEnv
<1>3. OpenOk'
  BY <1>1, <1>2 DEF OpenOk
<1>4. RunsOk'
  <2>1. ASSUME NEW s \in running' PROVE s \in RunOk /\ RunFits(s)'
    <3>1. PICK r \in running : s = [r EXCEPT !.rechosen = TRUE]
      BY <1>2
    <3>2. r \in RunOk /\ RunFits(r)
      BY <1>1 DEF RunsOk
    <3>. QED
      BY <1>2, <3>1, <3>2 DEF RunOk, RunFits
  <2>. QED
    BY <2>1 DEF RunsOk
<1>5. (StoresOk(stores) /\ ui \in UiOk /\ TickedOk(ui, stores) /\ ListedOk(ui, stores[ws]))'
  BY <1>2 DEF HistoryInv
<1>. QED
  BY <1>3, <1>4, <1>5 DEF HistoryInv

LEMMA HistoryEdit ==
  ASSUME HistoryInv, NEW m \in Methods, History1!EditDefinition(m)
  PROVE  HistoryInv'
<1>1. OpenOk /\ RunsOk
  BY DEF HistoryInv
<1>2. /\ defs' = [defs EXCEPT ![ws] = m]
      /\ running' = {[r EXCEPT !.edited = r.edited \/ r.ws = ws] : r \in running}
      /\ UNCHANGED <<ws, env, snaps, stores, ui, made>>
  BY DEF History1!EditDefinition
<1>3. OpenOk'
  BY <1>1, <1>2 DEF OpenOk
<1>4. RunsOk'
  <2>1. ASSUME NEW s \in running' PROVE s \in RunOk /\ RunFits(s)'
    <3>1. PICK r \in running : s = [r EXCEPT !.edited = r.edited \/ r.ws = ws]
      BY <1>2
    <3>2. r \in RunOk /\ RunFits(r)
      BY <1>1 DEF RunsOk
    <3>3. s \in RunOk
      BY <3>1, <3>2 DEF RunOk
    <3>4. /\ s.moved = r.moved /\ s.ws = r.ws /\ s.rechosen = r.rechosen /\ s.env = r.env
          /\ s.edited = (r.edited \/ r.ws = ws)
      BY <3>1, <3>2 DEF RunOk
    <3>5. ~s.moved => s.edited
      BY <3>2, <3>4 DEF RunFits
    <3>. QED
      BY <1>2, <3>2, <3>3, <3>4, <3>5 DEF RunFits
  <2>. QED
    BY <2>1 DEF RunsOk
<1>5. (StoresOk(stores) /\ ui \in UiOk /\ TickedOk(ui, stores) /\ ListedOk(ui, stores[ws]))'
  BY <1>2 DEF HistoryInv
<1>. QED
  BY <1>3, <1>4, <1>5 DEF HistoryInv

(* A list to be loaded again claims nothing. *)
LEMMA ReopenedKeeps ==
  ASSUME NEW u \in UiOk, NEW v, v = History1!Reopened(u), NEW store
  PROVE  v \in UiOk /\ ListedOk(v, store) /\ v.selected = u.selected /\ v.ticked = u.ticked
<1>1. v = [u EXCEPT !.loaded = FALSE]
  BY DEF History1!Reopened
<1>2. v \in UiOk /\ v.loaded = FALSE /\ v.selected = u.selected /\ v.ticked = u.ticked
  BY <1>1 DEF UiOk
<1>. QED
  BY <1>2 DEF ListedOk

(* Another workspace brings the environment of its snapshot; the runs under way
   are marked when that is another one. *)
LEMMA HistorySwitch ==
  ASSUME HistoryInv, NEW w \in Workspaces, NEW left \in Envs \cup {None}, History1!Switch(w, left)
  PROVE  HistoryInv'
<1>1. OpenOk /\ StoresOk(stores) /\ RunsOk /\ ui \in UiOk /\ TickedOk(ui, stores)
  BY DEF HistoryInv
<1>. PICK e : e = History1!EnvIn(w)
  OBVIOUS
<1>. PICK turned \in BOOLEAN : turned = (e # env)
  OBVIOUS
<1>2. /\ ws' = w /\ ui' = History1!Reopened(ui) /\ env' = e
      /\ snaps' = [snaps EXCEPT ![ws] = left]
      /\ running' = {[r EXCEPT !.moved = TRUE, !.rechosen = r.rechosen \/ turned] : r \in running}
      /\ UNCHANGED <<defs, stores, made>>
  BY DEF History1!Switch
<1>3. OpenOk'
  <2>1. e \in Envs
    BY <1>1 DEF OpenOk, History1!EnvIn
  <2>. QED
    BY <1>1, <1>2, <2>1 DEF OpenOk
<1>4. RunsOk'
  <2>1. ASSUME NEW s \in running' PROVE s \in RunOk /\ RunFits(s)'
    <3>1. PICK r \in running : s = [r EXCEPT !.moved = TRUE, !.rechosen = r.rechosen \/ turned]
      BY <1>2
    <3>2. r \in RunOk /\ RunFits(r)
      BY <1>1 DEF RunsOk
    <3>3. /\ s \in RunOk /\ s.moved = TRUE /\ s.rechosen = (r.rechosen \/ turned)
          /\ s.env = r.env
      BY <3>1, <3>2 DEF RunOk
    <3>4. ~s.rechosen => s.env = env'
      BY <1>2, <3>2, <3>3 DEF RunFits
    <3>. QED
      BY <1>2, <3>3, <3>4 DEF RunFits
  <2>. QED
    BY <2>1 DEF RunsOk
<1>5. ui' \in UiOk /\ ListedOk(ui', stores'[ws']) /\ ui'.selected = ui.selected /\ ui'.ticked = ui.ticked
  BY <1>1, <1>2, ReopenedKeeps
<1>6. TickedOk(ui', stores')
  BY <1>1, <1>2, <1>5, TickedSame
<1>. QED
  BY <1>1, <1>2, <1>3, <1>4, <1>5, <1>6 DEF HistoryInv

(* A finished run makes a row that tells of it. *)
LEMMA EntryTells ==
  ASSUME OpenOk, NEW run \in RunOk, RunFits(run), NEW status \in Statuses \cup {None}, NEW size \in Sizes,
         NEW entry, entry = History1!Entry(run, status, size)
  PROVE  entry \in RowOk /\ RowFits(entry, ws)
<1> DEFINE body == History1!Capped(IF status = None THEN 0 ELSE size)
           method == IF run.legacy THEN defs[ws] ELSE run.method
<1>1. body \in [size : 0 .. MaxBody, truncated : BOOLEAN]
  <2>1. ASSUME NEW z \in Nat PROVE History1!Capped(z) \in [size : 0 .. MaxBody, truncated : BOOLEAN]
    BY HistoryAssumption DEF History1!Capped
  <2>. QED
    BY <2>1, HistoryAssumption
<1>2. method \in Methods
  BY DEF OpenOk, RunOk
<1>3. entry = [id |-> 0, uid |-> run.uid, run |-> run, env |-> env, status |-> status,
               body |-> body, method |-> method]
  BY DEF History1!Entry
<1>4. RowFits(entry, ws)
  <2>1. entry.run = run /\ entry.env = env /\ entry.method = method
    BY <1>3
  <2>. QED
    BY <2>1 DEF RowFits, RunFits, RunOk
<1>5. run.uid \in Nat /\ env \in Envs
  BY DEF RunOk, OpenOk
<1> HIDE DEF body, method
<1>6. entry \in RowOk
  BY <1>1, <1>2, <1>3, <1>5 DEF RowOk
<1>. QED
  BY <1>4, <1>6

LEMMA HistoryFinish ==
  ASSUME HistoryInv, NEW run \in running, NEW status \in Statuses \cup {None}, NEW size \in Sizes,
         NEW saved \in BOOLEAN, History1!Finish(run, status, size, saved)
  PROVE  HistoryInv'
<1> DEFINE entry == History1!Entry(run, status, size)
           later == History1!RecordRaw(stores[ws], entry)
<1>1. /\ OpenOk /\ StoresOk(stores) /\ RunsOk /\ ui \in UiOk /\ TickedOk(ui, stores)
      /\ ListedOk(ui, stores[ws])
  BY DEF HistoryInv
<1>2. /\ running' = running \ {run} /\ UNCHANGED <<ws, env, defs, snaps, made>>
      /\ stores' = IF saved THEN [stores EXCEPT ![ws] = later] ELSE stores
      /\ ui' = IF run.legacy THEN ui ELSE History1!Reopened(ui)
  BY DEF History1!Finish
<1>3. run \in RunOk /\ RunFits(run) /\ ws \in Workspaces /\ StoreOk(stores[ws], ws)
  BY <1>1 DEF RunsOk, OpenOk, StoresOk
<1>4. entry \in RowOk /\ RowFits(entry, ws)
  BY <1>1, <1>3, EntryTells
<1> HIDE DEF entry
<1>5. /\ StoreOk(later, ws) /\ Follows(later, stores[ws])
      /\ \A row : Stored1(row, stores[ws]) => Stored1(row, later)
  BY <1>3, <1>4, RecordKeeps
<1> HIDE DEF later
<1>6. StoresOk(stores') /\ TickedOk(ui, stores') /\ ListedOk(ui, stores'[ws])
  <2>1. CASE saved
    <3>1. Replaced(stores', stores, ws, later)
      BY <1>2, <2>1 DEF Replaced
    <3>2. StoresOk(stores') /\ stores'[ws] = later /\ TickedOk(ui, stores')
      BY <1>1, <1>3, <1>5, <3>1, TickedStays
    <3>3. ListedOk(ui, later)
      BY <1>1, <1>5 DEF ListedOk, Listed
    <3>. QED
      BY <3>2, <3>3
  <2>2. CASE ~saved
    BY <1>1, <1>2, <2>2
  <2>. QED
    BY <2>1, <2>2
<1>7. ui' \in UiOk /\ TickedOk(ui', stores') /\ ListedOk(ui', stores'[ws])
  <2>1. CASE run.legacy
    BY <1>1, <1>2, <1>6, <2>1
  <2>2. CASE ~run.legacy
    <3>1. ui' = History1!Reopened(ui)
      BY <1>2, <2>2
    <3>2. ui' \in UiOk /\ ListedOk(ui', stores'[ws]) /\ ui'.selected = ui.selected /\ ui'.ticked = ui.ticked
      BY <1>1, <3>1, ReopenedKeeps
    <3>. QED
      BY <1>6, <3>2, TickedSame
  <2>. QED
    BY <2>1, <2>2
<1>8. OpenOk' /\ RunsOk'
  BY <1>1, <1>2 DEF OpenOk, RunsOk, RunFits
<1>. QED
  BY <1>2, <1>6, <1>7, <1>8 DEF HistoryInv

(* Loading, searching and choosing a filter. *)
LEMMA HistoryReads ==
  ASSUME HistoryInv, NEW filter \in Filters,
         History1!Load \/ History1!Search \/ History1!ChooseFilter(filter)
  PROVE  HistoryInv'
<1>1. /\ OpenOk /\ StoresOk(stores) /\ RunsOk /\ ui \in UiOk /\ TickedOk(ui, stores)
      /\ ListedOk(ui, stores[ws])
  BY DEF HistoryInv
<1>2. ws \in Workspaces /\ StoreOk(stores[ws], ws) /\ ui.filter \in Filters
  BY <1>1 DEF OpenOk, StoresOk, UiOk
<1>3. /\ UNCHANGED <<ws, env, defs, snaps, stores, running, made>>
      /\ \/ ui' = History1!Refreshed(ui, stores[ws], ui.filter)
         \/ ui' = [ui EXCEPT !.filter = filter]
  BY DEF History1!Load, History1!Search, History1!ChooseFilter, History1!Only
<1>4. ui' \in UiOk /\ ListedOk(ui', stores[ws]) /\ ui'.selected = ui.selected /\ ui'.ticked = ui.ticked
  <2>1. CASE ui' = History1!Refreshed(ui, stores[ws], ui.filter)
    BY <1>1, <1>2, <2>1, RefreshKeeps
  <2>2. CASE ui' = [ui EXCEPT !.filter = filter]
    BY <1>1, <2>2 DEF UiOk, ListedOk
  <2>. QED
    BY <1>3, <2>1, <2>2
<1>5. TickedOk(ui', stores)
  BY <1>1, <1>4, TickedSame
<1>6. OpenOk' /\ RunsOk'
  BY <1>1, <1>3 DEF OpenOk, RunsOk, RunFits
<1>. QED
  BY <1>1, <1>3, <1>4, <1>5, <1>6 DEF HistoryInv

LEMMA HistoryDelete ==
  ASSUME HistoryInv, NEW row, History1!Delete(row)
  PROVE  HistoryInv'
<1> DEFINE left == History1!Without(stores[ws], row.id)
<1>1. OpenOk /\ StoresOk(stores) /\ RunsOk /\ ui \in UiOk /\ TickedOk(ui, stores)
  BY DEF HistoryInv
<1>2. ws \in Workspaces /\ StoreOk(stores[ws], ws) /\ ui.filter \in Filters
  BY <1>1 DEF OpenOk, StoresOk, UiOk
<1>3. /\ stores' = [stores EXCEPT ![ws] = left] /\ ui' = History1!Refreshed(ui, left, ui.filter)
      /\ UNCHANGED <<ws, env, defs, snaps, running, made>>
  BY DEF History1!Delete, History1!Deleted
<1>4. StoreOk(left, ws) /\ Follows(left, stores[ws])
  BY <1>2, WithoutKeeps
<1> HIDE DEF left
<1>5. Replaced(stores', stores, ws, left)
  BY <1>3 DEF Replaced
<1>6. StoresOk(stores') /\ stores'[ws] = left /\ TickedOk(ui, stores')
  BY <1>1, <1>2, <1>4, <1>5, TickedStays
<1>7. ui' \in UiOk /\ ListedOk(ui', left) /\ ui'.selected = ui.selected /\ ui'.ticked = ui.ticked
  BY <1>1, <1>2, <1>3, <1>4, RefreshKeeps
<1>8. TickedOk(ui', stores')
  BY <1>6, <1>7, TickedSame
<1>9. OpenOk' /\ RunsOk'
  BY <1>1, <1>3 DEF OpenOk, RunsOk, RunFits
<1>. QED
  BY <1>3, <1>6, <1>7, <1>8, <1>9 DEF HistoryInv

LEMMA HistoryClear ==
  ASSUME HistoryInv, History1!ClearAll
  PROVE  HistoryInv'
<1> DEFINE left == [stores[ws] EXCEPT !.rows = << >>]
           clean == History1!Refreshed(ui, left, ui.filter)
<1>1. OpenOk /\ StoresOk(stores) /\ RunsOk /\ ui \in UiOk /\ TickedOk(ui, stores)
  BY DEF HistoryInv
<1>2. ws \in Workspaces /\ StoreOk(stores[ws], ws) /\ ui.filter \in Filters
  BY <1>1 DEF OpenOk, StoresOk, UiOk
<1>3. /\ stores' = [stores EXCEPT ![ws] = left]
      /\ ui' = [clean EXCEPT !.selected = << >>, !.ticked = << >>]
      /\ UNCHANGED <<ws, env, defs, snaps, running, made>>
  BY DEF History1!ClearAll, History1!Deleted
<1>4. StoreOk(left, ws) /\ Follows(left, stores[ws])
  <2>1. stores[ws] \in [rows : Seq(RowOk), next : Nat]
    BY <1>2 DEF StoreOk
  <2>2. left.rows = << >> /\ left.next = stores[ws].next /\ left.next \in Nat
    BY <2>1
  <2>3. left \in [rows : Seq(RowOk), next : Nat]
    <3>1. << >> \in Seq(RowOk)
      OBVIOUS
    <3>. QED
      BY <2>1, <3>1
  <2>4. \A k \in DOMAIN left.rows : FALSE
    BY <2>2
  <2> HIDE DEF left
  <2>. QED
    BY <2>2, <2>3, <2>4 DEF StoreOk, Numbered, Follows
<1> HIDE DEF left
<1>5. Replaced(stores', stores, ws, left)
  BY <1>3 DEF Replaced
<1>6. StoresOk(stores') /\ stores'[ws] = left
  BY <1>1, <1>2, <1>4, <1>5, TickedStays
<1>7. clean \in UiOk /\ ListedOk(clean, left)
  <2>1. clean = History1!Refreshed(ui, left, ui.filter)
    OBVIOUS
  <2> HIDE DEF clean
  <2>. QED
    BY <1>1, <1>2, <1>4, <2>1, RefreshKeeps
<1> HIDE DEF clean
<1>8. ui' \in UiOk /\ ui'.selected = << >> /\ ui'.ticked = << >>
      /\ ui'.loaded = clean.loaded /\ ui'.rows = clean.rows
  <2>1. << >> \in Seq(Nat) /\ << >> \in Seq(TickOk)
    OBVIOUS
  <2>. QED
    BY <1>3, <1>7, <2>1 DEF UiOk
<1>9. ListedOk(ui', left)
  BY <1>7, <1>8 DEF ListedOk
<1>10. TickedOk(ui', stores')
  <2>1. Len(ui'.selected) = 0 /\ Len(ui'.ticked) = 0 /\ DOMAIN ui'.selected = {}
    BY <1>8
  <2>. QED
    BY <2>1 DEF TickedOk
<1>11. OpenOk' /\ RunsOk'
  BY <1>1, <1>3 DEF OpenOk, RunsOk, RunFits
<1>. QED
  BY <1>3, <1>6, <1>8, <1>9, <1>10, <1>11 DEF HistoryInv

(* What is ticked after a click: no id twice, two at most, none that was not
   ticked before but the one clicked. *)
LEMMA ToggledIs ==
  ASSUME NEW selected \in Seq(Nat), Len(selected) <= 2,
         \A j, k \in DOMAIN selected : selected[j] = selected[k] => j = k,
         NEW id \in Nat, NEW after, after = History1!Toggled(selected, id)
  PROVE  /\ after \in Seq(Nat) /\ Len(after) <= 2
         /\ \A j, k \in DOMAIN after : after[j] = after[k] => j = k
         /\ \A k \in DOMAIN after : after[k] # id => \E j \in DOMAIN selected : selected[j] = after[k]
<1>0. DOMAIN selected = 1 .. Len(selected) /\ Len(selected) \in Nat /\ Len(selected) \in 0 .. 2
  <2>1. DOMAIN selected = 1 .. Len(selected) /\ Len(selected) \in Nat
    OBVIOUS
  <2>. QED
    BY <2>1
<1>1. CASE \E k \in DOMAIN selected : selected[k] = id
  <2> DEFINE places == DOMAIN selected \ {CHOOSE k \in DOMAIN selected : selected[k] = id}
  <2>1. after = History1!Picked(selected, places)
    BY <1>1 DEF History1!Toggled
  <2>2. places \in SUBSET DOMAIN selected
    OBVIOUS
  <2> HIDE DEF places
  <2>3. after \in Seq(Nat)
    BY <2>1, <2>2, PickedFacts
  <2>4. PICK at : PickedAt(after, selected, places, Len(selected), at)
    BY <2>1, <2>2, PickedFacts
  <2>5. DOMAIN after = 1 .. Len(after) /\ Len(after) \in Nat
    BY <2>3
  <2>6. \A k \in DOMAIN after : at[k] \in DOMAIN selected /\ at[k] \in 1 .. 2 /\ after[k] = selected[at[k]]
    BY <1>0, <2>2, <2>4 DEF PickedAt
  <2>7. \A j, k \in DOMAIN after : j < k => at[j] < at[k]
    BY <2>4 DEF PickedAt
  <2>8. Len(after) <= 2
    <3>1. SUFFICES ASSUME Len(after) >= 3 PROVE FALSE
      BY <2>5
    <3>2. 1 \in DOMAIN after /\ 2 \in DOMAIN after /\ 3 \in DOMAIN after
      BY <2>5, <3>1
    <3>3. at[1] < at[2] /\ at[2] < at[3]
      BY <2>7, <3>2
    <3>4. at[1] \in 1 .. 2 /\ at[2] \in 1 .. 2 /\ at[3] \in 1 .. 2
      BY <2>6, <3>2
    <3>. QED
      BY <3>3, <3>4
  <2>9. ASSUME NEW j \in DOMAIN after, NEW k \in DOMAIN after, after[j] = after[k] PROVE j = k
    <3>1. at[j] = at[k]
      BY <2>6, <2>9
    <3>2. at[j] \in 1 .. 2 /\ j \in Nat /\ k \in Nat
      BY <2>5, <2>6
    <3>3. ~(j < k) /\ ~(k < j)
      BY <2>7, <3>1, <3>2
    <3>. QED
      BY <3>2, <3>3
  <2>. QED
    BY <2>3, <2>6, <2>8, <2>9
<1>2. CASE ~\E k \in DOMAIN selected : selected[k] = id
  <2> DEFINE old == IF Len(selected) >= 2 THEN Tail(selected) ELSE selected
  <2>1. after = Append(old, id)
    BY <1>2 DEF History1!Toggled
  <2>2. /\ old \in Seq(Nat) /\ Len(old) <= 1
        /\ \A k \in DOMAIN old : \E j \in DOMAIN selected : selected[j] = old[k]
    <3>1. CASE Len(selected) >= 2
      <4>1. old = Tail(selected)
        BY <3>1
      <4> HIDE DEF old
      <4>2. Len(selected) = 2
        BY <1>0, <3>1
      <4>3. 2 \in DOMAIN selected /\ selected # << >>
        BY <1>0, <4>2
      <4>4. old \in Seq(Nat) /\ Len(old) = 1
        BY <4>1, <4>2, <4>3
      <4>5. old[1] = selected[2]
        <5>1. \A q \in Seq(Nat) : Len(q) = 2 => Tail(q)[1] = q[2]
          OBVIOUS
        <5>. QED
          BY <4>1, <4>2, <5>1
      <4>6. \A k \in DOMAIN old : k = 1
        BY <4>4
      <4>. QED
        BY <4>3, <4>4, <4>5, <4>6
    <3>2. CASE ~(Len(selected) >= 2)
      <4>1. old = selected
        BY <3>2
      <4> HIDE DEF old
      <4>. QED
        BY <1>0, <3>2, <4>1
    <3>. QED
      BY <3>1, <3>2
  <2> HIDE DEF old
  <2>3. DOMAIN old = 1 .. Len(old) /\ Len(old) \in Nat
    BY <2>2
  <2>4. /\ after \in Seq(Nat) /\ Len(after) = Len(old) + 1 /\ DOMAIN after = 1 .. (Len(old) + 1)
        /\ after[Len(old) + 1] = id /\ \A k \in 1 .. Len(old) : after[k] = old[k]
    BY <2>1, <2>2
  <2>5. \A k \in 1 .. Len(old) : after[k] # id /\ \E j \in DOMAIN selected : selected[j] = after[k]
    BY <1>2, <2>2, <2>3, <2>4
  <2>6. \A k \in DOMAIN after : k \in 1 .. Len(old) \/ k = Len(old) + 1
    BY <2>3, <2>4
  <2>7. ASSUME NEW j \in DOMAIN after, NEW k \in DOMAIN after, after[j] = after[k] PROVE j = k
    <3>1. \A i \in 1 .. Len(old) : i = 1
      BY <2>2, <2>3
    <3>2. CASE j \in 1 .. Len(old) /\ k \in 1 .. Len(old)
      BY <3>1, <3>2
    <3>3. CASE j = Len(old) + 1
      BY <2>4, <2>5, <2>6, <2>7, <3>3
    <3>4. CASE k = Len(old) + 1
      BY <2>4, <2>5, <2>6, <2>7, <3>4
    <3>. QED
      BY <2>6, <3>2, <3>3, <3>4
  <2>8. \A k \in DOMAIN after : after[k] # id => \E j \in DOMAIN selected : selected[j] = after[k]
    BY <2>4, <2>5, <2>6
  <2>. QED
    BY <2>2, <2>3, <2>4, <2>7, <2>8
<1>. QED
  BY <1>1, <1>2

LEMMA HistoryToggle ==
  ASSUME HistoryInv, NEW row, Stored1(row, stores[ws]), History1!Toggle(row)
  PROVE  HistoryInv'
<1> DEFINE left == History1!Toggled(ui.selected, row.id)
           Place(id) == CHOOSE j \in DOMAIN ui.selected : ui.selected[j] = id
           Mark(id) == IF id = row.id THEN [uid |-> row.uid, ws |-> ws] ELSE ui.ticked[Place(id)]
           ticks == [k \in DOMAIN left |-> Mark(left[k])]
<1>1. /\ OpenOk /\ StoresOk(stores) /\ RunsOk /\ ui \in UiOk /\ TickedOk(ui, stores)
      /\ ListedOk(ui, stores[ws])
  BY DEF HistoryInv
<1>2. ws \in Workspaces /\ StoreOk(stores[ws], ws)
  BY <1>1 DEF OpenOk, StoresOk
<1>3. ui' = [ui EXCEPT !.selected = left, !.ticked = ticks]
      /\ UNCHANGED <<ws, env, defs, snaps, stores, running, made>>
  BY DEF History1!Toggle, History1!Only
<1>4. row \in RowOk /\ Ticks(row.id, [uid |-> row.uid, ws |-> ws], stores[ws])
  <2>1. PICK k \in DOMAIN stores[ws].rows : stores[ws].rows[k] = row
    BY DEF Stored1
  <2>2. row \in RowOk /\ row.id < stores[ws].next
    BY <1>2, <2>1 DEF StoreOk, Numbered
  <2>3. \A j \in DOMAIN stores[ws].rows : stores[ws].rows[j].id = row.id => j = k
    BY <1>2, <2>1, StoreIds
  <2>. QED
    BY <2>1, <2>2, <2>3 DEF Ticks
<1>5. row.id \in Nat /\ row.uid \in Nat
  BY <1>4 DEF RowOk
<1>6. ui.selected \in Seq(Nat) /\ Len(ui.selected) <= 2
      /\ \A j, k \in DOMAIN ui.selected : ui.selected[j] = ui.selected[k] => j = k
  BY <1>1 DEF UiOk, TickedOk
<1>7. left = History1!Toggled(ui.selected, row.id)
  OBVIOUS
<1> HIDE DEF left
<1>8. /\ left \in Seq(Nat) /\ Len(left) <= 2
      /\ \A j, k \in DOMAIN left : left[j] = left[k] => j = k
      /\ \A k \in DOMAIN left : left[k] # row.id => \E j \in DOMAIN ui.selected : ui.selected[j] = left[k]
  BY <1>5, <1>6, <1>7, ToggledIs
<1>9. ASSUME NEW k \in DOMAIN left
      PROVE  Mark(left[k]) \in TickOk /\ Ticks(left[k], Mark(left[k]), stores[Mark(left[k]).ws])
  <2>1. CASE left[k] = row.id
    <3>1. Mark(left[k]) = [uid |-> row.uid, ws |-> ws]
      BY <2>1
    <3> HIDE DEF Mark
    <3>2. Mark(left[k]) \in TickOk /\ Mark(left[k]).ws = ws
      BY <1>2, <1>5, <3>1 DEF TickOk
    <3>. QED
      BY <1>4, <2>1, <3>1, <3>2
  <2>2. CASE left[k] # row.id
    <3> DEFINE j == Place(left[k])
    <3>1. j \in DOMAIN ui.selected /\ ui.selected[j] = left[k]
      BY <1>8, <2>2
    <3>2. Mark(left[k]) = ui.ticked[j]
      BY <2>2
    <3> HIDE DEF j, Place, Mark
    <3>3. ui.ticked[j] \in TickOk
      BY <1>1, <3>1, TickedTypes
    <3>4. Ticks(ui.selected[j], ui.ticked[j], stores[ui.ticked[j].ws])
      BY <1>1, <3>1 DEF TickedOk
    <3>. QED
      BY <3>1, <3>2, <3>3, <3>4
  <2>. QED
    BY <2>1, <2>2
<1>10. /\ ticks \in Seq(TickOk) /\ Len(ticks) = Len(left) /\ DOMAIN ticks = DOMAIN left
       /\ \A k \in DOMAIN left : ticks[k] = Mark(left[k])
  <2> DEFINE n == Len(left)
  <2> HIDE DEF Mark, Place
  <2>1. n \in Nat /\ DOMAIN left = 1 .. n
    BY <1>8
  <2>2. ticks \in [1 .. n -> TickOk] /\ \A k \in DOMAIN left : ticks[k] = Mark(left[k])
    BY <1>9, <2>1
  <2> HIDE DEF n, ticks
  <2>3. \A f \in [1 .. n -> TickOk] : f \in Seq(TickOk) /\ Len(f) = n /\ DOMAIN f = 1 .. n
    BY <2>1
  <2>. QED
    BY <2>1, <2>2, <2>3 DEF n
<1> HIDE DEF ticks, Mark, Place
<1>11. ui' \in UiOk /\ ui'.selected = left /\ ui'.ticked = ticks /\ ui'.loaded = ui.loaded /\ ui'.rows = ui.rows
  BY <1>1, <1>3, <1>8, <1>10 DEF UiOk
<1>12. TickedOk(ui', stores)
  BY <1>8, <1>9, <1>10, <1>11 DEF TickedOk
<1>13. ListedOk(ui', stores[ws])
  BY <1>1, <1>11 DEF ListedOk
<1>14. OpenOk' /\ RunsOk'
  BY <1>1, <1>3 DEF OpenOk, RunsOk, RunFits
<1>. QED
  BY <1>1, <1>3, <1>11, <1>12, <1>13, <1>14 DEF HistoryInv

LEMMA HistoryStep ==
  ASSUME HistoryInv, History1!Next
  PROVE  HistoryInv'
<1>0. ui.filter \in Filters
  BY DEF HistoryInv, UiOk
<1>1. CASE \E b \in BOOLEAN : History1!Start(b)
  BY <1>1, HistoryStart
<1>2. CASE \E e \in Envs : History1!ChooseEnv(e)
  BY <1>2, HistoryChooseEnv
<1>3. CASE \E m \in Methods : History1!EditDefinition(m)
  BY <1>3, HistoryEdit
<1>4. CASE \E w \in Workspaces, left \in Envs \cup {None} : History1!Switch(w, left)
  BY <1>4, HistorySwitch
<1>5. CASE \E r \in running, s \in Statuses \cup {None}, z \in Sizes, saved \in BOOLEAN :
             History1!Finish(r, s, z, saved)
  BY <1>5, HistoryFinish
<1>6. CASE History1!Load \/ History1!Search
  BY <1>0, <1>6, HistoryReads
<1>7. CASE \E f \in Filters : History1!ChooseFilter(f)
  BY <1>7, HistoryReads
<1>8. CASE History1!ClearAll
  BY <1>8, HistoryClear
<1>9. CASE \E k \in DOMAIN ui.rows : History1!Toggle(ui.rows[k]) \/ History1!Delete(ui.rows[k])
  <2>1. PICK k \in DOMAIN ui.rows : History1!Toggle(ui.rows[k]) \/ History1!Delete(ui.rows[k])
    BY <1>9
  <2>2. CASE History1!Toggle(ui.rows[k])
    <3>1. Stored1(ui.rows[k], stores[ws])
      BY <2>2 DEF History1!Toggle, History1!Shown, HistoryInv, ListedOk, Listed
    <3>. QED
      BY <2>2, <3>1, HistoryToggle
  <2>3. CASE History1!Delete(ui.rows[k])
    BY <2>3, HistoryDelete
  <2>. QED
    BY <2>1, <2>2, <2>3
<1>. QED
  BY <1>1, <1>2, <1>3, <1>4, <1>5, <1>6, <1>7, <1>8, <1>9 DEF History1!Next

-----------------------------------------------------------------------------
(* What the invariant promises. *)
LEMMA HistoryListFits ==
  ASSUME HistoryInv
  PROVE  History1!ListFits
<1>1. ws \in Workspaces /\ StoreOk(stores[ws], ws)
  BY DEF HistoryInv, OpenOk, StoresOk
<1>2. ASSUME NEW filter \in Filters, NEW rows, rows = History1!List(stores[ws], filter)
      PROVE  /\ \A k \in DOMAIN rows : History1!Fits(rows[k], filter) /\ (k > 1 => rows[k - 1].id > rows[k].id)
             /\ \A j \in DOMAIN stores[ws].rows :
                  History1!Fits(stores[ws].rows[j], filter)
                    /\ stores[ws].rows[j].id \notin {rows[k].id : k \in DOMAIN rows} =>
                      Len(rows) = Limit
                        /\ \A id \in {rows[k].id : k \in DOMAIN rows} : stores[ws].rows[j].id < id
  <2>1. /\ rows \in Seq(RowOk)
        /\ \A k \in DOMAIN rows : History1!Fits(rows[k], filter)
        /\ \A j, k \in DOMAIN rows : j < k => rows[j].id > rows[k].id
    BY <1>1, <1>2, ListIs
  <2>2. \A p \in DOMAIN stores[ws].rows : History1!Fits(stores[ws].rows[p], filter) =>
          \/ \E k \in DOMAIN rows : rows[k] = stores[ws].rows[p]
          \/ Len(rows) = Limit /\ \A k \in DOMAIN rows : stores[ws].rows[p].id < rows[k].id
    BY <1>1, <1>2, ListIs
  <2>3. \A k \in DOMAIN rows : k > 1 => rows[k - 1].id > rows[k].id
    <3>1. \A k \in DOMAIN rows : k > 1 => k - 1 \in DOMAIN rows /\ k - 1 < k
      BY <2>1
    <3>. QED
      BY <2>1, <3>1
  <2>. QED
    BY <2>1, <2>2, <2>3
<1>. QED
  BY <1>2 DEF History1!ListFits

LEMMA HistoryPromises ==
  ASSUME HistoryInv
  PROVE  /\ History1!TypeOK /\ History1!RowTellsItsRun /\ History1!ListFits
         /\ History1!RowsAreStored /\ History1!DiffComparesTicked
<1>1. /\ OpenOk /\ StoresOk(stores) /\ ui \in UiOk /\ TickedOk(ui, stores) /\ ListedOk(ui, stores[ws])
      /\ ws \in Workspaces /\ StoreOk(stores[ws], ws)
  BY DEF HistoryInv, OpenOk, StoresOk
<1>2. ASSUME NEW w \in Workspaces, NEW k \in DOMAIN stores[w].rows
      PROVE  stores[w].rows[k] \in RowOk /\ RowFits(stores[w].rows[k], w)
  BY <1>1 DEF StoresOk, StoreOk
<1>3. History1!TypeOK
  <2>1. \A w \in Workspaces : \A k \in DOMAIN stores[w].rows : stores[w].rows[k].body.size <= MaxBody
    <3>1. \A row \in RowOk : row.body.size <= MaxBody
      BY HistoryAssumption DEF RowOk
    <3>. QED
      BY <1>2, <3>1
  <2>2. DOMAIN ui.ticked = DOMAIN ui.selected
    BY <1>1 DEF TickedOk, UiOk
  <2>. QED
    BY <1>1, <2>1, <2>2 DEF History1!TypeOK, OpenOk, UiOk, TickedOk
<1>4. History1!RowTellsItsRun
  BY <1>2 DEF History1!RowTellsItsRun, RowFits
<1>5. History1!RowsAreStored
  <2>1. ASSUME ui.loaded, NEW k \in DOMAIN ui.rows
        PROVE  History1!Has(stores[ws], ui.rows[k].id) /\ History1!Get(stores[ws], ui.rows[k].id) = ui.rows[k]
    <3>1. PICK j \in DOMAIN stores[ws].rows : stores[ws].rows[j] = ui.rows[k]
      BY <1>1, <2>1 DEF ListedOk, Listed, Stored1
    <3>2. /\ History1!Has(stores[ws], stores[ws].rows[j].id)
          /\ History1!Get(stores[ws], stores[ws].rows[j].id) = stores[ws].rows[j]
      BY <1>1, StoreIds
    <3>. QED
      BY <3>1, <3>2
  <2>. QED
    BY <2>1 DEF History1!RowsAreStored
<1>6. History1!DiffComparesTicked
  <2>1. ASSUME NEW k \in DOMAIN ui.selected, ui.ticked[k].ws = ws
        PROVE  History1!Compared[k] \in {None, ui.ticked[k].uid}
    <3>1. Ticks(ui.selected[k], ui.ticked[k], stores[ws])
      BY <1>1, <2>1 DEF TickedOk
    <3>2. History1!Has(stores[ws], ui.selected[k]) =>
            History1!Get(stores[ws], ui.selected[k]).uid = ui.ticked[k].uid
      BY <3>1 DEF Ticks, History1!Has, History1!Get
    <3>. QED
      BY <3>2 DEF History1!Compared
  <2>. QED
    BY <2>1 DEF History1!DiffComparesTicked
<1>. QED
  BY <1>3, <1>4, <1>5, <1>6, HistoryListFits

-----------------------------------------------------------------------------
(* The history in focus. *)
LEMMA WorkHolds == DesktopSpec => []WorkInv
<1>1. DesktopInit => WorkInv
  BY HistoryInit DEF DesktopInit, WorkInv
<1>2. WorkInv /\ [DesktopNext]_allVars => WorkInv'
  <2> SUFFICES ASSUME WorkInv, [DesktopNext]_allVars, focus' = "history" PROVE HistoryInv'
    BY DEF WorkInv
  <2>1. focus = "history" /\ HistoryInv
    BY DEF DesktopNext, allVars, WorkInv
  <2>2. History1!Next \/ UNCHANGED recording
    BY <2>1 DEF DesktopNext, allVars, PlanNext, UpdaterNext, ConsoleNext, HistoryNext, EditorNext, FilesNext
  <2>3. CASE History1!Next
    BY <2>1, <2>3, HistoryStep
  <2>4. CASE UNCHANGED recording
    <3>1. UNCHANGED <<ws, env, defs, snaps, stores, ui, running, made>>
      BY <2>4 DEF recording
    <3>. QED
      BY <2>1, <3>1 DEF HistoryInv, OpenOk, RunsOk, RunFits
  <2>. QED
    BY <2>2, <2>3, <2>4
<1>. QED
  BY <1>1, <1>2, PTL DEF DesktopSpec

(* The history (history/store.rs, history.rs, app.rs) tells the runs as they
   were, the query finds the newest rows that fit it, a click acts on the row it
   stands at and two responses are compared that were ticked, however many rows
   were deleted and added meanwhile: for any workspaces, filters, limit and
   number of runs. *)
THEOREM HistoryHolds == DesktopSpec => []HistorySound
<1>1. WorkInv => HistorySound
  BY HistoryPromises DEF WorkInv, HistorySound
<1>. QED
  BY <1>1, WorkHolds, PTL

-----------------------------------------------------------------------------
(* The request editor: the documents and lists on disk. *)
DocsOk(d) ==
  /\ d \in [Requests -> [doc : Edit1!Doc, lists : Edit1!Lists]]
  /\ \A r \in Requests : d[r].doc = Edit1!Absent \/ d[r].doc.body # None

MaybeBody == Edit1!Bodies \cup {None}
EdOk ==
  [open : BOOLEAN, file : Requests \cup {None}, root : Projects \cup {None}, isNew : BOOLEAN,
   text : Edit1!Doc, valid : Edit1!Doc, lists : Edit1!Lists, dirty : BOOLEAN, auto : BOOLEAN,
   index : Projects \cup {None}, auth : Requests \cup {None}, authDirty : BOOLEAN,
   editing : [Edit1!Kinds -> Nat], form : Checks \cup {None},
   run : Nat, nextRun : Nat, results : Requests \cup {None}, resp : MaybeBody,
   prev : Nat, nextPrev : Nat, preview : [body : MaybeBody, resp : MaybeBody],
   advice : Nat, nextAdvice : Nat, answer : Requests \cup {None}]

(* What is open is a request of its project, on disk unless it is new; without
   the mark of unsaved edits no check is left to be taken out of it. *)
Held(e, d) ==
  /\ e.file = None => e.root = None /\ ~e.open /\ ~e.dirty
  /\ e.file # None => e.root = RootOf[e.file] /\ e.text.body # None
  /\ e.file # None /\ ~e.isNew => d[e.file].doc # Edit1!Absent
  /\ ~e.dirty /\ Edit1!Parses(e.text) => e.text.inline = Edit1!NoChecks
SavedOk(e, d, t) ==
  e.file # None /\ ~e.dirty /\ e.file \notin t => d[e.file] = [doc |-> e.text, lists |-> e.lists]

(* One entry at a time is edited. *)
FormOk(e) ==
  /\ \A k \in Edit1!Kinds : e.editing[k] # 0 =>
       e.editing[k] \in DOMAIN e.lists[k] /\ e.lists[k][e.editing[k]] = e.form
  /\ \A j, k \in Edit1!Kinds : e.editing[j] # 0 /\ e.editing[k] # 0 => j = k

(* The index that is shown is one that could be read. *)
AuthHeld(e, a, d) ==
  /\ a \in [Projects -> Requests \cup {None}]
  /\ \A p \in Projects : a[p] # None => RootOf[a[p]] = p /\ d[a[p]].doc # Edit1!Absent
  /\ e.index # None => e.index \notin Unreadable
AuthShown(e, a) == e.index = e.root /\ e.root # None /\ ~e.authDirty => e.auth = a[e.root]

(* A question whose id is the active one was asked about what is open. *)
QuestionOk ==
  [kind : {"run", "preview", "advice"}, id : Nat \ {0}, file : Requests \cup {None}, body : MaybeBody,
   resp : MaybeBody]
AskedOk(e, qs) ==
  /\ qs \subseteq QuestionOk
  /\ \A q \in qs :
       /\ q.kind = "run" => q.id < e.nextRun /\ (q.id = e.run => q.file = e.file)
       /\ q.kind = "preview" => q.id < e.nextPrev
            /\ (q.id = e.prev => q.body = e.text.body /\ (e.run = 0 => q.resp = e.resp))
       /\ q.kind = "advice" => q.id < e.nextAdvice /\ (q.id = e.advice => q.file = e.file)
AnswersOk(e) ==
  /\ e.results \in {None, e.file} /\ e.answer \in {None, e.file}
  /\ e.preview # Edit1!NoPreview /\ e.run = 0 => e.preview = [body |-> e.text.body, resp |-> e.resp]
CountsOk(e, n) ==
  /\ n \in Nat /\ n <= MaxSteps
  /\ e.run < e.nextRun /\ e.prev < e.nextPrev /\ e.advice < e.nextAdvice
  /\ e.nextRun <= n + 1 /\ e.nextPrev <= n + 1 /\ e.nextAdvice <= n + 1

Core(e, d, a) == e \in EdOk /\ Held(e, d) /\ FormOk(e) /\ AuthHeld(e, a, d) /\ AuthShown(e, a)
Talk(e, qs, n) == AskedOk(e, qs) /\ AnswersOk(e) /\ CountsOk(e, n)
EditorInv ==
  /\ DocsOk(disk) /\ Core(ed, disk, authOn) /\ SavedOk(ed, disk, touched) /\ Talk(ed, questions, steps)
  /\ Edit1!AllChecks(ed.text, ed.lists) = owed /\ lost \subseteq {"reload"} /\ setting \in BOOLEAN


EditorOnly == focus = "editor" => EditorInv

-----------------------------------------------------------------------------
(* A field of the editor may be set to any value of its sort. *)
LEMMA FlagSet ==
  ASSUME NEW e \in EdOk, NEW b \in BOOLEAN
  PROVE  /\ [e EXCEPT !.open = b] \in EdOk /\ [e EXCEPT !.isNew = b] \in EdOk
         /\ [e EXCEPT !.dirty = b] \in EdOk /\ [e EXCEPT !.authDirty = b] \in EdOk
<1>1. [e EXCEPT !.open = b] \in EdOk
  BY DEF EdOk
<1>2. [e EXCEPT !.isNew = b] \in EdOk
  BY DEF EdOk
<1>3. [e EXCEPT !.dirty = b] \in EdOk
  BY DEF EdOk
<1>4. [e EXCEPT !.authDirty = b] \in EdOk
  BY DEF EdOk
<1>. QED
  BY <1>1, <1>2, <1>3, <1>4

LEMMA RequestSet ==
  ASSUME NEW e \in EdOk, NEW f \in Requests \cup {None}
  PROVE  /\ [e EXCEPT !.file = f] \in EdOk /\ [e EXCEPT !.auth = f] \in EdOk
         /\ [e EXCEPT !.results = f] \in EdOk /\ [e EXCEPT !.answer = f] \in EdOk
<1>1. [e EXCEPT !.file = f] \in EdOk
  BY DEF EdOk
<1>2. [e EXCEPT !.auth = f] \in EdOk
  BY DEF EdOk
<1>3. [e EXCEPT !.results = f] \in EdOk
  BY DEF EdOk
<1>4. [e EXCEPT !.answer = f] \in EdOk
  BY DEF EdOk
<1>. QED
  BY <1>1, <1>2, <1>3, <1>4

LEMMA ProjectSet ==
  ASSUME NEW e \in EdOk, NEW p \in Projects \cup {None}
  PROVE  /\ [e EXCEPT !.root = p] \in EdOk /\ [e EXCEPT !.index = p] \in EdOk
<1>1. [e EXCEPT !.root = p] \in EdOk
  BY DEF EdOk
<1>2. [e EXCEPT !.index = p] \in EdOk
  BY DEF EdOk
<1>. QED
  BY <1>1, <1>2

LEMMA NumberSet ==
  ASSUME NEW e \in EdOk, NEW n \in Nat
  PROVE  /\ [e EXCEPT !.run = n] \in EdOk /\ [e EXCEPT !.nextRun = n] \in EdOk
         /\ [e EXCEPT !.prev = n] \in EdOk /\ [e EXCEPT !.advice = n] \in EdOk
<1>1. [e EXCEPT !.run = n] \in EdOk
  BY DEF EdOk
<1>2. [e EXCEPT !.nextRun = n] \in EdOk
  BY DEF EdOk
<1>3. [e EXCEPT !.prev = n] \in EdOk
  BY DEF EdOk
<1>4. [e EXCEPT !.advice = n] \in EdOk
  BY DEF EdOk
<1>. QED
  BY <1>1, <1>2, <1>3, <1>4

LEMMA TextSet ==
  ASSUME NEW e \in EdOk, NEW doc \in Edit1!Doc
  PROVE  /\ [e EXCEPT !.text = doc] \in EdOk /\ [e EXCEPT !.valid = doc] \in EdOk
<1>1. [e EXCEPT !.text = doc] \in EdOk
  BY DEF EdOk
<1>2. [e EXCEPT !.valid = doc] \in EdOk
  BY DEF EdOk
<1>. QED
  BY <1>1, <1>2

LEMMA ListsSet ==
  ASSUME NEW e \in EdOk, NEW lists \in Edit1!Lists
  PROVE  [e EXCEPT !.lists = lists] \in EdOk
BY DEF EdOk

LEMMA EntrySet ==
  ASSUME NEW e \in EdOk, NEW at \in [Edit1!Kinds -> Nat]
  PROVE  [e EXCEPT !.editing = at] \in EdOk
BY DEF EdOk

LEMMA FormSet ==
  ASSUME NEW e \in EdOk, NEW form \in Checks \cup {None}
  PROVE  [e EXCEPT !.form = form] \in EdOk
BY DEF EdOk

LEMMA ResponseSet ==
  ASSUME NEW e \in EdOk, NEW resp \in MaybeBody
  PROVE  [e EXCEPT !.resp = resp] \in EdOk
BY DEF EdOk

LEMMA PreviewSet ==
  ASSUME NEW e \in EdOk, NEW shown \in [body : MaybeBody, resp : MaybeBody]
  PROVE  [e EXCEPT !.preview = shown] \in EdOk
BY DEF EdOk

-----------------------------------------------------------------------------
(* Checks that are pushed come behind those that are there. *)
Extends(list, longer) == \A i \in DOMAIN list : i \in DOMAIN longer /\ longer[i] = list[i]

LEMMA PushedIs ==
  ASSUME NEW list \in Seq(Checks), NEW c \in Checks
  PROVE  Edit1!Pushed(list, c) \in Seq(Checks) /\ Extends(list, Edit1!Pushed(list, c))
BY DEF Edit1!Pushed, Extends

LEMMA PushedAllIs ==
  ASSUME NEW list
  PROVE  /\ Edit1!PushedAll(list, << >>) = list
         /\ \A c : Edit1!PushedAll(list, <<c>>) = Edit1!Pushed(list, c)
<1> DEFINE Is(f, more) == f = [i \in 0 .. Len(more) |->
                                 IF i = 0 THEN list ELSE Edit1!Pushed(f[i - 1], more[i])]
<1>1. Edit1!PushedAll(list, << >>) = list
  <2>1. Len(<< >>) = 0 /\ \A i \in 0 .. 0 : i = 0
    OBVIOUS
  <2>2. Is([i \in 0 .. 0 |-> list], << >>)
    BY <2>1
  <2>3. \A f : Is(f, << >>) => f[0] = list
    BY <2>1
  <2>4. Is(CHOOSE f : Is(f, << >>), << >>)
    BY <2>2
  <2>5. Edit1!PushedAll(list, << >>) = (CHOOSE f : Is(f, << >>))[0]
    BY <2>1 DEF Edit1!PushedAll
  <2>. QED
    BY <2>3, <2>4, <2>5
<1>2. ASSUME NEW c PROVE Edit1!PushedAll(list, <<c>>) = Edit1!Pushed(list, c)
  <2> DEFINE g == [i \in 0 .. 1 |-> IF i = 0 THEN list ELSE Edit1!Pushed(list, c)]
  <2>1. Len(<<c>>) = 1 /\ <<c>>[1] = c /\ (\A i \in 0 .. 1 : i = 0 \/ i = 1) /\ 0 \in 0 .. 1 /\ 1 \in 0 .. 1
    OBVIOUS
  <2>2. Is(g, <<c>>)
    <3>1. g[0] = list /\ g[1] = Edit1!Pushed(list, c)
      BY <2>1
    <3>2. ASSUME NEW i \in 0 .. 1
          PROVE  g[i] = IF i = 0 THEN list ELSE Edit1!Pushed(g[i - 1], <<c>>[i])
      <4>1. CASE i = 0
        BY <3>1, <4>1
      <4>2. CASE i = 1
        <5>1. i - 1 = 0 /\ i # 0
          BY <4>2
        <5> HIDE DEF g
        <5>. QED
          BY <2>1, <3>1, <4>2, <5>1
      <4>. QED
        BY <2>1, <4>1, <4>2
    <3>3. g = [i \in 0 .. 1 |-> g[i]]
      OBVIOUS
    <3> HIDE DEF g
    <3>. QED
      BY <2>1, <3>2, <3>3
  <2>3. ASSUME NEW f, Is(f, <<c>>) PROVE f[1] = Edit1!Pushed(list, c)
    <3>1. f[0] = list
      BY <2>1, <2>3
    <3>2. f[1] = Edit1!Pushed(f[1 - 1], <<c>>[1])
      BY <2>1, <2>3
    <3>3. 1 - 1 = 0
      OBVIOUS
    <3>. QED
      BY <2>1, <3>1, <3>2, <3>3
  <2>4. Is(CHOOSE f : Is(f, <<c>>), <<c>>)
    BY <2>2
  <2>5. Edit1!PushedAll(list, <<c>>) = (CHOOSE f : Is(f, <<c>>))[1]
    BY <2>1 DEF Edit1!PushedAll
  <2> HIDE DEF Is
  <2>. QED
    BY <2>3, <2>4, <2>5
<1>. QED
  BY <1>1, <1>2

LEMMA InlineIs ==
  ASSUME NEW doc \in Edit1!Doc, NEW k \in Edit1!Kinds
  PROVE  doc.inline[k] = << >> \/ \E c \in Checks : doc.inline[k] = <<c>>
BY DEF Edit1!Doc, Edit1!Inline

LEMMA AllChecksIs ==
  ASSUME NEW doc \in Edit1!Doc, NEW lists \in Edit1!Lists, NEW all, all = Edit1!AllChecks(doc, lists)
  PROVE  /\ all \in Edit1!Lists /\ \A k \in Edit1!Kinds : Extends(lists[k], all[k])
         /\ (Edit1!Parses(doc) => doc.inline = Edit1!NoChecks) => all = lists
<1> DEFINE More(k) == IF Edit1!Parses(doc) THEN doc.inline[k] ELSE << >>
<1>1. all = [k \in Edit1!Kinds |-> Edit1!PushedAll(lists[k], More(k))]
  BY DEF Edit1!AllChecks
<1>2. ASSUME NEW k \in Edit1!Kinds
      PROVE  lists[k] \in Seq(Checks) /\ all[k] \in Seq(Checks) /\ Extends(lists[k], all[k])
  <2>1. lists[k] \in Seq(Checks)
    BY DEF Edit1!Lists
  <2>2. all[k] = Edit1!PushedAll(lists[k], More(k))
    BY <1>1
  <2>3. More(k) = << >> \/ \E c \in Checks : More(k) = <<c>>
    BY InlineIs
  <2> HIDE DEF More
  <2>4. CASE More(k) = << >>
    <3>1. all[k] = lists[k]
      BY <2>2, <2>4, PushedAllIs
    <3>. QED
      BY <2>1, <3>1 DEF Extends
  <2>5. CASE \E c \in Checks : More(k) = <<c>>
    <3>1. PICK c \in Checks : More(k) = <<c>>
      BY <2>5
    <3>2. all[k] = Edit1!Pushed(lists[k], c)
      BY <2>2, <3>1, PushedAllIs
    <3>. QED
      BY <2>1, <3>2, PushedIs
  <2>. QED
    BY <2>3, <2>4, <2>5
<1>3. ASSUME Edit1!Parses(doc) => doc.inline = Edit1!NoChecks PROVE all = lists
  <2>1. \A k \in Edit1!Kinds : More(k) = << >>
    BY <1>3 DEF Edit1!NoChecks
  <2> HIDE DEF More
  <2>2. \A k \in Edit1!Kinds : all[k] = lists[k]
    BY <1>1, <2>1, PushedAllIs
  <2>3. lists = [k \in Edit1!Kinds |-> lists[k]]
    BY DEF Edit1!Lists
  <2>4. all = [k \in Edit1!Kinds |-> all[k]]
    BY <1>1
  <2>. QED
    BY <2>2, <2>3, <2>4
<1> HIDE DEF More
<1>4. all \in Edit1!Lists
  BY <1>1, <1>2 DEF Edit1!Lists
<1>. QED
  BY <1>2, <1>3, <1>4

-----------------------------------------------------------------------------
(* What the parts of the handlers do to the editor. *)
SameWork(v, e) ==
  /\ v.open = e.open /\ v.file = e.file /\ v.root = e.root /\ v.isNew = e.isNew /\ v.text = e.text
  /\ v.lists = e.lists /\ v.dirty = e.dirty /\ v.auto = e.auto /\ v.editing = e.editing /\ v.form = e.form
SameAuth(v, e) ==
  v.root = e.root /\ v.index = e.index /\ v.auth = e.auth /\ v.authDirty = e.authDirty
SameTalk(v, e) ==
  /\ v.file = e.file /\ v.text.body = e.text.body
  /\ v.run = e.run /\ v.nextRun = e.nextRun /\ v.results = e.results /\ v.resp = e.resp
  /\ v.prev = e.prev /\ v.nextPrev = e.nextPrev /\ v.preview = e.preview
  /\ v.advice = e.advice /\ v.nextAdvice = e.nextAdvice /\ v.answer = e.answer

LEMMA WorkStays ==
  ASSUME NEW e, NEW v, SameWork(v, e), NEW d, NEW t
  PROVE  (Held(e, d) => Held(v, d)) /\ (SavedOk(e, d, t) => SavedOk(v, d, t)) /\ (FormOk(e) => FormOk(v))
BY DEF SameWork, Held, SavedOk, FormOk

LEMMA AuthStays ==
  ASSUME NEW e, NEW v, SameAuth(v, e), NEW a, NEW d
  PROVE  (AuthHeld(e, a, d) => AuthHeld(v, a, d)) /\ (AuthShown(e, a) => AuthShown(v, a))
BY DEF SameAuth, AuthHeld, AuthShown

LEMMA TalkStays ==
  ASSUME NEW e, NEW v, SameTalk(v, e), NEW qs, NEW n, Talk(e, qs, n)
  PROVE  Talk(v, qs, n)
BY DEF SameTalk, Talk, AskedOk, AnswersOk, CountsOk

LEMMA DocFacts ==
  /\ Edit1!NoChecks \in Edit1!Inline /\ Edit1!NoChecks \in Edit1!Lists
  /\ Edit1!Absent \in Edit1!Doc /\ Edit1!Absent.body = None /\ Edit1!Absent.inline = Edit1!NoChecks
  /\ ~Edit1!Parses(Edit1!Absent)
  /\ \A doc \in Edit1!Doc :
       /\ Edit1!Taken(doc) \in Edit1!Doc /\ Edit1!Taken(doc).body = doc.body
       /\ Edit1!Taken(doc).inline = Edit1!NoChecks
       /\ Edit1!Parses(Edit1!Taken(doc)) <=> Edit1!Parses(doc)
<1>1. Edit1!NoChecks \in Edit1!Inline
  BY EditorAssumption DEF Edit1!NoChecks, Edit1!Inline
<1>2. Edit1!NoChecks \in Edit1!Lists
  BY DEF Edit1!NoChecks, Edit1!Lists
<1>3. Edit1!Absent \in Edit1!Doc /\ Edit1!Absent.body = None /\ Edit1!Absent.inline = Edit1!NoChecks
  BY <1>1 DEF Edit1!Absent, Edit1!Doc, Edit1!NoChecks
<1>4. ~Edit1!Parses(Edit1!Absent)
  BY <1>3 DEF Edit1!Parses
<1>5. ASSUME NEW doc \in Edit1!Doc
      PROVE  /\ Edit1!Taken(doc) \in Edit1!Doc /\ Edit1!Taken(doc).body = doc.body
             /\ Edit1!Taken(doc).inline = Edit1!NoChecks
             /\ Edit1!Parses(Edit1!Taken(doc)) <=> Edit1!Parses(doc)
  BY <1>1 DEF Edit1!Taken, Edit1!Doc, Edit1!Parses
<1>. QED
  BY <1>1, <1>2, <1>3, <1>4, <1>5

(* take_from_request. *)
LEMMA ExtractIs ==
  ASSUME NEW e \in EdOk, NEW x, x = Edit1!Extract(e)
  PROVE  /\ x \in EdOk /\ x = [e EXCEPT !.text = x.text, !.lists = x.lists]
         /\ x.text.body = e.text.body /\ (Edit1!Parses(x.text) => x.text.inline = Edit1!NoChecks)
         /\ x.lists = Edit1!AllChecks(e.text, e.lists)
         /\ Edit1!AllChecks(x.text, x.lists) = Edit1!AllChecks(e.text, e.lists)
         /\ \A k \in Edit1!Kinds : Extends(e.lists[k], x.lists[k])
         /\ (Edit1!Parses(e.text) => e.text.inline = Edit1!NoChecks) => x.text = e.text /\ x.lists = e.lists
<1> DEFINE all == Edit1!AllChecks(e.text, e.lists)
<1>1. e.text \in Edit1!Doc /\ e.lists \in Edit1!Lists
  BY DEF EdOk
<1>2. /\ all \in Edit1!Lists /\ \A k \in Edit1!Kinds : Extends(e.lists[k], all[k])
      /\ (Edit1!Parses(e.text) => e.text.inline = Edit1!NoChecks) => all = e.lists
  BY <1>1, AllChecksIs
<1>3. CASE Edit1!Parses(e.text)
  <2> DEFINE text == Edit1!Taken(e.text)
  <2>1. x = [e EXCEPT !.text = text, !.lists = all]
    BY <1>3 DEF Edit1!Extract
  <2>2. text \in Edit1!Doc /\ text.body = e.text.body /\ text.inline = Edit1!NoChecks
    BY <1>1, DocFacts
  <2>3. e.text.inline = Edit1!NoChecks => text = e.text
    BY <1>1 DEF Edit1!Taken, Edit1!Doc
  <2> HIDE DEF text, all
  <2>4. Edit1!AllChecks(text, all) = all
    BY <1>2, <2>2, AllChecksIs
  <2>5. text \in Edit1!Doc /\ all \in Edit1!Lists
    BY <1>2, <2>2
  <2>6. x \in EdOk
    <3>1. [e EXCEPT !.text = text, !.lists = all] \in EdOk
      BY <2>5, TextSet, ListsSet
    <3>. QED
      BY <2>1, <3>1
  <2>7. x.text = text /\ x.lists = all
    BY <2>1 DEF EdOk
  <2>. QED
    BY <1>2, <1>3, <2>1, <2>2, <2>3, <2>4, <2>6, <2>7 DEF all
<1>4. CASE ~Edit1!Parses(e.text)
  <2>1. x = e
    BY <1>4 DEF Edit1!Extract
  <2>2. e = [e EXCEPT !.text = e.text, !.lists = e.lists]
    BY DEF EdOk
  <2>3. all = e.lists
    BY <1>2, <1>4
  <2> HIDE DEF all
  <2>. QED
    BY <1>2, <1>4, <2>1, <2>2, <2>3 DEF all
<1>. QED
  BY <1>3, <1>4

(* load_index. *)
LEMMA LoadIndexIs ==
  ASSUME NEW e \in EdOk, e.root \in Projects, NEW d, AuthHeld(e, authOn, d), NEW v, v = Edit1!LoadIndex(e)
  PROVE  /\ v \in EdOk /\ SameWork(v, e) /\ SameTalk(v, e)
         /\ AuthHeld(v, authOn, d) /\ AuthShown(v, authOn)
<1>0. e.root # None
  BY EditorAssumption
<1>1. CASE e.root \in Unreadable
  <2>1. v = e
    BY <1>1 DEF Edit1!LoadIndex
  <2>. QED
    BY <1>1, <2>1 DEF SameWork, SameTalk, AuthHeld, AuthShown
<1>2. CASE e.root \notin Unreadable
  <2> DEFINE on == IF e.authDirty THEN e.auth ELSE authOn[e.root]
  <2>1. v = [e EXCEPT !.index = e.root, !.auth = on]
    BY <1>2 DEF Edit1!LoadIndex
  <2>2. on \in Requests \cup {None}
    BY DEF EdOk, AuthHeld
  <2>3. ~e.authDirty => on = authOn[e.root]
    OBVIOUS
  <2> HIDE DEF on
  <2>4. v \in EdOk
    <3>1. e.root \in Projects \cup {None}
      BY DEF EdOk
    <3>2. [e EXCEPT !.index = e.root, !.auth = on] \in EdOk
      BY <2>2, <3>1, ProjectSet, RequestSet
    <3>. QED
      BY <2>1, <3>2
  <2>5. v.index = e.root /\ v.auth = on /\ v.authDirty = e.authDirty /\ v.root = e.root
    BY <2>1 DEF EdOk
  <2>6. SameWork(v, e) /\ SameTalk(v, e)
    BY <2>1 DEF SameWork, SameTalk, EdOk
  <2>. QED
    BY <1>2, <2>3, <2>4, <2>5, <2>6 DEF AuthHeld, AuthShown
<1>. QED
  BY <1>1, <1>2

(* What a save comes to: the editor and the disk, and what of the edits is on
   the disk when it succeeds. *)
SaveOutcome(r, e, t) ==
  /\ DocsOk(r.disk) /\ Core(r.ed, r.disk, authOn) /\ SavedOk(r.ed, r.disk, t)
  /\ SameTalk(r.ed, e) /\ r.ed.root = e.root /\ r.ed.auto = e.auto /\ r.ed.open = e.open
  /\ Edit1!AllChecks(r.ed.text, r.ed.lists) = Edit1!AllChecks(e.text, e.lists)
  /\ r.ok \in BOOLEAN
  /\ ~r.ok => r.ed.dirty = e.dirty
  /\ r.ok => /\ SavedOk(r.ed, r.disk, t \ {e.file})
             /\ r.disk[e.file].doc.body = e.text.body
             /\ Edit1!AllChecks(r.disk[e.file].doc, r.disk[e.file].lists) = Edit1!AllChecks(e.text, e.lists)
  /\ \A f \in Requests : /\ f # e.file => r.disk[f] = disk[f]
                         /\ disk[f].doc # Edit1!Absent => r.disk[f].doc # Edit1!Absent

(* save_now takes the checks out first. *)
LEMMA ExtractKeeps ==
  ASSUME NEW d, NEW e, Core(e, d, authOn), NEW t, SavedOk(e, d, t), NEW x, x = Edit1!Extract(e)
  PROVE  /\ Core(x, d, authOn) /\ SavedOk(x, d, t) /\ SameTalk(x, e) /\ SameAuth(x, e)
         /\ x.open = e.open /\ x.auto = e.auto /\ x.isNew = e.isNew /\ x.dirty = e.dirty
         /\ Edit1!AllChecks(x.text, x.lists) = Edit1!AllChecks(e.text, e.lists)
         /\ (Edit1!Parses(x.text) => x.text.inline = Edit1!NoChecks)
<1>1. e \in EdOk
  BY DEF Core
<1>2. /\ x \in EdOk /\ x = [e EXCEPT !.text = x.text, !.lists = x.lists]
      /\ x.text.body = e.text.body /\ (Edit1!Parses(x.text) => x.text.inline = Edit1!NoChecks)
      /\ Edit1!AllChecks(x.text, x.lists) = Edit1!AllChecks(e.text, e.lists)
      /\ \A k \in Edit1!Kinds : Extends(e.lists[k], x.lists[k])
      /\ (Edit1!Parses(e.text) => e.text.inline = Edit1!NoChecks) => x.text = e.text /\ x.lists = e.lists
  BY <1>1, ExtractIs
<1>3. SameTalk(x, e) /\ SameAuth(x, e) /\ x.open = e.open /\ x.auto = e.auto /\ x.isNew = e.isNew
      /\ x.dirty = e.dirty /\ x.editing = e.editing /\ x.form = e.form /\ x.file = e.file /\ x.root = e.root
  <2>1. x = [e EXCEPT !.text = x.text, !.lists = x.lists] /\ x.text.body = e.text.body
    BY <1>2
  <2>. QED
    BY <1>1, <2>1 DEF SameTalk, SameAuth, EdOk
<1>4. FormOk(x)
  BY <1>2, <1>3 DEF FormOk, Core, Extends
<1>5. Held(x, d)
  BY <1>2, <1>3 DEF Held, Core
<1>6. SavedOk(x, d, t)
  BY <1>2, <1>3 DEF SavedOk, Held, Core
<1>7. AuthHeld(x, authOn, d) /\ AuthShown(x, authOn)
  BY <1>3, AuthStays DEF Core
<1>. QED
  BY <1>2, <1>3, <1>4, <1>5, <1>6, <1>7 DEF Core

(* A document that is written leaves no request absent. *)
Writes(now, d, f, file) == now = [d EXCEPT ![f] = file]

LEMMA WrittenDocs ==
  ASSUME NEW d, DocsOk(d), NEW f \in Requests, NEW file \in [doc : Edit1!Doc, lists : Edit1!Lists],
         file.doc.body # None, NEW now, Writes(now, d, f, file)
  PROVE  /\ DocsOk(now) /\ now[f] = file /\ \A g \in Requests : g # f => now[g] = d[g]
         /\ \A g \in Requests : d[g].doc # Edit1!Absent => now[g].doc # Edit1!Absent
         /\ now[f].doc # Edit1!Absent
<1>1. file.doc # Edit1!Absent
  BY DocFacts
<1>2. now \in [Requests -> [doc : Edit1!Doc, lists : Edit1!Lists]] /\ now[f] = file
      /\ \A g \in Requests : g # f => now[g] = d[g]
  BY DEF DocsOk, Writes
<1>. QED
  BY <1>1, <1>2 DEF DocsOk

LEMMA SaveKeeps ==
  ASSUME DocsOk(disk), NEW e, Core(e, disk, authOn), NEW t, SavedOk(e, disk, t), e.file # None,
         NEW w \in Edit1!Failure, NEW r, r = Edit1!SaveNow(e, w)
  PROVE  SaveOutcome(r, e, t)
<1> DEFINE x == Edit1!Extract(e)
           old == disk[x.file]
           lists == CASE w = "none" -> x.lists
                      [] w = "hook" -> [old.lists EXCEPT !["assertion"] = x.lists["assertion"]]
                      [] OTHER -> old.lists
           written == [doc |-> x.text, lists |-> lists]
           now == [disk EXCEPT ![x.file] = written]
           fails == w = "document" \/ (x.isNew /\ disk[x.file].doc # Edit1!Absent)
           clean == [x EXCEPT !.isNew = FALSE, !.dirty = FALSE]
           v == IF w = "none" THEN Edit1!LoadIndex(Edit1!Validate(clean)) ELSE [x EXCEPT !.isNew = FALSE]
<1>1. r = IF fails THEN [ed |-> x, disk |-> disk, ok |-> FALSE]
          ELSE [ed |-> v, disk |-> now, ok |-> w = "none"]
  BY DEF Edit1!SaveNow
<1>2. /\ Core(x, disk, authOn) /\ SavedOk(x, disk, t) /\ SameTalk(x, e) /\ SameAuth(x, e)
      /\ x.open = e.open /\ x.auto = e.auto /\ x.isNew = e.isNew /\ x.dirty = e.dirty
      /\ Edit1!AllChecks(x.text, x.lists) = Edit1!AllChecks(e.text, e.lists)
      /\ (Edit1!Parses(x.text) => x.text.inline = Edit1!NoChecks)
  BY ExtractKeeps
<1> HIDE DEF x
<1>3. x \in EdOk /\ x.file = e.file /\ x.root = e.root /\ x.text.body = e.text.body
  BY <1>2 DEF Core, SameTalk, SameAuth
<1>4. x.file \in Requests /\ x.file # None /\ x.root = RootOf[x.file] /\ x.text.body # None /\ x.root \in Projects
      /\ x.text \in Edit1!Doc /\ x.lists \in Edit1!Lists
  <2>1. x.file \in Requests /\ x.file # None /\ x.text \in Edit1!Doc /\ x.lists \in Edit1!Lists
    BY <1>3 DEF EdOk
  <2>2. x.root = RootOf[x.file] /\ x.text.body # None
    BY <1>2, <2>1 DEF Core, Held
  <2>. QED
    BY <2>1, <2>2, EditorAssumption
<1>5. CASE fails
  <2>1. r = [ed |-> x, disk |-> disk, ok |-> FALSE]
    BY <1>1, <1>5
  <2>2. r.ed = x /\ r.disk = disk /\ r.ok = FALSE
    BY <2>1
  <2>. QED
    BY <1>2, <1>3, <2>2 DEF SaveOutcome
<1>6. CASE ~fails
  <2>1. r.ed = v /\ r.disk = now /\ r.ok = (w = "none")
    BY <1>1, <1>6
  <2>2. old.lists \in Edit1!Lists /\ old \in [doc : Edit1!Doc, lists : Edit1!Lists]
    BY <1>4 DEF DocsOk
  <2>3. lists \in Edit1!Lists
    <3>1. [old.lists EXCEPT !["assertion"] = x.lists["assertion"]] \in Edit1!Lists
      BY <1>4, <2>2 DEF Edit1!Lists, Edit1!Kinds
    <3>. QED
      BY <1>4, <2>2, <3>1
  <2>4. w = "none" => lists = x.lists
    OBVIOUS
  <2>5. old.lists = x.lists => lists = x.lists
    <3>1. [x.lists EXCEPT !["assertion"] = x.lists["assertion"]] = x.lists
      BY <1>4 DEF Edit1!Lists
    <3>. QED
      BY <3>1
  <2> HIDE DEF lists, fails
  <2>6. written \in [doc : Edit1!Doc, lists : Edit1!Lists] /\ written.doc = x.text /\ written.lists = lists
    BY <1>4, <2>3
  <2> HIDE DEF written
  <2>7. Writes(now, disk, x.file, written)
    BY DEF Writes
  <2> HIDE DEF now
  <2>8. /\ DocsOk(now) /\ now[x.file] = written /\ now[x.file].doc # Edit1!Absent
        /\ \A f \in Requests : f # x.file => now[f] = disk[f]
        /\ \A f \in Requests : disk[f].doc # Edit1!Absent => now[f].doc # Edit1!Absent
    BY <1>4, <2>6, <2>7, WrittenDocs
  <2>9. AuthHeld(x, authOn, now) /\ AuthShown(x, authOn)
    BY <1>2, <2>8 DEF Core, AuthHeld
  <2>10. /\ Core(v, now, authOn) /\ SavedOk(v, now, t) /\ SameTalk(v, x) /\ v.root = x.root
         /\ v.auto = x.auto /\ v.open = x.open /\ v.text = x.text /\ v.lists = x.lists
         /\ (w # "none" => v.dirty = x.dirty) /\ (w = "none" => SavedOk(v, now, t \ {x.file}))
    <3>1. CASE w = "none"
      <4> DEFINE u == [clean EXCEPT !.valid = x.text]
      <4>1. v = Edit1!LoadIndex(u)
        <5>1. clean.text = x.text
          BY <1>3 DEF EdOk
        <5>. QED
          BY <3>1, <5>1 DEF Edit1!Validate
      <4>2. u \in EdOk /\ u.isNew = FALSE /\ u.dirty = FALSE /\ SameTalk(u, x) /\ SameAuth(u, x)
            /\ u.open = x.open /\ u.auto = x.auto /\ u.text = x.text /\ u.lists = x.lists
            /\ u.editing = x.editing /\ u.form = x.form /\ u.file = x.file /\ u.root = x.root
        BY <1>3, <1>4 DEF EdOk, SameTalk, SameAuth
      <4> HIDE DEF u, v
      <4>3. AuthHeld(u, authOn, now)
        BY <2>9, <4>2, AuthStays
      <4>4. /\ v \in EdOk /\ SameWork(v, u) /\ SameTalk(v, u) /\ AuthHeld(v, authOn, now)
            /\ AuthShown(v, authOn)
        BY <1>4, <4>1, <4>2, <4>3, LoadIndexIs
      <4>5. Held(u, now)
        BY <1>2, <1>4, <2>8, <4>2 DEF Held
      <4>6. SavedOk(u, now, t) /\ SavedOk(u, now, t \ {x.file})
        <5>1. written = [doc |-> x.text, lists |-> x.lists]
          BY <2>4, <3>1 DEF written
        <5>. QED
          BY <2>8, <4>2, <5>1 DEF SavedOk
      <4>7. FormOk(u)
        BY <1>2, <4>2 DEF FormOk, Core
      <4>8. Held(v, now) /\ SavedOk(v, now, t) /\ SavedOk(v, now, t \ {x.file}) /\ FormOk(v)
        BY <4>4, <4>5, <4>6, <4>7, WorkStays
      <4>. QED
        BY <3>1, <4>2, <4>4, <4>8 DEF Core, SameWork, SameTalk
    <3>2. CASE w # "none"
      <4>1. v = [x EXCEPT !.isNew = FALSE]
        BY <3>2
      <4> HIDE DEF v
      <4>2. v \in EdOk /\ v.isNew = FALSE /\ v.dirty = x.dirty /\ SameTalk(v, x) /\ SameAuth(v, x)
            /\ v.open = x.open /\ v.auto = x.auto /\ v.text = x.text /\ v.lists = x.lists
            /\ v.editing = x.editing /\ v.form = x.form /\ v.file = x.file /\ v.root = x.root
        BY <1>3, <4>1 DEF EdOk, SameTalk, SameAuth
      <4>3. AuthHeld(v, authOn, now) /\ AuthShown(v, authOn)
        BY <2>9, <4>2, AuthStays
      <4>4. Held(v, now)
        BY <1>2, <1>4, <2>8, <4>2 DEF Held
      <4>5. FormOk(v)
        BY <1>2, <4>2 DEF FormOk, Core
      <4>6. SavedOk(v, now, t)
        <5>1. ASSUME ~v.dirty, v.file \notin t PROVE now[v.file] = [doc |-> v.text, lists |-> v.lists]
          <6>1. old = [doc |-> x.text, lists |-> x.lists]
            BY <1>2, <1>4, <4>2, <5>1 DEF SavedOk
          <6>2. lists = x.lists
            BY <2>5, <6>1
          <6>. QED
            BY <2>8, <4>2, <6>2 DEF written
        <5>. QED
          BY <5>1 DEF SavedOk
      <4>. QED
        BY <3>2, <4>2, <4>3, <4>4, <4>5, <4>6 DEF Core
    <3>. QED
      BY <3>1, <3>2
  <2> HIDE DEF v
  <2>11. w = "none" => /\ now[e.file].doc.body = e.text.body
                       /\ Edit1!AllChecks(now[e.file].doc, now[e.file].lists) = Edit1!AllChecks(e.text, e.lists)
    BY <1>2, <1>3, <2>4, <2>6, <2>8
  <2>12. SameTalk(v, e)
    BY <1>2, <2>10 DEF SameTalk
  <2>. QED
    BY <1>2, <1>3, <2>1, <2>8, <2>10, <2>11, <2>12 DEF SaveOutcome
<1>. QED
  BY <1>5, <1>6

(* What an editor shows that was opened anew. *)
Quiet(v, e) ==
  /\ v.run = 0 /\ v.prev = 0 /\ v.advice = 0 /\ v.results = None /\ v.answer = None
  /\ v.preview = Edit1!NoPreview
  /\ v.nextRun = e.nextRun /\ v.nextPrev = e.nextPrev /\ v.nextAdvice = e.nextAdvice

LEMMA QuietTalk ==
  ASSUME NEW e \in EdOk, NEW v, Quiet(v, e), NEW qs, NEW n, Talk(e, qs, n)
  PROVE  Talk(v, qs, n)
<1>1. \A q \in QuestionOk : q.id \in Nat /\ q.id # 0
  BY DEF QuestionOk
<1>2. e.run \in Nat /\ e.prev \in Nat /\ e.advice \in Nat
      /\ e.nextRun \in Nat /\ e.nextPrev \in Nat /\ e.nextAdvice \in Nat
  BY DEF EdOk
<1>3. AskedOk(v, qs)
  BY <1>1 DEF Quiet, Talk, AskedOk
<1>4. AnswersOk(v)
  BY DEF Quiet, AnswersOk
<1>5. CountsOk(v, n)
  BY <1>2 DEF Quiet, Talk, CountsOk
<1>. QED
  BY <1>3, <1>4, <1>5 DEF Talk

NoEdit == [k \in Edit1!Kinds |-> 0]

Emptied(v, e, f, d) ==
  /\ v \in EdOk /\ AuthHeld(v, authOn, d) /\ AuthShown(v, authOn) /\ Quiet(v, e)
  /\ v.open = TRUE /\ v.file = f /\ v.root = RootOf[f] /\ v.editing = NoEdit

LEMMA FreshIs ==
  ASSUME NEW e \in EdOk, NEW d, AuthHeld(e, authOn, d), NEW f \in Requests, NEW v, v = Edit1!Fresh(e, f)
  PROVE  Emptied(v, e, f, d)
<1> DEFINE root == RootOf[f]
           p == Edit1!ClearPreview(e)
           q == [p EXCEPT !.open = TRUE, !.file = f, !.root = root, !.run = 0]
           s == [q EXCEPT !.results = None, !.authDirty = FALSE, !.advice = 0, !.answer = None]
           o == [s EXCEPT !.resp = None, !.editing = NoEdit]
<1>1. f # None /\ root \in Projects
  BY EditorAssumption
<1>2. Edit1!NoPreview \in [body : MaybeBody, resp : MaybeBody] /\ None \in MaybeBody
  BY DEF Edit1!NoPreview, MaybeBody
<1>3. NoEdit \in [Edit1!Kinds -> Nat]
  BY DEF NoEdit
<1>4. p \in EdOk /\ p.prev = 0 /\ p.preview = Edit1!NoPreview
  <2>1. p = [e EXCEPT !.prev = 0, !.preview = Edit1!NoPreview]
    BY DEF Edit1!ClearPreview
  <2>2. [e EXCEPT !.prev = 0, !.preview = Edit1!NoPreview] \in EdOk
    BY <1>2, NumberSet, PreviewSet
  <2>. QED
    BY <2>1, <2>2 DEF EdOk
<1>5. p.auto = e.auto /\ p.index = e.index /\ p.nextRun = e.nextRun /\ p.nextPrev = e.nextPrev
      /\ p.nextAdvice = e.nextAdvice
  BY DEF Edit1!ClearPreview, EdOk
<1>6. v = Edit1!LoadIndex(o)
  <2>1. v = Edit1!LoadIndex([p EXCEPT
              !.open = TRUE, !.file = f, !.root = root, !.run = 0, !.results = None, !.resp = None,
              !.editing = NoEdit, !.authDirty = FALSE, !.advice = 0, !.answer = None])
    BY DEF Edit1!Fresh, NoEdit
  <2>2. o = [p EXCEPT
              !.open = TRUE, !.file = f, !.root = root, !.run = 0, !.results = None, !.resp = None,
              !.editing = NoEdit, !.authDirty = FALSE, !.advice = 0, !.answer = None]
    <3> HIDE DEF p, root
    <3>. QED
      BY <1>4 DEF EdOk
  <2>. QED
    BY <2>1, <2>2
<1> HIDE DEF root, p
<1>7. q \in EdOk
  BY <1>1, <1>4, FlagSet, RequestSet, ProjectSet, NumberSet
<1>8. q.prev = 0 /\ q.preview = Edit1!NoPreview /\ q.run = 0 /\ q.open = TRUE /\ q.file = f /\ q.root = root
      /\ q.auto = p.auto /\ q.index = p.index /\ q.nextRun = p.nextRun /\ q.nextPrev = p.nextPrev
      /\ q.nextAdvice = p.nextAdvice
  BY <1>4 DEF EdOk
<1> HIDE DEF q
<1>9. s \in EdOk
  BY <1>7, RequestSet, FlagSet, NumberSet
<1>10. s.prev = 0 /\ s.preview = Edit1!NoPreview /\ s.run = 0 /\ s.open = TRUE /\ s.file = f /\ s.root = root
      /\ s.auto = p.auto /\ s.index = p.index /\ s.nextRun = p.nextRun /\ s.nextPrev = p.nextPrev
      /\ s.nextAdvice = p.nextAdvice /\ s.results = None /\ s.advice = 0 /\ s.answer = None
  BY <1>7, <1>8 DEF EdOk
<1> HIDE DEF s
<1>11. o \in EdOk
  BY <1>2, <1>3, <1>9, ResponseSet, EntrySet
<1>12. /\ Quiet(o, e) /\ o.open = TRUE /\ o.file = f /\ o.root = root /\ o.auto = e.auto
       /\ o.editing = NoEdit /\ o.index = e.index
  BY <1>5, <1>9, <1>10 DEF EdOk, Quiet
<1> HIDE DEF o
<1>13. AuthHeld(o, authOn, d)
  BY <1>12 DEF AuthHeld
<1>14. v \in EdOk /\ SameWork(v, o) /\ SameTalk(v, o) /\ AuthHeld(v, authOn, d) /\ AuthShown(v, authOn)
  BY <1>1, <1>6, <1>11, <1>12, <1>13, LoadIndexIs
<1>15. v.editing = NoEdit /\ v.root = RootOf[f] /\ v.open = TRUE /\ v.file = f
  BY <1>12, <1>14 DEF SameWork, root
<1>16. Quiet(v, e)
  BY <1>12, <1>14 DEF SameTalk, Quiet
<1>. QED
  BY <1>14, <1>15, <1>16 DEF Emptied

(* What becomes of an editor in which request f is opened. *)
Opened(v, e, f, d) ==
  /\ Core(v, d, authOn) /\ Quiet(v, e) /\ v.file = f /\ v.root = RootOf[f]
  /\ \A t : SavedOk(v, d, t)

LEMMA LoadedIs ==
  ASSUME NEW e \in EdOk, NEW d, DocsOk(d), AuthHeld(e, authOn, d), NEW f \in Requests,
         d[f].doc # Edit1!Absent, NEW v, v = Edit1!Loaded(e, f, d)
  PROVE  /\ Opened(v, e, f, d)
         /\ Edit1!AllChecks(v.text, v.lists) = Edit1!AllChecks(d[f].doc, d[f].lists)
<1> DEFINE doc == d[f].doc
           moved == Edit1!Parses(doc) /\ doc.inline # Edit1!NoChecks
           text == IF moved THEN Edit1!Taken(doc) ELSE doc
           lists == IF moved THEN Edit1!AllChecks(doc, d[f].lists) ELSE d[f].lists
           o == Edit1!Fresh(e, f)
<1>1. v = [Edit1!Validate([o EXCEPT !.text = text]) EXCEPT
             !.lists = lists, !.isNew = FALSE, !.dirty = moved]
  BY DEF Edit1!Loaded
<1>0. o = Edit1!Fresh(e, f)
  OBVIOUS
<1> HIDE DEF o
<1>2. /\ o \in EdOk /\ AuthHeld(o, authOn, d) /\ AuthShown(o, authOn) /\ Quiet(o, e)
      /\ o.open = TRUE /\ o.file = f /\ o.root = RootOf[f] /\ o.editing = NoEdit
  <2>1. Emptied(o, e, f, d)
    BY <1>0, FreshIs
  <2>. QED
    BY <2>1 DEF Emptied
<1>3. d[f] \in [doc : Edit1!Doc, lists : Edit1!Lists] /\ doc \in Edit1!Doc /\ d[f].lists \in Edit1!Lists
      /\ doc.body # None
  BY DEF DocsOk
<1>4. /\ text \in Edit1!Doc /\ text.body = doc.body /\ lists \in Edit1!Lists
      /\ (Edit1!Parses(text) => text.inline = Edit1!NoChecks)
      /\ Edit1!AllChecks(text, lists) = Edit1!AllChecks(doc, d[f].lists)
      /\ (~moved => d[f] = [doc |-> text, lists |-> lists])
  <2>1. CASE moved
    <3>1. text = Edit1!Taken(doc) /\ lists = Edit1!AllChecks(doc, d[f].lists)
      BY <2>1
    <3>2. text \in Edit1!Doc /\ text.body = doc.body /\ text.inline = Edit1!NoChecks
      BY <1>3, <3>1, DocFacts
    <3>3. lists \in Edit1!Lists
      BY <1>3, <3>1, AllChecksIs
    <3> HIDE DEF text, lists, moved, doc
    <3>4. Edit1!AllChecks(text, lists) = lists
      BY <3>2, <3>3, AllChecksIs
    <3>. QED
      BY <2>1, <3>1, <3>2, <3>3, <3>4
  <2>2. CASE ~moved
    BY <1>3, <2>2
  <2>. QED
    BY <2>1, <2>2
<1>5. moved \in BOOLEAN
  OBVIOUS
<1> HIDE DEF text, lists, moved
<1>6. v = [o EXCEPT !.text = text, !.valid = text, !.lists = lists, !.isNew = FALSE, !.dirty = moved]
  BY <1>1, <1>2 DEF Edit1!Validate, EdOk
<1>7. /\ v \in EdOk /\ SameAuth(v, o) /\ Quiet(v, e) /\ v.open = TRUE /\ v.file = f /\ v.root = RootOf[f]
      /\ v.editing = NoEdit /\ v.text = text /\ v.lists = lists /\ v.isNew = FALSE
      /\ v.dirty = moved
  <2>1. v \in EdOk
    <3>1. [o EXCEPT !.text = text, !.valid = text, !.lists = lists, !.isNew = FALSE, !.dirty = moved] \in EdOk
      BY <1>2, <1>4, <1>5, TextSet, ListsSet, FlagSet
    <3>. QED
      BY <1>6, <3>1
  <2>2. /\ SameAuth(v, o) /\ v.open = o.open /\ v.file = o.file /\ v.root = o.root /\ v.editing = o.editing
        /\ v.text = text /\ v.lists = lists /\ v.isNew = FALSE /\ v.dirty = moved /\ Quiet(v, o)
    BY <1>2, <1>6 DEF EdOk, SameAuth, Quiet
  <2>. QED
    BY <1>2, <2>1, <2>2 DEF Quiet
<1>8. Held(v, d)
  <2>1. f # None
    BY EditorAssumption
  <2>. QED
    BY <1>3, <1>4, <1>7, <2>1 DEF Held
<1>9. FormOk(v)
  BY <1>7 DEF FormOk, NoEdit
<1>10. AuthHeld(v, authOn, d) /\ AuthShown(v, authOn)
  BY <1>2, <1>7, AuthStays
<1>11. \A t : SavedOk(v, d, t)
  BY <1>4, <1>7 DEF SavedOk
<1>. QED
  BY <1>4, <1>7, <1>8, <1>9, <1>10, <1>11 DEF Opened, Core

LEMMA SkeletonIs ==
  Edit1!Skeleton \in Edit1!Doc /\ Edit1!Skeleton.body # None /\ Edit1!Parses(Edit1!Skeleton)
    /\ Edit1!Skeleton.inline = Edit1!NoChecks /\ Edit1!Skeleton \in TypedDocs
<1>1. Edit1!Skeleton \in TypedDocs /\ Edit1!Parses(Edit1!Skeleton) /\ Edit1!Skeleton.inline = Edit1!NoChecks
  BY EditorAssumption DEF Edit1!Skeleton
<1>. QED
  BY <1>1, EditorAssumption

LEMMA StartedIs ==
  ASSUME NEW e \in EdOk, NEW d, AuthHeld(e, authOn, d), NEW f \in Requests, NEW v, v = Edit1!Started(e, f)
  PROVE  Opened(v, e, f, d)
<1> DEFINE o == Edit1!Fresh(e, f)
<1>1. v = [Edit1!Validate([o EXCEPT !.text = Edit1!Skeleton]) EXCEPT
             !.lists = Edit1!NoChecks, !.isNew = TRUE, !.dirty = TRUE]
  BY DEF Edit1!Started
<1>0. o = Edit1!Fresh(e, f)
  OBVIOUS
<1> HIDE DEF o
<1>2. /\ o \in EdOk /\ AuthHeld(o, authOn, d) /\ AuthShown(o, authOn) /\ Quiet(o, e)
      /\ o.open = TRUE /\ o.file = f /\ o.root = RootOf[f] /\ o.editing = NoEdit
  <2>1. Emptied(o, e, f, d)
    BY <1>0, FreshIs
  <2>. QED
    BY <2>1 DEF Emptied
<1>3. Edit1!Skeleton \in Edit1!Doc /\ Edit1!Skeleton.body # None /\ Edit1!NoChecks \in Edit1!Lists
  BY SkeletonIs, DocFacts
<1>4. v = [o EXCEPT !.text = Edit1!Skeleton, !.valid = Edit1!Skeleton, !.lists = Edit1!NoChecks,
                    !.isNew = TRUE, !.dirty = TRUE]
  BY <1>1, <1>2 DEF Edit1!Validate, EdOk
<1>5. /\ v \in EdOk /\ SameAuth(v, o) /\ Quiet(v, e) /\ v.open = TRUE /\ v.file = f /\ v.root = RootOf[f]
      /\ v.editing = NoEdit /\ v.text = Edit1!Skeleton /\ v.isNew = TRUE
      /\ v.dirty = TRUE
  <2>1. v \in EdOk
    <3>1. [o EXCEPT !.text = Edit1!Skeleton, !.valid = Edit1!Skeleton, !.lists = Edit1!NoChecks,
                    !.isNew = TRUE, !.dirty = TRUE] \in EdOk
      BY <1>2, <1>3, TextSet, ListsSet, FlagSet
    <3>. QED
      BY <1>4, <3>1
  <2>2. /\ SameAuth(v, o) /\ v.open = o.open /\ v.file = o.file /\ v.root = o.root /\ v.editing = o.editing
        /\ v.text = Edit1!Skeleton /\ v.isNew = TRUE /\ v.dirty = TRUE /\ Quiet(v, o)
    BY <1>2, <1>4 DEF EdOk, SameAuth, Quiet
  <2>. QED
    BY <1>2, <2>1, <2>2 DEF Quiet
<1>6. Held(v, d)
  <2>1. f # None
    BY EditorAssumption
  <2>. QED
    BY <1>3, <1>5, <2>1 DEF Held
<1>7. FormOk(v) /\ \A t : SavedOk(v, d, t)
  BY <1>5 DEF FormOk, SavedOk, NoEdit
<1>8. AuthHeld(v, authOn, d) /\ AuthShown(v, authOn)
  BY <1>2, <1>5, AuthStays
<1>. QED
  BY <1>5, <1>6, <1>7, <1>8 DEF Opened, Core

(* The next frame. *)
LEMMA SyncedIs ==
  ASSUME NEW e \in EdOk, setting \in BOOLEAN, NEW v, v = Edit1!Synced(e)
  PROVE  /\ v \in EdOk /\ SameAuth(v, e) /\ SameTalk(v, e) /\ v.text = e.text /\ v.lists = e.lists
         /\ \A d, a : Core(e, d, a) => Core(v, d, a)
         /\ \A d, t : SavedOk(e, d, t) => SavedOk(v, d, t)
<1>1. v = [e EXCEPT !.auto = IF e.open THEN setting ELSE e.auto]
  BY DEF Edit1!Synced
<1>2. v \in EdOk /\ SameAuth(v, e) /\ SameTalk(v, e)
  BY <1>1 DEF EdOk, SameAuth, SameTalk
<1>3. /\ v.open = e.open /\ v.file = e.file /\ v.root = e.root /\ v.isNew = e.isNew /\ v.text = e.text
      /\ v.lists = e.lists /\ v.dirty = e.dirty /\ v.editing = e.editing /\ v.form = e.form
  BY <1>1 DEF EdOk
<1>4. \A d : (Held(e, d) => Held(v, d)) /\ (FormOk(e) => FormOk(v))
  BY <1>3 DEF Held, FormOk
<1>5. \A d, t : SavedOk(e, d, t) => SavedOk(v, d, t)
  BY <1>3 DEF SavedOk
<1>. QED
  BY <1>2, <1>3, <1>4, <1>5, AuthStays DEF Core

-----------------------------------------------------------------------------
(* What was asked and answered, when the user goes on. *)
LEMMA TalkLater ==
  ASSUME NEW e, NEW qs, NEW n, Talk(e, qs, n), n < MaxSteps, e \in EdOk
  PROVE  Talk(e, qs, n + 1)
<1>1. e.nextRun \in Nat /\ e.nextPrev \in Nat /\ e.nextAdvice \in Nat /\ MaxSteps \in Nat
  BY EditorAssumption DEF EdOk
<1>. QED
  BY <1>1 DEF Talk, CountsOk

(* A preview that is cleared. *)
Cleared(v, e) ==
  /\ v.prev = 0 /\ v.preview = Edit1!NoPreview /\ v.file = e.file /\ v.nextPrev = e.nextPrev
  /\ v.run = e.run /\ v.nextRun = e.nextRun /\ v.results = e.results
  /\ v.advice = e.advice /\ v.nextAdvice = e.nextAdvice /\ v.answer = e.answer

LEMMA ClearedTalk ==
  ASSUME NEW e \in EdOk, NEW v, Cleared(v, e), NEW qs, NEW n, Talk(e, qs, n)
  PROVE  Talk(v, qs, n)
<1>1. \A q \in QuestionOk : q.id \in Nat /\ q.id # 0
  BY DEF QuestionOk
<1>2. e.prev \in Nat /\ e.nextPrev \in Nat
  BY DEF EdOk
<1>3. AskedOk(v, qs)
  BY <1>1 DEF Cleared, Talk, AskedOk
<1>4. AnswersOk(v)
  BY DEF Cleared, Talk, AnswersOk
<1>5. CountsOk(v, n)
  BY <1>2 DEF Cleared, Talk, CountsOk
<1>. QED
  BY <1>3, <1>4, <1>5 DEF Talk

(* A disk on which no request went missing. *)
LEMMA CoreKept ==
  ASSUME NEW e, NEW d, NEW a, Core(e, d, a), NEW now,
         \A f \in Requests : d[f].doc # Edit1!Absent => now[f].doc # Edit1!Absent
  PROVE  Core(e, now, a)
<1>1. e.file \in Requests \cup {None}
  BY DEF Core, EdOk
<1>2. a \in [Projects -> Requests \cup {None}]
  BY DEF Core, AuthHeld
<1>3. Held(e, now)
  BY <1>1 DEF Core, Held
<1>4. AuthHeld(e, a, now)
  BY <1>2 DEF Core, AuthHeld
<1>. QED
  BY <1>3, <1>4 DEF Core

(* What a step comes to. *)
LEMMA EditorGoes ==
  ASSUME DocsOk(disk'), Core(ed', disk', authOn'), SavedOk(ed', disk', touched'),
         Talk(ed', questions', steps'), Edit1!AllChecks(ed'.text, ed'.lists) = owed',
         lost' \subseteq {"reload"}, setting' \in BOOLEAN
  PROVE  EditorInv'
BY DEF EditorInv

LEMMA EditorInit ==
  ASSUME Edit1!Init
  PROVE  EditorInv
<1>1. disk \in Stored /\ authOn = [p \in Projects |-> None] /\ ed = Edit1!Closed /\ questions = {}
      /\ setting \in BOOLEAN /\ owed = Edit1!NoChecks /\ lost = {} /\ steps = 0
  BY DEF Edit1!Init
<1>2. DocsOk(disk)
  BY <1>1, EditorAssumption DEF DocsOk
<1>3. Edit1!NoPreview \in [body : MaybeBody, resp : MaybeBody] /\ None \in MaybeBody
      /\ [k \in Edit1!Kinds |-> 0] \in [Edit1!Kinds -> Nat]
  BY DEF Edit1!NoPreview, MaybeBody
<1>4. ed \in EdOk
  <2> DEFINE zero == [k \in Edit1!Kinds |-> 0]
  <2>1. ed = [open |-> FALSE, file |-> None, root |-> None, isNew |-> FALSE,
              text |-> Edit1!Absent, valid |-> Edit1!Absent, lists |-> Edit1!NoChecks, dirty |-> FALSE,
              auto |-> FALSE, index |-> None, auth |-> None, authDirty |-> FALSE,
              editing |-> zero, form |-> None,
              run |-> 0, nextRun |-> 1, results |-> None, resp |-> None,
              prev |-> 0, nextPrev |-> 1, preview |-> Edit1!NoPreview,
              advice |-> 0, nextAdvice |-> 1, answer |-> None]
    BY <1>1 DEF Edit1!Closed
  <2>2. zero \in [Edit1!Kinds -> Nat]
    OBVIOUS
  <2> HIDE DEF zero
  <2>. QED
    BY <1>3, <2>1, <2>2, DocFacts DEF EdOk
<1>5. /\ ed.file = None /\ ed.root = None /\ ed.open = FALSE /\ ed.dirty = FALSE /\ ed.text = Edit1!Absent
      /\ ed.lists = Edit1!NoChecks /\ ed.index = None /\ ed.authDirty = FALSE
      /\ ed.run = 0 /\ ed.nextRun = 1 /\ ed.prev = 0 /\ ed.nextPrev = 1 /\ ed.advice = 0 /\ ed.nextAdvice = 1
      /\ ed.results = None /\ ed.answer = None /\ ed.preview = Edit1!NoPreview
  BY <1>1 DEF Edit1!Closed
<1>6. \A k \in Edit1!Kinds : ed.editing[k] = 0
  BY <1>1 DEF Edit1!Closed
<1>7. Held(ed, disk) /\ FormOk(ed) /\ SavedOk(ed, disk, touched)
  BY <1>5, <1>6, DocFacts DEF Held, FormOk, SavedOk
<1>8. AuthHeld(ed, authOn, disk) /\ AuthShown(ed, authOn)
  BY <1>1, <1>5 DEF AuthHeld, AuthShown
<1>9. Talk(ed, questions, steps)
  BY <1>1, <1>5, EditorAssumption DEF Talk, AskedOk, AnswersOk, CountsOk
<1>10. Edit1!AllChecks(ed.text, ed.lists) = owed
  BY <1>1, <1>5, DocFacts, AllChecksIs
<1>. QED
  BY <1>1, <1>2, <1>4, <1>7, <1>8, <1>9, <1>10 DEF EditorInv, Core

(* The save that comes before another request is shown, when one is due. *)
SavedFirst(s, first) ==
  /\ DocsOk(s.disk) /\ Core(s.ed, s.disk, authOn) /\ SavedOk(s.ed, s.disk, touched)
  /\ SameTalk(s.ed, ed) /\ s.ed.root = ed.root /\ s.ed.open = ed.open
  /\ Edit1!AllChecks(s.ed.text, s.ed.lists) = owed
  /\ s.ok \in BOOLEAN
  /\ first /\ s.ok => Edit1!Kept(s.disk)
  /\ \A f \in Requests : /\ f # ed.file => s.disk[f] = disk[f]
                         /\ disk[f].doc # Edit1!Absent => s.disk[f].doc # Edit1!Absent
FirstOrNot(s, first, w) == s = IF first THEN Edit1!SaveNow(ed, w) ELSE Edit1!NoSave

LEMMA FirstIs ==
  ASSUME EditorInv, NEW first \in BOOLEAN, first => ed.file # None, NEW w \in Edit1!Failure,
         NEW s, FirstOrNot(s, first, w)
  PROVE  SavedFirst(s, first)
<1>1. DocsOk(disk) /\ Core(ed, disk, authOn) /\ SavedOk(ed, disk, touched)
      /\ Edit1!AllChecks(ed.text, ed.lists) = owed
  BY DEF EditorInv
<1>2. CASE first
  <2>1. s = Edit1!SaveNow(ed, w)
    BY <1>2 DEF FirstOrNot
  <2>2. SaveOutcome(s, ed, touched)
    BY <1>1, <1>2, <2>1, SaveKeeps
  <2>. QED
    BY <1>1, <2>2 DEF SaveOutcome, SavedFirst, Edit1!Kept
<1>3. CASE ~first
  <2>1. s.ed = ed /\ s.disk = disk /\ s.ok = TRUE
    BY <1>3 DEF FirstOrNot, Edit1!NoSave
  <2>. QED
    BY <1>1, <1>3, <2>1 DEF SavedFirst, SameTalk
<1>. QED
  BY <1>2, <1>3

(* Nothing is lost by a request that is left when what autosave owed is saved. *)
LEMMA LeavingKeeps ==
  ASSUME lost \subseteq {"reload"}, NEW d, NEW how, Edit1!Leaving(d, how),
         how = "reload" \/ (ed.auto /\ ed.dirty => Edit1!Kept(d))
  PROVE  lost' \subseteq {"reload"}
BY DEF Edit1!Leaving

LEMMA EditorOpenFile ==
  ASSUME EditorInv, NEW f \in Requests, NEW w \in Edit1!Failure, Edit1!OpenFile(f, w)
  PROVE  EditorInv'
<1> DEFINE first == ed.auto /\ ed.dirty /\ ed.file # f
           s == IF first THEN Edit1!SaveNow(ed, w) ELSE Edit1!NoSave
           v == Edit1!Loaded(s.ed, f, s.disk)
<1>1. /\ steps < MaxSteps /\ steps' = steps + 1 /\ disk[f].doc # Edit1!Absent /\ disk' = s.disk
      /\ authOn' = authOn /\ questions' = questions /\ setting' = setting
  BY DEF Edit1!OpenFile, Edit1!User
<1>2. IF s.ok
      THEN /\ ed' = Edit1!Synced(v)
           /\ Edit1!Leaving(s.disk, IF ed.file = f THEN "reload" ELSE "open")
           /\ owed' = Edit1!AllChecks(s.disk[f].doc, s.disk[f].lists)
           /\ touched' = touched \ {f}
      ELSE ed' = s.ed /\ owed' = owed /\ lost' = lost /\ touched' = touched
  BY DEF Edit1!OpenFile, Edit1!history
<1>3. /\ DocsOk(disk) /\ Core(ed, disk, authOn) /\ SavedOk(ed, disk, touched) /\ Talk(ed, questions, steps)
      /\ Edit1!AllChecks(ed.text, ed.lists) = owed /\ lost \subseteq {"reload"} /\ setting \in BOOLEAN
  BY DEF EditorInv
<1>4. ed \in EdOk /\ Held(ed, disk)
  BY <1>3 DEF Core
<1>5. first \in BOOLEAN /\ (first => ed.file # None)
  BY <1>4 DEF EdOk, Held
<1>6. FirstOrNot(s, first, w)
  BY DEF FirstOrNot
<1>7. first => ed.auto /\ ed.dirty /\ ed.file # f
  OBVIOUS
<1>8. ed.auto /\ ed.dirty /\ ed.file # f => first
  OBVIOUS
<1> HIDE DEF s, first
<1>9. SavedFirst(s, first)
  BY <1>5, <1>6, FirstIs
<1>10. DocsOk(s.disk) /\ Core(s.ed, s.disk, authOn) /\ SavedOk(s.ed, s.disk, touched) /\ SameTalk(s.ed, ed)
       /\ Edit1!AllChecks(s.ed.text, s.ed.lists) = owed /\ s.disk[f].doc # Edit1!Absent
       /\ (first /\ s.ok => Edit1!Kept(s.disk))
  BY <1>1, <1>9 DEF SavedFirst
<1>11. s.ed \in EdOk /\ AuthHeld(s.ed, authOn, s.disk)
  BY <1>10 DEF Core
<1>12. Talk(s.ed, questions, steps + 1)
  <2>1. Talk(s.ed, questions, steps)
    BY <1>3, <1>10, TalkStays
  <2>. QED
    BY <1>1, <1>11, <2>1, TalkLater
<1>13. CASE s.ok
  <2>0. v = Edit1!Loaded(s.ed, f, s.disk)
    OBVIOUS
  <2>1. ed' = Edit1!Synced(v) /\ owed' = Edit1!AllChecks(s.disk[f].doc, s.disk[f].lists)
        /\ Edit1!Leaving(s.disk, IF ed.file = f THEN "reload" ELSE "open") /\ touched' = touched \ {f}
    BY <1>2, <1>13
  <2> HIDE DEF v
  <2>2. /\ Opened(v, s.ed, f, s.disk)
        /\ Edit1!AllChecks(v.text, v.lists) = Edit1!AllChecks(s.disk[f].doc, s.disk[f].lists)
    BY <1>10, <1>11, <2>0, LoadedIs
  <2>3. Core(v, s.disk, authOn) /\ Quiet(v, s.ed) /\ SavedOk(v, s.disk, touched \ {f}) /\ v \in EdOk
    BY <2>2 DEF Opened, Core
  <2>4. Talk(v, questions, steps + 1)
    BY <1>11, <1>12, <2>3, QuietTalk
  <2>5. /\ ed' \in EdOk /\ SameTalk(ed', v) /\ ed'.text = v.text /\ ed'.lists = v.lists
        /\ Core(ed', s.disk, authOn) /\ SavedOk(ed', s.disk, touched \ {f})
    BY <1>3, <2>1, <2>3, SyncedIs
  <2>6. Talk(ed', questions, steps + 1)
    BY <2>4, <2>5, TalkStays
  <2>7. lost' \subseteq {"reload"}
    BY <1>3, <1>8, <1>10, <1>13, <2>1, LeavingKeeps
  <2>. QED
    BY <1>1, <1>3, <1>10, <2>1, <2>2, <2>5, <2>6, <2>7, EditorGoes
<1>14. CASE ~s.ok
  BY <1>1, <1>2, <1>3, <1>10, <1>12, <1>14, EditorGoes
<1>. QED
  BY <1>13, <1>14

(* open_new_in. *)
NewOutcome(r) ==
  /\ DocsOk(r.disk) /\ Core(r.ed, r.disk, authOn) /\ SavedOk(r.ed, r.disk, touched)
  /\ Talk(r.ed, questions, steps) /\ r.ok \in BOOLEAN /\ r.ed.nextRun = ed.nextRun
  /\ (~r.ok => Edit1!AllChecks(r.ed.text, r.ed.lists) = owed)
  /\ r.ed.file # None
  /\ (r.ok /\ ed.auto /\ ed.dirty => Edit1!Kept(r.disk))

LEMMA NewInIs ==
  ASSUME EditorInv, NEW p \in Projects, Edit1!Room(p), NEW w \in Edit1!Failure,
         NEW r, r = Edit1!NewIn(p, w)
  PROVE  NewOutcome(r)
<1> DEFINE first == ed.auto /\ ed.dirty
           s == IF first THEN Edit1!SaveNow(ed, w) ELSE Edit1!NoSave
           f == CHOOSE f \in Edit1!FreePath(p, s.disk) : TRUE
           v == Edit1!Started(s.ed, f)
<1>1. r = IF s.ok THEN [s EXCEPT !.ed = v] ELSE s
  BY DEF Edit1!NewIn
<1>2. /\ DocsOk(disk) /\ Core(ed, disk, authOn) /\ SavedOk(ed, disk, touched) /\ Talk(ed, questions, steps)
  BY DEF EditorInv
<1>3. ed \in EdOk /\ Held(ed, disk)
  BY <1>2 DEF Core
<1>4. first \in BOOLEAN /\ (first => ed.file # None)
  BY <1>3 DEF EdOk, Held
<1>5. FirstOrNot(s, first, w)
  BY DEF FirstOrNot
<1>6. s = [ed |-> s.ed, disk |-> s.disk, ok |-> s.ok]
  BY DEF Edit1!SaveNow, Edit1!NoSave
<1>7. ed.auto /\ ed.dirty => first
  OBVIOUS
<1> HIDE DEF s, first
<1>8. SavedFirst(s, first)
  BY <1>4, <1>5, FirstIs
<1>9. DocsOk(s.disk) /\ Core(s.ed, s.disk, authOn) /\ SavedOk(s.ed, s.disk, touched) /\ SameTalk(s.ed, ed)
      /\ Edit1!AllChecks(s.ed.text, s.ed.lists) = owed /\ (first /\ s.ok => Edit1!Kept(s.disk))
      /\ s.ok \in BOOLEAN
  BY <1>8 DEF SavedFirst
<1>10. s.ed \in EdOk /\ AuthHeld(s.ed, authOn, s.disk)
  BY <1>9 DEF Core
<1>11. Talk(s.ed, questions, steps) /\ s.ed.nextRun = ed.nextRun
  BY <1>2, <1>9, TalkStays DEF SameTalk
<1>12. PICK g \in Edit1!FreePath(p, disk) : g # ed.file
  <2>1. Edit1!FreePath(p, disk) \ {ed.file} # {}
    BY DEF Edit1!Room
  <2>. QED
    BY <2>1
<1>13. f \in Edit1!FreePath(p, s.disk)
  <2>1. g \in Requests /\ s.disk[g] = disk[g]
    BY <1>8, <1>12 DEF SavedFirst, Edit1!FreePath
  <2>2. g \in Edit1!FreePath(p, s.disk)
    BY <1>12, <2>1 DEF Edit1!FreePath
  <2>. QED
    BY <2>2
<1>14. f \in Requests /\ f # None
  BY <1>13, EditorAssumption DEF Edit1!FreePath
<1>15. CASE s.ok
  <2>0. v = Edit1!Started(s.ed, f)
    OBVIOUS
  <2> HIDE DEF v, f
  <2>1. r.ed = v /\ r.disk = s.disk /\ r.ok = s.ok
    BY <1>1, <1>6, <1>15
  <2>2. Opened(v, s.ed, f, s.disk)
    BY <1>9, <1>10, <1>14, <2>0, StartedIs
  <2>3. Core(v, s.disk, authOn) /\ Quiet(v, s.ed) /\ SavedOk(v, s.disk, touched) /\ v.file = f
    BY <2>2 DEF Opened
  <2>4. Talk(v, questions, steps)
    BY <1>10, <1>11, <2>3, QuietTalk
  <2>5. v.nextRun = ed.nextRun
    BY <1>11, <2>3 DEF Quiet
  <2>. QED
    BY <1>7, <1>9, <1>14, <1>15, <2>1, <2>3, <2>4, <2>5 DEF NewOutcome
<1>16. CASE ~s.ok
  <2>1. r = s
    BY <1>1, <1>16
  <2>2. first
    BY <1>5, <1>16 DEF FirstOrNot, Edit1!NoSave
  <2>3. s.ed.file # None
    BY <1>4, <1>9, <2>2 DEF SameTalk
  <2>. QED
    BY <1>9, <1>11, <1>16, <2>1, <2>3 DEF NewOutcome
<1>. QED
  BY <1>15, <1>16

LEMMA EditorOpenNew ==
  ASSUME EditorInv, NEW p \in Projects, NEW w \in Edit1!Failure, Edit1!OpenNew(p, w)
  PROVE  EditorInv'
<1> DEFINE s == Edit1!NewIn(p, w)
<1>1. /\ steps < MaxSteps /\ steps' = steps + 1 /\ Edit1!Room(p) /\ disk' = s.disk
      /\ authOn' = authOn /\ questions' = questions /\ setting' = setting /\ touched' = touched
      /\ ed' = Edit1!Synced(s.ed)
  BY DEF Edit1!OpenNew, Edit1!User
<1>2. IF s.ok THEN Edit1!Leaving(s.disk, "new") /\ owed' = Edit1!AllChecks(s.ed.text, s.ed.lists)
      ELSE lost' = lost /\ owed' = owed
  BY DEF Edit1!OpenNew, Edit1!Owing
<1>3. lost \subseteq {"reload"} /\ setting \in BOOLEAN
  BY DEF EditorInv
<1>4. s = Edit1!NewIn(p, w)
  OBVIOUS
<1> HIDE DEF s
<1>5. NewOutcome(s)
  BY <1>1, <1>4, NewInIs
<1>6. DocsOk(s.disk) /\ Core(s.ed, s.disk, authOn) /\ SavedOk(s.ed, s.disk, touched)
      /\ Talk(s.ed, questions, steps) /\ s.ed \in EdOk
  BY <1>5 DEF NewOutcome, Core
<1>7. /\ SameTalk(ed', s.ed) /\ ed'.text = s.ed.text /\ ed'.lists = s.ed.lists
      /\ Core(ed', s.disk, authOn) /\ SavedOk(ed', s.disk, touched)
  BY <1>1, <1>3, <1>6, SyncedIs
<1>8. Talk(s.ed, questions, steps + 1)
  BY <1>1, <1>6, TalkLater
<1>9. Talk(ed', questions, steps + 1)
  BY <1>7, <1>8, TalkStays
<1>10. lost' \subseteq {"reload"}
  <2>1. CASE s.ok
    <3>1. Edit1!Leaving(s.disk, "new") /\ (ed.auto /\ ed.dirty => Edit1!Kept(s.disk))
      BY <1>2, <1>5, <2>1 DEF NewOutcome
    <3>. QED
      BY <1>3, <3>1, LeavingKeeps
  <2>. QED
    BY <1>2, <1>3, <2>1
<1>11. Edit1!AllChecks(ed'.text, ed'.lists) = owed'
  BY <1>2, <1>5, <1>7 DEF NewOutcome
<1>. QED
  BY <1>1, <1>3, <1>6, <1>7, <1>9, <1>10, <1>11, EditorGoes

(* A run that starts. *)
RunStarted(v, e) ==
  /\ v.run = e.nextRun /\ v.nextRun = e.nextRun + 1 /\ v.results = None /\ v.file = e.file
  /\ v.text.body = e.text.body /\ v.prev = e.prev /\ v.nextPrev = e.nextPrev /\ v.preview = e.preview
  /\ v.advice = e.advice /\ v.nextAdvice = e.nextAdvice /\ v.answer = e.answer

LEMMA RunTalk ==
  ASSUME NEW e \in EdOk, NEW qs, NEW n, Talk(e, qs, n), n < MaxSteps,
         NEW q \in QuestionOk, q.kind = "run", q.id = e.nextRun, q.file = e.file,
         NEW v, RunStarted(v, e)
  PROVE  Talk(v, qs \cup {q}, n + 1)
<1>1. e.nextRun \in Nat /\ e.nextRun # 0 /\ n \in Nat /\ MaxSteps \in Nat /\ e.nextPrev \in Nat
      /\ e.nextAdvice \in Nat /\ e.run \in Nat
  BY EditorAssumption DEF EdOk, Talk, CountsOk
<1>2. AskedOk(v, qs \cup {q})
  <2>1. \A x \in qs : x \in QuestionOk /\ x.id \in Nat
    BY DEF Talk, AskedOk, QuestionOk
  <2>2. ASSUME NEW x \in qs, x.kind = "run" PROVE x.id < v.nextRun /\ x.id # v.run
    BY <1>1, <2>1, <2>2 DEF Talk, AskedOk, RunStarted
  <2>3. q.id < v.nextRun /\ q.file = v.file
    BY <1>1 DEF RunStarted
  <2>4. v.run # 0
    BY <1>1 DEF RunStarted
  <2>. QED
    BY <2>1, <2>2, <2>3, <2>4 DEF Talk, AskedOk, RunStarted
<1>3. AnswersOk(v)
  BY <1>1 DEF Talk, AnswersOk, RunStarted
<1>4. CountsOk(v, n + 1)
  BY <1>1 DEF Talk, CountsOk, RunStarted
<1>. QED
  BY <1>2, <1>3, <1>4 DEF Talk

LEMMA RunningIs ==
  ASSUME NEW e \in EdOk, e.file # None, NEW d, Core(e, d, authOn), NEW t, SavedOk(e, d, t),
         NEW v, v = Edit1!Running(e)
  PROVE  /\ Core(v, d, authOn) /\ SavedOk(v, d, t) /\ RunStarted(v, e) /\ v.text = e.text /\ v.lists = e.lists
<1>1. v = [e EXCEPT !.open = TRUE, !.run = e.nextRun, !.nextRun = e.nextRun + 1, !.results = None, !.resp = None]
  BY DEF Edit1!Running
<1>2. None \in MaybeBody
  BY DEF MaybeBody
<1>3. v \in EdOk
  <2>1. e.nextRun \in Nat /\ e.nextRun + 1 \in Nat
    BY DEF EdOk
  <2>2. [e EXCEPT !.open = TRUE, !.run = e.nextRun, !.nextRun = e.nextRun + 1, !.results = None,
                  !.resp = None] \in EdOk
    BY <1>2, <2>1, FlagSet, NumberSet, RequestSet, ResponseSet
  <2>. QED
    BY <1>1, <2>2
<1>4. RunStarted(v, e) /\ SameAuth(v, e) /\ v.text = e.text /\ v.lists = e.lists
  BY <1>1 DEF EdOk, RunStarted, SameAuth
<1>5. v.file = e.file /\ v.root = e.root /\ v.isNew = e.isNew /\ v.dirty = e.dirty
      /\ v.editing = e.editing /\ v.form = e.form
  BY <1>1 DEF EdOk
<1>6. Held(v, d) /\ SavedOk(v, d, t) /\ FormOk(v)
  BY <1>4, <1>5 DEF Core, Held, SavedOk, FormOk
<1>7. AuthHeld(v, authOn, d) /\ AuthShown(v, authOn)
  BY <1>4, AuthStays DEF Core
<1>. QED
  BY <1>3, <1>4, <1>6, <1>7 DEF Core

LEMMA QuestionIs ==
  ASSUME ed \in EdOk, NEW kind \in {"run", "preview", "advice"}, NEW id \in Nat \ {0},
         NEW q, q = Edit1!Question(kind, id)
  PROVE  /\ q \in QuestionOk /\ q.kind = kind /\ q.id = id /\ q.file = ed.file /\ q.body = ed.text.body
         /\ q.resp = ed.resp
<1>1. ed.text.body \in MaybeBody /\ ed.resp \in MaybeBody /\ ed.file \in Requests \cup {None}
  BY DEF EdOk, Edit1!Doc, MaybeBody
<1>. QED
  BY <1>1 DEF Edit1!Question, QuestionOk

LEMMA EditorRunBatch ==
  ASSUME EditorInv, NEW p \in Projects, NEW w \in Edit1!Failure, Edit1!RunBatch(p, w)
  PROVE  EditorInv'
<1> DEFINE s == IF p = ed.root THEN Edit1!NoSave ELSE Edit1!NewIn(p, w)
           q0 == Edit1!Question("run", ed.nextRun)
           q == [q0 EXCEPT !.file = s.ed.file]
           v == Edit1!Running(s.ed)
<1>1. /\ steps < MaxSteps /\ steps' = steps + 1 /\ (p = ed.root \/ Edit1!Room(p)) /\ disk' = s.disk
      /\ authOn' = authOn /\ questions' = questions \cup {q} /\ setting' = setting /\ touched' = touched
      /\ ed' = Edit1!Synced(v)
  BY DEF Edit1!RunBatch, Edit1!User
<1>2. IF s.ok /\ p # ed.root THEN Edit1!Leaving(s.disk, "batch") /\ owed' = Edit1!AllChecks(s.ed.text, s.ed.lists)
      ELSE lost' = lost /\ owed' = owed
  BY DEF Edit1!RunBatch, Edit1!Owing
<1>3. /\ DocsOk(disk) /\ Core(ed, disk, authOn) /\ SavedOk(ed, disk, touched) /\ Talk(ed, questions, steps)
      /\ Edit1!AllChecks(ed.text, ed.lists) = owed /\ lost \subseteq {"reload"} /\ setting \in BOOLEAN
      /\ ed \in EdOk
  BY DEF EditorInv, Core
<1>4. /\ DocsOk(s.disk) /\ Core(s.ed, s.disk, authOn) /\ SavedOk(s.ed, s.disk, touched)
      /\ Talk(s.ed, questions, steps) /\ s.ed.nextRun = ed.nextRun /\ s.ed.file # None
      /\ (s.ok /\ p # ed.root => (ed.auto /\ ed.dirty => Edit1!Kept(s.disk)))
      /\ (~(s.ok /\ p # ed.root) => Edit1!AllChecks(s.ed.text, s.ed.lists) = owed)
  <2>1. CASE p = ed.root
    <3>1. s.ed = ed /\ s.disk = disk /\ s.ok = TRUE
      BY <2>1 DEF Edit1!NoSave
    <3>2. ed.file # None
      BY <1>3, <2>1, EditorAssumption DEF Core, Held
    <3> HIDE DEF s
    <3>. QED
      BY <1>3, <2>1, <3>1, <3>2
  <2>2. CASE p # ed.root
    <3>1. s = Edit1!NewIn(p, w)
      BY <2>2
    <3> HIDE DEF s
    <3>2. NewOutcome(s)
      BY <1>1, <2>2, <3>1, NewInIs
    <3>. QED
      BY <2>2, <3>2 DEF NewOutcome
  <2>. QED
    BY <2>1, <2>2
<1>5. s.ed \in EdOk
  BY <1>4 DEF Core
<1>6. v = Edit1!Running(s.ed)
  OBVIOUS
<1>7. q \in QuestionOk /\ q.kind = "run" /\ q.id = ed.nextRun /\ q.file = s.ed.file
  <2>1. ed.nextRun \in Nat \ {0}
    BY <1>3 DEF EdOk, Talk, CountsOk
  <2>2. q0 = Edit1!Question("run", ed.nextRun)
    OBVIOUS
  <2> HIDE DEF q0, s
  <2>3. q0 \in QuestionOk /\ q0.kind = "run" /\ q0.id = ed.nextRun
    BY <1>3, <2>1, <2>2, QuestionIs
  <2>4. s.ed.file \in Requests \cup {None}
    BY <1>5 DEF EdOk
  <2>. QED
    BY <2>3, <2>4 DEF QuestionOk
<1> HIDE DEF s, v, q
<1>8. /\ Core(v, s.disk, authOn) /\ SavedOk(v, s.disk, touched) /\ RunStarted(v, s.ed) /\ v.text = s.ed.text
      /\ v.lists = s.ed.lists
  BY <1>4, <1>5, <1>6, RunningIs
<1>9. Talk(v, questions \cup {q}, steps + 1)
  BY <1>1, <1>4, <1>5, <1>7, <1>8, RunTalk
<1>10. v \in EdOk
  BY <1>8 DEF Core
<1>11. /\ SameTalk(ed', v) /\ ed'.text = v.text /\ ed'.lists = v.lists
       /\ Core(ed', s.disk, authOn) /\ SavedOk(ed', s.disk, touched)
  BY <1>1, <1>3, <1>8, <1>10, SyncedIs
<1>12. Talk(ed', questions \cup {q}, steps + 1)
  BY <1>9, <1>11, TalkStays
<1>13. lost' \subseteq {"reload"}
  <2>1. CASE s.ok /\ p # ed.root
    <3>1. Edit1!Leaving(s.disk, "batch") /\ (ed.auto /\ ed.dirty => Edit1!Kept(s.disk))
      BY <1>2, <1>4, <2>1
    <3>. QED
      BY <1>3, <3>1, LeavingKeeps
  <2>. QED
    BY <1>2, <1>3, <2>1
<1>14. Edit1!AllChecks(ed'.text, ed'.lists) = owed'
  BY <1>2, <1>4, <1>8, <1>11
<1>. QED
  BY <1>1, <1>3, <1>4, <1>11, <1>12, <1>13, <1>14, EditorGoes

LEMMA EditorClose ==
  ASSUME EditorInv, NEW w \in Edit1!Failure, Edit1!Close(w)
  PROVE  EditorInv'
<1> DEFINE first == ed.auto /\ ed.dirty
           s == IF first THEN Edit1!SaveNow(ed, w) ELSE Edit1!NoSave
<1>1. /\ steps < MaxSteps /\ steps' = steps + 1 /\ ed.open /\ disk' = s.disk
      /\ authOn' = authOn /\ questions' = questions /\ setting' = setting /\ touched' = touched
      /\ lost' = lost /\ owed' = owed /\ ed' = [s.ed EXCEPT !.open = ~s.ok]
  BY DEF Edit1!Close, Edit1!User, Edit1!history
<1>2. /\ DocsOk(disk) /\ Core(ed, disk, authOn) /\ SavedOk(ed, disk, touched) /\ Talk(ed, questions, steps)
      /\ Edit1!AllChecks(ed.text, ed.lists) = owed /\ lost \subseteq {"reload"} /\ setting \in BOOLEAN
  BY DEF EditorInv
<1>3. ed \in EdOk /\ Held(ed, disk)
  BY <1>2 DEF Core
<1>4. first \in BOOLEAN /\ ed.file # None
  BY <1>1, <1>3 DEF EdOk, Held
<1>5. FirstOrNot(s, first, w)
  BY DEF FirstOrNot
<1> HIDE DEF s, first
<1>6. SavedFirst(s, first)
  BY <1>2, <1>4, <1>5, FirstIs DEF EditorInv
<1>7. DocsOk(s.disk) /\ Core(s.ed, s.disk, authOn) /\ SavedOk(s.ed, s.disk, touched) /\ SameTalk(s.ed, ed)
      /\ Edit1!AllChecks(s.ed.text, s.ed.lists) = owed /\ s.ok \in BOOLEAN
  BY <1>6 DEF SavedFirst
<1>8. s.ed \in EdOk /\ s.ed.file # None
  BY <1>4, <1>7 DEF Core, SameTalk
<1>9. ed' \in EdOk
  <2> DEFINE open == ~s.ok
  <2>1. open \in BOOLEAN /\ ed' = [s.ed EXCEPT !.open = open]
    BY <1>1
  <2> HIDE DEF open
  <2>. QED
    BY <1>8, <2>1 DEF EdOk
<1>10. SameTalk(ed', s.ed) /\ SameAuth(ed', s.ed) /\ ed'.text = s.ed.text /\ ed'.lists = s.ed.lists
  BY <1>1, <1>8 DEF EdOk, SameTalk, SameAuth
<1>11. ed'.file = s.ed.file /\ ed'.root = s.ed.root /\ ed'.isNew = s.ed.isNew /\ ed'.dirty = s.ed.dirty
       /\ ed'.editing = s.ed.editing /\ ed'.form = s.ed.form
  BY <1>1, <1>8 DEF EdOk
<1>12. Held(ed', s.disk) /\ SavedOk(ed', s.disk, touched) /\ FormOk(ed')
  BY <1>7, <1>8, <1>10, <1>11 DEF Core, Held, SavedOk, FormOk
<1>13. AuthHeld(ed', authOn, s.disk) /\ AuthShown(ed', authOn)
  BY <1>7, <1>10, AuthStays DEF Core
<1>14. Talk(s.ed, questions, steps)
  BY <1>2, <1>7, TalkStays
<1>15. Talk(s.ed, questions, steps + 1)
  BY <1>1, <1>8, <1>14, TalkLater
<1>16. Talk(ed', questions, steps + 1)
  BY <1>10, <1>15, TalkStays
<1>17. Core(ed', s.disk, authOn)
  BY <1>9, <1>12, <1>13 DEF Core
<1>. QED
  BY <1>1, <1>2, <1>7, <1>10, <1>12, <1>16, <1>17, EditorGoes

LEMMA EditorSave ==
  ASSUME EditorInv, NEW w \in Edit1!Failure, Edit1!Save(w)
  PROVE  EditorInv'
<1> DEFINE r == Edit1!SaveNow(ed, w)
<1>1. /\ steps < MaxSteps /\ steps' = steps + 1 /\ ed.open /\ disk' = r.disk /\ ed' = r.ed
      /\ authOn' = authOn /\ questions' = questions /\ setting' = setting /\ lost' = lost /\ owed' = owed
      /\ touched' = IF r.ok THEN touched \ {ed.file} ELSE touched
  BY DEF Edit1!Save, Edit1!User
<1>2. /\ DocsOk(disk) /\ Core(ed, disk, authOn) /\ SavedOk(ed, disk, touched) /\ Talk(ed, questions, steps)
      /\ Edit1!AllChecks(ed.text, ed.lists) = owed /\ lost \subseteq {"reload"} /\ setting \in BOOLEAN
  BY DEF EditorInv
<1>3. ed \in EdOk /\ ed.file # None
  BY <1>1, <1>2 DEF Core, Held
<1>4. r = Edit1!SaveNow(ed, w)
  OBVIOUS
<1> HIDE DEF r
<1>5. SaveOutcome(r, ed, touched)
  BY <1>2, <1>3, <1>4, SaveKeeps
<1>6. /\ DocsOk(r.disk) /\ Core(r.ed, r.disk, authOn) /\ SavedOk(r.ed, r.disk, touched')
      /\ SameTalk(r.ed, ed) /\ Edit1!AllChecks(r.ed.text, r.ed.lists) = owed
  BY <1>1, <1>2, <1>5 DEF SaveOutcome
<1>7. Talk(r.ed, questions, steps + 1)
  <2>1. Talk(r.ed, questions, steps) /\ r.ed \in EdOk
    BY <1>2, <1>6, TalkStays DEF Core
  <2>. QED
    BY <1>1, <2>1, TalkLater
<1>. QED
  BY <1>1, <1>2, <1>6, <1>7, EditorGoes

LEMMA SameChecks ==
  ASSUME NEW doc, NEW was, doc.body = was.body, doc.inline = was.inline, NEW lists
  PROVE  Edit1!AllChecks(doc, lists) = Edit1!AllChecks(was, lists)
BY DEF Edit1!AllChecks, Edit1!Parses

(* The regression mark of a document is turned. *)
LEMMA MarkIs ==
  ASSUME NEW doc \in Edit1!Doc, NEW now, now = [doc EXCEPT !.mark = ~doc.mark]
  PROVE  now \in Edit1!Doc /\ now.body = doc.body /\ now.inline = doc.inline
BY DEF Edit1!Doc

LEMMA EditorSetRegression ==
  ASSUME EditorInv, NEW f \in Requests, NEW w \in Edit1!Failure, Edit1!SetRegression(f, w)
  PROVE  EditorInv'
<1>1. /\ steps < MaxSteps /\ steps' = steps + 1 /\ disk[f].doc # Edit1!Absent
      /\ authOn' = authOn /\ questions' = questions /\ setting' = setting /\ touched' = touched
      /\ lost' = lost /\ owed' = owed
  BY DEF Edit1!SetRegression, Edit1!User, Edit1!history
<1>2. /\ DocsOk(disk) /\ Core(ed, disk, authOn) /\ SavedOk(ed, disk, touched) /\ Talk(ed, questions, steps)
      /\ Edit1!AllChecks(ed.text, ed.lists) = owed /\ lost \subseteq {"reload"} /\ setting \in BOOLEAN
  BY DEF EditorInv
<1>3. ed \in EdOk /\ f # None /\ ed.text \in Edit1!Doc
  BY <1>2, EditorAssumption DEF Core, EdOk
<1>4. CASE ed.file = f
  <2> DEFINE text == [ed.text EXCEPT !.mark = ~ed.text.mark]
             m == [ed EXCEPT !.text = text, !.dirty = TRUE]
             r == Edit1!SaveNow(m, w)
  <2>1. ed' = r.ed /\ disk' = r.disk
    <3>1. [ed EXCEPT !.text.mark = ~@, !.dirty = TRUE] = m
      BY <1>3 DEF EdOk
    <3>. QED
      BY <1>4, <3>1 DEF Edit1!SetRegression
  <2>2. text \in Edit1!Doc /\ text.body = ed.text.body /\ text.inline = ed.text.inline
    BY <1>3, MarkIs
  <2>3. r = Edit1!SaveNow(m, w)
    OBVIOUS
  <2> HIDE DEF text, r
  <2>4. m \in EdOk
    BY <1>3, <2>2 DEF EdOk
  <2>5. SameAuth(m, ed) /\ SameTalk(m, ed) /\ m.text = text /\ m.lists = ed.lists /\ m.dirty = TRUE
    BY <1>3, <2>2 DEF EdOk, SameAuth, SameTalk
  <2>6. m.open = ed.open /\ m.file = ed.file /\ m.root = ed.root /\ m.isNew = ed.isNew
        /\ m.editing = ed.editing /\ m.form = ed.form
    BY <1>3 DEF EdOk
  <2> HIDE DEF m
  <2>7. Held(m, disk) /\ SavedOk(m, disk, touched) /\ FormOk(m)
    BY <1>2, <1>3, <1>4, <2>2, <2>5, <2>6 DEF Core, Held, SavedOk, FormOk
  <2>8. AuthHeld(m, authOn, disk) /\ AuthShown(m, authOn)
    BY <1>2, <2>5, AuthStays DEF Core
  <2>9. Core(m, disk, authOn) /\ m.file # None
    BY <1>3, <1>4, <2>4, <2>6, <2>7, <2>8 DEF Core
  <2>10. Edit1!AllChecks(m.text, m.lists) = owed
    BY <1>2, <2>2, <2>5, SameChecks
  <2>11. SaveOutcome(r, m, touched)
    BY <1>2, <2>3, <2>7, <2>9, SaveKeeps
  <2>12. /\ DocsOk(r.disk) /\ Core(r.ed, r.disk, authOn) /\ SavedOk(r.ed, r.disk, touched)
         /\ SameTalk(r.ed, m) /\ Edit1!AllChecks(r.ed.text, r.ed.lists) = owed
    BY <2>10, <2>11 DEF SaveOutcome
  <2>13. Talk(m, questions, steps)
    BY <1>2, <2>5, TalkStays
  <2>14. Talk(r.ed, questions, steps + 1)
    <3>1. Talk(r.ed, questions, steps) /\ r.ed \in EdOk
      BY <2>12, <2>13, TalkStays DEF Core
    <3>. QED
      BY <1>1, <3>1, TalkLater
  <2>. QED
    BY <1>1, <1>2, <2>1, <2>12, <2>14, EditorGoes
<1>5. CASE ed.file # f
  <2> DEFINE doc == [disk[f].doc EXCEPT !.mark = ~disk[f].doc.mark]
             now == [disk EXCEPT ![f] = [disk[f] EXCEPT !.doc = doc]]
  <2>1. disk[f] \in [doc : Edit1!Doc, lists : Edit1!Lists] /\ disk[f].doc.body # None /\ disk[f].doc \in Edit1!Doc
    BY <1>1, <1>2 DEF DocsOk
  <2>2. doc \in Edit1!Doc /\ doc.body = disk[f].doc.body
    BY <2>1, MarkIs
  <2>3. disk' = now /\ ed' = ed
    <3>1. disk' = [disk EXCEPT ![f].doc.mark = ~@] /\ ed' = ed
      BY <1>5 DEF Edit1!SetRegression
    <3>. QED
      BY <3>1
  <2> HIDE DEF doc
  <2>4. [disk[f] EXCEPT !.doc = doc] \in [doc : Edit1!Doc, lists : Edit1!Lists]
        /\ [disk[f] EXCEPT !.doc = doc].doc = doc
    BY <2>1, <2>2
  <2>5. Writes(now, disk, f, [disk[f] EXCEPT !.doc = doc])
    BY DEF Writes
  <2> HIDE DEF now
  <2>6. /\ DocsOk(now) /\ \A g \in Requests : g # f => now[g] = disk[g]
        /\ \A g \in Requests : disk[g].doc # Edit1!Absent => now[g].doc # Edit1!Absent
    BY <1>2, <2>1, <2>2, <2>4, <2>5, WrittenDocs
  <2>7. Core(ed, now, authOn)
    BY <1>2, <2>6, CoreKept
  <2>8. SavedOk(ed, now, touched)
    BY <1>2, <1>3, <1>5, <2>6 DEF SavedOk, EdOk
  <2>9. Talk(ed, questions, steps + 1)
    BY <1>1, <1>2, <1>3, TalkLater
  <2>. QED
    BY <1>1, <1>2, <2>3, <2>6, <2>7, <2>8, <2>9, EditorGoes
<1>. QED
  BY <1>4, <1>5

LEMMA EditorActivateAuth ==
  ASSUME EditorInv, NEW w \in Edit1!Failure, Edit1!ActivateAuth(w)
  PROVE  EditorInv'
<1> DEFINE ok == w = "none" /\ ed.root \notin Unreadable
<1>1. /\ steps < MaxSteps /\ steps' = steps + 1 /\ ed.open /\ ~ed.isNew /\ ed.file # None
      /\ ed' = [ed EXCEPT !.auth = ed.file, !.authDirty = ~ok]
      /\ authOn' = (IF ok THEN [authOn EXCEPT ![ed.root] = ed.file] ELSE authOn)
      /\ disk' = disk /\ questions' = questions /\ setting' = setting /\ touched' = touched
      /\ lost' = lost /\ owed' = owed
  BY DEF Edit1!ActivateAuth, Edit1!User, Edit1!history
<1>2. /\ DocsOk(disk) /\ Core(ed, disk, authOn) /\ SavedOk(ed, disk, touched) /\ Talk(ed, questions, steps)
      /\ Edit1!AllChecks(ed.text, ed.lists) = owed /\ lost \subseteq {"reload"} /\ setting \in BOOLEAN
  BY DEF EditorInv
<1>3. ed \in EdOk /\ ed.file \in Requests /\ ed.root = RootOf[ed.file] /\ ed.root \in Projects
      /\ disk[ed.file].doc # Edit1!Absent
  BY <1>1, <1>2, EditorAssumption DEF Core, EdOk, Held
<1>4. ok \in BOOLEAN
  OBVIOUS
<1> HIDE DEF ok
<1>5. ed' \in EdOk
  <2>1. \A b \in BOOLEAN : [ed EXCEPT !.auth = ed.file, !.authDirty = ~b] \in EdOk
    BY <1>3, RequestSet, FlagSet
  <2>2. [ed EXCEPT !.auth = ed.file, !.authDirty = ~ok] \in EdOk
    BY <1>4, <2>1, Zenon
  <2>. QED
    BY <1>1, <2>2
<1>6. SameTalk(ed', ed) /\ SameWork(ed', ed)
  BY <1>1, <1>3 DEF EdOk, SameTalk, SameWork
<1>7. ed'.auth = ed.file /\ ed'.authDirty = ~ok /\ ed'.index = ed.index /\ ed'.root = ed.root
  BY <1>1, <1>3 DEF EdOk
<1>8. AuthHeld(ed', authOn', disk) /\ AuthShown(ed', authOn')
  <2>1. AuthHeld(ed, authOn, disk)
    BY <1>2 DEF Core
  <2>2. CASE ok
    <3>1. /\ authOn' \in [Projects -> Requests \cup {None}] /\ authOn'[ed.root] = ed.file
          /\ \A p \in Projects : p # ed.root => authOn'[p] = authOn[p]
      BY <1>1, <1>3, <2>1, <2>2 DEF AuthHeld
    <3>. QED
      BY <1>3, <1>7, <2>1, <3>1 DEF AuthHeld, AuthShown
  <2>3. CASE ~ok
    BY <1>1, <1>7, <2>1, <2>3 DEF AuthHeld, AuthShown
  <2>. QED
    BY <2>2, <2>3
<1>9. Held(ed', disk) /\ SavedOk(ed', disk, touched) /\ FormOk(ed')
  BY <1>2, <1>6, WorkStays DEF Core
<1>10. Talk(ed', questions, steps + 1)
  <2>1. Talk(ed, questions, steps + 1)
    BY <1>1, <1>2, <1>3, TalkLater
  <2>. QED
    BY <1>6, <2>1, TalkStays
<1>11. Core(ed', disk, authOn')
  BY <1>5, <1>8, <1>9 DEF Core
<1>12. Edit1!AllChecks(ed'.text, ed'.lists) = owed
  BY <1>2, <1>6 DEF SameWork
<1>. QED
  BY <1>1, <1>2, <1>9, <1>10, <1>11, <1>12, EditorGoes

LEMMA EditorCreateAuth ==
  ASSUME EditorInv, NEW f \in Requests, NEW w \in Edit1!Failure, Edit1!CreateAuth(f, w)
  PROVE  EditorInv'
<1> DEFINE ok == w = "none" /\ ed.root \notin Unreadable
           file == [doc |-> Edit1!Skeleton, lists |-> Edit1!NoChecks]
           now == [disk EXCEPT ![f] = file]
<1>1. /\ steps < MaxSteps /\ steps' = steps + 1 /\ ed.open /\ f \in Edit1!FreePath(ed.root, disk) /\ f # ed.file
      /\ disk' = (IF ok THEN now ELSE disk)
      /\ authOn' = (IF ok THEN [authOn EXCEPT ![ed.root] = f] ELSE authOn)
      /\ ed' = (IF ok THEN [ed EXCEPT !.auth = f, !.authDirty = FALSE, !.index = ed.root] ELSE ed)
      /\ questions' = questions /\ setting' = setting /\ touched' = touched
      /\ lost' = lost /\ owed' = owed
  BY DEF Edit1!CreateAuth, Edit1!User, Edit1!history
<1>2. /\ DocsOk(disk) /\ Core(ed, disk, authOn) /\ SavedOk(ed, disk, touched) /\ Talk(ed, questions, steps)
      /\ Edit1!AllChecks(ed.text, ed.lists) = owed /\ lost \subseteq {"reload"} /\ setting \in BOOLEAN
  BY DEF EditorInv
<1>3. ed \in EdOk /\ ed.file # None /\ ed.root \in Projects /\ RootOf[f] = ed.root
  <2>1. ed \in EdOk /\ ed.file # None
    BY <1>1, <1>2 DEF Core, Held
  <2>2. ed.file \in Requests /\ ed.root = RootOf[ed.file]
    BY <1>2, <2>1 DEF Core, Held, EdOk
  <2>. QED
    BY <1>1, <2>1, <2>2, EditorAssumption DEF Edit1!FreePath
<1>4. Talk(ed, questions, steps + 1)
  BY <1>1, <1>2, <1>3, TalkLater
<1>5. CASE ~ok
  BY <1>1, <1>2, <1>4, <1>5, EditorGoes
<1>6. CASE ok
  <2>1. ed' = [ed EXCEPT !.auth = f, !.authDirty = FALSE, !.index = ed.root] /\ disk' = now
        /\ authOn' = [authOn EXCEPT ![ed.root] = f]
    BY <1>1, <1>6
  <2>2. file \in [doc : Edit1!Doc, lists : Edit1!Lists] /\ file.doc.body # None
    BY SkeletonIs, DocFacts
  <2> HIDE DEF file
  <2>3. Writes(now, disk, f, file)
    BY DEF Writes
  <2> HIDE DEF now
  <2>4. /\ DocsOk(now) /\ now[f].doc # Edit1!Absent /\ \A g \in Requests : g # f => now[g] = disk[g]
        /\ \A g \in Requests : disk[g].doc # Edit1!Absent => now[g].doc # Edit1!Absent
    BY <1>2, <2>2, <2>3, WrittenDocs
  <2>5. ed' \in EdOk
    <3>1. [ed EXCEPT !.auth = f, !.authDirty = FALSE, !.index = ed.root] \in EdOk
      BY <1>3, RequestSet, FlagSet, ProjectSet
    <3>. QED
      BY <2>1, <3>1
  <2>6. SameTalk(ed', ed) /\ SameWork(ed', ed)
    BY <1>3, <2>1 DEF EdOk, SameTalk, SameWork
  <2>7. ed'.auth = f /\ ed'.authDirty = FALSE /\ ed'.index = ed.root /\ ed'.root = ed.root
    BY <1>3, <2>1 DEF EdOk
  <2>8. Core(ed, now, authOn)
    BY <1>2, <2>4, CoreKept
  <2>9. AuthHeld(ed', authOn', now) /\ AuthShown(ed', authOn')
    <3>1. AuthHeld(ed, authOn, now)
      BY <2>8 DEF Core
    <3>2. /\ authOn' \in [Projects -> Requests \cup {None}] /\ authOn'[ed.root] = f
          /\ \A p \in Projects : p # ed.root => authOn'[p] = authOn[p]
      BY <1>3, <2>1, <3>1 DEF AuthHeld
    <3>. QED
      BY <1>3, <1>6, <2>4, <2>7, <3>1, <3>2 DEF AuthHeld, AuthShown
  <2>10. SavedOk(ed, now, touched)
    BY <1>1, <1>2, <1>3, <2>4 DEF SavedOk, EdOk
  <2>11. Held(ed', now) /\ SavedOk(ed', now, touched) /\ FormOk(ed')
    BY <2>6, <2>8, <2>10, WorkStays DEF Core
  <2>12. Core(ed', now, authOn')
    BY <2>5, <2>9, <2>11 DEF Core
  <2>13. Talk(ed', questions, steps + 1)
    BY <1>4, <2>6, TalkStays
  <2>14. Edit1!AllChecks(ed'.text, ed'.lists) = owed
    BY <1>2, <2>6 DEF SameWork
  <2>. QED
    BY <1>1, <1>2, <2>1, <2>4, <2>11, <2>12, <2>13, <2>14, EditorGoes
<1>. QED
  BY <1>5, <1>6

(* Most steps change what is open and nothing on the disk. *)
OnlyEd == disk' = disk /\ authOn' = authOn /\ touched' = touched /\ lost' = lost

LEMMA EdGoes ==
  ASSUME EditorInv, OnlyEd, ed' \in EdOk, SameAuth(ed', ed), Held(ed', disk), SavedOk(ed', disk, touched),
         FormOk(ed'), Talk(ed', questions', steps'), Edit1!AllChecks(ed'.text, ed'.lists) = owed',
         setting' \in BOOLEAN
  PROVE  EditorInv'
<1>1. DocsOk(disk) /\ Core(ed, disk, authOn) /\ lost \subseteq {"reload"}
  BY DEF EditorInv
<1>2. Core(ed', disk, authOn)
  BY <1>1, AuthStays DEF Core
<1>. QED
  BY <1>1, <1>2, EditorGoes DEF OnlyEd

LEMMA EditorEdit ==
  ASSUME EditorInv, NEW doc \in TypedDocs, Edit1!Edit(doc)
  PROVE  EditorInv'
<1>1. /\ steps < MaxSteps /\ steps' = steps + 1 /\ ed.open /\ ed' = Edit1!Edited(ed, doc) /\ OnlyEd
      /\ questions' = questions /\ setting' = setting
      /\ owed' = Edit1!AllChecks(Edit1!Edited(ed, doc).text, Edit1!Edited(ed, doc).lists)
  BY DEF Edit1!Edit, Edit1!User, Edit1!Owing, OnlyEd
<1>2. /\ Core(ed, disk, authOn) /\ Talk(ed, questions, steps) /\ setting \in BOOLEAN /\ ed \in EdOk
      /\ Held(ed, disk) /\ FormOk(ed)
  BY DEF EditorInv, Core
<1>3. doc \in Edit1!Doc /\ doc.body # None
  BY EditorAssumption
<1>4. Edit1!NoPreview \in [body : MaybeBody, resp : MaybeBody]
  BY DEF Edit1!NoPreview, MaybeBody
<1>5. ed' = [ed EXCEPT !.prev = 0, !.preview = Edit1!NoPreview, !.text = doc, !.dirty = TRUE]
  BY <1>1, <1>2 DEF Edit1!Edited, Edit1!ClearPreview, EdOk
<1>6. ed' \in EdOk
  BY <1>2, <1>3, <1>4, <1>5 DEF EdOk
<1>7. SameAuth(ed', ed) /\ Cleared(ed', ed) /\ ed'.text = doc /\ ed'.dirty = TRUE
  BY <1>2, <1>5 DEF EdOk, SameAuth, Cleared
<1>8. ed'.open = ed.open /\ ed'.file = ed.file /\ ed'.root = ed.root /\ ed'.isNew = ed.isNew
      /\ ed'.lists = ed.lists /\ ed'.editing = ed.editing /\ ed'.form = ed.form
  BY <1>2, <1>5 DEF EdOk
<1>9. Held(ed', disk) /\ SavedOk(ed', disk, touched) /\ FormOk(ed')
  BY <1>1, <1>2, <1>3, <1>7, <1>8 DEF Held, SavedOk, FormOk
<1>10. Talk(ed', questions, steps + 1)
  <2>1. Talk(ed, questions, steps + 1)
    BY <1>1, <1>2, TalkLater
  <2>. QED
    BY <1>2, <1>7, <2>1, ClearedTalk
<1>11. Edit1!AllChecks(ed'.text, ed'.lists) = owed'
  BY <1>1
<1>. QED
  BY <1>1, <1>2, <1>6, <1>7, <1>9, <1>10, <1>11, EdGoes

LEMMA EditorToggleAutoSave ==
  ASSUME EditorInv, Edit1!ToggleAutoSave
  PROVE  EditorInv'
<1> DEFINE auto == IF ed.open THEN ~setting ELSE ed.auto
<1>1. /\ steps < MaxSteps /\ steps' = steps + 1 /\ ed' = [ed EXCEPT !.auto = auto] /\ OnlyEd
      /\ questions' = questions /\ setting' = ~setting /\ owed' = owed
  BY DEF Edit1!ToggleAutoSave, Edit1!User, Edit1!history, OnlyEd
<1>2. /\ SavedOk(ed, disk, touched) /\ Talk(ed, questions, steps) /\ setting \in BOOLEAN /\ ed \in EdOk
      /\ Held(ed, disk) /\ FormOk(ed) /\ Edit1!AllChecks(ed.text, ed.lists) = owed
  BY DEF EditorInv, Core
<1>3. auto \in BOOLEAN
  BY <1>2 DEF EdOk
<1> HIDE DEF auto
<1>4. ed' \in EdOk
  BY <1>1, <1>2, <1>3 DEF EdOk
<1>5. SameAuth(ed', ed) /\ SameTalk(ed', ed)
  BY <1>1, <1>2 DEF EdOk, SameAuth, SameTalk
<1>6. /\ ed'.open = ed.open /\ ed'.file = ed.file /\ ed'.root = ed.root /\ ed'.isNew = ed.isNew /\ ed'.text = ed.text
      /\ ed'.lists = ed.lists /\ ed'.dirty = ed.dirty /\ ed'.editing = ed.editing /\ ed'.form = ed.form
  BY <1>1, <1>2 DEF EdOk
<1>7. Held(ed', disk) /\ SavedOk(ed', disk, touched) /\ FormOk(ed')
  BY <1>2, <1>6 DEF Held, SavedOk, FormOk
<1>8. Talk(ed', questions, steps + 1)
  <2>1. Talk(ed, questions, steps + 1)
    BY <1>1, <1>2, TalkLater
  <2>. QED
    BY <1>5, <2>1, TalkStays
<1>. QED
  BY <1>1, <1>2, <1>4, <1>5, <1>6, <1>7, <1>8, EdGoes

(* Steps that leave the work alone. *)
LEMMA WorkGoes ==
  ASSUME EditorInv, OnlyEd, setting' = setting, owed' = owed, ed' \in EdOk, SameWork(ed', ed),
         SameAuth(ed', ed), Talk(ed', questions', steps')
  PROVE  EditorInv'
<1>1. /\ SavedOk(ed, disk, touched) /\ setting \in BOOLEAN
      /\ Held(ed, disk) /\ FormOk(ed) /\ Edit1!AllChecks(ed.text, ed.lists) = owed
  BY DEF EditorInv, Core
<1>2. Held(ed', disk) /\ SavedOk(ed', disk, touched) /\ FormOk(ed')
  BY <1>1, WorkStays
<1>3. Edit1!AllChecks(ed'.text, ed'.lists) = owed
  BY <1>1 DEF SameWork
<1>. QED
  BY <1>1, <1>2, <1>3, EdGoes

LEMMA EditorRevalidate ==
  ASSUME EditorInv, Edit1!Revalidate
  PROVE  EditorInv'
<1>1. /\ ed' = [ed EXCEPT !.valid = ed.text] /\ OnlyEd /\ steps' = steps
      /\ questions' = questions /\ setting' = setting /\ owed' = owed
  BY DEF Edit1!Revalidate, Edit1!Validate, Edit1!history, OnlyEd
<1>2. ed \in EdOk /\ Talk(ed, questions, steps)
  BY DEF EditorInv, Core
<1>3. ed' \in EdOk
  BY <1>1, <1>2 DEF EdOk
<1>4. SameWork(ed', ed) /\ SameAuth(ed', ed) /\ SameTalk(ed', ed)
  BY <1>1, <1>2 DEF EdOk, SameWork, SameAuth, SameTalk
<1>5. Talk(ed', questions, steps)
  BY <1>2, <1>4, TalkStays
<1>. QED
  BY <1>1, <1>3, <1>4, <1>5, WorkGoes

LEMMA EditorSelectResult ==
  ASSUME EditorInv, NEW b \in Edit1!Bodies, Edit1!SelectResult(b)
  PROVE  EditorInv'
<1>1. /\ steps < MaxSteps /\ steps' = steps + 1 /\ OnlyEd
      /\ ed' = [Edit1!ClearPreview(ed) EXCEPT !.resp = b]
      /\ questions' = questions /\ setting' = setting /\ owed' = owed
  BY DEF Edit1!SelectResult, Edit1!User, Edit1!history, OnlyEd
<1>2. ed \in EdOk /\ Talk(ed, questions, steps)
  BY DEF EditorInv, Core
<1>3. Edit1!NoPreview \in [body : MaybeBody, resp : MaybeBody] /\ b \in MaybeBody
  BY DEF Edit1!NoPreview, MaybeBody
<1>4. ed' = [ed EXCEPT !.prev = 0, !.preview = Edit1!NoPreview, !.resp = b]
  BY <1>1, <1>2 DEF Edit1!ClearPreview, EdOk
<1>5. ed' \in EdOk
  BY <1>2, <1>3, <1>4 DEF EdOk
<1>6. SameWork(ed', ed) /\ SameAuth(ed', ed) /\ Cleared(ed', ed)
  BY <1>2, <1>4 DEF EdOk, SameWork, SameAuth, Cleared
<1>7. Talk(ed', questions, steps + 1)
  <2>1. Talk(ed, questions, steps + 1)
    BY <1>1, <1>2, TalkLater
  <2>. QED
    BY <1>2, <1>6, <2>1, ClearedTalk
<1>. QED
  BY <1>1, <1>5, <1>6, <1>7, WorkGoes

LEMMA EditorRun ==
  ASSUME EditorInv, Edit1!Run
  PROVE  EditorInv'
<1> DEFINE q == Edit1!Question("run", ed.nextRun)
<1>1. /\ steps < MaxSteps /\ steps' = steps + 1 /\ ed.open /\ ed' = Edit1!Running(ed) /\ OnlyEd
      /\ questions' = questions \cup {q} /\ setting' = setting /\ owed' = owed
  BY DEF Edit1!Run, Edit1!User, Edit1!history, Edit1!Asking, OnlyEd
<1>2. /\ Core(ed, disk, authOn) /\ SavedOk(ed, disk, touched) /\ Talk(ed, questions, steps) /\ ed \in EdOk
      /\ Held(ed, disk) /\ Edit1!AllChecks(ed.text, ed.lists) = owed /\ setting \in BOOLEAN
  BY DEF EditorInv, Core
<1>3. ed.file # None
  BY <1>1, <1>2 DEF Held
<1>4. q \in QuestionOk /\ q.kind = "run" /\ q.id = ed.nextRun /\ q.file = ed.file
  <2>1. ed.nextRun \in Nat \ {0}
    BY <1>2 DEF EdOk, Talk, CountsOk
  <2>2. q = Edit1!Question("run", ed.nextRun)
    OBVIOUS
  <2> HIDE DEF q
  <2>. QED
    BY <1>2, <2>1, <2>2, QuestionIs
<1> HIDE DEF q
<1>5. /\ Core(ed', disk, authOn) /\ SavedOk(ed', disk, touched) /\ RunStarted(ed', ed) /\ ed'.text = ed.text
      /\ ed'.lists = ed.lists
  BY <1>1, <1>2, <1>3, RunningIs
<1>6. Talk(ed', questions \cup {q}, steps + 1)
  BY <1>1, <1>2, <1>4, <1>5, RunTalk
<1>7. DocsOk(disk) /\ lost \subseteq {"reload"}
  BY DEF EditorInv
<1>. QED
  BY <1>1, <1>2, <1>5, <1>6, <1>7, EditorGoes DEF OnlyEd

LEMMA EditorAdvise ==
  ASSUME EditorInv, Edit1!Advise
  PROVE  EditorInv'
<1> DEFINE q == Edit1!Question("advice", ed.nextAdvice)
<1>1. /\ steps < MaxSteps /\ steps' = steps + 1 /\ OnlyEd
      /\ ed' = [ed EXCEPT !.advice = ed.nextAdvice, !.nextAdvice = ed.nextAdvice + 1, !.answer = None]
      /\ questions' = questions \cup {q} /\ setting' = setting /\ owed' = owed
  BY DEF Edit1!Advise, Edit1!User, Edit1!history, Edit1!Asking, OnlyEd
<1>2. ed \in EdOk /\ Talk(ed, questions, steps)
  BY DEF EditorInv, Core
<1>3. ed.nextAdvice \in Nat \ {0} /\ ed.nextAdvice + 1 \in Nat /\ ed.advice \in Nat
      /\ steps \in Nat /\ MaxSteps \in Nat /\ ed.nextRun \in Nat /\ ed.nextPrev \in Nat
  BY <1>2, EditorAssumption DEF EdOk, Talk, CountsOk
<1>4. q \in QuestionOk /\ q.kind = "advice" /\ q.id = ed.nextAdvice /\ q.file = ed.file
  <2>1. q = Edit1!Question("advice", ed.nextAdvice)
    OBVIOUS
  <2> HIDE DEF q
  <2>. QED
    BY <1>2, <1>3, <2>1, QuestionIs
<1> HIDE DEF q
<1>5. ed' \in EdOk
  BY <1>1, <1>2, <1>3 DEF EdOk
<1>6. SameWork(ed', ed) /\ SameAuth(ed', ed)
  BY <1>1, <1>2 DEF EdOk, SameWork, SameAuth
<1>7. /\ ed'.advice = ed.nextAdvice /\ ed'.nextAdvice = ed.nextAdvice + 1 /\ ed'.answer = None
      /\ ed'.file = ed.file /\ ed'.text = ed.text /\ ed'.run = ed.run /\ ed'.nextRun = ed.nextRun
      /\ ed'.results = ed.results /\ ed'.resp = ed.resp /\ ed'.prev = ed.prev /\ ed'.nextPrev = ed.nextPrev
      /\ ed'.preview = ed.preview
  BY <1>1, <1>2 DEF EdOk
<1>8. AskedOk(ed', questions \cup {q})
  <2>1. \A x \in questions : x \in QuestionOk /\ x.id \in Nat
    BY <1>2 DEF Talk, AskedOk, QuestionOk
  <2>2. ASSUME NEW x \in questions, x.kind = "advice" PROVE x.id < ed'.nextAdvice /\ x.id # ed'.advice
    BY <1>2, <1>3, <1>7, <2>1, <2>2 DEF Talk, AskedOk
  <2>3. q.id < ed'.nextAdvice /\ q.file = ed'.file
    BY <1>3, <1>4, <1>7
  <2>. QED
    BY <1>2, <1>4, <1>7, <2>1, <2>2, <2>3 DEF Talk, AskedOk
<1>9. AnswersOk(ed')
  BY <1>2, <1>7 DEF Talk, AnswersOk
<1>10. CountsOk(ed', steps + 1)
  BY <1>1, <1>2, <1>3, <1>7 DEF Talk, CountsOk
<1>11. Talk(ed', questions', steps')
  BY <1>1, <1>8, <1>9, <1>10 DEF Talk
<1>. QED
  BY <1>1, <1>5, <1>6, <1>11, WorkGoes

LEMMA EditorPreview ==
  ASSUME EditorInv, NEW after \in BOOLEAN, Edit1!Preview(after)
  PROVE  EditorInv'
<1> DEFINE q == Edit1!Question("preview", ed.nextPrev)
<1>1. /\ steps < MaxSteps /\ steps' = steps + 1 /\ OnlyEd
      /\ ed' = [ed EXCEPT !.prev = ed.nextPrev, !.nextPrev = ed.nextPrev + 1, !.preview = Edit1!NoPreview]
      /\ questions' = questions \cup {q} /\ setting' = setting /\ owed' = owed
  BY DEF Edit1!Preview, Edit1!User, Edit1!history, Edit1!Asking, OnlyEd
<1>2. ed \in EdOk /\ Talk(ed, questions, steps)
  BY DEF EditorInv, Core
<1>3. ed.nextPrev \in Nat \ {0} /\ ed.nextPrev + 1 \in Nat /\ ed.prev \in Nat
      /\ steps \in Nat /\ MaxSteps \in Nat /\ ed.nextRun \in Nat /\ ed.nextAdvice \in Nat
  BY <1>2, EditorAssumption DEF EdOk, Talk, CountsOk
<1>4. q \in QuestionOk /\ q.kind = "preview" /\ q.id = ed.nextPrev /\ q.body = ed.text.body /\ q.resp = ed.resp
  <2>1. q = Edit1!Question("preview", ed.nextPrev)
    OBVIOUS
  <2> HIDE DEF q
  <2>. QED
    BY <1>2, <1>3, <2>1, QuestionIs
<1> HIDE DEF q
<1>5. ed' \in EdOk
  <2>1. Edit1!NoPreview \in [body : MaybeBody, resp : MaybeBody]
    BY DEF Edit1!NoPreview, MaybeBody
  <2>. QED
    BY <1>1, <1>2, <1>3, <2>1 DEF EdOk
<1>6. SameWork(ed', ed) /\ SameAuth(ed', ed)
  BY <1>1, <1>2 DEF EdOk, SameWork, SameAuth
<1>7. /\ ed'.prev = ed.nextPrev /\ ed'.nextPrev = ed.nextPrev + 1 /\ ed'.preview = Edit1!NoPreview
      /\ ed'.file = ed.file /\ ed'.text = ed.text /\ ed'.run = ed.run /\ ed'.nextRun = ed.nextRun
      /\ ed'.results = ed.results /\ ed'.resp = ed.resp /\ ed'.advice = ed.advice
      /\ ed'.nextAdvice = ed.nextAdvice /\ ed'.answer = ed.answer
  BY <1>1, <1>2 DEF EdOk
<1>8. AskedOk(ed', questions \cup {q})
  <2>1. \A x \in questions : x \in QuestionOk /\ x.id \in Nat
    BY <1>2 DEF Talk, AskedOk, QuestionOk
  <2>2. ASSUME NEW x \in questions, x.kind = "preview" PROVE x.id < ed'.nextPrev /\ x.id # ed'.prev
    BY <1>2, <1>3, <1>7, <2>1, <2>2 DEF Talk, AskedOk
  <2>3. q.id < ed'.nextPrev /\ q.body = ed'.text.body /\ q.resp = ed'.resp
    BY <1>3, <1>4, <1>7
  <2>. QED
    BY <1>2, <1>4, <1>7, <2>1, <2>2, <2>3 DEF Talk, AskedOk
<1>9. AnswersOk(ed')
  BY <1>2, <1>7 DEF Talk, AnswersOk
<1>10. CountsOk(ed', steps + 1)
  BY <1>1, <1>2, <1>3, <1>7 DEF Talk, CountsOk
<1>11. Talk(ed', questions', steps')
  BY <1>1, <1>8, <1>9, <1>10 DEF Talk
<1>. QED
  BY <1>1, <1>5, <1>6, <1>11, WorkGoes

(* Answers. *)
LEMMA TalkAnswered ==
  ASSUME NEW e, NEW qs, NEW n, Talk(e, qs, n), NEW q
  PROVE  Talk(e, qs \ {q}, n)
BY DEF Talk, AskedOk

LEMMA EditorHandleResult ==
  ASSUME EditorInv, NEW q \in questions, NEW ok \in BOOLEAN, Edit1!HandleResult(q, ok)
  PROVE  EditorInv'
<1> DEFINE e == [Edit1!ClearPreview(ed) EXCEPT !.run = 0]
<1>1. /\ steps' = steps /\ OnlyEd /\ questions' = questions \ {q} /\ setting' = setting /\ owed' = owed
      /\ ed' = (IF ed.run # q.id THEN ed
                ELSE IF ok THEN [e EXCEPT !.results = q.file, !.resp = q.body] ELSE e)
  BY DEF Edit1!HandleResult, Edit1!Answered, Edit1!history, OnlyEd
<1>2. ed \in EdOk /\ Talk(ed, questions, steps)
  BY DEF EditorInv, Core
<1>3. /\ q \in QuestionOk /\ q.file \in Requests \cup {None} /\ q.body \in MaybeBody /\ q.kind = "run"
      /\ (q.id = ed.run => q.file = ed.file)
  BY <1>2 DEF Edit1!HandleResult, Talk, AskedOk, QuestionOk
<1>4. Talk(ed, questions \ {q}, steps)
  BY <1>2, TalkAnswered
<1>5. CASE ed.run # q.id
  <2>1. ed' = ed
    BY <1>1, <1>5
  <2>. QED
    BY <1>1, <1>2, <1>4, <2>1, WorkGoes DEF SameWork, SameAuth
<1>6. CASE ed.run = q.id
  <2>1. Edit1!NoPreview \in [body : MaybeBody, resp : MaybeBody]
    BY DEF Edit1!NoPreview, MaybeBody
  <2>2. e = [ed EXCEPT !.prev = 0, !.preview = Edit1!NoPreview, !.run = 0]
    BY <1>2 DEF Edit1!ClearPreview, EdOk
  <2>3. ed' = (IF ok THEN [e EXCEPT !.results = q.file, !.resp = q.body] ELSE e)
    BY <1>1, <1>6
  <2> HIDE DEF e
  <2>4. e \in EdOk
    BY <1>2, <2>1, <2>2 DEF EdOk
  <2>5. SameWork(e, ed) /\ SameAuth(e, ed)
    BY <1>2, <2>2 DEF EdOk, SameWork, SameAuth
  <2>6. /\ e.run = 0 /\ e.prev = 0 /\ e.preview = Edit1!NoPreview /\ e.file = ed.file /\ e.nextRun = ed.nextRun
        /\ e.results = ed.results /\ e.nextPrev = ed.nextPrev /\ e.advice = ed.advice
        /\ e.nextAdvice = ed.nextAdvice /\ e.answer = ed.answer
    BY <1>2, <2>2 DEF EdOk
  <2>7. ed' \in EdOk
    <3>1. [e EXCEPT !.results = q.file, !.resp = q.body] \in EdOk
      BY <1>3, <2>4 DEF EdOk
    <3>. QED
      BY <2>3, <2>4, <3>1
  <2>8. SameWork(ed', e) /\ SameAuth(ed', e)
    BY <2>3, <2>4 DEF EdOk, SameWork, SameAuth
  <2>9. /\ ed'.run = 0 /\ ed'.prev = 0 /\ ed'.preview = Edit1!NoPreview /\ ed'.file = ed.file
        /\ ed'.nextRun = ed.nextRun /\ ed'.nextPrev = ed.nextPrev /\ ed'.advice = ed.advice
        /\ ed'.nextAdvice = ed.nextAdvice /\ ed'.answer = ed.answer /\ ed'.results \in {ed.results, q.file}
    BY <2>3, <2>4, <2>6 DEF EdOk
  <2>10. AskedOk(ed', questions \ {q})
    <3>1. \A x \in QuestionOk : x.id # 0
      BY DEF QuestionOk
    <3>. QED
      BY <1>4, <2>9, <3>1 DEF Talk, AskedOk
  <2>11. AnswersOk(ed')
    BY <1>2, <1>3, <1>6, <2>9 DEF Talk, AnswersOk
  <2>12. CountsOk(ed', steps)
    <3>1. ed.nextRun \in Nat /\ ed.nextPrev \in Nat /\ ed.run \in Nat /\ ed.prev \in Nat
      BY <1>2 DEF EdOk
    <3>. QED
      BY <1>2, <2>9, <3>1 DEF Talk, CountsOk
  <2>13. Talk(ed', questions', steps')
    BY <1>1, <2>10, <2>11, <2>12 DEF Talk
  <2>14. SameWork(ed', ed) /\ SameAuth(ed', ed)
    BY <2>5, <2>8 DEF SameWork, SameAuth
  <2>. QED
    BY <1>1, <2>7, <2>13, <2>14, WorkGoes
<1>. QED
  BY <1>5, <1>6

LEMMA EditorHandlePreview ==
  ASSUME EditorInv, NEW q \in questions, Edit1!HandlePreview(q)
  PROVE  EditorInv'
<1> DEFINE shown == [body |-> q.body, resp |-> q.resp]
<1>1. /\ steps' = steps /\ OnlyEd /\ questions' = questions \ {q} /\ setting' = setting /\ owed' = owed
      /\ ed' = (IF ed.prev # q.id THEN ed ELSE [ed EXCEPT !.prev = 0, !.preview = shown])
  BY DEF Edit1!HandlePreview, Edit1!Answered, Edit1!history, OnlyEd
<1>2. ed \in EdOk /\ Talk(ed, questions, steps)
  BY DEF EditorInv, Core
<1>3. /\ q \in QuestionOk /\ q.resp \in MaybeBody /\ q.body \in MaybeBody /\ q.kind = "preview"
      /\ (q.id = ed.prev => q.body = ed.text.body /\ (ed.run = 0 => q.resp = ed.resp))
  BY <1>2 DEF Edit1!HandlePreview, Talk, AskedOk, QuestionOk
<1>4. Talk(ed, questions \ {q}, steps)
  BY <1>2, TalkAnswered
<1>5. CASE ed.prev # q.id
  <2>1. ed' = ed
    BY <1>1, <1>5
  <2>. QED
    BY <1>1, <1>2, <1>4, <2>1, WorkGoes DEF SameWork, SameAuth
<1>6. CASE ed.prev = q.id
  <2>1. shown \in [body : MaybeBody, resp : MaybeBody]
    BY <1>3
  <2>2. ed' = [ed EXCEPT !.prev = 0, !.preview = shown]
    BY <1>1, <1>6
  <2>3. ed.prev = q.id => shown = [body |-> q.body, resp |-> q.resp]
    OBVIOUS
  <2> HIDE DEF shown
  <2>4. ed' \in EdOk
    BY <1>2, <2>1, <2>2 DEF EdOk
  <2>5. SameWork(ed', ed) /\ SameAuth(ed', ed)
    BY <1>2, <2>2 DEF EdOk, SameWork, SameAuth
  <2>6. /\ ed'.prev = 0 /\ ed'.preview = shown /\ ed'.file = ed.file /\ ed'.text = ed.text
        /\ ed'.run = ed.run /\ ed'.nextRun = ed.nextRun /\ ed'.resp = ed.resp
        /\ ed'.results = ed.results /\ ed'.nextPrev = ed.nextPrev /\ ed'.advice = ed.advice
        /\ ed'.nextAdvice = ed.nextAdvice /\ ed'.answer = ed.answer
    BY <1>2, <2>2 DEF EdOk
  <2>7. AskedOk(ed', questions \ {q})
    <3>1. \A x \in QuestionOk : x.id # 0
      BY DEF QuestionOk
    <3>. QED
      BY <1>4, <2>6, <3>1 DEF Talk, AskedOk
  <2>8. AnswersOk(ed')
    BY <1>2, <1>3, <1>6, <2>3, <2>6 DEF Talk, AnswersOk
  <2>9. CountsOk(ed', steps)
    <3>1. ed.nextPrev \in Nat /\ ed.prev \in Nat
      BY <1>2 DEF EdOk
    <3>. QED
      BY <1>2, <2>6, <3>1 DEF Talk, CountsOk
  <2>10. Talk(ed', questions', steps')
    BY <1>1, <2>7, <2>8, <2>9 DEF Talk
  <2>. QED
    BY <1>1, <2>4, <2>5, <2>10, WorkGoes
<1>. QED
  BY <1>5, <1>6

LEMMA EditorHandleAdvice ==
  ASSUME EditorInv, NEW q \in questions, Edit1!HandleAdvice(q)
  PROVE  EditorInv'
<1>1. /\ steps' = steps /\ OnlyEd /\ questions' = questions \ {q} /\ setting' = setting /\ owed' = owed
      /\ ed' = (IF ed.advice # q.id THEN ed ELSE [ed EXCEPT !.advice = 0, !.answer = q.file])
  BY DEF Edit1!HandleAdvice, Edit1!Answered, Edit1!history, OnlyEd
<1>2. ed \in EdOk /\ Talk(ed, questions, steps)
  BY DEF EditorInv, Core
<1>3. /\ q \in QuestionOk /\ q.file \in Requests \cup {None} /\ q.kind = "advice"
      /\ (q.id = ed.advice => q.file = ed.file)
  BY <1>2 DEF Edit1!HandleAdvice, Talk, AskedOk, QuestionOk
<1>4. Talk(ed, questions \ {q}, steps)
  BY <1>2, TalkAnswered
<1>5. CASE ed.advice # q.id
  <2>1. ed' = ed
    BY <1>1, <1>5
  <2>. QED
    BY <1>1, <1>2, <1>4, <2>1, WorkGoes DEF SameWork, SameAuth
<1>6. CASE ed.advice = q.id
  <2>1. ed' = [ed EXCEPT !.advice = 0, !.answer = q.file]
    BY <1>1, <1>6
  <2>2. ed' \in EdOk
    BY <1>2, <1>3, <2>1 DEF EdOk
  <2>3. SameWork(ed', ed) /\ SameAuth(ed', ed)
    BY <1>2, <2>1 DEF EdOk, SameWork, SameAuth
  <2>4. /\ ed'.advice = 0 /\ ed'.answer = q.file /\ ed'.file = ed.file /\ ed'.text = ed.text
        /\ ed'.run = ed.run /\ ed'.nextRun = ed.nextRun /\ ed'.resp = ed.resp
        /\ ed'.results = ed.results /\ ed'.nextPrev = ed.nextPrev /\ ed'.prev = ed.prev
        /\ ed'.nextAdvice = ed.nextAdvice /\ ed'.preview = ed.preview
    BY <1>2, <2>1 DEF EdOk
  <2>5. AskedOk(ed', questions \ {q})
    <3>1. \A x \in QuestionOk : x.id # 0
      BY DEF QuestionOk
    <3>. QED
      BY <1>4, <2>4, <3>1 DEF Talk, AskedOk
  <2>6. AnswersOk(ed')
    BY <1>2, <1>3, <1>6, <2>4 DEF Talk, AnswersOk
  <2>7. CountsOk(ed', steps)
    <3>1. ed.nextAdvice \in Nat /\ ed.advice \in Nat
      BY <1>2 DEF EdOk
    <3>. QED
      BY <1>2, <2>4, <3>1 DEF Talk, CountsOk
  <2>8. Talk(ed', questions', steps')
    BY <1>1, <2>5, <2>6, <2>7 DEF Talk
  <2>. QED
    BY <1>1, <2>2, <2>3, <2>8, WorkGoes
<1>. QED
  BY <1>5, <1>6

LEMMA EditorExternal ==
  ASSUME EditorInv, NEW doc \in TypedDocs, Edit1!External(doc)
  PROVE  EditorInv'
<1> DEFINE file == [disk[ed.file] EXCEPT !.doc = doc]
           now == [disk EXCEPT ![ed.file] = file]
<1>1. /\ ed.file # None /\ disk' = [disk EXCEPT ![ed.file].doc = doc] /\ touched' = touched \cup {ed.file}
      /\ authOn' = authOn /\ ed' = ed /\ questions' = questions /\ setting' = setting /\ owed' = owed
      /\ lost' = lost /\ steps' = steps
  BY DEF Edit1!External
<1>2. /\ DocsOk(disk) /\ Core(ed, disk, authOn) /\ SavedOk(ed, disk, touched) /\ Talk(ed, questions, steps)
      /\ Edit1!AllChecks(ed.text, ed.lists) = owed /\ lost \subseteq {"reload"} /\ setting \in BOOLEAN
  BY DEF EditorInv
<1>3. ed.file \in Requests
  BY <1>1, <1>2 DEF Core, EdOk
<1>4. disk' = now
  BY <1>1
<1>5. file \in [doc : Edit1!Doc, lists : Edit1!Lists] /\ file.doc = doc /\ file.doc.body # None
  <2>1. disk[ed.file] \in [doc : Edit1!Doc, lists : Edit1!Lists]
    BY <1>2, <1>3 DEF DocsOk
  <2>2. doc \in Edit1!Doc /\ doc.body # None
    BY EditorAssumption
  <2>. QED
    BY <2>1, <2>2
<1> HIDE DEF file
<1>6. Writes(now, disk, ed.file, file)
  BY DEF Writes
<1> HIDE DEF now
<1>7. /\ DocsOk(now)
      /\ \A g \in Requests : disk[g].doc # Edit1!Absent => now[g].doc # Edit1!Absent
  BY <1>2, <1>3, <1>5, <1>6, WrittenDocs
<1>8. Core(ed, now, authOn)
  BY <1>2, <1>7, CoreKept
<1>9. SavedOk(ed, now, touched')
  BY <1>1 DEF SavedOk
<1>. QED
  BY <1>1, <1>2, <1>4, <1>7, <1>8, <1>9, EditorGoes

-----------------------------------------------------------------------------
(* The panes of checks and hooks. *)
SameFiles(v, e) ==
  v.open = e.open /\ v.file = e.file /\ v.root = e.root /\ v.isNew = e.isNew /\ v.text = e.text

LEMMA SelectIs ==
  ASSUME NEW e \in EdOk, NEW v, v = Edit1!Select(e)
  PROVE  /\ v \in EdOk /\ v.editing = NoEdit /\ v.form = e.form /\ v.lists = e.lists /\ v.dirty = e.dirty
         /\ SameFiles(v, e) /\ SameAuth(v, e) /\ Cleared(v, e)
<1>1. v = [e EXCEPT !.prev = 0, !.preview = Edit1!NoPreview, !.editing = NoEdit]
  BY DEF Edit1!Select, Edit1!ClearPreview, NoEdit, EdOk
<1>2. Edit1!NoPreview \in [body : MaybeBody, resp : MaybeBody] /\ NoEdit \in [Edit1!Kinds -> Nat]
  BY DEF Edit1!NoPreview, MaybeBody, NoEdit
<1>3. v \in EdOk
  <2> DEFINE p == [e EXCEPT !.prev = 0, !.preview = Edit1!NoPreview]
  <2>1. p \in EdOk
    BY <1>2 DEF EdOk
  <2>2. v = [p EXCEPT !.editing = NoEdit]
    BY <1>1
  <2> HIDE DEF p
  <2>. QED
    BY <1>2, <2>1, <2>2 DEF EdOk
<1>. QED
  BY <1>1, <1>3 DEF EdOk, SameFiles, SameAuth, Cleared

LEMMA EditorSelectAsset ==
  ASSUME EditorInv, Edit1!SelectAsset
  PROVE  EditorInv'
<1>1. /\ steps < MaxSteps /\ steps' = steps + 1 /\ OnlyEd /\ ed' = Edit1!Select(ed)
      /\ questions' = questions /\ setting' = setting /\ owed' = owed
  BY DEF Edit1!SelectAsset, Edit1!User, Edit1!history, OnlyEd
<1>2. /\ SavedOk(ed, disk, touched) /\ Talk(ed, questions, steps) /\ ed \in EdOk /\ setting \in BOOLEAN
      /\ Held(ed, disk) /\ Edit1!AllChecks(ed.text, ed.lists) = owed
  BY DEF EditorInv, Core
<1>3. /\ ed' \in EdOk /\ ed'.editing = NoEdit /\ ed'.lists = ed.lists /\ ed'.dirty = ed.dirty
      /\ SameFiles(ed', ed) /\ SameAuth(ed', ed) /\ Cleared(ed', ed)
  BY <1>1, <1>2, SelectIs
<1>4. Held(ed', disk) /\ SavedOk(ed', disk, touched)
  BY <1>2, <1>3 DEF SameFiles, Held, SavedOk
<1>5. FormOk(ed')
  BY <1>3 DEF FormOk, NoEdit
<1>6. Talk(ed', questions, steps + 1)
  <2>1. Talk(ed, questions, steps + 1)
    BY <1>1, <1>2, TalkLater
  <2>. QED
    BY <1>2, <1>3, <2>1, ClearedTalk
<1>7. Edit1!AllChecks(ed'.text, ed'.lists) = owed
  BY <1>2, <1>3 DEF SameFiles
<1>. QED
  BY <1>1, <1>2, <1>3, <1>4, <1>5, <1>6, <1>7, EdGoes

(* begin_assertion_edit, begin_hook_edit. *)
LEMMA BeginIs ==
  ASSUME NEW e \in EdOk, NEW k \in Edit1!Kinds, NEW i \in DOMAIN e.lists[k], NEW v, v = Edit1!Begin(e, k, i)
  PROVE  /\ v \in EdOk /\ FormOk(v) /\ v.lists = e.lists /\ v.dirty = e.dirty
         /\ SameFiles(v, e) /\ SameAuth(v, e) /\ Cleared(v, e)
<1> DEFINE s == Edit1!Select(e)
           at == [NoEdit EXCEPT ![k] = i]
           form == e.lists[k][i]
<1>1. v = [s EXCEPT !.editing[k] = i, !.form = form]
  BY DEF Edit1!Begin
<1>2. s = Edit1!Select(e)
  OBVIOUS
<1> HIDE DEF s
<1>3. /\ s \in EdOk /\ s.editing = NoEdit /\ s.form = e.form /\ s.lists = e.lists /\ s.dirty = e.dirty
      /\ SameFiles(s, e) /\ SameAuth(s, e) /\ Cleared(s, e)
  BY <1>2, SelectIs
<1>4. e.lists[k] \in Seq(Checks)
  BY DEF EdOk, Edit1!Lists
<1>5. form \in Checks /\ i \in Nat
  BY <1>4
<1>6. at \in [Edit1!Kinds -> Nat] /\ at[k] = i /\ \A j \in Edit1!Kinds : j # k => at[j] = 0
  BY <1>5 DEF NoEdit
<1>7. form = e.lists[k][i]
  OBVIOUS
<1>8. v = [s EXCEPT !.editing = at, !.form = form]
  <2> HIDE DEF form
  <2>. QED
    BY <1>1, <1>3 DEF EdOk
<1> HIDE DEF at, form
<1>9. v \in EdOk
  <2>1. [s EXCEPT !.editing = at, !.form = form] \in EdOk
    BY <1>3, <1>5, <1>6, EntrySet, FormSet
  <2>. QED
    BY <1>8, <2>1
<1>10. SameFiles(v, s) /\ SameAuth(v, s) /\ Cleared(v, s)
  <2>1. Cleared(s, e)
    BY <1>3
  <2>2. s.prev = 0 /\ s.preview = Edit1!NoPreview
    BY <2>1 DEF Cleared
  <2>. QED
    BY <1>3, <1>8, <2>2 DEF EdOk, SameFiles, SameAuth, Cleared
<1>11. v.lists = e.lists /\ v.dirty = e.dirty /\ v.editing = at /\ v.form = form
  BY <1>3, <1>8 DEF EdOk
<1>12. FormOk(v)
  BY <1>6, <1>7, <1>11 DEF FormOk
<1>13. SameFiles(v, e) /\ SameAuth(v, e) /\ Cleared(v, e)
  BY <1>3, <1>10 DEF SameFiles, SameAuth, Cleared
<1>. QED
  BY <1>9, <1>11, <1>12, <1>13

LEMMA EditorBeginEdit ==
  ASSUME EditorInv, NEW k \in Edit1!Kinds, NEW i \in 1 .. MaxList, Edit1!BeginEdit(k, i)
  PROVE  EditorInv'
<1>1. /\ steps < MaxSteps /\ steps' = steps + 1 /\ OnlyEd /\ ed' = Edit1!Begin(ed, k, i)
      /\ i \in DOMAIN ed.lists[k] /\ questions' = questions /\ setting' = setting /\ owed' = owed
  BY DEF Edit1!BeginEdit, Edit1!User, Edit1!history, OnlyEd
<1>2. /\ SavedOk(ed, disk, touched) /\ Talk(ed, questions, steps) /\ ed \in EdOk /\ setting \in BOOLEAN
      /\ Held(ed, disk) /\ Edit1!AllChecks(ed.text, ed.lists) = owed
  BY DEF EditorInv, Core
<1>3. /\ ed' \in EdOk /\ FormOk(ed') /\ ed'.lists = ed.lists /\ ed'.dirty = ed.dirty
      /\ SameFiles(ed', ed) /\ SameAuth(ed', ed) /\ Cleared(ed', ed)
  BY <1>1, <1>2, BeginIs
<1>4. Held(ed', disk) /\ SavedOk(ed', disk, touched)
  BY <1>2, <1>3 DEF SameFiles, Held, SavedOk
<1>5. Talk(ed', questions, steps + 1)
  <2>1. Talk(ed, questions, steps + 1)
    BY <1>1, <1>2, TalkLater
  <2>. QED
    BY <1>2, <1>3, <2>1, ClearedTalk
<1>6. Edit1!AllChecks(ed'.text, ed'.lists) = owed
  BY <1>2, <1>3 DEF SameFiles
<1>. QED
  BY <1>1, <1>2, <1>3, <1>4, <1>5, <1>6, EdGoes

(* The first of the entries that are equal. *)
LEMMA FirstEqual ==
  ASSUME NEW list \in Seq(Checks), NEW c \in Checks, NEW longer, longer = Edit1!Pushed(list, c)
  PROVE  \E i \in DOMAIN longer : longer[i] = c /\ \A j \in 1 .. (i - 1) : longer[j] # c
<1>1. longer \in Seq(Checks)
  BY PushedIs
<1>2. \E i \in DOMAIN longer : longer[i] = c
  BY DEF Edit1!Pushed, Edit1!ToSet
<1> DEFINE T == {i \in DOMAIN longer : longer[i] = c}
<1>3. T \in SUBSET Nat /\ T # {}
  BY <1>1, <1>2
<1>4. PICK i \in T : \A j \in T : i <= j
  BY <1>3, Least
<1>5. ASSUME NEW j \in 1 .. (i - 1) PROVE longer[j] # c
  <2>1. j \in DOMAIN longer /\ ~(i <= j)
    BY <1>1, <1>4
  <2>. QED
    BY <1>4, <2>1
<1>. QED
  BY <1>4, <1>5

LEMMA EditorAddEntry ==
  ASSUME EditorInv, NEW k \in Edit1!Kinds, NEW c \in Checks, Edit1!AddEntry(k, c)
  PROVE  EditorInv'
<1> DEFINE longer == Edit1!Pushed(ed.lists[k], c)
           first == CHOOSE i \in DOMAIN longer : longer[i] = c /\ \A j \in 1 .. (i - 1) : longer[j] # c
           lists == [ed.lists EXCEPT ![k] = longer]
           e == [ed EXCEPT !.lists = lists, !.dirty = TRUE]
<1>1. /\ steps < MaxSteps /\ steps' = steps + 1 /\ OnlyEd /\ ed.open /\ questions' = questions /\ setting' = setting
  BY DEF Edit1!AddEntry, Edit1!User, OnlyEd
<1>2. /\ Talk(ed, questions, steps) /\ ed \in EdOk /\ setting \in BOOLEAN /\ Held(ed, disk)
  BY DEF EditorInv, Core
<1>3. ed' = Edit1!Begin(e, k, first) /\ owed' = Edit1!AllChecks(e.text, e.lists)
  <2>1. [ed EXCEPT !.lists[k] = longer, !.dirty = TRUE] = e
    BY <1>2 DEF EdOk
  <2>. QED
    BY <2>1 DEF Edit1!AddEntry, Edit1!Owing
<1>4. ed.lists[k] \in Seq(Checks) /\ ed.lists \in Edit1!Lists
  BY <1>2 DEF EdOk, Edit1!Lists
<1>5. longer = Edit1!Pushed(ed.lists[k], c)
  OBVIOUS
<1>6. longer \in Seq(Checks)
  BY <1>4, PushedIs
<1>7. first \in DOMAIN longer
  <2> HIDE DEF longer
  <2>1. \E i \in DOMAIN longer : longer[i] = c /\ \A j \in 1 .. (i - 1) : longer[j] # c
    BY <1>4, <1>5, FirstEqual
  <2>. QED
    BY <2>1
<1> HIDE DEF longer, first
<1>8. lists \in Edit1!Lists /\ lists[k] = longer
  BY <1>4, <1>6 DEF Edit1!Lists
<1> HIDE DEF lists
<1>9. e \in EdOk
  BY <1>2, <1>8 DEF EdOk
<1>10. e.lists = lists /\ e.dirty = TRUE /\ SameFiles(e, ed) /\ SameAuth(e, ed) /\ SameTalk(e, ed)
  BY <1>2 DEF EdOk, SameFiles, SameAuth, SameTalk
<1> HIDE DEF e
<1>11. first \in DOMAIN e.lists[k]
  BY <1>7, <1>8, <1>10
<1>12. /\ ed' \in EdOk /\ FormOk(ed') /\ ed'.lists = e.lists /\ ed'.dirty = e.dirty
       /\ SameFiles(ed', e) /\ SameAuth(ed', e) /\ Cleared(ed', e)
  BY <1>3, <1>9, <1>11, BeginIs
<1>13. Held(ed', disk) /\ SavedOk(ed', disk, touched) /\ SameAuth(ed', ed)
  <2>1. ed.file # None
    BY <1>1, <1>2 DEF Held
  <2>. QED
    BY <1>2, <1>10, <1>12, <2>1 DEF SameFiles, Held, SavedOk, SameAuth
<1>14. Talk(ed', questions, steps + 1)
  <2>1. Talk(ed, questions, steps + 1)
    BY <1>1, <1>2, TalkLater
  <2>2. Talk(e, questions, steps + 1)
    BY <1>10, <2>1, TalkStays
  <2>. QED
    BY <1>9, <1>12, <2>2, ClearedTalk
<1>15. Edit1!AllChecks(ed'.text, ed'.lists) = owed'
  BY <1>3, <1>12 DEF SameFiles
<1>. QED
  BY <1>1, <1>2, <1>12, <1>13, <1>14, <1>15, EdGoes

JoinOf(ab, a, b) ==
  /\ ab \in Seq(Checks) /\ Len(ab) = Len(a) + Len(b) /\ DOMAIN ab = 1 .. (Len(a) + Len(b))
  /\ \A j \in 1 .. Len(a) : ab[j] = a[j]
  /\ \A j \in 1 .. Len(b) : ab[Len(a) + j] = b[j]

LEMMA Joined ==
  ASSUME NEW a \in Seq(Checks), NEW b \in Seq(Checks)
  PROVE  JoinOf(a \o b, a, b)
<1>1. a \o b \in Seq(Checks) /\ Len(a \o b) = Len(a) + Len(b) /\ DOMAIN (a \o b) = 1 .. (Len(a) + Len(b))
  OBVIOUS
<1>2. ASSUME NEW j \in 1 .. Len(a) PROVE (a \o b)[j] = a[j]
  OBVIOUS
<1>3. ASSUME NEW j \in 1 .. Len(b) PROVE (a \o b)[Len(a) + j] = b[j]
  OBVIOUS
<1>. QED
  BY <1>1, <1>2, <1>3 DEF JoinOf

(* An entry is removed: those behind it move up. *)
LEMMA RemovedIs ==
  ASSUME NEW list \in Seq(Checks), NEW i \in DOMAIN list, NEW rest, rest = Edit1!RemoveAt(list, i)
  PROVE  /\ rest \in Seq(Checks)
         /\ \A at \in DOMAIN list : at # i =>
              Edit1!Shift(at, i) \in DOMAIN rest /\ rest[Edit1!Shift(at, i)] = list[at]
<1>1. Len(list) \in Nat /\ i \in 1 .. Len(list) /\ DOMAIN list = 1 .. Len(list)
  OBVIOUS
<1> DEFINE a == SubSeq(list, 1, i - 1)
           b == SubSeq(list, i + 1, Len(list))
<1>2. a \in Seq(Checks) /\ Len(a) = i - 1 /\ \A j \in 1 .. (i - 1) : a[j] = list[j]
  BY <1>1
<1>3. b \in Seq(Checks) /\ Len(b) = Len(list) - i /\ \A j \in 1 .. (Len(list) - i) : b[j] = list[i + j]
  BY <1>1
<1>4. rest = a \o b
  BY DEF Edit1!RemoveAt
<1> HIDE DEF a, b
<1>5. rest \in Seq(Checks) /\ Len(rest) = Len(a) + Len(b) /\ DOMAIN rest = 1 .. (Len(a) + Len(b))
      /\ (\A j \in 1 .. Len(a) : rest[j] = a[j])
      /\ \A j \in 1 .. Len(b) : rest[Len(a) + j] = b[j]
  <2>1. a \in Seq(Checks) /\ b \in Seq(Checks)
    BY <1>2, <1>3
  <2>2. JoinOf(rest, a, b)
    BY <1>4, <2>1, Joined
  <2>. QED
    BY <2>2 DEF JoinOf
<1>6. ASSUME NEW at \in DOMAIN list, at # i
      PROVE  Edit1!Shift(at, i) \in DOMAIN rest /\ rest[Edit1!Shift(at, i)] = list[at]
  <2>1. at \in 1 .. Len(list)
    BY <1>1
  <2>2. CASE at < i
    <3>1. Edit1!Shift(at, i) = at
      BY <1>1, <2>1, <2>2 DEF Edit1!Shift
    <3>2. at \in 1 .. Len(a) /\ at \in 1 .. (Len(a) + Len(b))
      BY <1>1, <1>2, <1>3, <2>1, <2>2
    <3>3. rest[at] = a[at] /\ a[at] = list[at]
      BY <1>2, <1>5, <3>2
    <3>. QED
      BY <1>5, <3>1, <3>2, <3>3
  <2>3. CASE at > i
    <3>1. Edit1!Shift(at, i) = at - 1
      BY <1>1, <1>6, <2>1, <2>3 DEF Edit1!Shift
    <3>2. at - i \in 1 .. Len(b) /\ Len(a) + (at - i) = at - 1 /\ i + (at - i) = at
      BY <1>1, <1>2, <1>3, <2>1, <2>3
    <3>3. rest[at - 1] = b[at - i] /\ b[at - i] = list[at]
      BY <1>3, <1>5, <3>2
    <3>4. at - 1 \in 1 .. (Len(a) + Len(b))
      BY <1>1, <1>2, <1>3, <2>1, <2>3
    <3>. QED
      BY <1>5, <3>1, <3>3, <3>4
  <2>. QED
    BY <1>1, <1>6, <2>1, <2>2, <2>3
<1>. QED
  BY <1>5, <1>6

LEMMA EditorRemoveEntry ==
  ASSUME EditorInv, NEW k \in Edit1!Kinds, NEW i \in 1 .. MaxList, Edit1!RemoveEntry(k, i)
  PROVE  EditorInv'
<1> DEFINE rest == Edit1!RemoveAt(ed.lists[k], i)
           lists == [ed.lists EXCEPT ![k] = rest]
           at == Edit1!Shift(ed.editing[k], i)
           now == [ed.editing EXCEPT ![k] = at]
<1>1. /\ steps < MaxSteps /\ steps' = steps + 1 /\ OnlyEd /\ questions' = questions /\ setting' = setting
      /\ i \in DOMAIN ed.lists[k] /\ ed.open
  BY DEF Edit1!RemoveEntry, Edit1!User, OnlyEd
<1>2. /\ Talk(ed, questions, steps) /\ ed \in EdOk /\ setting \in BOOLEAN /\ Held(ed, disk) /\ FormOk(ed)
  BY DEF EditorInv, Core
<1>3. /\ ed' = [ed EXCEPT !.lists = lists, !.dirty = TRUE, !.editing = now]
      /\ owed' = Edit1!AllChecks(ed'.text, ed'.lists)
  <2>1. /\ ed' = [ed EXCEPT !.lists[k] = rest, !.dirty = TRUE, !.editing[k] = at]
        /\ owed' = Edit1!AllChecks(ed'.text, ed'.lists)
    BY DEF Edit1!RemoveEntry, Edit1!Owing
  <2> HIDE DEF rest, at
  <2>2. [ed EXCEPT !.lists[k] = rest, !.dirty = TRUE, !.editing[k] = at]
          = [ed EXCEPT !.lists = lists, !.dirty = TRUE, !.editing = now]
    BY <1>2 DEF EdOk
  <2>. QED
    BY <2>1, <2>2
<1>4. ed.lists[k] \in Seq(Checks) /\ ed.lists \in Edit1!Lists /\ ed.editing \in [Edit1!Kinds -> Nat]
  BY <1>2 DEF EdOk, Edit1!Lists
<1>5. /\ rest \in Seq(Checks)
      /\ \A j \in DOMAIN ed.lists[k] : j # i =>
           Edit1!Shift(j, i) \in DOMAIN rest /\ rest[Edit1!Shift(j, i)] = ed.lists[k][j]
  BY <1>1, <1>4, RemovedIs
<1>6. at \in Nat /\ (at # 0 => ed.editing[k] # 0 /\ ed.editing[k] # i)
  <2>1. ed.editing[k] \in Nat /\ i \in Nat /\ i > 0
    BY <1>1, <1>4
  <2>. QED
    BY <2>1 DEF Edit1!Shift
<1>7. at # 0 => at \in DOMAIN rest /\ rest[at] = ed.form
  <2>1. SUFFICES ASSUME at # 0 PROVE at \in DOMAIN rest /\ rest[at] = ed.form
    OBVIOUS
  <2>2. ed.editing[k] \in DOMAIN ed.lists[k] /\ ed.lists[k][ed.editing[k]] = ed.form /\ ed.editing[k] # i
    BY <1>2, <1>6, <2>1 DEF FormOk
  <2> HIDE DEF rest
  <2>. QED
    BY <1>5, <2>2
<1> HIDE DEF rest, at
<1>8. lists \in Edit1!Lists /\ lists[k] = rest /\ \A j \in Edit1!Kinds : j # k => lists[j] = ed.lists[j]
  BY <1>4, <1>5 DEF Edit1!Lists
<1>9. now \in [Edit1!Kinds -> Nat] /\ now[k] = at /\ \A j \in Edit1!Kinds : j # k => now[j] = ed.editing[j]
  BY <1>4, <1>6
<1> HIDE DEF lists, now
<1>10. ed' \in EdOk
  BY <1>2, <1>3, <1>8, <1>9 DEF EdOk
<1>11. /\ ed'.lists = lists /\ ed'.dirty = TRUE /\ ed'.editing = now /\ ed'.form = ed.form
  BY <1>2, <1>3 DEF EdOk
<1>12. SameFiles(ed', ed) /\ SameAuth(ed', ed) /\ SameTalk(ed', ed)
  BY <1>2, <1>3 DEF EdOk, SameFiles, SameAuth, SameTalk
<1>13. FormOk(ed')
  <2>1. \A j \in Edit1!Kinds : now[j] # 0 => ed.editing[j] # 0
    BY <1>6, <1>9
  <2>2. ASSUME NEW j \in Edit1!Kinds, now[j] # 0
        PROVE  now[j] \in DOMAIN lists[j] /\ lists[j][now[j]] = ed.form
    <3>1. CASE j = k
      BY <1>7, <1>8, <1>9, <2>2, <3>1
    <3>2. CASE j # k
      BY <1>2, <1>8, <1>9, <2>2, <3>2 DEF FormOk
    <3>. QED
      BY <3>1, <3>2
  <2>3. \A j, l \in Edit1!Kinds : now[j] # 0 /\ now[l] # 0 => j = l
    BY <1>2, <2>1 DEF FormOk
  <2>. QED
    BY <1>11, <2>2, <2>3 DEF FormOk
<1>14. Held(ed', disk) /\ SavedOk(ed', disk, touched)
  <2>1. ed.file # None
    BY <1>1, <1>2 DEF Held
  <2>. QED
    BY <1>2, <1>11, <1>12, <2>1 DEF SameFiles, Held, SavedOk
<1>15. Talk(ed', questions, steps + 1)
  <2>1. Talk(ed, questions, steps + 1)
    BY <1>1, <1>2, TalkLater
  <2>. QED
    BY <1>12, <2>1, TalkStays
<1>. QED
  BY <1>1, <1>2, <1>3, <1>10, <1>12, <1>13, <1>14, <1>15, EdGoes

LEMMA EditorInsert ==
  ASSUME EditorInv, NEW k \in Edit1!Kinds, NEW c \in Checks, Edit1!Insert(k, c)
  PROVE  EditorInv'
<1> DEFINE i == ed.editing[k]
           longer == IF i = 0 THEN Edit1!Pushed(ed.lists[k], c) ELSE Edit1!ReplaceAt(ed.lists[k], i, c)
           lists == [ed.lists EXCEPT ![k] = longer]
           now == [ed.editing EXCEPT ![k] = 0]
<1>1. /\ steps < MaxSteps /\ steps' = steps + 1 /\ OnlyEd /\ questions' = questions /\ setting' = setting
      /\ ed.open /\ ed' = Edit1!ApplyInsert(ed, k, c) /\ owed' = Edit1!AllChecks(ed'.text, ed'.lists)
  BY DEF Edit1!Insert, Edit1!User, Edit1!Owing, OnlyEd
<1>2. /\ Talk(ed, questions, steps) /\ ed \in EdOk /\ setting \in BOOLEAN /\ Held(ed, disk) /\ FormOk(ed)
  BY DEF EditorInv, Core
<1>3. ed.lists[k] \in Seq(Checks) /\ ed.lists \in Edit1!Lists /\ ed.editing \in [Edit1!Kinds -> Nat]
  BY <1>2 DEF EdOk, Edit1!Lists
<1>4. longer \in Seq(Checks)
  <2>1. CASE i = 0
    BY <1>3, <2>1, PushedIs
  <2>2. CASE i # 0
    <3>1. longer = [ed.lists[k] EXCEPT ![i] = c]
      BY <2>2 DEF Edit1!ReplaceAt
    <3>. QED
      BY <1>3, <3>1
  <2>. QED
    BY <2>1, <2>2
<1>5. ed' = [ed EXCEPT !.lists = lists, !.editing = now, !.dirty = TRUE, !.prev = 0, !.preview = Edit1!NoPreview]
  <2>1. ed' = Edit1!ClearPreview([ed EXCEPT !.lists = lists, !.editing[k] = 0, !.dirty = TRUE])
    BY <1>1 DEF Edit1!ApplyInsert
  <2> HIDE DEF lists
  <2>. QED
    BY <1>2, <2>1 DEF Edit1!ClearPreview, EdOk
<1> HIDE DEF longer
<1>6. lists \in Edit1!Lists /\ \A j \in Edit1!Kinds : j # k => lists[j] = ed.lists[j]
  BY <1>3, <1>4 DEF Edit1!Lists
<1>7. now \in [Edit1!Kinds -> Nat] /\ now[k] = 0 /\ \A j \in Edit1!Kinds : j # k => now[j] = ed.editing[j]
  BY <1>3
<1> HIDE DEF lists, now
<1>8. ed' \in EdOk
  <2> DEFINE p == [ed EXCEPT !.lists = lists, !.editing = now, !.dirty = TRUE]
  <2>1. Edit1!NoPreview \in [body : MaybeBody, resp : MaybeBody]
    BY DEF Edit1!NoPreview, MaybeBody
  <2>2. p \in EdOk
    BY <1>2, <1>6, <1>7 DEF EdOk
  <2>3. ed' = [p EXCEPT !.prev = 0, !.preview = Edit1!NoPreview]
    BY <1>5
  <2> HIDE DEF p
  <2>. QED
    BY <2>1, <2>2, <2>3 DEF EdOk
<1>9. ed'.lists = lists /\ ed'.dirty = TRUE /\ ed'.editing = now /\ ed'.form = ed.form
  BY <1>2, <1>5 DEF EdOk
<1>10. SameFiles(ed', ed) /\ SameAuth(ed', ed) /\ Cleared(ed', ed)
  BY <1>2, <1>5 DEF EdOk, SameFiles, SameAuth, Cleared
<1>11. FormOk(ed')
  BY <1>2, <1>6, <1>7, <1>9 DEF FormOk
<1>12. Held(ed', disk) /\ SavedOk(ed', disk, touched)
  <2>1. ed.file # None
    BY <1>1, <1>2 DEF Held
  <2>. QED
    BY <1>2, <1>9, <1>10, <2>1 DEF SameFiles, Held, SavedOk
<1>13. Talk(ed', questions, steps + 1)
  <2>1. Talk(ed, questions, steps + 1)
    BY <1>1, <1>2, TalkLater
  <2>. QED
    BY <1>2, <1>10, <2>1, ClearedTalk
<1>. QED
  BY <1>1, <1>2, <1>8, <1>10, <1>11, <1>12, <1>13, EdGoes

-----------------------------------------------------------------------------
(* Every step of the editor keeps the invariant, and what it promises. *)
LEMMA EditorStep ==
  ASSUME EditorInv, Edit1!Next
  PROVE  EditorInv'
<1>1. CASE Edit1!UserNext
  <2>1. ASSUME NEW f \in Requests, NEW w \in Edit1!Failure,
               Edit1!OpenFile(f, w) \/ Edit1!CreateAuth(f, w) \/ Edit1!SetRegression(f, w)
        PROVE  EditorInv'
    BY <2>1, EditorOpenFile, EditorCreateAuth, EditorSetRegression
  <2>2. ASSUME NEW p \in Projects, NEW w \in Edit1!Failure, Edit1!OpenNew(p, w) \/ Edit1!RunBatch(p, w)
        PROVE  EditorInv'
    BY <2>2, EditorOpenNew, EditorRunBatch
  <2>3. ASSUME NEW w \in Edit1!Failure, Edit1!Close(w) \/ Edit1!Save(w) \/ Edit1!ActivateAuth(w)
        PROVE  EditorInv'
    BY <2>3, EditorClose, EditorSave, EditorActivateAuth
  <2>4. ASSUME NEW doc \in TypedDocs, Edit1!Edit(doc) PROVE EditorInv'
    BY <2>4, EditorEdit
  <2>5. ASSUME NEW b \in Edit1!Bodies, Edit1!SelectResult(b) PROVE EditorInv'
    BY <2>5, EditorSelectResult
  <2>6. CASE Edit1!ToggleAutoSave \/ Edit1!SelectAsset \/ Edit1!Run \/ Edit1!Advise
    BY <2>6, EditorToggleAutoSave, EditorSelectAsset, EditorRun, EditorAdvise
  <2>7. ASSUME NEW after \in BOOLEAN, Edit1!Preview(after) PROVE EditorInv'
    BY <2>7, EditorPreview
  <2>8. ASSUME NEW k \in Edit1!Kinds, NEW i \in 1 .. MaxList, Edit1!BeginEdit(k, i) \/ Edit1!RemoveEntry(k, i)
        PROVE  EditorInv'
    BY <2>8, EditorBeginEdit, EditorRemoveEntry
  <2>9. ASSUME NEW k \in Edit1!Kinds, NEW c \in Checks, Edit1!AddEntry(k, c) \/ Edit1!Insert(k, c)
        PROVE  EditorInv'
    BY <2>9, EditorAddEntry, EditorInsert
  <2>. QED
    BY <1>1, <2>1, <2>2, <2>3, <2>4, <2>5, <2>6, <2>7, <2>8, <2>9 DEF Edit1!UserNext
<1>2. CASE Edit1!Handle
  <2>1. ASSUME NEW q \in questions, NEW ok \in BOOLEAN, Edit1!HandleResult(q, ok) PROVE EditorInv'
    BY <2>1, EditorHandleResult
  <2>2. ASSUME NEW q \in questions, Edit1!HandlePreview(q) \/ Edit1!HandleAdvice(q) PROVE EditorInv'
    BY <2>2, EditorHandlePreview, EditorHandleAdvice
  <2>. QED
    BY <1>2, <2>1, <2>2, EditorRevalidate DEF Edit1!Handle
<1>3. ASSUME NEW doc \in TypedDocs, Edit1!External(doc) PROVE EditorInv'
  BY <1>3, EditorExternal
<1>. QED
  BY <1>1, <1>2, <1>3 DEF Edit1!Next

LEMMA EditorPromises ==
  ASSUME EditorInv
  PROVE  /\ Edit1!TypeOK /\ Edit1!CleanMeansSaved /\ Edit1!ChecksConserved /\ Edit1!AutoSaveKeepsWork
         /\ Edit1!AnswersBelong /\ Edit1!FormEditsItsEntry /\ Edit1!AuthBacked
<1>1. /\ DocsOk(disk) /\ SavedOk(ed, disk, touched) /\ Talk(ed, questions, steps)
      /\ Edit1!AllChecks(ed.text, ed.lists) = owed /\ lost \subseteq {"reload"}
      /\ ed \in EdOk /\ FormOk(ed) /\ AuthHeld(ed, authOn, disk) /\ AuthShown(ed, authOn)
  BY DEF EditorInv, Core
<1>2. Edit1!TypeOK
  <2>1. {ed.run, ed.prev, ed.advice} \subseteq 0 .. MaxSteps
    <3>1. /\ ed.run \in Nat /\ ed.prev \in Nat /\ ed.advice \in Nat /\ ed.nextRun \in Nat /\ ed.nextPrev \in Nat
          /\ ed.nextAdvice \in Nat /\ MaxSteps \in Nat /\ steps \in Nat
      BY <1>1, EditorAssumption DEF EdOk, Talk, CountsOk
    <3>2. ed.run <= MaxSteps /\ ed.prev <= MaxSteps /\ ed.advice <= MaxSteps
      BY <1>1, <3>1 DEF Talk, CountsOk
    <3>. QED
      BY <3>1, <3>2
  <2>2. \A q \in questions : q.kind \in {"run", "preview", "advice"}
    BY <1>1 DEF Talk, AskedOk, QuestionOk
  <2>3. /\ ed.file \in Requests \cup {None} /\ ed.root \in Projects \cup {None}
        /\ ed.text \in Edit1!Doc /\ ed.valid \in Edit1!Doc /\ ed.lists \in Edit1!Lists
    BY <1>1 DEF EdOk
  <2>4. disk \in [Requests -> [doc : Edit1!Doc, lists : Edit1!Lists]] /\ authOn \in [Projects -> Requests \cup {None}]
    BY <1>1 DEF DocsOk, AuthHeld
  <2>5. lost \subseteq {"open", "reload", "new", "batch"}
    BY <1>1
  <2>. QED
    BY <2>1, <2>2, <2>3, <2>4, <2>5 DEF Edit1!TypeOK
<1>3. Edit1!CleanMeansSaved /\ Edit1!ChecksConserved /\ Edit1!AutoSaveKeepsWork
  BY <1>1 DEF SavedOk, Edit1!CleanMeansSaved, Edit1!ChecksConserved, Edit1!AutoSaveKeepsWork
<1>4. Edit1!AnswersBelong
  BY <1>1 DEF Talk, AnswersOk, Edit1!AnswersBelong
<1>5. Edit1!FormEditsItsEntry
  BY <1>1 DEF FormOk, Edit1!FormEditsItsEntry
<1>6. Edit1!AuthBacked
  BY <1>1 DEF AuthHeld, AuthShown, Edit1!AuthBacked
<1>. QED
  BY <1>2, <1>3, <1>4, <1>5, <1>6

(* The editor in focus. *)
LEMMA EditingHolds == DesktopSpec => []EditorOnly
<1>1. DesktopInit => EditorOnly
  BY EditorInit DEF DesktopInit, EditorOnly
<1>2. EditorOnly /\ [DesktopNext]_allVars => EditorOnly'
  <2> SUFFICES ASSUME EditorOnly, [DesktopNext]_allVars, focus' = "editor" PROVE EditorInv'
    BY DEF EditorOnly
  <2>1. focus = "editor" /\ EditorInv
    BY DEF DesktopNext, allVars, EditorOnly
  <2>2. Edit1!Next \/ UNCHANGED editing
    BY <2>1 DEF DesktopNext, allVars, PlanNext, UpdaterNext, ConsoleNext, HistoryNext, EditorNext, FilesNext
  <2>3. CASE Edit1!Next
    BY <2>1, <2>3, EditorStep
  <2>4. CASE UNCHANGED editing
    <3>1. UNCHANGED <<disk, authOn, ed, questions, setting, owed, lost, touched, steps>>
      BY <2>4 DEF editing
    <3>. QED
      BY <2>1, <3>1 DEF EditorInv
  <2>. QED
    BY <2>2, <2>3, <2>4
<1>. QED
  BY <1>1, <1>2, PTL DEF DesktopSpec

(* The request editor (dialogs/v1_editor.rs, panels/assets.rs): an editor
   without the dirty mark shows what the three files hold, moving inline checks
   loses none, autosave loses no edits, results, advice and previews belong to
   what is open, the entry being edited stays the one the form was filled from
   and the project's auth request exists, whatever saves failed and whatever
   order answers came in: for any projects, requests, documents and checks and
   any number of steps. *)
THEOREM EditorHolds == DesktopSpec => []EditorSound
<1>1. EditorOnly => EditorSound
  BY EditorPromises DEF EditorOnly, EditorSound
<1>. QED
  BY <1>1, EditingHolds, PTL
=================================================================================
