---------------------------- MODULE Table_proofs ----------------------------
(***************************************************************************)
(* Proofs about the two sides of TableMC.                                  *)
(*                                                                         *)
(* Campaign: the rows are what the log says unless a request of one of the *)
(* kinds in Overwriting wrote over what had changed, one session is the    *)
(* current one and the sessions are numbered in order, what is referred to *)
(* exists and has a price, whatever requests overlap.                      *)
(*                                                                         *)
(* A request holds a lock on every row it wrote, so that the rows it read  *)
(* and wrote are as they were until it ends: the invariant says what each  *)
(* has written (Progress), and what no other may write meanwhile.          *)
(*                                                                         *)
(* Membership and Screens (M, from the second half on): nothing of a party *)
(* points at what is gone, no coin is lost, nothing is locked for good,    *)
(* what is offered is allowed, and its members are a roster.               *)
(***************************************************************************)
EXTENDS TableMC, SumTheorems

(***************************************************************************)
(* The requests, by what their statements do.                              *)
(***************************************************************************)
FieldNames == {"text", "cost", "identified", "open", "override", "quantity", "name", "class", "level",
               "rule", "economy", "notes"}

Edit(kind, rows, fields) ==
  [kind : {kind}, row : rows, patch : Some(fields), named : SUBSET FieldNames, logged : Some(fields) \union {<<>>}]

\* The entry of an edit tells all of its patch.
Told(j) == j.logged = j.patch \/ (j.logged = <<>> /\ DOMAIN j.patch \subseteq j.named)

Fields ==
  Edit("edit-homebrew", Definitions, [text : Texts, cost : Prices])
  \union Edit("identify", Items, [identified : BOOLEAN])
  \union Edit("edit-shop", {Shop}, [text : Texts])
  \union Edit("set-shop-open", {Shop}, [open : BOOLEAN])
  \union Edit("stock-update", Entries, [override : Prices \union {NoRow}, quantity : Texts])
  \union Edit("rename-character", {Sheet}, [name : Texts])
  \union Edit("edit-character", {Sheet}, [class : Texts, level : Texts])
  \union Edit("rename-party", {PartyRow}, [name : Texts])
  \union Edit("set-encumbrance", {PartyRow}, [rule : Texts])
  \union Edit("update-party-economy", {PartyRow}, [economy : Texts])
  \union Edit("edit-game-session-notes", Sessions, [notes : Texts])

FieldJobs == {j \in Fields : j.kind \in Overwriting \/ Told(j)}

InsertJobs ==
  [kind : {"create-homebrew"}, row : Definitions, value : Homebrew]
  \union [kind : {"acquire"}, row : Items, value : Item]
  \union [kind : {"create-shop"}, row : {Shop}, value : ShopFields]
  \union [kind : {"stock-add"}, row : Entries, value : Entry]

DeleteJobs ==
  [kind : {"delete-homebrew"}, row : Definitions]
  \union [kind : {"consume"}, row : Items]
  \union [kind : {"stock-remove"}, row : Entries]

ShopJobs == [kind : {"delete-shop"}, row : {Shop}]

BatchJobs == [kind : {"identify-batch"}, row : Definitions, affected : SUBSET Items, value : BOOLEAN]

WishJobs == [kind : {"wishlist-add", "wishlist-remove"}, wish : Wishes]

StartJobs == [kind : {"start-game-session"}, row : Sessions, demotes : BOOLEAN, ended : SUBSET Sessions, number : Nat]

EndJobs == [kind : {"end-game-session"}, demotes : {TRUE}, ended : SUBSET Sessions]

Jobs == {Idle} \union FieldJobs \union InsertJobs \union DeleteJobs \union ShopJobs
        \union BatchJobs \union WishJobs \union StartJobs \union EndJobs

(***************************************************************************)
(* What a request has written so far, against the committed rows: it holds *)
(* the locks, so they are as they were when it wrote.                      *)
(***************************************************************************)
Written(s) == DOMAIN writes[s]

Changed(row, j) == Merge(row, j.patch)

FieldWritten(s) ==
  LET j == job[s] IN
  \/ pc[s] = 1 /\ Written(s) = {}
  \/ /\ pc[s] = 2 /\ Written(s) = {j.row} /\ db[j.row] # NoRow
     /\ writes[s][j.row] = Changed(db[j.row], j)
     /\ exact[s] => writes[s][j.row] = Retold(j, db[j.row], writes[s][j.row])

RowInserted(s) ==
  \/ pc[s] = 1 /\ Written(s) = {}
  \/ /\ pc[s] = 2 /\ Written(s) = {job[s].row} /\ db[job[s].row] = NoRow
     /\ writes[s][job[s].row] = job[s].value

RowDeleted(s) ==
  \/ pc[s] = 1 /\ Written(s) = {}
  \/ /\ pc[s] = 2 /\ Written(s) = {job[s].row}
     /\ writes[s][job[s].row] = NoRow

ShopDeleted(s) ==
  \/ pc[s] = 1 /\ Written(s) = {}
  \/ /\ pc[s] = 2 /\ Shop \in Written(s) /\ Written(s) \subseteq {Shop} \union Entries
     /\ \A r \in Written(s) : writes[s][r] = NoRow
     /\ \A e \in Entries : e \notin Written(s) => db[e] = NoRow

BatchWritten(s) ==
  \/ pc[s] = 1 /\ Written(s) = {}
  \/ pc[s] = 2 /\ Written(s) = {} /\ found[s] \subseteq Items
  \/ /\ pc[s] = 3 /\ Written(s) \subseteq Items
     /\ \A i \in Written(s) : /\ db[i] # NoRow
                              /\ writes[s][i] = [db[i] EXCEPT !.identified = job[s].value]
     /\ exact[s] => Written(s) = job[s].affected

Wished(j, list) == IF j.kind = "wishlist-add" THEN list \union {j.wish} ELSE list \ {j.wish}

WishWritten(s) ==
  \/ pc[s] = 1 /\ Written(s) = {}
  \/ pc[s] = 2 /\ Written(s) = {} /\ found[s] \subseteq Wishes
  \/ /\ pc[s] = 3 /\ Written(s) = {Sheet} /\ found[s] \subseteq Wishes
     /\ writes[s][Sheet] = [db[Sheet] EXCEPT !.wishlist = Wished(job[s], found[s])]
     /\ exact[s] => found[s] = db[Sheet].wishlist

Demoted(s, D) ==
  /\ D \subseteq Sessions
  /\ \A g \in D : db[g] # NoRow /\ writes[s][g] = [db[g] EXCEPT !.current = FALSE]
  /\ exact[s] => D = job[s].ended

NumberOfDb == NumberAfter({db[g].number : g \in Existing(Sessions)})

SessionEnded(s) ==
  \/ pc[s] = 1 /\ Written(s) = {}
  \/ pc[s] = 2 /\ Written(s) = {} /\ found[s] \subseteq Sessions
  \/ pc[s] = 3 /\ Demoted(s, Written(s))

SessionStarted(s) ==
  LET g == job[s].row IN
  /\ \/ pc[s] = 1 /\ Written(s) = {}
     \/ pc[s] = 2 /\ Written(s) = {} /\ found[s] \subseteq Sessions
     \/ pc[s] = 3 /\ Demoted(s, Written(s))
     \/ pc[s] = 4 /\ Demoted(s, Written(s)) /\ found[s] \in Nat /\ job[s].number <= found[s] /\ found[s] <= NumberOfDb
     \/ /\ pc[s] = 5 /\ g \in Written(s) /\ Demoted(s, Written(s) \ {g}) /\ found[s] \in Nat
        /\ db[g] = NoRow
        /\ writes[s][g] = [number |-> found[s], current |-> TRUE, notes |-> NoRow]
        /\ exact[s] => /\ found[s] = job[s].number
                       /\ \A h \in Existing(Sessions) : db[h].number < found[s]
  /\ job[s].number <= NumberOfDb

Progress(s) ==
  /\ job[s] = Idle => pc[s] = 0 /\ Written(s) = {}
  /\ job[s] \in FieldJobs => FieldWritten(s)
  /\ job[s] \in InsertJobs => RowInserted(s)
  /\ job[s] \in DeleteJobs => RowDeleted(s)
  /\ job[s] \in ShopJobs => ShopDeleted(s)
  /\ job[s] \in BatchJobs => BatchWritten(s)
  /\ job[s] \in WishJobs => WishWritten(s)
  /\ job[s] \in EndJobs => SessionEnded(s)
  /\ job[s] \in StartJobs => SessionStarted(s)

(***************************************************************************)
(* No row has two writers; what is written is a row of its table.          *)
(***************************************************************************)
Shapes ==
  /\ TypeOK /\ db = [r \in Rows |-> db[r]] /\ book = [r \in Rows |-> book[r]]
  /\ job \in [Slots -> Jobs] /\ DOMAIN pc = Slots /\ DOMAIN found = Slots
  /\ exact \in [Slots -> BOOLEAN] /\ DOMAIN writes = Slots
  /\ \A s \in Slots : \A r \in Written(s) : writes[s][r] = NoRow \/ writes[s][r] \in RowType(r)

OneWriter == \A s, t \in Slots : \A r \in Written(s) : r \in Written(t) => s = t

(***************************************************************************)
(* Who refers to what, committed or not.                                   *)
(***************************************************************************)
Going(s, r) == r \in Written(s) /\ writes[s][r] = NoRow

ShopHeld ==
  \A s, t \in Slots : Going(s, Shop) => \A e \in Entries : e \in Written(t) => writes[t][e] = NoRow

ItemsHeld ==
  /\ \A i \in Existing(Items) : db[db[i].of] # NoRow /\ \A s \in Slots : ~Going(s, db[i].of)
  /\ \A t \in Slots : \A i \in Items : i \in Written(t) /\ writes[t][i] # NoRow =>
       db[writes[t][i].of] # NoRow /\ \A s \in Slots : ~Going(s, writes[t][i].of)

(***************************************************************************)
(* A price is owed to every entry, and by every request to list one.       *)
(***************************************************************************)
Priced(e, d, override) ==
  {e, d} \intersect gone # {} \/ (db[d] # NoRow /\ (override # NoRow \/ db[d].cost # NoRow))

PricesHold ==
  /\ \A e \in Existing(Entries) : Priced(e, db[e].of, db[e].override)
  /\ \A s \in Slots : job[s].kind = "stock-add" => Priced(job[s].value.of, job[s].value.of, job[s].value.override)
  /\ \A s \in Slots : job[s].kind = "stock-update" /\ "override" \in DOMAIN job[s].patch =>
       job[s].row \in gone \/ (db[job[s].row] # NoRow /\ Priced(job[s].row, db[job[s].row].of, job[s].patch["override"]))

(***************************************************************************)
(* Whoever makes a session the current one leaves no other.                *)
(***************************************************************************)
Claims(s, g) == g \in Sessions /\ g \in Written(s) /\ writes[s][g].current

OneCurrent ==
  /\ \A g, h \in Current : g = h
  /\ \A s, t \in Slots : \A g, h \in Sessions : Claims(s, g) /\ Claims(t, h) => g = h
  /\ \A s \in Slots : \A g \in Sessions : Claims(s, g) =>
       \A h \in Current : h = g \/ (h \in Written(s) /\ ~Claims(s, h))

Numbered ==
  "start-game-session" \notin stale =>
    /\ \A g, h \in Existing(Sessions) : db[g].number = db[h].number => g = h
    /\ \A g \in Current, h \in Existing(Sessions) : db[h].number <= db[g].number

(***************************************************************************)
(* Only some kinds of request are not exact.                               *)
(***************************************************************************)
Exactness == \A s \in Slots : exact[s] \/ job[s].kind \in Overwriting

CampaignInv ==
  /\ Shapes /\ (\A s \in Slots : Progress(s)) /\ OneWriter
  /\ ShopHeld /\ ItemsHeld /\ PricesHold /\ OneCurrent /\ Numbered /\ Exactness /\ RowsAsLogged

-----------------------------------------------------------------------------
(* Numbers and tables.                                                     *)

\* A finite set of numbers has a greatest.
LEMMA Greatest ==
  ASSUME NEW S, IsFiniteSet(S), S \subseteq Nat, S # {}
  PROVE  \E x \in S : \A y \in S : x >= y
<1> DEFINE Top(T) == \E x \in T : \A y \in T : x >= y
<1> DEFINE Bad == {T \in SUBSET S : T # {} /\ ~Top(T)}
<1>1. ASSUME Bad # {} PROVE FALSE
  <2>1. PICK T \in Bad : \A U \in SUBSET T : U # T => U \notin Bad
    <3>1. Bad \subseteq SUBSET S
      OBVIOUS
    <3> HIDE DEF Bad
    <3>2. QED BY <1>1, <3>1, MinimalSet
  <2>2. PICK x : x \in T
    OBVIOUS
  <2>3. CASE T = {x}
    BY <2>1, <2>3
  <2>4. CASE T # {x}
    <3>1. T \ {x} \in SUBSET S /\ T \ {x} # {} /\ T \ {x} # T /\ T \ {x} \notin Bad
      BY <2>1, <2>2, <2>4
    <3>2. PICK m \in T \ {x} : \A y \in T \ {x} : m >= y
      BY <3>1
    <3>3. x \in Nat /\ m \in Nat /\ T \subseteq Nat
      BY <2>1, <2>2, <3>2
    <3>4. CASE x >= m
      <4>1. \A y \in T : x >= y
        BY <3>2, <3>3, <3>4
      <4>2. QED BY <2>1, <2>2, <4>1
    <3>5. CASE m >= x
      <4>1. \A y \in T : m >= y
        BY <3>2, <3>3, <3>5
      <4>2. QED BY <2>1, <3>2, <4>1
    <3>6. QED BY <3>3, <3>4, <3>5
  <2>5. QED BY <2>3, <2>4
<1>2. QED BY <1>1

\* A number that comes after others is greater than each, and the least such.
LEMMA After ==
  ASSUME NEW N, IsFiniteSet(N), N \subseteq Nat
  PROVE  /\ NumberAfter(N) \in Nat /\ NumberAfter(N) > 0
         /\ \A n \in N : n < NumberAfter(N)
         /\ \A k \in Nat : (k > 0 /\ \A n \in N : n < k) => NumberAfter(N) <= k
<1> DEFINE S == {0} \union N
<1>1. IsFiniteSet(S) /\ S \subseteq Nat /\ S # {} /\ 0 \in S
  BY FS_AddElement
<1>2. PICK m \in S : \A y \in S : m >= y
  <2> HIDE DEF S
  <2>1. QED BY <1>1, Greatest
<1>3. Max(S) \in S /\ \A y \in S : Max(S) >= y
  BY <1>2 DEF Max
<1>4. NumberAfter(N) = Max(S) + 1
  BY DEF NumberAfter
<1>5. QED
  <2>1. \A n \in N : n \in S
    OBVIOUS
  <2>2. Max(S) = 0 \/ Max(S) \in N
    BY <1>3
  <2> HIDE DEF S
  <2>3. Max(S) \in Nat /\ \A n \in N : n <= Max(S)
    BY <1>1, <1>3, <2>1
  <2>4. QED BY <1>4, <2>2, <2>3

\* Each id has the rows of its table, and none of them is NoRow.
LEMMA Tables ==
  /\ \A r \in Definitions : RowType(r) = Homebrew
  /\ \A r \in Items : RowType(r) = Item
  /\ \A r \in Sessions : RowType(r) = Session
  /\ \A r \in Entries : RowType(r) = Entry
  /\ RowType(Shop) = ShopFields
  /\ RowType(Sheet) = SheetFields
  /\ RowType(PartyRow) = PartyFields
BY TablesAssumption DEF RowType

\* A row is not NoRow.
LEMMA RowsAreRows == \A r \in Rows : \A row \in RowType(r) : row # NoRow
BY NoRowAssumption

-----------------------------------------------------------------------------
(* Steps.                                                                  *)

\* What accepting a request leaves.
LEMMA AcceptFacts ==
  ASSUME Shapes, NEW s \in Slots, NEW j, Accept(s, j)
  PROVE  /\ job[s] = Idle
         /\ job' = [job EXCEPT ![s] = j] /\ pc' = [pc EXCEPT ![s] = 1] /\ exact' = [exact EXCEPT ![s] = TRUE]
         /\ UNCHANGED <<db, writes, found, book, stale, gone>>
BY DEF Accept, Busy

\* What the reducer made sure of when it accepted a request.
Owed(j) ==
  /\ j \in StartJobs => j.number = NumberOfDb
  /\ j.kind = "stock-add" =>
       db[j.value.of] # NoRow /\ (j.value.override # NoRow \/ db[j.value.of].cost # NoRow)
  /\ j.kind = "stock-update" /\ "override" \in DOMAIN j.patch =>
       /\ db[j.row] # NoRow
       /\ j.patch["override"] # NoRow \/ db[db[j.row].of] = NoRow \/ db[db[j.row].of].cost # NoRow
Welcome(s, j) == j \in Jobs \ {Idle} /\ Owed(j) /\ Accept(s, j)

LEMMA FieldIsOwed ==
  ASSUME NEW j \in FieldJobs, j.kind # "stock-update" PROVE j \in Jobs \ {Idle} /\ Owed(j)
<1>1. j.kind \notin {"idle", "start-game-session", "stock-add"}
  BY DEF FieldJobs, Fields, Edit
<1>2. j # Idle /\ j \notin StartJobs
  BY <1>1 DEF Idle, StartJobs
<1>3. QED BY <1>1, <1>2 DEF Jobs, Owed

\* A patch is a part of a record.
LEMMA SomeOf ==
  ASSUME NEW R, NEW p \in Some(R)
  PROVE  \E x \in R : DOMAIN p \subseteq DOMAIN x /\ \A f \in DOMAIN p : p[f] = x[f]
<1>1. PICK x \in R : p \in {Restrict(x, F) : F \in SUBSET DOMAIN x}
  BY DEF Some
<1>2. PICK F \in SUBSET DOMAIN x : p = Restrict(x, F)
  BY <1>1
<1>3. p = [f \in F |-> x[f]]
  BY <1>2 DEF Restrict
<1>4. DOMAIN p = F /\ \A f \in DOMAIN p : p[f] = x[f]
  BY <1>3
<1>5. QED BY <1>1, <1>2, <1>4

\* Any part of a record is a patch.
LEMMA PartOf ==
  ASSUME NEW R, NEW x \in R, NEW F \in SUBSET DOMAIN x
  PROVE  [f \in F |-> x[f]] \in Some(R)
<1>1. Restrict(x, F) \in {Restrict(x, G) : G \in SUBSET DOMAIN x}
  OBVIOUS
<1>2. [f \in F |-> x[f]] = Restrict(x, F)
  BY DEF Restrict
<1>3. QED BY <1>1, <1>2 DEF Some

\* What an edit is accepted as.
LEMMA Edited ==
  ASSUME NEW s \in Slots, NEW kind, NEW rows, NEW fields, NEW r \in rows, NEW patch \in Some(fields),
         NEW logged, logged \in Some(fields) \/ logged = <<>>, DOMAIN patch \subseteq FieldNames,
         Edits(s, kind, r, patch, logged)
  PROVE  \E j \in Edit(kind, rows, fields) :
           /\ Accept(s, j) /\ j.kind = kind /\ j.row = r /\ j.patch = patch
           /\ j.logged = logged /\ j.named = Differs(r, patch) \ DOMAIN logged
<1> DEFINE j == [kind |-> kind, row |-> r, patch |-> patch,
                 named |-> Differs(r, patch) \ DOMAIN logged, logged |-> logged]
<1>1. Differs(r, patch) \ DOMAIN logged \in SUBSET FieldNames
  BY DEF Differs
<1>2. j \in Edit(kind, rows, fields)
  BY <1>1 DEF Edit
<1>3. Accept(s, j)
  BY DEF Edits
<1>4. j.kind = kind /\ j.row = r /\ j.patch = patch /\ j.logged = logged /\ j.named = Differs(r, patch) \ DOMAIN logged
  OBVIOUS
<1> HIDE DEF j
<1>5. QED BY <1>2, <1>3, <1>4

\* Every field of a patch changes, and is named.
LEMMA AllNamed ==
  ASSUME NEW s \in Slots, NEW kind, NEW rows, NEW fields, NEW r \in rows, NEW patch \in Some(fields),
         DOMAIN patch \subseteq FieldNames, Names(s, kind, r, patch), Differs(r, patch) = DOMAIN patch
  PROVE  \E j \in Edit(kind, rows, fields) : Accept(s, j) /\ j.kind = kind /\ Told(j)
<1> DEFINE j == [kind |-> kind, row |-> r, patch |-> patch,
                 named |-> Differs(r, patch) \ DOMAIN <<>>, logged |-> <<>>]
<1>1. DOMAIN <<>> = {}
  OBVIOUS
<1>2. j \in Edit(kind, rows, fields)
  BY <1>1 DEF Edit
<1>3. Accept(s, j)
  BY DEF Names, Edits
<1>4. j.kind = kind /\ Told(j)
  BY <1>1 DEF Told
<1> HIDE DEF j
<1>5. QED BY <1>2, <1>3, <1>4

\* A field is set to a value of its own.
LEMMA SetTo ==
  ASSUME NEW s \in Slots, NEW kind, NEW rows, NEW fields, NEW r \in rows, NEW x \in fields,
         NEW f, f \in DOMAIN x, f \in FieldNames, Sets(s, kind, r, f, x[f])
  PROVE  \E j \in Edit(kind, rows, fields) : Accept(s, j) /\ j.kind = kind /\ Told(j)
<1>1. PICK p : p = [g \in {f} |-> x[f]]
  OBVIOUS
<1>2. p \in Some(fields)
  <2>1. p = [g \in {f} |-> x[g]]
    BY <1>1
  <2>2. QED BY <2>1, PartOf
<1>3. DOMAIN p \subseteq FieldNames
  BY <1>1
<1>4. PICK l : l = p
  OBVIOUS
<1>5. Edits(s, kind, r, p, l) /\ l \in Some(fields)
  BY <1>1, <1>2, <1>4 DEF Sets
<1>6. \E j \in Edit(kind, rows, fields) :
        /\ Accept(s, j) /\ j.kind = kind /\ j.row = r /\ j.patch = p
        /\ j.logged = l /\ j.named = Differs(r, p) \ DOMAIN l
  BY <1>2, <1>3, <1>5, Edited
<1>7. QED BY <1>4, <1>6 DEF Told

LEMMA InsertIsOwed ==
  ASSUME NEW j \in InsertJobs, j.kind # "stock-add" PROVE j \in Jobs \ {Idle} /\ Owed(j)
<1>1. j.kind \notin {"idle", "start-game-session", "stock-update"}
  BY DEF InsertJobs
<1>2. j # Idle /\ j \notin StartJobs
  BY <1>1 DEF Idle, StartJobs
<1>3. QED BY <1>1, <1>2 DEF Jobs, Owed

LEMMA NothingIsOwed ==
  ASSUME NEW j \in DeleteJobs \union ShopJobs \union BatchJobs \union WishJobs \union EndJobs
  PROVE  j \in Jobs \ {Idle} /\ Owed(j)
<1>1. j.kind \notin {"idle", "start-game-session", "stock-add", "stock-update"}
  BY DEF DeleteJobs, ShopJobs, BatchJobs, WishJobs, EndJobs
<1>2. j # Idle /\ j \notin StartJobs
  BY <1>1 DEF Idle, StartJobs
<1>3. QED BY <1>1, <1>2 DEF Jobs, Owed

\* The numbers of the sessions are finitely many.
LEMMA Numbers ==
  ASSUME Shapes
  PROVE  LET N == {db[g].number : g \in Existing(Sessions)} IN N \subseteq Nat /\ IsFiniteSet(N)
<1> DEFINE N == {db[g].number : g \in Existing(Sessions)}
<1>1. N \subseteq Nat
  <2>1. \A g \in Existing(Sessions) : g \in Existing(Rows) /\ g \in Sessions
    BY DEF Existing, Rows
  <2>2. \A g \in Existing(Sessions) : db[g] \in Session
    <3>1. \A r \in Existing(Rows) : db[r] \in RowType(r)
      BY DEF Shapes, TypeOK
    <3>2. QED BY <2>1, <3>1, Tables
  <2>3. QED BY <2>2 DEF Session
<1>2. IsFiniteSet(Existing(Sessions))
  BY SessionsAssumption, FS_Subset DEF Existing
<1>3. [g \in Existing(Sessions) |-> db[g].number] \in Surjection(Existing(Sessions), N)
  BY DEF Surjection
<1>4. IsFiniteSet(N)
  <2> HIDE DEF N
  <2>1. QED BY <1>2, <1>3, FS_Surjection
<1>5. QED BY <1>1, <1>4

LEMMA Sheets ==
  ASSUME Shapes
  PROVE  db[Sheet] # NoRow /\ db[Sheet] \in SheetFields
<1>1. Sheet \in Existing(Rows)
  BY DEF Shapes, TypeOK
<1>2. QED BY <1>1, Tables DEF Shapes, TypeOK, Existing

LEMMA CurrentAreSessions == Current \subseteq Sessions
BY DEF Current, Existing

\* The requests that the reducers accept.
LEMMA Accepted ==
  ASSUME Shapes, NEW s \in Slots, Begin(s)
  PROVE  \E j : Welcome(s, j)
<1>1. CASE createHomebrew(s) \/ deleteHomebrew(s) \/ acquire(s) \/ consume(s)
  <2>1. CASE createHomebrew(s)
    <3>1. PICK d \in Definitions, text \in Texts, cost \in Prices \union {NoRow} :
            Accept(s, [kind |-> "create-homebrew", row |-> d, value |-> [text |-> text, cost |-> cost]])
      BY <2>1 DEF createHomebrew
    <3> DEFINE j == [kind |-> "create-homebrew", row |-> d, value |-> [text |-> text, cost |-> cost]]
    <3>2. j \in InsertJobs /\ j.kind # "stock-add"
      BY DEF InsertJobs, Homebrew
    <3>3. QED BY <3>1, <3>2, InsertIsOwed DEF Welcome
  <2>2. CASE deleteHomebrew(s)
    <3>1. PICK d \in Definitions : Accept(s, [kind |-> "delete-homebrew", row |-> d])
      BY <2>2 DEF deleteHomebrew, Existing
    <3>2. [kind |-> "delete-homebrew", row |-> d] \in DeleteJobs
      BY DEF DeleteJobs
    <3>3. QED BY <3>1, <3>2, NothingIsOwed DEF Welcome
  <2>3. CASE acquire(s)
    <3>1. PICK i \in Items, d \in Definitions, shared \in BOOLEAN :
            Accept(s, [kind |-> "acquire", row |-> i, value |-> [of |-> d, shared |-> shared, identified |-> TRUE]])
      BY <2>3 DEF acquire, Existing
    <3> DEFINE j == [kind |-> "acquire", row |-> i, value |-> [of |-> d, shared |-> shared, identified |-> TRUE]]
    <3>2. j \in InsertJobs /\ j.kind # "stock-add"
      BY DEF InsertJobs, Item
    <3>3. QED BY <3>1, <3>2, InsertIsOwed DEF Welcome
  <2>4. CASE consume(s)
    <3>1. PICK i \in Items : Accept(s, [kind |-> "consume", row |-> i])
      BY <2>4 DEF consume, Existing
    <3>2. [kind |-> "consume", row |-> i] \in DeleteJobs
      BY DEF DeleteJobs
    <3>3. QED BY <3>1, <3>2, NothingIsOwed DEF Welcome
  <2>5. QED BY <1>1, <2>1, <2>2, <2>3, <2>4
<1>2. CASE \/ editHomebrew(s) \/ identifyAction(s) \/ editShop(s) \/ setShopOpen(s) \/ editGameSessionNotes(s)
           \/ renameCharacter(s) \/ editCharacter(s) \/ renameParty(s) \/ setEncumbrance(s)
           \/ updatePartyEconomy(s)
  <2> DEFINE Good(kind) == \E j \in FieldJobs : Accept(s, j) /\ j.kind = kind
  <2>1. ASSUME NEW kind, kind # "stock-update", Good(kind) PROVE \E j : Welcome(s, j)
    <3>1. PICK j \in FieldJobs : Accept(s, j) /\ j.kind = kind
      BY <2>1
    <3>2. Welcome(s, j)
      BY <2>1, <3>1, FieldIsOwed DEF Welcome
    <3>3. QED BY <3>2
  <2>2. CASE editHomebrew(s)
    <3> DEFINE R == [text : Texts, cost : Prices]
    <3>1. PICK d \in Definitions, p \in Some(R) : Edits(s, "edit-homebrew", d, p, <<>>)
      BY <2>2 DEF editHomebrew, Names
    <3>2. DOMAIN p \subseteq FieldNames
      <4>1. \A x \in R : DOMAIN x = {"text", "cost"}
        OBVIOUS
      <4> HIDE DEF R
      <4>2. QED BY <4>1, SomeOf DEF FieldNames
    <3>3. \E j \in Edit("edit-homebrew", Definitions, R) : Accept(s, j) /\ j.kind = "edit-homebrew"
      <4> HIDE DEF R
      <4>1. QED BY <3>1, <3>2, Edited
    <3>4. Good("edit-homebrew")
      BY <3>3 DEF FieldJobs, Fields, Overwriting
    <3> HIDE DEF Good
    <3>5. QED BY <2>1, <3>4
  <2>3. CASE identifyAction(s)
    <3> DEFINE R == [identified : BOOLEAN]
    <3>1. PICK i \in Items, to \in BOOLEAN : Sets(s, "identify", i, "identified", to)
      BY <2>3 DEF identifyAction
    <3>2. PICK x : x = [identified |-> to]
      OBVIOUS
    <3>3. x \in R /\ x["identified"] = to /\ "identified" \in DOMAIN x /\ "identified" \in FieldNames
      BY <3>2 DEF FieldNames
    <3>4. \E j \in Edit("identify", Items, R) : Accept(s, j) /\ j.kind = "identify" /\ Told(j)
      <4> HIDE DEF R
      <4>1. QED BY <3>1, <3>3, SetTo
    <3>5. Good("identify")
      BY <3>4 DEF FieldJobs, Fields
    <3> HIDE DEF Good
    <3>6. QED BY <2>1, <3>5
  <2>4. CASE editShop(s)
    <3> DEFINE R == [text : Texts]
    <3>1. PICK text \in Texts : Edits(s, "edit-shop", Shop, [text |-> text], <<>>)
      BY <2>4 DEF editShop, Names
    <3>2. PICK x : x = [text |-> text]
      OBVIOUS
    <3>3. x \in R /\ DOMAIN x = {"text"} /\ x = [f \in DOMAIN x |-> x[f]]
      BY <3>2
    <3>4. \E j \in Edit("edit-shop", {Shop}, R) : Accept(s, j) /\ j.kind = "edit-shop" /\ Told(j)
      <4> HIDE DEF R
      <4>1. x \in Some(R)
        BY <3>3, PartOf
      <4>2. DOMAIN x \subseteq FieldNames
        BY <3>3 DEF FieldNames
      <4>3. Differs(Shop, x) = DOMAIN x
        <5>1. Differs(Shop, x) # {} /\ Differs(Shop, x) \subseteq DOMAIN x
          BY <3>1, <3>2 DEF Edits, Differs
        <5>2. QED BY <3>3, <5>1
      <4>4. Names(s, "edit-shop", Shop, x)
        BY <3>1, <3>2 DEF Names
      <4>5. QED BY <4>1, <4>2, <4>3, <4>4, AllNamed
    <3>5. Good("edit-shop")
      BY <3>4 DEF FieldJobs, Fields
    <3> HIDE DEF Good
    <3>6. QED BY <2>1, <3>5
  <2>5. CASE setShopOpen(s)
    <3> DEFINE R == [open : BOOLEAN]
    <3>1. PICK to \in BOOLEAN : Sets(s, "set-shop-open", Shop, "open", to)
      BY <2>5 DEF setShopOpen
    <3>2. PICK x : x = [open |-> to]
      OBVIOUS
    <3>3. x \in R /\ x["open"] = to /\ "open" \in DOMAIN x /\ "open" \in FieldNames
      BY <3>2 DEF FieldNames
    <3>4. \E j \in Edit("set-shop-open", {Shop}, R) : Accept(s, j) /\ j.kind = "set-shop-open" /\ Told(j)
      <4> HIDE DEF R
      <4>1. QED BY <3>1, <3>3, SetTo
    <3>5. Good("set-shop-open")
      BY <3>4 DEF FieldJobs, Fields
    <3> HIDE DEF Good
    <3>6. QED BY <2>1, <3>5
  <2>6. CASE editGameSessionNotes(s)
    <3> DEFINE R == [notes : Texts]
    <3>1. PICK g \in Sessions, to \in Texts : Sets(s, "edit-game-session-notes", g, "notes", to)
      BY <2>6 DEF editGameSessionNotes
    <3>2. PICK x : x = [notes |-> to]
      OBVIOUS
    <3>3. x \in R /\ x["notes"] = to /\ "notes" \in DOMAIN x /\ "notes" \in FieldNames
      BY <3>2 DEF FieldNames
    <3>4. \E j \in Edit("edit-game-session-notes", Sessions, R) : Accept(s, j) /\ j.kind = "edit-game-session-notes" /\ Told(j)
      <4> HIDE DEF R
      <4>1. QED BY <3>1, <3>3, SetTo
    <3>5. Good("edit-game-session-notes")
      BY <3>4 DEF FieldJobs, Fields
    <3> HIDE DEF Good
    <3>6. QED BY <2>1, <3>5
  <2>7. CASE renameCharacter(s)
    <3> DEFINE R == [name : Texts]
    <3>1. PICK to \in Texts : Sets(s, "rename-character", Sheet, "name", to)
      BY <2>7 DEF renameCharacter
    <3>2. PICK x : x = [name |-> to]
      OBVIOUS
    <3>3. x \in R /\ x["name"] = to /\ "name" \in DOMAIN x /\ "name" \in FieldNames
      BY <3>2 DEF FieldNames
    <3>4. \E j \in Edit("rename-character", {Sheet}, R) : Accept(s, j) /\ j.kind = "rename-character" /\ Told(j)
      <4> HIDE DEF R
      <4>1. QED BY <3>1, <3>3, SetTo
    <3>5. Good("rename-character")
      BY <3>4 DEF FieldJobs, Fields
    <3> HIDE DEF Good
    <3>6. QED BY <2>1, <3>5
  <2>8. CASE renameParty(s)
    <3> DEFINE R == [name : Texts]
    <3>1. PICK to \in Texts : Sets(s, "rename-party", PartyRow, "name", to)
      BY <2>8 DEF renameParty
    <3>2. PICK x : x = [name |-> to]
      OBVIOUS
    <3>3. x \in R /\ x["name"] = to /\ "name" \in DOMAIN x /\ "name" \in FieldNames
      BY <3>2 DEF FieldNames
    <3>4. \E j \in Edit("rename-party", {PartyRow}, R) : Accept(s, j) /\ j.kind = "rename-party" /\ Told(j)
      <4> HIDE DEF R
      <4>1. QED BY <3>1, <3>3, SetTo
    <3>5. Good("rename-party")
      BY <3>4 DEF FieldJobs, Fields
    <3> HIDE DEF Good
    <3>6. QED BY <2>1, <3>5
  <2>9. CASE setEncumbrance(s)
    <3> DEFINE R == [rule : Texts]
    <3>1. PICK to \in Texts : Sets(s, "set-encumbrance", PartyRow, "rule", to)
      BY <2>9 DEF setEncumbrance
    <3>2. PICK x : x = [rule |-> to]
      OBVIOUS
    <3>3. x \in R /\ x["rule"] = to /\ "rule" \in DOMAIN x /\ "rule" \in FieldNames
      BY <3>2 DEF FieldNames
    <3>4. \E j \in Edit("set-encumbrance", {PartyRow}, R) : Accept(s, j) /\ j.kind = "set-encumbrance" /\ Told(j)
      <4> HIDE DEF R
      <4>1. QED BY <3>1, <3>3, SetTo
    <3>5. Good("set-encumbrance")
      BY <3>4 DEF FieldJobs, Fields
    <3> HIDE DEF Good
    <3>6. QED BY <2>1, <3>5
  <2>10. CASE updatePartyEconomy(s)
    <3> DEFINE R == [economy : Texts]
    <3>1. PICK to \in Texts : Sets(s, "update-party-economy", PartyRow, "economy", to)
      BY <2>10 DEF updatePartyEconomy
    <3>2. PICK x : x = [economy |-> to]
      OBVIOUS
    <3>3. x \in R /\ x["economy"] = to /\ "economy" \in DOMAIN x /\ "economy" \in FieldNames
      BY <3>2 DEF FieldNames
    <3>4. \E j \in Edit("update-party-economy", {PartyRow}, R) : Accept(s, j) /\ j.kind = "update-party-economy" /\ Told(j)
      <4> HIDE DEF R
      <4>1. QED BY <3>1, <3>3, SetTo
    <3>5. Good("update-party-economy")
      BY <3>4 DEF FieldJobs, Fields
    <3> HIDE DEF Good
    <3>6. QED BY <2>1, <3>5
  <2>12. CASE editCharacter(s)
    <3> DEFINE R == [class : Texts, level : Texts]
    <3>1. PICK p \in Some(R) : Edits(s, "edit-character", Sheet, p, <<>>)
      BY <2>12 DEF editCharacter, Names
    <3>2. DOMAIN p \subseteq FieldNames
      <4>1. \A x \in R : DOMAIN x = {"class", "level"}
        OBVIOUS
      <4> HIDE DEF R
      <4>2. QED BY <4>1, SomeOf DEF FieldNames
    <3>3. \E j \in Edit("edit-character", {Sheet}, R) : Accept(s, j) /\ j.kind = "edit-character"
      <4> HIDE DEF R
      <4>1. QED BY <3>1, <3>2, Edited
    <3>4. Good("edit-character")
      BY <3>3 DEF FieldJobs, Fields, Overwriting
    <3> HIDE DEF Good
    <3>5. QED BY <2>1, <3>4
  <2>13. QED BY <1>2, <2>2, <2>3, <2>4, <2>5, <2>6, <2>7, <2>8, <2>9, <2>10, <2>12
<1>4. CASE identifyBatchAction(s)
  <2>1. PICK d \in Definitions, to \in BOOLEAN, affected \in SUBSET Items :
          Accept(s, [kind |-> "identify-batch", row |-> d, affected |-> affected, value |-> to])
    BY <1>4 DEF identifyBatchAction, Existing
  <2>2. [kind |-> "identify-batch", row |-> d, affected |-> affected, value |-> to] \in BatchJobs
    BY DEF BatchJobs
  <2>3. QED BY <2>1, <2>2, NothingIsOwed DEF Welcome
<1>5. CASE createShop(s)
  <2>1. PICK text \in Texts :
          Accept(s, [kind |-> "create-shop", row |-> Shop, value |-> [text |-> text, open |-> FALSE]])
    BY <1>5 DEF createShop
  <2> DEFINE j == [kind |-> "create-shop", row |-> Shop, value |-> [text |-> text, open |-> FALSE]]
  <2>2. j \in InsertJobs /\ j.kind # "stock-add"
    BY DEF InsertJobs, ShopFields
  <2>3. QED BY <2>1, <2>2, InsertIsOwed DEF Welcome
<1>6. CASE deleteShop(s)
  <2>1. [kind |-> "delete-shop", row |-> Shop] \in ShopJobs
    BY DEF ShopJobs
  <2>2. QED BY <1>6, <2>1, NothingIsOwed DEF Welcome, deleteShop
<1>7. CASE editShopStock(s)
  <2>1. CASE \E e \in Entries, d \in Existing(Definitions), override \in Prices \union {NoRow}, quantity \in Texts :
               /\ db[d].cost # NoRow \/ override # NoRow
               /\ Accept(s, [kind |-> "stock-add", row |-> e,
                             value |-> [of |-> d, override |-> override, quantity |-> quantity]])
    <3>1. PICK e \in Entries, d \in Existing(Definitions), override \in Prices \union {NoRow}, quantity \in Texts :
               /\ db[d].cost # NoRow \/ override # NoRow
               /\ Accept(s, [kind |-> "stock-add", row |-> e,
                             value |-> [of |-> d, override |-> override, quantity |-> quantity]])
      BY <2>1
    <3> DEFINE j == [kind |-> "stock-add", row |-> e, value |-> [of |-> d, override |-> override, quantity |-> quantity]]
    <3>2. j \in InsertJobs
      BY DEF InsertJobs, Entry, Existing
    <3>3. j.kind = "stock-add" /\ j.value.of = d /\ j.value.override = override
      OBVIOUS
    <3>4. db[d] # NoRow
      BY DEF Existing
    <3>5. j # Idle /\ j \notin StartJobs
      BY <3>3 DEF Idle, StartJobs
    <3> HIDE DEF j
    <3>6. QED BY <3>1, <3>2, <3>3, <3>4, <3>5 DEF Welcome, Jobs, Owed, j
  <2>2. CASE \E e \in Existing(Entries), p \in Some([override : Prices \union {NoRow}, quantity : Texts]) :
               LET new == Merge(db[e], p) IN
               /\ "override" \in DOMAIN p /\ new.override = NoRow /\ db[db[e].of] # NoRow => db[db[e].of].cost # NoRow
               /\ Edits(s, "stock-update", e, p, [override |-> new.override, quantity |-> new.quantity])
    <3> DEFINE R == [override : Prices \union {NoRow}, quantity : Texts]
    <3>1. PICK e \in Existing(Entries), p \in Some(R) :
               LET new == Merge(db[e], p) IN
               /\ "override" \in DOMAIN p /\ new.override = NoRow /\ db[db[e].of] # NoRow => db[db[e].of].cost # NoRow
               /\ Edits(s, "stock-update", e, p, [override |-> new.override, quantity |-> new.quantity])
      BY <2>2
    <3>2. PICK new : new = Merge(db[e], p)
      OBVIOUS
    <3>3. e \in Entries /\ db[e] # NoRow /\ db[e] \in Entry
      <4>1. e \in Entries /\ e \in Existing(Rows)
        BY DEF Existing, Rows
      <4>2. QED BY <4>1, Tables DEF Shapes, TypeOK, Existing
    <3>4. PICK x \in R : DOMAIN p \subseteq DOMAIN x /\ \A f \in DOMAIN p : p[f] = x[f]
      <4> HIDE DEF R
      <4>1. QED BY SomeOf
    <3>5. new = [f \in DOMAIN db[e] |-> IF f \in DOMAIN p THEN p[f] ELSE db[e][f]] /\ DOMAIN db[e] = {"of", "override", "quantity"}
      BY <3>2, <3>3 DEF Merge, Entry
    <3>6. /\ new.override = (IF "override" \in DOMAIN p THEN p["override"] ELSE db[e].override)
          /\ new.quantity = (IF "quantity" \in DOMAIN p THEN p["quantity"] ELSE db[e].quantity)
      BY <3>5
    <3>7. new.override \in Prices \union {NoRow} /\ new.quantity \in Texts
      BY <3>3, <3>4, <3>6 DEF Entry
    <3>8. PICK l : l = [override |-> new.override, quantity |-> new.quantity]
      OBVIOUS
    <3>9. l \in R /\ l = [f \in DOMAIN l |-> l[f]] /\ DOMAIN l \subseteq FieldNames /\ DOMAIN p \subseteq FieldNames
      BY <3>4, <3>7, <3>8 DEF FieldNames
    <3>10. \E j \in Edit("stock-update", Entries, R) : Accept(s, j) /\ j.kind = "stock-update" /\ j.row = e /\ j.patch = p
      <4>1. Edits(s, "stock-update", e, p, l)
        BY <3>1, <3>2, <3>8
      <4> HIDE DEF R
      <4>2. l \in Some(R)
        BY <3>9, PartOf
      <4>3. QED BY <3>1, <3>3, <3>9, <4>1, <4>2, Edited
    <3>11. PICK j \in Edit("stock-update", Entries, R) : Accept(s, j) /\ j.kind = "stock-update" /\ j.row = e /\ j.patch = p
      BY <3>10
    <3>12. j \in FieldJobs
      BY <3>11 DEF FieldJobs, Fields, Overwriting
    <3>13. j # Idle /\ j \notin StartJobs
      BY <3>11 DEF Idle, StartJobs
    <3>14. "override" \in DOMAIN p => p["override"] # NoRow \/ db[db[e].of] = NoRow \/ db[db[e].of].cost # NoRow
      BY <3>1, <3>2, <3>6
    <3> HIDE DEF R
    <3>15. QED BY <3>3, <3>11, <3>12, <3>13, <3>14 DEF Welcome, Jobs, Owed
  <2>3. CASE \E e \in Existing(Entries) : Accept(s, [kind |-> "stock-remove", row |-> e])
    <3>1. PICK e \in Entries : Accept(s, [kind |-> "stock-remove", row |-> e])
      BY <2>3 DEF Existing
    <3>2. [kind |-> "stock-remove", row |-> e] \in DeleteJobs
      BY DEF DeleteJobs
    <3>3. QED BY <3>1, <3>2, NothingIsOwed DEF Welcome
  <2>4. QED BY <1>7, <2>1, <2>2, <2>3 DEF editShopStock
<1>8. CASE wishlistAdd(s) \/ wishlistRemove(s)
  <2>1. PICK k \in {"wishlist-add", "wishlist-remove"}, w \in Wishes : Accept(s, [kind |-> k, wish |-> w])
    <3>1. db[Sheet].wishlist \subseteq Wishes
      BY Sheets DEF SheetFields
    <3>2. QED BY <1>8, <3>1 DEF wishlistAdd, wishlistRemove
  <2>2. [kind |-> k, wish |-> w] \in WishJobs
    BY DEF WishJobs
  <2>3. QED BY <2>1, <2>2, NothingIsOwed DEF Welcome
<1>9. CASE startGameSession(s)
  <2>1. PICK g \in Sessions, endCurrentFirst \in BOOLEAN :
          Accept(s, [kind |-> "start-game-session", row |-> g, demotes |-> endCurrentFirst,
                     ended |-> Current, number |-> NumberOfDb])
    BY <1>9 DEF startGameSession, NumberOfDb
  <2>2. NumberOfDb \in Nat
    BY Numbers, After DEF NumberOfDb
  <2> DEFINE j == [kind |-> "start-game-session", row |-> g, demotes |-> endCurrentFirst,
                   ended |-> Current, number |-> NumberOfDb]
  <2>3. j \in StartJobs
    BY <2>2, CurrentAreSessions DEF StartJobs
  <2>4. j.number = NumberOfDb /\ j.kind = "start-game-session"
    OBVIOUS
  <2>5. QED BY <2>1, <2>3, <2>4 DEF Welcome, Jobs, Owed, Idle
<1>10. CASE endGameSession(s)
  <2>1. [kind |-> "end-game-session", demotes |-> TRUE, ended |-> Current] \in EndJobs
    BY CurrentAreSessions DEF EndJobs
  <2>2. QED BY <1>10, <2>1, NothingIsOwed DEF Welcome, endGameSession
<1>11. QED
  BY <1>1, <1>2, <1>4, <1>5, <1>6, <1>7, <1>8, <1>9, <1>10 DEF Begin

-----------------------------------------------------------------------------
(* The rows of each table.                                                 *)

LEMMA DbRows ==
  ASSUME Shapes
  PROVE  /\ \A d \in Definitions : db[d] # NoRow => db[d] \in Homebrew
         /\ \A i \in Items : db[i] # NoRow => db[i] \in Item
         /\ \A g \in Sessions : db[g] # NoRow => db[g] \in Session
         /\ \A e \in Entries : db[e] # NoRow => db[e] \in Entry
         /\ db[Shop] # NoRow => db[Shop] \in ShopFields
         /\ db[PartyRow] # NoRow /\ db[PartyRow] \in PartyFields
         /\ db[Sheet] # NoRow /\ db[Sheet] \in SheetFields
<1>1. \A r \in Rows : db[r] # NoRow => db[r] \in RowType(r)
  BY DEF Shapes, TypeOK, Existing
<1>2. {Sheet, PartyRow} \subseteq Existing(Rows)
  BY DEF Shapes, TypeOK
<1>3. ASSUME NEW r, r \in Definitions \union Items \union Sessions \union Entries \union {Shop, Sheet, PartyRow},
             db[r] # NoRow
      PROVE  db[r] \in RowType(r)
  BY <1>1, <1>3 DEF Rows
<1>4. db[Sheet] # NoRow /\ db[PartyRow] # NoRow
  BY <1>2 DEF Existing
<1>5. QED BY <1>3, <1>4, Tables

LEMMA WrittenRows ==
  ASSUME Shapes, NEW s \in Slots
  PROVE  /\ \A d \in Definitions : d \in Written(s) => writes[s][d] = NoRow \/ writes[s][d] \in Homebrew
         /\ \A i \in Items : i \in Written(s) => writes[s][i] = NoRow \/ writes[s][i] \in Item
         /\ \A g \in Sessions : g \in Written(s) => writes[s][g] = NoRow \/ writes[s][g] \in Session
         /\ \A e \in Entries : e \in Written(s) => writes[s][e] = NoRow \/ writes[s][e] \in Entry
<1>1. \A r \in Written(s) : writes[s][r] = NoRow \/ writes[s][r] \in RowType(r)
  BY DEF Shapes
<1>2. QED BY <1>1, Tables

-----------------------------------------------------------------------------
(* What each kind of request has written, table by table.                  *)

\* Each request is of one kind.
LEMMA Classes ==
  ASSUME NEW j \in Jobs
  PROVE  \/ j = Idle \/ j \in FieldJobs \/ j \in InsertJobs \/ j \in DeleteJobs \/ j \in ShopJobs
         \/ j \in BatchJobs \/ j \in WishJobs \/ j \in StartJobs \/ j \in EndJobs
BY DEF Jobs

\* A row that a patch is merged into: the fields of the patch, and the others.
LEMMA Merging ==
  ASSUME NEW R, NEW p \in Some(R), NEW row, NEW m, m = Merge(row, p)
  PROVE  /\ DOMAIN m = DOMAIN row /\ m = [f \in DOMAIN row |-> m[f]]
         /\ \E x \in R : /\ DOMAIN p \subseteq DOMAIN x
                         /\ \A f \in DOMAIN p : p[f] = x[f]
                         /\ \A f \in DOMAIN row : m[f] = IF f \in DOMAIN p THEN x[f] ELSE row[f]
<1>1. m = [f \in DOMAIN row |-> IF f \in DOMAIN p THEN p[f] ELSE row[f]]
  BY DEF Merge
<1>2. DOMAIN m = DOMAIN row /\ m = [f \in DOMAIN row |-> m[f]]
  BY <1>1
<1>3. PICK x \in R : DOMAIN p \subseteq DOMAIN x /\ \A f \in DOMAIN p : p[f] = x[f]
  BY SomeOf
<1>4. \A f \in DOMAIN row : m[f] = IF f \in DOMAIN p THEN x[f] ELSE row[f]
  BY <1>1, <1>3
<1>5. QED BY <1>2, <1>3, <1>4

\* What is merged into a row of each table.
LEMMA HomebrewMerged ==
  ASSUME NEW row \in Homebrew, NEW p \in Some([text : Texts, cost : Prices]), NEW m, m = Merge(row, p)
  PROVE  m \in Homebrew /\ (row.cost # NoRow => m.cost # NoRow)
<1> DEFINE R == [text : Texts, cost : Prices]
<1>1. DOMAIN row = {"text", "cost"} /\ \A x \in R : DOMAIN x = {"text", "cost"} /\ x.text \in Texts /\ x.cost \in Prices
  BY DEF Homebrew
<1>2. PICK x \in R : /\ m = [f \in DOMAIN row |-> m[f]]
                     /\ \A f \in DOMAIN row : m[f] = IF f \in DOMAIN p THEN x[f] ELSE row[f]
  <2>1. p \in Some(R)
    OBVIOUS
  <2> HIDE DEF R
  <2>2. QED BY <2>1, Merging
<1>3. m = [f \in {"text", "cost"} |-> m[f]] /\ (m.text = x.text \/ m.text = row.text) /\ (m.cost = x.cost \/ m.cost = row.cost)
  BY <1>1, <1>2
<1>4. x.text \in Texts /\ x.cost \in Prices /\ row.text \in Texts /\ row.cost \in Prices \union {NoRow}
  BY <1>1 DEF Homebrew
<1>5. x.cost # NoRow
  BY <1>4, NoRowAssumption
<1> HIDE DEF R
<1>6. QED BY <1>3, <1>4, <1>5 DEF Homebrew

LEMMA ItemMerged ==
  ASSUME NEW row \in Item, NEW p \in Some([identified : BOOLEAN]), NEW m, m = Merge(row, p)
  PROVE  m \in Item /\ m.of = row.of
<1> DEFINE R == [identified : BOOLEAN]
<1>1. DOMAIN row = {"of", "shared", "identified"} /\ \A x \in R : DOMAIN x = {"identified"} /\ x.identified \in BOOLEAN
  BY DEF Item
<1>2. PICK x \in R : /\ DOMAIN p \subseteq DOMAIN x /\ m = [f \in DOMAIN row |-> m[f]]
                     /\ \A f \in DOMAIN row : m[f] = IF f \in DOMAIN p THEN x[f] ELSE row[f]
  <2>1. p \in Some(R)
    OBVIOUS
  <2> HIDE DEF R
  <2>2. QED BY <2>1, Merging
<1>3. /\ m = [f \in {"of", "shared", "identified"} |-> m[f]] /\ m.of = row.of /\ m.shared = row.shared
      /\ m.identified = x.identified \/ m.identified = row.identified
  BY <1>1, <1>2
<1>4. x.identified \in BOOLEAN /\ row.of \in Definitions /\ row.shared \in BOOLEAN /\ row.identified \in BOOLEAN
  BY <1>1 DEF Item
<1> HIDE DEF R
<1>5. QED BY <1>3, <1>4 DEF Item

Notes == [notes : Texts]

LEMMA SessionMerged ==
  ASSUME NEW row \in Session, NEW p \in Some(Notes), NEW m, m = Merge(row, p)
  PROVE  m \in Session /\ m.number = row.number /\ m.current = row.current
<1> DEFINE R == Notes
<1>1. DOMAIN row = {"number", "current", "notes"} /\ \A x \in R : DOMAIN x = {"notes"} /\ x.notes \in Texts
  BY DEF Session, Notes
<1>2. PICK x \in R : /\ DOMAIN p \subseteq DOMAIN x /\ m = [f \in DOMAIN row |-> m[f]]
                     /\ \A f \in DOMAIN row : m[f] = IF f \in DOMAIN p THEN x[f] ELSE row[f]
  <2>1. p \in Some(R)
    OBVIOUS
  <2> HIDE DEF R
  <2>2. QED BY <2>1, Merging
<1>3. /\ m = [f \in {"number", "current", "notes"} |-> m[f]] /\ m.number = row.number /\ m.current = row.current
      /\ m.notes = x.notes \/ m.notes = row.notes
  BY <1>1, <1>2
<1>4. x.notes \in Texts /\ row.number \in Nat /\ row.current \in BOOLEAN /\ row.notes \in Texts \union {NoRow}
  BY <1>1 DEF Session
<1> HIDE DEF R
<1>5. QED BY <1>3, <1>4 DEF Session

Stocks == [override : Prices \union {NoRow}, quantity : Texts]

LEMMA EntryMerged ==
  ASSUME NEW row \in Entry, NEW p \in Some(Stocks), NEW m, m = Merge(row, p)
  PROVE  /\ m \in Entry /\ m.of = row.of
         /\ m.override = IF "override" \in DOMAIN p THEN p["override"] ELSE row.override
<1> DEFINE R == Stocks
<1>1. /\ DOMAIN row = {"of", "override", "quantity"}
      /\ \A x \in R : DOMAIN x = {"override", "quantity"} /\ x.override \in Prices \union {NoRow} /\ x.quantity \in Texts
  BY DEF Entry, Stocks
<1>2. PICK x \in R : /\ DOMAIN p \subseteq DOMAIN x /\ m = [f \in DOMAIN row |-> m[f]]
                     /\ \A f \in DOMAIN p : p[f] = x[f]
                     /\ \A f \in DOMAIN row : m[f] = IF f \in DOMAIN p THEN x[f] ELSE row[f]
  <2>1. p \in Some(R)
    OBVIOUS
  <2> HIDE DEF R
  <2>2. QED BY <2>1, Merging
<1>3. /\ m = [f \in {"of", "override", "quantity"} |-> m[f]] /\ m.of = row.of
      /\ m.override = (IF "override" \in DOMAIN p THEN p["override"] ELSE row.override)
      /\ (m.override = x.override \/ m.override = row.override)
      /\ (m.quantity = x.quantity \/ m.quantity = row.quantity)
  BY <1>1, <1>2
<1>4. /\ x.override \in Prices \union {NoRow} /\ x.quantity \in Texts /\ row.of \in Definitions
      /\ row.override \in Prices \union {NoRow} /\ row.quantity \in Texts
  BY <1>1 DEF Entry
<1> HIDE DEF R
<1>5. m \in Entry
  BY <1>3, <1>4 DEF Entry
<1>6. QED BY <1>3, <1>5

LEMMA ShopMerged ==
  ASSUME NEW row \in ShopFields, NEW p, p \in Some([text : Texts]) \/ p \in Some([open : BOOLEAN]), NEW m, m = Merge(row, p)
  PROVE  m \in ShopFields
<1>1. /\ DOMAIN row = {"text", "open"} /\ row.text \in Texts /\ row.open \in BOOLEAN
  BY DEF ShopFields
<1>2. CASE p \in Some([text : Texts])
  <2> DEFINE R == [text : Texts]
  <2>1. \A x \in R : DOMAIN x = {"text"} /\ x.text \in Texts
    OBVIOUS
  <2>2. PICK x \in R : /\ DOMAIN p \subseteq DOMAIN x /\ m = [f \in DOMAIN row |-> m[f]]
                       /\ \A f \in DOMAIN row : m[f] = IF f \in DOMAIN p THEN x[f] ELSE row[f]
    <3>1. p \in Some(R)
      BY <1>2
    <3> HIDE DEF R
    <3>2. QED BY <3>1, Merging
  <2>3. m = [f \in {"text", "open"} |-> m[f]] /\ m.open = row.open /\ (m.text = x.text \/ m.text = row.text) /\ x.text \in Texts
    BY <1>1, <2>1, <2>2
  <2> HIDE DEF R
  <2>4. QED BY <1>1, <2>3 DEF ShopFields
<1>3. CASE p \in Some([open : BOOLEAN])
  <2> DEFINE R == [open : BOOLEAN]
  <2>1. \A x \in R : DOMAIN x = {"open"} /\ x.open \in BOOLEAN
    OBVIOUS
  <2>2. PICK x \in R : /\ DOMAIN p \subseteq DOMAIN x /\ m = [f \in DOMAIN row |-> m[f]]
                       /\ \A f \in DOMAIN row : m[f] = IF f \in DOMAIN p THEN x[f] ELSE row[f]
    <3>1. p \in Some(R)
      BY <1>3
    <3> HIDE DEF R
    <3>2. QED BY <3>1, Merging
  <2>3. m = [f \in {"text", "open"} |-> m[f]] /\ m.text = row.text /\ (m.open = x.open \/ m.open = row.open) /\ x.open \in BOOLEAN
    BY <1>1, <2>1, <2>2
  <2> HIDE DEF R
  <2>4. QED BY <1>1, <2>3 DEF ShopFields
<1>4. QED BY <1>2, <1>3

LEMMA SheetMerged ==
  ASSUME NEW row \in SheetFields, NEW p, p \in Some([name : Texts]) \/ p \in Some([class : Texts, level : Texts]),
         NEW m, m = Merge(row, p)
  PROVE  m \in SheetFields
<1>1. DOMAIN row = {"name", "class", "level", "wishlist"} /\ row.name \in Texts /\ row.class \in Texts /\ row.level \in Texts /\ row.wishlist \in SUBSET Wishes
  BY DEF SheetFields
<1>2. CASE p \in Some([name : Texts])
  <2> DEFINE R == [name : Texts]
  <2>1. \A x \in R : DOMAIN x = {"name"} /\ x.name \in Texts
    OBVIOUS
  <2>2. PICK x \in R : /\ DOMAIN p \subseteq DOMAIN x /\ m = [f \in DOMAIN row |-> m[f]]
                       /\ \A f \in DOMAIN row : m[f] = IF f \in DOMAIN p THEN x[f] ELSE row[f]
    <3>1. p \in Some(R)
      BY <1>2
    <3> HIDE DEF R
    <3>2. QED BY <3>1, Merging
  <2>3. /\ m = [f \in {"name", "class", "level", "wishlist"} |-> m[f]] /\ m.class = row.class /\ m.level = row.level /\ m.wishlist = row.wishlist
        /\ (m.name = x.name \/ m.name = row.name) /\ x.name \in Texts
    BY <1>1, <2>1, <2>2
  <2> HIDE DEF R
  <2>4. QED BY <1>1, <2>3 DEF SheetFields
<1>3. CASE p \in Some([class : Texts, level : Texts])
  <2> DEFINE R == [class : Texts, level : Texts]
  <2>1. \A x \in R : DOMAIN x = {"class", "level"} /\ x.class \in Texts /\ x.level \in Texts
    OBVIOUS
  <2>2. PICK x \in R : /\ DOMAIN p \subseteq DOMAIN x /\ m = [f \in DOMAIN row |-> m[f]]
                       /\ \A f \in DOMAIN row : m[f] = IF f \in DOMAIN p THEN x[f] ELSE row[f]
    <3>1. p \in Some(R)
      BY <1>3
    <3> HIDE DEF R
    <3>2. QED BY <3>1, Merging
  <2>3. /\ m = [f \in {"name", "class", "level", "wishlist"} |-> m[f]] /\ m.name = row.name /\ m.wishlist = row.wishlist
        /\ (m.class = x.class \/ m.class = row.class) /\ x.class \in Texts /\ (m.level = x.level \/ m.level = row.level) /\ x.level \in Texts
    BY <1>1, <2>1, <2>2
  <2> HIDE DEF R
  <2>4. QED BY <1>1, <2>3 DEF SheetFields
<1>4. QED BY <1>1, <1>2, <1>3

LEMMA PartyMerged ==
  ASSUME NEW row \in PartyFields, NEW p, p \in Some([name : Texts]) \/ p \in Some([rule : Texts]) \/ p \in Some([economy : Texts]),
         NEW m, m = Merge(row, p)
  PROVE  m \in PartyFields
<1>1. DOMAIN row = {"name", "rule", "economy"} /\ row.name \in Texts /\ row.rule \in Texts /\ row.economy \in Texts
  BY DEF PartyFields
<1>2. CASE p \in Some([name : Texts])
  <2> DEFINE R == [name : Texts]
  <2>1. \A x \in R : DOMAIN x = {"name"} /\ x.name \in Texts
    OBVIOUS
  <2>2. PICK x \in R : /\ DOMAIN p \subseteq DOMAIN x /\ m = [f \in DOMAIN row |-> m[f]]
                       /\ \A f \in DOMAIN row : m[f] = IF f \in DOMAIN p THEN x[f] ELSE row[f]
    <3>1. p \in Some(R)
      BY <1>2
    <3> HIDE DEF R
    <3>2. QED BY <3>1, Merging
  <2>3. /\ m = [f \in {"name", "rule", "economy"} |-> m[f]] /\ m.rule = row.rule /\ m.economy = row.economy
        /\ (m.name = x.name \/ m.name = row.name) /\ x.name \in Texts
    BY <1>1, <2>1, <2>2
  <2> HIDE DEF R
  <2>4. QED BY <1>1, <2>3 DEF PartyFields
<1>3. CASE p \in Some([rule : Texts])
  <2> DEFINE R == [rule : Texts]
  <2>1. \A x \in R : DOMAIN x = {"rule"} /\ x.rule \in Texts
    OBVIOUS
  <2>2. PICK x \in R : /\ DOMAIN p \subseteq DOMAIN x /\ m = [f \in DOMAIN row |-> m[f]]
                       /\ \A f \in DOMAIN row : m[f] = IF f \in DOMAIN p THEN x[f] ELSE row[f]
    <3>1. p \in Some(R)
      BY <1>3
    <3> HIDE DEF R
    <3>2. QED BY <3>1, Merging
  <2>3. /\ m = [f \in {"name", "rule", "economy"} |-> m[f]] /\ m.name = row.name /\ m.economy = row.economy
        /\ (m.rule = x.rule \/ m.rule = row.rule) /\ x.rule \in Texts
    BY <1>1, <2>1, <2>2
  <2> HIDE DEF R
  <2>4. QED BY <1>1, <2>3 DEF PartyFields
<1>4. CASE p \in Some([economy : Texts])
  <2> DEFINE R == [economy : Texts]
  <2>1. \A x \in R : DOMAIN x = {"economy"} /\ x.economy \in Texts
    OBVIOUS
  <2>2. PICK x \in R : /\ DOMAIN p \subseteq DOMAIN x /\ m = [f \in DOMAIN row |-> m[f]]
                       /\ \A f \in DOMAIN row : m[f] = IF f \in DOMAIN p THEN x[f] ELSE row[f]
    <3>1. p \in Some(R)
      BY <1>4
    <3> HIDE DEF R
    <3>2. QED BY <3>1, Merging
  <2>3. /\ m = [f \in {"name", "rule", "economy"} |-> m[f]] /\ m.name = row.name /\ m.rule = row.rule
        /\ (m.economy = x.economy \/ m.economy = row.economy) /\ x.economy \in Texts
    BY <1>1, <2>1, <2>2
  <2> HIDE DEF R
  <2>4. QED BY <1>1, <2>3 DEF PartyFields
<1>5. QED BY <1>1, <1>2, <1>3, <1>4

\* Fields of a row are set: the row stays a row of its table.
LEMMA FieldSet ==
  ASSUME NEW j \in FieldJobs, NEW row \in RowType(j.row), NEW new, new = Changed(row, j)
  PROVE  /\ j.row \in Rows /\ new \in RowType(j.row)
         /\ j.row \in Definitions => (row.cost # NoRow => new.cost # NoRow)
         /\ j.row \in Items => new.of = row.of
         /\ j.row \in Sessions => new.number = row.number /\ new.current = row.current
         /\ j.row \in Entries => /\ j.kind = "stock-update" /\ new.of = row.of
                                 /\ new.override = IF "override" \in DOMAIN j.patch THEN j.patch["override"] ELSE row.override
<1>1. new = Merge(row, j.patch)
  BY DEF Changed
<1>2. CASE j.row \in Definitions
  <2>1. row \in Homebrew /\ RowType(j.row) = Homebrew /\ j.row \notin Items \union Sessions \union Entries /\ j.row \in Rows
    BY <1>2, Tables, TablesAssumption DEF Rows
  <2>2. j.patch \in Some([text : Texts, cost : Prices])
    BY <1>2, TablesAssumption DEF FieldJobs, Fields, Edit
  <2>3. QED BY <1>1, <2>1, <2>2, HomebrewMerged
<1>3. CASE j.row \in Items
  <2>1. row \in Item /\ RowType(j.row) = Item /\ j.row \notin Definitions \union Sessions \union Entries /\ j.row \in Rows
    BY <1>3, Tables, TablesAssumption DEF Rows
  <2>2. j.patch \in Some([identified : BOOLEAN])
    BY <1>3, TablesAssumption DEF FieldJobs, Fields, Edit
  <2>3. QED BY <1>1, <2>1, <2>2, ItemMerged
<1>4. CASE j.row \in Sessions
  <2>1. row \in Session /\ RowType(j.row) = Session /\ j.row \notin Definitions \union Items \union Entries /\ j.row \in Rows
    BY <1>4, Tables, TablesAssumption DEF Rows
  <2>2. j.patch \in Some(Notes)
    BY <1>4, TablesAssumption DEF FieldJobs, Fields, Edit, Notes
  <2>3. new \in Session /\ new.number = row.number /\ new.current = row.current
    BY <1>1, <2>1, <2>2, SessionMerged
  <2>4. QED BY <1>4, <2>1, <2>3
<1>5. CASE j.row \in Entries
  <2>1. row \in Entry /\ RowType(j.row) = Entry /\ j.row \notin Definitions \union Items \union Sessions /\ j.row \in Rows
    BY <1>5, Tables, TablesAssumption DEF Rows
  <2>2. j.patch \in Some(Stocks) /\ j.kind = "stock-update"
    BY <1>5, TablesAssumption DEF FieldJobs, Fields, Edit, Stocks
  <2>3. /\ new \in Entry /\ new.of = row.of
        /\ new.override = IF "override" \in DOMAIN j.patch THEN j.patch["override"] ELSE row.override
    BY <1>1, <2>1, <2>2, EntryMerged
  <2>4. QED BY <1>5, <2>1, <2>2, <2>3
<1>6. CASE j.row \in {Shop, Sheet, PartyRow}
  <2>1. j.row \notin Definitions \union Items \union Sessions \union Entries /\ j.row \in Rows
    BY <1>6, TablesAssumption DEF Rows
  <2>2. CASE j.row = Shop
    <3>1. j.patch \in Some([text : Texts]) \/ j.patch \in Some([open : BOOLEAN])
      BY <2>2, TablesAssumption DEF FieldJobs, Fields, Edit
    <3>2. row \in ShopFields
      BY <2>2, Tables
    <3>3. new \in ShopFields
      BY <1>1, <3>1, <3>2, ShopMerged
    <3>4. QED BY <2>1, <2>2, <3>3, Tables
  <2>3. CASE j.row = Sheet
    <3>1. j.patch \in Some([name : Texts]) \/ j.patch \in Some([class : Texts, level : Texts])
      BY <2>3, TablesAssumption DEF FieldJobs, Fields, Edit
    <3>2. row \in SheetFields
      BY <2>3, Tables
    <3>3. new \in SheetFields
      BY <1>1, <3>1, <3>2, SheetMerged
    <3>4. QED BY <2>1, <2>3, <3>3, Tables
  <2>4. CASE j.row = PartyRow
    <3>1. j.patch \in Some([name : Texts]) \/ j.patch \in Some([rule : Texts]) \/ j.patch \in Some([economy : Texts])
      BY <2>4, TablesAssumption DEF FieldJobs, Fields, Edit
    <3>2. row \in PartyFields
      BY <2>4, Tables
    <3>3. new \in PartyFields
      BY <1>1, <3>1, <3>2, PartyMerged
    <3>4. QED BY <2>1, <2>4, <3>3, Tables
  <2>5. QED BY <1>6, <2>2, <2>3, <2>4
<1>7. j.row \in Definitions \union Items \union Sessions \union Entries \union {Shop, Sheet, PartyRow}
  BY DEF FieldJobs, Fields, Edit
<1>8. QED BY <1>2, <1>3, <1>4, <1>5, <1>6, <1>7

SessionsChange(s) ==
  \A g \in Sessions : g \in Written(s) =>
    /\ writes[s][g] \in Session
    /\ db[g] # NoRow => /\ writes[s][g].number = db[g].number
                        /\ writes[s][g].current => db[g].current
    /\ db[g] = NoRow => job[s] \in StartJobs /\ pc[s] = 5 /\ g = job[s].row
ItemsChange(s) ==
  \A i \in Items : i \in Written(s) /\ writes[s][i] # NoRow =>
    /\ db[i] # NoRow => writes[s][i].of = db[i].of
    /\ db[i] = NoRow => job[s].kind = "acquire" /\ writes[s][i] = job[s].value
HomebrewChanges(s) ==
  \A d \in Definitions : d \in Written(s) /\ writes[s][d] # NoRow /\ db[d] # NoRow =>
    (db[d].cost # NoRow => writes[s][d].cost # NoRow)
StockChanges(s) ==
  \A e \in Entries : e \in Written(s) /\ writes[s][e] # NoRow =>
    /\ job[s].row = e
    /\ db[e] = NoRow => job[s].kind = "stock-add" /\ writes[s][e] = job[s].value
    /\ db[e] # NoRow => /\ job[s].kind = "stock-update"
                        /\ writes[s][e].of = db[e].of
                        /\ writes[s][e].override = IF "override" \in DOMAIN job[s].patch
                                                   THEN job[s].patch["override"] ELSE db[e].override
SheetsStay(s) == \A r \in {Sheet, PartyRow} : r \in Written(s) => writes[s][r] # NoRow
Changes(s) == SessionsChange(s) /\ ItemsChange(s) /\ HomebrewChanges(s) /\ StockChanges(s) /\ SheetsStay(s)

LEMMA NothingChanges ==
  ASSUME NEW s \in Slots, Written(s) = {} PROVE Changes(s)
BY DEF Changes, SessionsChange, ItemsChange, HomebrewChanges, StockChanges, SheetsStay

LEMMA FieldChanges ==
  ASSUME Shapes, NEW s \in Slots, job[s] \in FieldJobs, FieldWritten(s) PROVE Changes(s)
<1> DEFINE j == job[s]
<1>1. CASE Written(s) = {}
  BY <1>1, NothingChanges
<1>2. CASE Written(s) # {}
  <2>1. Written(s) = {j.row} /\ db[j.row] # NoRow /\ writes[s][j.row] = Changed(db[j.row], j)
    BY <1>2 DEF FieldWritten
  <2>2. j.row \in Rows
    BY DEF FieldJobs, Fields, Edit, Rows
  <2>3. db[j.row] \in RowType(j.row)
    BY <2>1, <2>2 DEF Shapes, TypeOK, Existing
  <2>4. PICK new : new = writes[s][j.row]
    OBVIOUS
  <2>5. /\ new \in RowType(j.row)
        /\ j.row \in Definitions => (db[j.row].cost # NoRow => new.cost # NoRow)
        /\ j.row \in Items => new.of = db[j.row].of
        /\ j.row \in Sessions => new.number = db[j.row].number /\ new.current = db[j.row].current
        /\ j.row \in Entries => /\ j.kind = "stock-update" /\ new.of = db[j.row].of
                                /\ new.override = IF "override" \in DOMAIN j.patch THEN j.patch["override"] ELSE db[j.row].override
    BY <2>1, <2>3, <2>4, FieldSet
  <2>6. new # NoRow
    BY <2>2, <2>5, RowsAreRows
  <2>7. \A g \in Sessions : g = j.row => new \in Session
    BY <2>5, Tables
  <2> HIDE DEF j
  <2>8. SessionsChange(s)
    BY <2>1, <2>4, <2>5, <2>7 DEF SessionsChange, j
  <2>9. ItemsChange(s) /\ HomebrewChanges(s)
    BY <2>1, <2>4, <2>5 DEF ItemsChange, HomebrewChanges, j
  <2>10. StockChanges(s)
    BY <2>1, <2>4, <2>5 DEF StockChanges, j
  <2>11. SheetsStay(s)
    BY <2>1, <2>4, <2>6 DEF SheetsStay
  <2>12. QED BY <2>8, <2>9, <2>10, <2>11 DEF Changes
<1>3. QED BY <1>1, <1>2

LEMMA InsertChanges ==
  ASSUME Shapes, NEW s \in Slots, job[s] \in InsertJobs, RowInserted(s) PROVE Changes(s)
<1>1. CASE Written(s) = {}
  BY <1>1, NothingChanges
<1>2. CASE Written(s) # {}
  <2>1. Written(s) = {job[s].row} /\ db[job[s].row] = NoRow /\ writes[s][job[s].row] = job[s].value
    BY <1>2 DEF RowInserted
  <2>2. job[s].row \notin Sessions \union {Sheet, PartyRow}
    BY TablesAssumption DEF InsertJobs
  <2>3. /\ job[s].row \in Entries => job[s].kind = "stock-add"
        /\ job[s].row \in Items => job[s].kind = "acquire"
    BY TablesAssumption DEF InsertJobs
  <2>4. SessionsChange(s) /\ SheetsStay(s)
    BY <2>1, <2>2 DEF SessionsChange, SheetsStay
  <2>5. HomebrewChanges(s)
    BY <2>1 DEF HomebrewChanges
  <2>6. StockChanges(s) /\ ItemsChange(s)
    BY <2>1, <2>3 DEF StockChanges, ItemsChange
  <2>7. QED BY <2>4, <2>5, <2>6 DEF Changes
<1>3. QED BY <1>1, <1>2

LEMMA DeleteChanges ==
  ASSUME Shapes, NEW s \in Slots, \/ job[s] \in DeleteJobs /\ RowDeleted(s)
                                  \/ job[s] \in ShopJobs /\ ShopDeleted(s)
  PROVE  Changes(s)
<1>1. \A r \in Written(s) : writes[s][r] = NoRow
  BY DEF RowDeleted, ShopDeleted
<1>2. \A r \in Written(s) : r \notin Sessions \union {Sheet, PartyRow}
  BY TablesAssumption DEF RowDeleted, ShopDeleted, DeleteJobs
<1>3. SessionsChange(s) /\ SheetsStay(s)
  BY <1>2 DEF SessionsChange, SheetsStay
<1>4. ItemsChange(s) /\ HomebrewChanges(s) /\ StockChanges(s)
  BY <1>1 DEF ItemsChange, HomebrewChanges, StockChanges
<1>5. QED BY <1>3, <1>4 DEF Changes

LEMMA BatchChanges ==
  ASSUME Shapes, NEW s \in Slots, job[s] \in BatchJobs, BatchWritten(s) PROVE Changes(s)
<1>1. CASE Written(s) = {}
  BY <1>1, NothingChanges
<1>2. CASE Written(s) # {}
  <2>1. /\ Written(s) \subseteq Items
        /\ \A i \in Written(s) : db[i] # NoRow /\ writes[s][i] = [db[i] EXCEPT !.identified = job[s].value]
    BY <1>2 DEF BatchWritten
  <2>2. \A r \in Written(s) : r \notin Definitions \union Sessions \union Entries \union {Sheet, PartyRow}
    BY <2>1, TablesAssumption
  <2>3. \A i \in Written(s) : writes[s][i].of = db[i].of
    BY <2>1, DbRows DEF Item
  <2>4. ItemsChange(s)
    BY <2>1, <2>3 DEF ItemsChange
  <2>5. SessionsChange(s) /\ HomebrewChanges(s)
    BY <2>2 DEF SessionsChange, HomebrewChanges
  <2>6. StockChanges(s) /\ SheetsStay(s)
    BY <2>2 DEF StockChanges, SheetsStay
  <2>7. QED BY <2>4, <2>5, <2>6 DEF Changes
<1>3. QED BY <1>1, <1>2

LEMMA WishChanges ==
  ASSUME Shapes, NEW s \in Slots, job[s] \in WishJobs, WishWritten(s) PROVE Changes(s)
<1>1. CASE Written(s) = {}
  BY <1>1, NothingChanges
<1>2. CASE Written(s) # {}
  <2>1. /\ Written(s) = {Sheet}
        /\ writes[s][Sheet] = [db[Sheet] EXCEPT !.wishlist = Wished(job[s], found[s])]
        /\ found[s] \subseteq Wishes
    BY <1>2 DEF WishWritten
  <2>2. Sheet \notin Definitions \union Items \union Sessions \union Entries
    BY TablesAssumption
  <2>3. Wished(job[s], found[s]) \subseteq Wishes
    BY <2>1 DEF Wished, WishJobs
  <2>4. writes[s][Sheet] \in RowType(Sheet)
    <3>1. db[Sheet] \in SheetFields /\ RowType(Sheet) = SheetFields
      BY DbRows, Tables
    <3>2. PICK row : row = db[Sheet]
      OBVIOUS
    <3>3. row \in SheetFields
      BY <3>1, <3>2
    <3>4. [row EXCEPT !.wishlist = Wished(job[s], found[s])]
            = [name |-> row.name, class |-> row.class, level |-> row.level, wishlist |-> Wished(job[s], found[s])]
      BY <3>3 DEF SheetFields
    <3>5. [row EXCEPT !.wishlist = Wished(job[s], found[s])] \in SheetFields
      BY <2>3, <3>3, <3>4 DEF SheetFields
    <3>6. QED BY <2>1, <3>1, <3>2, <3>5
  <2>5. writes[s][Sheet] # NoRow
    BY <2>4, RowsAreRows DEF Rows
  <2>6. SheetsStay(s)
    BY <2>1, <2>5 DEF SheetsStay
  <2>7. SessionsChange(s) /\ ItemsChange(s) /\ HomebrewChanges(s) /\ StockChanges(s)
    BY <2>1, <2>2 DEF SessionsChange, ItemsChange, HomebrewChanges, StockChanges
  <2>8. QED BY <2>6, <2>7 DEF Changes
<1>3. QED BY <1>1, <1>2

\* A session that is no longer current keeps its number.
LEMMA DemotedRows ==
  ASSUME Shapes, NEW s \in Slots, NEW D, Demoted(s, D), NEW g \in D
  PROVE  /\ g \in Sessions /\ db[g] # NoRow /\ db[g] \in Session
         /\ writes[s][g] \in Session /\ writes[s][g].number = db[g].number /\ ~writes[s][g].current
<1>1. g \in Sessions /\ db[g] # NoRow /\ writes[s][g] = [db[g] EXCEPT !.current = FALSE]
  BY DEF Demoted
<1>2. db[g] \in Session
  BY <1>1, DbRows
<1>3. QED BY <1>1, <1>2 DEF Session

LEMMA SessionChanges ==
  ASSUME Shapes, NEW s \in Slots,
         \/ job[s] \in EndJobs /\ SessionEnded(s)
         \/ job[s] \in StartJobs /\ SessionStarted(s)
  PROVE  Changes(s) /\ Written(s) \subseteq Sessions
<1>1. CASE Written(s) = {}
  BY <1>1, NothingChanges
<1>2. ASSUME NEW g, g \in Written(s)
      PROVE  /\ g \in Sessions /\ writes[s][g] \in Session
             /\ db[g] # NoRow => /\ writes[s][g].number = db[g].number
                                 /\ writes[s][g].current => db[g].current
             /\ db[g] = NoRow => job[s] \in StartJobs /\ pc[s] = 5 /\ g = job[s].row
  <2>1. CASE Demoted(s, Written(s))
    BY <1>2, <2>1, DemotedRows
  <2>2. CASE ~Demoted(s, Written(s))
    <3>1. /\ job[s] \in StartJobs /\ pc[s] = 5 /\ Demoted(s, Written(s) \ {job[s].row})
          /\ found[s] \in Nat /\ db[job[s].row] = NoRow
          /\ writes[s][job[s].row] = [number |-> found[s], current |-> TRUE, notes |-> NoRow]
      BY <1>2, <2>2 DEF SessionEnded, SessionStarted
    <3>2. CASE g = job[s].row
      <4>1. g \in Sessions
        BY <3>1, <3>2 DEF StartJobs
      <4>2. [number |-> found[s], current |-> TRUE, notes |-> NoRow] \in Session
        BY <3>1 DEF Session
      <4>3. QED BY <3>1, <3>2, <4>1, <4>2
    <3>3. CASE g # job[s].row
      BY <1>2, <3>1, <3>3, DemotedRows
    <3>4. QED BY <3>2, <3>3
  <2>3. QED BY <2>1, <2>2
<1>3. Written(s) \subseteq Sessions
  BY <1>2
<1>4. \A r \in Written(s) : r \notin Definitions \union Items \union Entries \union {Sheet, PartyRow}
  BY <1>3, TablesAssumption
<1>5. SessionsChange(s)
  BY <1>2 DEF SessionsChange
<1>6. ItemsChange(s) /\ HomebrewChanges(s) /\ StockChanges(s) /\ SheetsStay(s)
  BY <1>4 DEF ItemsChange, HomebrewChanges, StockChanges, SheetsStay
<1>7. QED BY <1>3, <1>5, <1>6 DEF Changes

LEMMA WhatChanges ==
  ASSUME Shapes, NEW s \in Slots, Progress(s) PROVE Changes(s)
<1>1. job[s] \in Jobs
  BY DEF Shapes
<1>2. CASE job[s] = Idle
  BY <1>2, NothingChanges DEF Progress
<1>3. CASE job[s] \in FieldJobs
  BY <1>3, FieldChanges DEF Progress
<1>4. CASE job[s] \in InsertJobs
  BY <1>4, InsertChanges DEF Progress
<1>5. CASE job[s] \in DeleteJobs \/ job[s] \in ShopJobs
  BY <1>5, DeleteChanges DEF Progress
<1>6. CASE job[s] \in BatchJobs
  BY <1>6, BatchChanges DEF Progress
<1>7. CASE job[s] \in WishJobs
  BY <1>7, WishChanges DEF Progress
<1>8. CASE job[s] \in EndJobs \/ job[s] \in StartJobs
  BY <1>8, SessionChanges DEF Progress
<1>9. QED BY <1>1, <1>2, <1>3, <1>4, <1>5, <1>6, <1>7, <1>8, Classes

-----------------------------------------------------------------------------
(* Statements.                                                             *)

\* A statement of s leaves what is committed, and what the others hold.
Moved(s) ==
  /\ UNCHANGED <<db, job, book, stale, gone, desk>>
  /\ pc' = [pc EXCEPT ![s] = pc[s] + 1]
  /\ DOMAIN writes' = Slots /\ DOMAIN found' = Slots /\ exact' \in [Slots -> BOOLEAN]
  /\ \A t \in Slots \ {s} : writes'[t] = writes[t] /\ found'[t] = found[t] /\ exact'[t] = exact[t]
  /\ Written(s) \subseteq DOMAIN writes'[s]
  /\ \A t \in Slots \ {s}, r \in DOMAIN writes'[s] : r \in Written(t) => r \in Written(s)

LEMMA FindMoves ==
  ASSUME Shapes, NEW s \in Slots, NEW kind, NEW n, Issues(s, kind, n), NEW what, Finds(s, what)
  PROVE  Moved(s) /\ writes' = writes /\ exact' = exact /\ found'[s] = what /\ job[s].kind = kind /\ pc[s] = n
BY DEF Shapes, Issues, Finds, Moved, Written

LEMMA WriteMoves ==
  ASSUME Shapes, NEW s \in Slots, NEW kind, NEW n, Issues(s, kind, n), NEW new, Writes(s, new),
         NEW fact \in BOOLEAN, As(s, fact)
  PROVE  /\ Moved(s) /\ found' = found /\ exact'[s] = fact /\ job[s].kind = kind /\ pc[s] = n
         /\ DOMAIN writes'[s] = Written(s) \union DOMAIN new
         /\ \A r \in DOMAIN new : writes'[s][r] = new[r] /\ \A t \in Slots \ {s} : r \notin Written(t)
         /\ \A r \in Written(s) : r \notin DOMAIN new => writes'[s][r] = writes[s][r]
<1> DEFINE after == [r \in Written(s) \union DOMAIN new |-> IF r \in DOMAIN new THEN new[r] ELSE writes[s][r]]
<1>1. writes' = [writes EXCEPT ![s] = after] /\ \A r \in DOMAIN new : Free(s, r)
  BY DEF Writes, Written
<1>2. writes'[s] = after /\ DOMAIN writes' = Slots /\ \A t \in Slots \ {s} : writes'[t] = writes[t]
  <2> HIDE DEF after
  <2>1. QED BY <1>1 DEF Shapes
<1>3. \A r \in DOMAIN new : \A t \in Slots \ {s} : r \notin Written(t)
  BY <1>1 DEF Free, Written
<1>4. exact'[s] = fact /\ exact' \in [Slots -> BOOLEAN] /\ \A t \in Slots \ {s} : exact'[t] = exact[t]
  BY DEF Shapes, As
<1>5. found' = found /\ DOMAIN found' = Slots
  BY DEF Writes, Shapes
<1>6. /\ UNCHANGED <<db, job, book, stale, gone, desk>> /\ pc' = [pc EXCEPT ![s] = pc[s] + 1]
      /\ job[s].kind = kind /\ pc[s] = n
  BY DEF Issues
<1>7. DOMAIN writes'[s] = Written(s) \union DOMAIN new
  BY <1>2
<1>8. Moved(s)
  <2>1. \A t \in Slots \ {s}, r \in DOMAIN writes'[s] : r \in Written(t) => r \in Written(s)
    BY <1>3, <1>7
  <2> HIDE DEF after
  <2>2. QED BY <1>2, <1>4, <1>5, <1>6, <1>7, <2>1 DEF Moved
<1>9. QED BY <1>2, <1>3, <1>4, <1>5, <1>6, <1>7, <1>8

\* Which statements a kind of request issues.
LEMMA Kinds ==
  ASSUME NEW s \in Slots, Statement(s)
  PROVE  \/ job[s].kind \in {"edit-homebrew", "identify", "edit-shop", "set-shop-open", "stock-update",
                             "rename-character", "edit-character", "rename-party", "set-encumbrance",
                             "update-party-economy", "edit-game-session-notes"} /\ Update(s, job[s].kind)
         \/ job[s].kind = "create-homebrew" /\ persistCreateHomebrew(s)
         \/ job[s].kind = "acquire" /\ persistAcquire(s)
         \/ job[s].kind = "create-shop" /\ persistCreateShop(s)
         \/ job[s].kind \in {"stock-add", "stock-remove"} /\ persistEditShopStock(s)
         \/ job[s].kind = "delete-homebrew" /\ persistDeleteHomebrew(s)
         \/ job[s].kind = "consume" /\ persistConsume(s)
         \/ job[s].kind = "delete-shop" /\ persistDeleteShop(s)
         \/ job[s].kind = "identify-batch" /\ persistIdentifyBatch(s)
         \/ job[s].kind = "wishlist-add" /\ persistWishlistAdd(s)
         \/ job[s].kind = "wishlist-remove" /\ persistWishlistRemove(s)
         \/ job[s].kind = "start-game-session" /\ persistStartGameSession(s)
         \/ job[s].kind = "end-game-session" /\ persistEndGameSession(s)
<1>1. /\ persistCreateHomebrew(s) => job[s].kind = "create-homebrew"
      /\ persistAcquire(s) => job[s].kind = "acquire"
      /\ persistCreateShop(s) => job[s].kind = "create-shop"
      /\ persistDeleteHomebrew(s) => job[s].kind = "delete-homebrew"
      /\ persistConsume(s) => job[s].kind = "consume"
      /\ persistDeleteShop(s) => job[s].kind = "delete-shop"
      /\ persistIdentifyBatch(s) => job[s].kind = "identify-batch"
  BY DEF persistCreateHomebrew, persistDeleteHomebrew, persistAcquire, persistConsume,
       persistIdentifyBatch, persistCreateShop, persistDeleteShop, Issues
<1>2. /\ persistWishlistAdd(s) => job[s].kind = "wishlist-add"
      /\ persistWishlistRemove(s) => job[s].kind = "wishlist-remove"
  BY DEF persistWishlistAdd, persistWishlistRemove, persistWishlist, Issues
<1>3. /\ persistStartGameSession(s) => job[s].kind = "start-game-session"
      /\ persistEndGameSession(s) => job[s].kind = "end-game-session"
  BY DEF persistStartGameSession, persistEndGameSession, Demote, Issues
<1>4. persistEditShopStock(s) =>
        \/ job[s].kind \in {"stock-add", "stock-remove"}
        \/ job[s].kind = "stock-update" /\ Update(s, job[s].kind)
  BY DEF persistEditShopStock, Update, Issues
<1>5. ASSUME \/ persistEditHomebrew(s) \/ persistIdentify(s) \/ persistEditShop(s) \/ persistSetShopOpen(s)
             \/ persistRenameCharacter(s) \/ persistEditCharacter(s) \/ persistRenameParty(s)
             \/ persistSetEncumbrance(s) \/ persistUpdatePartyEconomy(s) \/ persistEditGameSessionNotes(s)
      PROVE  /\ job[s].kind \in {"edit-homebrew", "identify", "edit-shop", "set-shop-open", "stock-update",
                                 "rename-character", "edit-character", "rename-party", "set-encumbrance",
                                 "update-party-economy", "edit-game-session-notes"}
             /\ Update(s, job[s].kind)
  BY <1>5 DEF persistEditHomebrew, persistIdentify, persistEditShop, persistSetShopOpen,
       persistRenameCharacter, persistEditCharacter, persistRenameParty, persistSetEncumbrance,
       persistUpdatePartyEconomy, persistEditGameSessionNotes, Update, Issues
<1>6. QED BY <1>1, <1>2, <1>3, <1>4, <1>5 DEF Statement

LEMMA FieldStatement ==
  ASSUME NEW s \in Slots, Statement(s), job[s] \in FieldJobs
  PROVE  Update(s, job[s].kind)
<1>1. job[s].kind \in {"edit-homebrew", "identify", "edit-shop", "set-shop-open", "stock-update", "rename-character",
                       "edit-character", "rename-party", "set-encumbrance", "update-party-economy",
                       "edit-game-session-notes"}
  BY DEF FieldJobs, Fields, Edit
<1>2. QED BY <1>1, Kinds

LEMMA InsertStatement ==
  ASSUME NEW s \in Slots, Statement(s), job[s] \in InsertJobs
  PROVE  /\ Issues(s, job[s].kind, 1) /\ Insert(s, job[s].row, job[s].value)
         /\ job[s].kind = "acquire" => ForeignKey(s, job[s].value.of)
         /\ job[s].kind = "stock-add" => ForeignKey(s, Shop)
<1>1. job[s].kind \in {"create-homebrew", "acquire", "create-shop", "stock-add"}
  BY DEF InsertJobs
<1>2. job[s].kind = "create-shop" => job[s].row = Shop
  BY DEF InsertJobs
<1>3. \/ job[s].kind = "create-homebrew" /\ persistCreateHomebrew(s)
      \/ job[s].kind = "acquire" /\ persistAcquire(s)
      \/ job[s].kind = "create-shop" /\ persistCreateShop(s)
      \/ job[s].kind = "stock-add" /\ persistEditShopStock(s)
  BY <1>1, Kinds
<1>4. QED BY <1>2, <1>3 DEF persistCreateHomebrew, persistAcquire, persistCreateShop, persistEditShopStock, Update, Issues

LEMMA DeleteStatement ==
  ASSUME NEW s \in Slots, Statement(s), job[s] \in DeleteJobs
  PROVE  /\ Issues(s, job[s].kind, 1) /\ Row(s, job[s].row) # NoRow /\ Delete(s, {job[s].row})
         /\ job[s].kind = "delete-homebrew" => \A x \in Rows : ~Refers(x, db[x], job[s].row)
<1>1. job[s].kind \in {"delete-homebrew", "consume", "stock-remove"}
  BY DEF DeleteJobs
<1>2. \/ job[s].kind = "delete-homebrew" /\ persistDeleteHomebrew(s)
      \/ job[s].kind = "consume" /\ persistConsume(s)
      \/ job[s].kind = "stock-remove" /\ persistEditShopStock(s)
  BY <1>1, Kinds
<1>3. QED BY <1>2 DEF persistDeleteHomebrew, persistConsume, persistEditShopStock, Update, Issues

LEMMA OtherStatement ==
  ASSUME NEW s \in Slots, Statement(s)
  PROVE  /\ job[s] \in ShopJobs => persistDeleteShop(s)
         /\ job[s] \in BatchJobs => persistIdentifyBatch(s)
         /\ job[s] \in WishJobs => \/ job[s].kind = "wishlist-add" /\ persistWishlistAdd(s)
                                   \/ job[s].kind = "wishlist-remove" /\ persistWishlistRemove(s)
         /\ job[s] \in StartJobs => persistStartGameSession(s)
         /\ job[s] \in EndJobs => persistEndGameSession(s)
<1>1. /\ job[s] \in ShopJobs => job[s].kind = "delete-shop"
      /\ job[s] \in BatchJobs => job[s].kind = "identify-batch"
      /\ job[s] \in WishJobs => job[s].kind \in {"wishlist-add", "wishlist-remove"}
      /\ job[s] \in StartJobs => job[s].kind = "start-game-session"
      /\ job[s] \in EndJobs => job[s].kind = "end-game-session"
  BY DEF ShopJobs, BatchJobs, WishJobs, StartJobs, EndJobs
<1>2. QED BY <1>1, Kinds

LEMMA IdleStands == ASSUME NEW s \in Slots, Statement(s) PROVE job[s] # Idle
BY Kinds DEF Idle

-----------------------------------------------------------------------------
(* A request makes progress.                                               *)

Typed(s) == \A r \in Written(s) : r \in Rows /\ (writes[s][r] = NoRow \/ writes[s][r] \in RowType(r))

LEMMA AlwaysTyped == ASSUME Shapes, NEW s \in Slots PROVE Typed(s)
BY DEF Shapes, TypeOK, Typed, Written

\* What a request that has written nothing sees is what is committed.
LEMMA SeesDb ==
  ASSUME NEW s \in Slots, Written(s) = {} PROVE \A r : Row(s, r) = db[r]
BY DEF Row, Written

LEMMA ExactStays ==
  ASSUME Shapes, NEW s \in Slots, UNCHANGED exact PROVE As(s, exact[s]) /\ exact[s] \in BOOLEAN
BY DEF Shapes, As

\* The comparison that a request makes with its log entries.
LEMMA AsFact ==
  ASSUME NEW s \in Slots, NEW a, NEW b, As(s, a = b)
  PROVE  \E fact \in BOOLEAN : As(s, fact) /\ (fact => a = b)
<1>1. CASE a = b
  <2>1. As(s, TRUE)
    BY <1>1 DEF As
  <2>2. QED BY <1>1, <2>1
<1>2. CASE a # b
  <2>1. As(s, FALSE)
    BY <1>2 DEF As
  <2>2. QED BY <2>1
<1>3. QED BY <1>1, <1>2

LEMMA FieldProgress ==
  ASSUME Shapes, NEW s \in Slots, Statement(s), job[s] \in FieldJobs, FieldWritten(s)
  PROVE  Moved(s) /\ FieldWritten(s)' /\ Typed(s)'
<1> DEFINE j == job[s]
           row == Changed(Row(s, j.row), j)
           new == [x \in {j.row} |-> row]
           told == Retold(j, Row(s, j.row), row)
<1>1. Update(s, j.kind)
  BY FieldStatement
<1>2. Issues(s, j.kind, 1) /\ Row(s, j.row) # NoRow /\ Writes(s, new) /\ As(s, row = told)
  BY <1>1 DEF Update, Changed
<1>3. pc[s] = 1 /\ Written(s) = {}
  BY <1>2 DEF Issues, FieldWritten
<1>4. db[j.row] # NoRow /\ Row(s, j.row) = db[j.row]
  BY <1>2, <1>3, SeesDb
<1>5. PICK fact \in BOOLEAN : As(s, fact) /\ (fact => row = told)
  <2> HIDE DEF row, told
  <2>1. QED BY <1>2, AsFact
<1>6. /\ Moved(s) /\ exact'[s] = fact /\ DOMAIN writes'[s] = Written(s) \union DOMAIN new
      /\ \A r \in DOMAIN new : writes'[s][r] = new[r]
  <2> HIDE DEF j, new, row, told
  <2>1. QED BY <1>2, <1>5, WriteMoves
<1>7. DOMAIN writes'[s] = {j.row} /\ writes'[s][j.row] = Changed(db[j.row], j)
  BY <1>3, <1>4, <1>6
<1>8. exact'[s] => writes'[s][j.row] = Retold(j, db[j.row], writes'[s][j.row])
  BY <1>4, <1>5, <1>6, <1>7
<1>9. pc'[s] = 2 /\ UNCHANGED <<db, job>>
  BY <1>3, <1>6 DEF Moved, Shapes
<1>10. FieldWritten(s)'
  BY <1>4, <1>7, <1>8, <1>9 DEF FieldWritten, Written
<1>11. Typed(s)'
  <2>1. j.row \in Rows
    BY DEF FieldJobs, Fields, Edit, Rows
  <2>2. db[j.row] \in RowType(j.row)
    BY <1>4, <2>1 DEF Shapes, TypeOK, Existing
  <2>3. Changed(db[j.row], j) \in RowType(j.row)
    BY <2>2, FieldSet
  <2> HIDE DEF j
  <2>4. QED BY <1>7, <2>1, <2>3 DEF Typed, Written
<1>12. QED BY <1>6, <1>10, <1>11

LEMMA InsertProgress ==
  ASSUME Shapes, NEW s \in Slots, Statement(s), job[s] \in InsertJobs, RowInserted(s)
  PROVE  Moved(s) /\ RowInserted(s)' /\ Typed(s)'
<1> DEFINE j == job[s]
           new == [x \in {j.row} |-> j.value]
<1>1. Issues(s, j.kind, 1) /\ Row(s, j.row) = NoRow /\ UNCHANGED exact /\ Writes(s, new)
  BY InsertStatement DEF Insert
<1>2. pc[s] = 1 /\ Written(s) = {}
  BY <1>1 DEF Issues, RowInserted
<1>3. db[j.row] = NoRow
  BY <1>1, <1>2, SeesDb
<1>4. /\ Moved(s) /\ DOMAIN writes'[s] = Written(s) \union DOMAIN new
      /\ \A r \in DOMAIN new : writes'[s][r] = new[r]
  <2> HIDE DEF j, new
  <2>1. As(s, exact[s]) /\ exact[s] \in BOOLEAN
    BY <1>1, ExactStays
  <2>2. QED BY <1>1, <2>1, WriteMoves
<1>5. DOMAIN writes'[s] = {j.row} /\ writes'[s][j.row] = j.value
  BY <1>2, <1>4
<1>6. pc'[s] = 2 /\ UNCHANGED <<db, job>>
  BY <1>2, <1>4 DEF Moved, Shapes
<1>7. RowInserted(s)'
  BY <1>3, <1>5, <1>6 DEF RowInserted, Written
<1>8. Typed(s)'
  <2>1. j.row \in Rows /\ j.value \in RowType(j.row)
    BY Tables DEF InsertJobs, Rows
  <2> HIDE DEF j
  <2>2. QED BY <1>5, <2>1 DEF Typed, Written
<1>9. QED BY <1>4, <1>7, <1>8

LEMMA DeleteProgress ==
  ASSUME Shapes, NEW s \in Slots, Statement(s), job[s] \in DeleteJobs, RowDeleted(s)
  PROVE  Moved(s) /\ RowDeleted(s)' /\ Typed(s)'
<1> DEFINE j == job[s]
           new == [x \in {j.row} |-> NoRow]
<1>1. Issues(s, j.kind, 1) /\ UNCHANGED exact /\ Writes(s, new)
  BY DeleteStatement DEF Delete
<1>2. pc[s] = 1 /\ Written(s) = {}
  BY <1>1 DEF Issues, RowDeleted
<1>3. /\ Moved(s) /\ DOMAIN writes'[s] = Written(s) \union DOMAIN new
      /\ \A r \in DOMAIN new : writes'[s][r] = new[r]
  <2> HIDE DEF j, new
  <2>1. As(s, exact[s]) /\ exact[s] \in BOOLEAN
    BY <1>1, ExactStays
  <2>2. QED BY <1>1, <2>1, WriteMoves
<1>4. DOMAIN writes'[s] = {j.row} /\ writes'[s][j.row] = NoRow
  BY <1>2, <1>3
<1>5. pc'[s] = 2 /\ UNCHANGED <<db, job>>
  BY <1>2, <1>3 DEF Moved, Shapes
<1>6. RowDeleted(s)'
  BY <1>4, <1>5 DEF RowDeleted, Written
<1>7. Typed(s)'
  <2>1. j.row \in Rows
    BY DEF DeleteJobs, Rows
  <2> HIDE DEF j
  <2>2. QED BY <1>4, <2>1 DEF Typed, Written
<1>8. QED BY <1>3, <1>6, <1>7

LEMMA ShopProgress ==
  ASSUME Shapes, NEW s \in Slots, Statement(s), job[s] \in ShopJobs, ShopDeleted(s)
  PROVE  Moved(s) /\ ShopDeleted(s)' /\ Typed(s)'
<1> DEFINE S == {Shop} \union Existing(Entries)
           new == [x \in S |-> NoRow]
<1>1. Issues(s, "delete-shop", 1) /\ UNCHANGED exact /\ Writes(s, new)
  BY OtherStatement DEF persistDeleteShop, Delete
<1>2. pc[s] = 1 /\ Written(s) = {}
  BY <1>1 DEF Issues, ShopDeleted
<1>3. /\ Moved(s) /\ DOMAIN writes'[s] = Written(s) \union DOMAIN new
      /\ \A r \in DOMAIN new : writes'[s][r] = new[r]
  <2> HIDE DEF new
  <2>1. As(s, exact[s]) /\ exact[s] \in BOOLEAN
    BY <1>1, ExactStays
  <2>2. QED BY <1>1, <2>1, WriteMoves
<1>4. DOMAIN writes'[s] = S /\ \A r \in S : writes'[s][r] = NoRow
  BY <1>2, <1>3
<1>5. pc'[s] = 2 /\ UNCHANGED <<db, job>>
  BY <1>2, <1>3 DEF Moved, Shapes
<1>6. S \subseteq {Shop} \union Entries /\ \A e \in Entries : e \notin S => db[e] = NoRow
  BY DEF Existing
<1>7. ShopDeleted(s)'
  <2> HIDE DEF S
  <2>1. Shop \in S
    BY DEF S
  <2>2. QED BY <1>4, <1>5, <1>6, <2>1 DEF ShopDeleted, Written
<1>8. Typed(s)'
  BY <1>4, <1>6 DEF Typed, Written, Rows
<1>9. QED BY <1>3, <1>7, <1>8

LEMMA BatchProgress ==
  ASSUME Shapes, NEW s \in Slots, Statement(s), job[s] \in BatchJobs, BatchWritten(s)
  PROVE  Moved(s) /\ BatchWritten(s)' /\ Typed(s)'
<1> DEFINE j == job[s]
           Matches(row) == row # NoRow /\ row.of = j.row /\ row.shared /\ row.identified # j.value
           updated == {i \in found[s] : Matches(Row(s, i))}
           new == [i \in updated |-> [Row(s, i) EXCEPT !.identified = j.value]]
           what == {i \in Items : Matches(Row(s, i))}
<1>1. \/ Issues(s, "identify-batch", 1) /\ Finds(s, what)
      \/ Issues(s, "identify-batch", 2) /\ Writes(s, new) /\ As(s, updated = j.affected)
  BY OtherStatement DEF persistIdentifyBatch
<1>2. CASE Issues(s, "identify-batch", 1) /\ Finds(s, what)
  <2> HIDE DEF j, new, what
  <2>1. Moved(s) /\ writes' = writes /\ found'[s] = what /\ pc[s] = 1
    BY <1>2, FindMoves
  <2>2. what \subseteq Items
    BY DEF what
  <2>3. pc'[s] = 2 /\ UNCHANGED <<db, job>>
    BY <2>1 DEF Moved, Shapes
  <2>4. BatchWritten(s)'
    BY <2>1, <2>2, <2>3 DEF BatchWritten, Written
  <2>5. Typed(s)'
    BY <2>1, AlwaysTyped DEF Typed, Written
  <2>6. QED BY <2>1, <2>4, <2>5
<1>3. CASE Issues(s, "identify-batch", 2) /\ Writes(s, new) /\ As(s, updated = j.affected)
  <2>1. pc[s] = 2 /\ Written(s) = {} /\ found[s] \subseteq Items
    BY <1>3 DEF Issues, BatchWritten
  <2>2. PICK fact \in BOOLEAN : As(s, fact) /\ (fact => updated = j.affected)
    <3> HIDE DEF j, updated
    <3>1. QED BY <1>3, AsFact
  <2>3. /\ Moved(s) /\ exact'[s] = fact /\ found' = found
        /\ DOMAIN writes'[s] = Written(s) \union DOMAIN new
        /\ \A r \in DOMAIN new : writes'[s][r] = new[r]
    <3> HIDE DEF j, new, updated
    <3>1. QED BY <1>3, <2>2, WriteMoves
  <2>4. \A i \in updated : i \in Items /\ db[i] # NoRow /\ Row(s, i) = db[i]
    BY <2>1, SeesDb
  <2>5. DOMAIN writes'[s] = updated /\ \A i \in updated : writes'[s][i] = [db[i] EXCEPT !.identified = j.value]
    BY <2>1, <2>3, <2>4
  <2>6. pc'[s] = 3 /\ UNCHANGED <<db, job>>
    BY <2>1, <2>3 DEF Moved, Shapes
  <2>7. BatchWritten(s)'
    <3> HIDE DEF updated
    <3>1. QED BY <2>2, <2>3, <2>4, <2>5, <2>6 DEF BatchWritten, Written
  <2>8. Typed(s)'
    <3>1. ASSUME NEW i \in updated PROVE i \in Rows /\ writes'[s][i] \in RowType(i)
      <4>1. i \in Items /\ db[i] \in Item /\ RowType(i) = Item
        BY <2>4, <3>1, DbRows, Tables
      <4>2. j.value \in BOOLEAN
        BY DEF BatchJobs
      <4>3. writes'[s][i] = [db[i] EXCEPT !.identified = j.value]
        BY <2>5, <3>1
      <4> HIDE DEF j, updated
      <4>4. QED BY <4>1, <4>2, <4>3 DEF Item, Rows
    <3> HIDE DEF updated
    <3>2. QED BY <2>5, <3>1 DEF Typed, Written
  <2>9. QED BY <2>3, <2>7, <2>8
<1>4. QED BY <1>1, <1>2, <1>3

LEMMA WishProgress ==
  ASSUME Shapes, NEW s \in Slots, Statement(s), job[s] \in WishJobs, WishWritten(s)
  PROVE  Moved(s) /\ WishWritten(s)' /\ Typed(s)'
<1> DEFINE j == job[s]
           what == Row(s, Sheet).wishlist
           new == [x \in {Sheet} |-> [Row(s, x) EXCEPT !.wishlist = Wished(j, found[s])]]
<1>1. \/ Issues(s, j.kind, 1) /\ Finds(s, what)
      \/ Issues(s, j.kind, 2) /\ Writes(s, new) /\ As(s, found[s] = what)
  <2>1. CASE j.kind = "wishlist-add" /\ persistWishlistAdd(s)
    <3>1. Wished(j, found[s]) = found[s] \union {j.wish}
      BY <2>1 DEF Wished
    <3>2. QED BY <2>1, <3>1 DEF persistWishlistAdd, persistWishlist
  <2>2. CASE j.kind = "wishlist-remove" /\ persistWishlistRemove(s)
    <3>1. Wished(j, found[s]) = found[s] \ {j.wish}
      BY <2>2 DEF Wished
    <3>2. QED BY <2>2, <3>1 DEF persistWishlistRemove, persistWishlist
  <2>3. QED BY <2>1, <2>2, OtherStatement
<1>2. CASE Issues(s, j.kind, 1) /\ Finds(s, what)
  <2>1. Moved(s) /\ writes' = writes /\ found'[s] = what /\ pc[s] = 1
    <3> HIDE DEF j, new, what
    <3>1. QED BY <1>2, FindMoves
  <2>2. Written(s) = {}
    BY <2>1 DEF WishWritten
  <2>3. what \subseteq Wishes
    BY <2>2, SeesDb, DbRows DEF SheetFields
  <2>4. pc'[s] = 2 /\ UNCHANGED <<db, job>>
    BY <2>1 DEF Moved, Shapes
  <2>5. WishWritten(s)'
    BY <2>1, <2>2, <2>3, <2>4 DEF WishWritten, Written
  <2>6. Typed(s)'
    BY <2>1, AlwaysTyped DEF Typed, Written
  <2>7. QED BY <2>1, <2>5, <2>6
<1>3. CASE Issues(s, j.kind, 2) /\ Writes(s, new) /\ As(s, found[s] = what)
  <2>1. pc[s] = 2 /\ Written(s) = {} /\ found[s] \subseteq Wishes
    BY <1>3 DEF Issues, WishWritten
  <2>2. PICK fact \in BOOLEAN : As(s, fact) /\ (fact => found[s] = what)
    <3> HIDE DEF j, what
    <3>1. QED BY <1>3, AsFact
  <2>3. /\ Moved(s) /\ exact'[s] = fact /\ found' = found
        /\ DOMAIN writes'[s] = Written(s) \union DOMAIN new
        /\ \A r \in DOMAIN new : writes'[s][r] = new[r]
    <3> HIDE DEF j, new, what
    <3>1. QED BY <1>3, <2>2, WriteMoves
  <2>4. Row(s, Sheet) = db[Sheet]
    BY <2>1, SeesDb
  <2>5. DOMAIN writes'[s] = {Sheet} /\ writes'[s][Sheet] = [db[Sheet] EXCEPT !.wishlist = Wished(j, found[s])]
    BY <2>1, <2>3, <2>4
  <2>6. pc'[s] = 3 /\ UNCHANGED <<db, job>>
    BY <2>1, <2>3 DEF Moved, Shapes
  <2>7. fact => found[s] = db[Sheet].wishlist
    BY <2>2, <2>4
  <2>8. WishWritten(s)'
    BY <2>1, <2>3, <2>5, <2>6, <2>7 DEF WishWritten, Written, Wished
  <2>9. Typed(s)'
    <3>1. Wished(j, found[s]) \subseteq Wishes
      BY <2>1 DEF Wished, WishJobs
    <3>2. writes'[s][Sheet] \in RowType(Sheet)
      <4>1. PICK row : row = db[Sheet]
        OBVIOUS
      <4>2. row \in SheetFields
        BY <4>1, DbRows
      <4>3. PICK list : list = Wished(j, found[s])
        OBVIOUS
      <4>4. [row EXCEPT !.wishlist = list] = [name |-> row.name, class |-> row.class, level |-> row.level, wishlist |-> list]
        BY <4>2 DEF SheetFields
      <4>5. [row EXCEPT !.wishlist = list] \in SheetFields
        BY <3>1, <4>2, <4>3, <4>4 DEF SheetFields
      <4>6. QED BY <2>5, <4>1, <4>3, <4>5, Tables
    <3>3. QED BY <2>5, <3>2 DEF Typed, Written, Rows
  <2>10. QED BY <2>3, <2>8, <2>9
<1>4. QED BY <1>1, <1>2, <1>3

LEMMA DemoteProgress ==
  ASSUME Shapes, NEW s \in Slots, NEW kind, Demote(s, kind),
         (pc[s] = 1 /\ Written(s) = {}) \/ (pc[s] = 2 /\ Written(s) = {} /\ found[s] \subseteq Sessions)
  PROVE  /\ Moved(s) /\ Typed(s)'
         /\ \/ pc'[s] = 2 /\ Written(s)' = {} /\ found'[s] \subseteq Sessions
            \/ pc'[s] = 3 /\ Demoted(s, Written(s))'
<1> DEFINE j == job[s]
           demoted == {g \in found[s] : IsCurrent(s, g)}
           new == [g \in demoted |-> [Row(s, g) EXCEPT !.current = FALSE]]
           what == {g \in Sessions : IsCurrent(s, g) /\ j.demotes}
<1>1. \/ Issues(s, kind, 1) /\ Finds(s, what)
      \/ Issues(s, kind, 2) /\ Writes(s, new) /\ As(s, demoted = j.ended)
  BY DEF Demote
<1>2. CASE Issues(s, kind, 1) /\ Finds(s, what)
  <2>1. what \subseteq Sessions
    OBVIOUS
  <2>2. Moved(s) /\ writes' = writes /\ found'[s] = what /\ pc[s] = 1
    <3> HIDE DEF j, what
    <3>1. QED BY <1>2, FindMoves
  <2>3. pc'[s] = 2
    BY <2>2 DEF Moved, Shapes
  <2>4. Written(s)' = {}
    BY <2>2 DEF Written
  <2>5. Typed(s)'
    BY <2>4 DEF Typed
  <2>6. QED BY <2>1, <2>2, <2>3, <2>4, <2>5
<1>3. CASE Issues(s, kind, 2) /\ Writes(s, new) /\ As(s, demoted = j.ended)
  <2>1. pc[s] = 2 /\ Written(s) = {} /\ found[s] \subseteq Sessions
    BY <1>3 DEF Issues
  <2>2. PICK fact \in BOOLEAN : As(s, fact) /\ (fact => demoted = j.ended)
    <3> HIDE DEF j, demoted
    <3>1. QED BY <1>3, AsFact
  <2>3. /\ Moved(s) /\ exact'[s] = fact
        /\ DOMAIN writes'[s] = Written(s) \union DOMAIN new
        /\ \A r \in DOMAIN new : writes'[s][r] = new[r]
    <3> HIDE DEF j, new, demoted
    <3>1. QED BY <1>3, <2>2, WriteMoves
  <2>4. \A g \in demoted : g \in Sessions /\ db[g] # NoRow /\ Row(s, g) = db[g]
    BY <2>1, SeesDb DEF IsCurrent
  <2>5. DOMAIN writes'[s] = demoted /\ \A g \in demoted : writes'[s][g] = [db[g] EXCEPT !.current = FALSE]
    BY <2>1, <2>3, <2>4
  <2>6. pc'[s] = 3 /\ UNCHANGED <<db, job>>
    BY <2>1, <2>3 DEF Moved, Shapes
  <2> HIDE DEF demoted
  <2>7. Demoted(s, Written(s))'
    BY <2>2, <2>3, <2>4, <2>5, <2>6 DEF Demoted, Written
  <2>8. Typed(s)'
    <3>1. ASSUME NEW g \in demoted PROVE g \in Rows /\ writes'[s][g] \in RowType(g)
      <4>1. g \in Sessions /\ db[g] \in Session /\ RowType(g) = Session
        BY <2>4, <3>1, DbRows, Tables
      <4>2. writes'[s][g] = [db[g] EXCEPT !.current = FALSE]
        BY <2>5, <3>1
      <4>3. QED BY <4>1, <4>2 DEF Session, Rows
    <3>2. QED BY <2>5, <3>1 DEF Typed, Written
  <2>9. QED BY <2>3, <2>6, <2>7, <2>8
<1>4. QED BY <1>1, <1>2, <1>3

LEMMA EndProgress ==
  ASSUME Shapes, NEW s \in Slots, Statement(s), job[s] \in EndJobs, SessionEnded(s)
  PROVE  Moved(s) /\ SessionEnded(s)' /\ Typed(s)'
<1>1. Demote(s, "end-game-session")
  BY OtherStatement DEF persistEndGameSession
<1>2. pc[s] \in {1, 2}
  BY <1>1 DEF Demote, Issues
<1>3. (pc[s] = 1 /\ Written(s) = {}) \/ (pc[s] = 2 /\ Written(s) = {} /\ found[s] \subseteq Sessions)
  BY <1>2 DEF SessionEnded
<1>4. /\ Moved(s) /\ Typed(s)'
      /\ \/ pc'[s] = 2 /\ Written(s)' = {} /\ found'[s] \subseteq Sessions
         \/ pc'[s] = 3 /\ Demoted(s, Written(s))'
  BY <1>1, <1>3, DemoteProgress
<1>5. QED BY <1>4 DEF SessionEnded

\* Demoting a session does not change the number of the next.
LEMMA NumbersStay ==
  ASSUME Shapes, NEW s \in Slots, Demoted(s, Written(s))
  PROVE  NextNumber(s) = NumberOfDb
<1>1. \A g \in Sessions : (Row(s, g) # NoRow) <=> (db[g] # NoRow)
  <2>1. ASSUME NEW g \in Sessions, g \in Written(s) PROVE Row(s, g) = writes[s][g]
    BY <2>1 DEF Row, Written
  <2>2. ASSUME NEW g \in Sessions, g \notin Written(s) PROVE Row(s, g) = db[g]
    BY <2>2 DEF Row, Written
  <2>3. \A row \in Session : \A g \in Sessions : row # NoRow
    BY Tables, RowsAreRows DEF Rows
  <2>4. QED BY <2>1, <2>2, <2>3, DemotedRows
<1>2. \A g \in Sessions : db[g] # NoRow => Row(s, g).number = db[g].number
  BY DemotedRows DEF Row, Written
<1>3. {Row(s, g).number : g \in {h \in Sessions : Row(s, h) # NoRow}} = {db[g].number : g \in Existing(Sessions)}
  BY <1>1, <1>2 DEF Existing
<1>4. QED BY <1>3 DEF NextNumber, NumberOfDb

LEMMA AsBoth ==
  ASSUME Shapes, NEW s \in Slots, NEW a, NEW b, As(s, exact[s] /\ a = b)
  PROVE  \E fact \in BOOLEAN : As(s, fact) /\ (fact => exact[s] /\ a = b)
<1>1. CASE exact[s] /\ a = b
  <2>1. As(s, TRUE)
    BY <1>1 DEF As
  <2>2. QED BY <1>1, <2>1
<1>2. CASE ~(exact[s] /\ a = b)
  <2>1. As(s, FALSE)
    BY <1>2 DEF As
  <2>2. QED BY <2>1
<1>3. QED BY <1>1, <1>2

LEMMA StartProgress ==
  ASSUME Shapes, NEW s \in Slots, Statement(s), job[s] \in StartJobs, SessionStarted(s)
  PROVE  Moved(s) /\ SessionStarted(s)' /\ Typed(s)'
<1> DEFINE j == job[s]
           g == job[s].row
           new == [x \in {g} |-> [number |-> found[s], current |-> TRUE, notes |-> NoRow]]
<1>1. \/ Demote(s, "start-game-session")
      \/ Issues(s, "start-game-session", 3) /\ Finds(s, NextNumber(s))
      \/ /\ Issues(s, "start-game-session", 4) /\ AllowsCurrent(s) /\ Row(s, g) = NoRow
         /\ Writes(s, new) /\ As(s, exact[s] /\ j.number = NextNumber(s))
  BY OtherStatement DEF persistStartGameSession
<1>2. j.number \in Nat /\ g \in Sessions /\ j.number <= NumberOfDb
  BY DEF StartJobs, SessionStarted
<1>3. NumberOfDb \in Nat /\ \A h \in Existing(Sessions) : db[h].number < NumberOfDb
  BY Numbers, After DEF NumberOfDb
<1>4. CASE Demote(s, "start-game-session")
  <2>1. pc[s] \in {1, 2}
    BY <1>4 DEF Demote, Issues
  <2>2. (pc[s] = 1 /\ Written(s) = {}) \/ (pc[s] = 2 /\ Written(s) = {} /\ found[s] \subseteq Sessions)
    BY <2>1 DEF SessionStarted
  <2>3. /\ Moved(s) /\ Typed(s)'
        /\ \/ pc'[s] = 2 /\ Written(s)' = {} /\ found'[s] \subseteq Sessions
           \/ pc'[s] = 3 /\ Demoted(s, Written(s))'
    BY <1>4, <2>2, DemoteProgress
  <2>4. (job[s].number <= NumberOfDb)'
    BY <1>2, <2>3 DEF Moved, NumberOfDb, Existing
  <2>5. QED BY <2>3, <2>4 DEF SessionStarted
<1>5. CASE Issues(s, "start-game-session", 3) /\ Finds(s, NextNumber(s))
  <2>1. Moved(s) /\ writes' = writes /\ exact' = exact /\ found'[s] = NextNumber(s) /\ pc[s] = 3
    BY <1>5, FindMoves
  <2>2. Demoted(s, Written(s))
    BY <2>1 DEF SessionStarted
  <2>3. found'[s] = NumberOfDb
    BY <2>1, <2>2, NumbersStay
  <2>4. pc'[s] = 4 /\ UNCHANGED <<db, job>>
    BY <2>1 DEF Moved, Shapes
  <2>5. Demoted(s, Written(s))'
    BY <2>1, <2>2, <2>4 DEF Demoted, Written
  <2>6. NumberOfDb' = NumberOfDb
    BY <2>4 DEF NumberOfDb, Existing
  <2>7. SessionStarted(s)'
    BY <1>2, <1>3, <2>3, <2>4, <2>5, <2>6 DEF SessionStarted
  <2>8. Typed(s)'
    BY <2>1, AlwaysTyped DEF Typed, Written
  <2>9. QED BY <2>1, <2>7, <2>8
<1>6. CASE /\ Issues(s, "start-game-session", 4) /\ AllowsCurrent(s) /\ Row(s, g) = NoRow
           /\ Writes(s, new) /\ As(s, exact[s] /\ j.number = NextNumber(s))
  <2>1. pc[s] = 4
    BY <1>6 DEF Issues
  <2>2. Demoted(s, Written(s)) /\ found[s] \in Nat /\ j.number <= found[s] /\ found[s] <= NumberOfDb
    BY <2>1 DEF SessionStarted
  <2>3. PICK fact \in BOOLEAN : As(s, fact) /\ (fact => exact[s] /\ j.number = NextNumber(s))
    <3> HIDE DEF j
    <3>1. QED BY <1>6, AsBoth
  <2>4. /\ Moved(s) /\ exact'[s] = fact /\ found' = found
        /\ DOMAIN writes'[s] = Written(s) \union DOMAIN new
        /\ \A r \in DOMAIN new : writes'[s][r] = new[r]
        /\ \A r \in Written(s) : r \notin DOMAIN new => writes'[s][r] = writes[s][r]
    <3> HIDE DEF j, new
    <3>1. QED BY <1>6, <2>3, WriteMoves
  <2>5. g \notin Written(s) /\ db[g] = NoRow
    <3>1. ASSUME g \in Written(s) PROVE FALSE
      <4>1. writes[s][g] \in Session /\ writes[s][g] = NoRow
        BY <1>6, <2>2, <3>1, DemotedRows DEF Row, Written
      <4>2. QED BY <1>2, <4>1, Tables, RowsAreRows DEF Rows
    <3>2. QED BY <1>6, <3>1 DEF Row, Written
  <2>6. /\ DOMAIN writes'[s] = Written(s) \union {g}
        /\ writes'[s][g] = [number |-> found[s], current |-> TRUE, notes |-> NoRow]
        /\ \A r \in Written(s) : writes'[s][r] = writes[s][r]
    BY <2>4, <2>5
  <2>7. pc'[s] = 5 /\ UNCHANGED <<db, job>>
    BY <2>1, <2>4 DEF Moved, Shapes
  <2>8. fact => found[s] = j.number /\ \A h \in Existing(Sessions) : db[h].number < found[s]
    <3>1. ASSUME fact PROVE found[s] = NumberOfDb /\ found[s] = j.number
      <4>1. j.number = NumberOfDb
        BY <2>2, <2>3, <3>1, NumbersStay
      <4>2. QED BY <1>2, <1>3, <2>2, <4>1
    <3>2. QED BY <1>3, <3>1
  <2>9. Demoted(s, Written(s) \ {g})'
    <3>1. (Written(s) \ {g})' = Written(s)
      BY <2>5, <2>6, <2>7 DEF Written
    <3>2. \A h \in Written(s) : db[h] # NoRow /\ writes'[s][h] = [db[h] EXCEPT !.current = FALSE]
      BY <2>2, <2>6 DEF Demoted
    <3>3. fact => Written(s) = job[s].ended
      BY <2>2, <2>3 DEF Demoted
    <3>4. QED BY <2>2, <2>4, <2>7, <3>1, <3>2, <3>3 DEF Demoted
  <2>10. NumberOfDb' = NumberOfDb /\ Existing(Sessions)' = Existing(Sessions)
    BY <2>7 DEF NumberOfDb, Existing
  <2>11. SessionStarted(s)'
    <3>1. (g \in Written(s))'
      BY <2>6, <2>7 DEF Written
    <3>2. writes'[s][job'[s].row] = [number |-> found'[s], current |-> TRUE, notes |-> NoRow]
      BY <2>4, <2>6, <2>7
    <3>3. QED BY <1>2, <2>2, <2>4, <2>5, <2>7, <2>8, <2>9, <2>10, <3>1, <3>2 DEF SessionStarted
  <2>12. Typed(s)'
    <3>1. [number |-> found[s], current |-> TRUE, notes |-> NoRow] \in Session
      BY <2>2 DEF Session
    <3>2. RowType(g) = Session /\ g \in Rows
      BY <1>2, Tables DEF Rows
    <3>3. writes'[s][g] \in RowType(g)
      BY <2>6, <3>1, <3>2
    <3>4. ASSUME NEW r \in Written(s)' PROVE r \in Rows /\ (writes'[s][r] = NoRow \/ writes'[s][r] \in RowType(r))
      BY <2>6, <3>2, <3>3, <3>4, AlwaysTyped DEF Typed, Written
    <3>5. QED BY <3>4 DEF Typed
  <2>13. QED BY <2>4, <2>11, <2>12
<1>7. QED BY <1>1, <1>4, <1>5, <1>6

\* No request is of two kinds.
LEMMA Apart ==
  /\ FieldJobs \intersect (InsertJobs \union DeleteJobs \union ShopJobs \union BatchJobs \union WishJobs \union EndJobs \union StartJobs) = {}
  /\ InsertJobs \intersect (DeleteJobs \union ShopJobs \union BatchJobs \union WishJobs \union EndJobs \union StartJobs) = {}
  /\ DeleteJobs \intersect (ShopJobs \union BatchJobs \union WishJobs \union EndJobs \union StartJobs) = {}
  /\ ShopJobs \intersect (BatchJobs \union WishJobs \union EndJobs \union StartJobs) = {}
  /\ BatchJobs \intersect (WishJobs \union EndJobs \union StartJobs) = {}
  /\ WishJobs \intersect (EndJobs \union StartJobs) = {}
  /\ EndJobs \intersect (StartJobs) = {}
BY DEF FieldJobs, Fields, Edit, InsertJobs, DeleteJobs, ShopJobs, BatchJobs, WishJobs, EndJobs, StartJobs

\* A statement leads the request on, and writes rows of the right tables.
LEMMA StatementProgress ==
  ASSUME Shapes, NEW s \in Slots, Progress(s), Statement(s)
  PROVE  Moved(s) /\ Progress(s)' /\ Typed(s)'
<1> DEFINE j == job[s]
<1>1. j \in Jobs /\ j # Idle
  BY IdleStands DEF Shapes
<1>2. CASE j \in FieldJobs
  <2>1. Moved(s) /\ FieldWritten(s)' /\ Typed(s)'
    BY <1>2, FieldProgress DEF Progress
  <2>2. QED BY <1>1, <1>2, <2>1, Apart DEF Progress, Moved
<1>3. CASE j \in InsertJobs
  <2>1. Moved(s) /\ RowInserted(s)' /\ Typed(s)'
    BY <1>3, InsertProgress DEF Progress
  <2>2. QED BY <1>1, <1>3, <2>1, Apart DEF Progress, Moved
<1>4. CASE j \in DeleteJobs
  <2>1. Moved(s) /\ RowDeleted(s)' /\ Typed(s)'
    BY <1>4, DeleteProgress DEF Progress
  <2>2. QED BY <1>1, <1>4, <2>1, Apart DEF Progress, Moved
<1>5. CASE j \in ShopJobs
  <2>1. Moved(s) /\ ShopDeleted(s)' /\ Typed(s)'
    BY <1>5, ShopProgress DEF Progress
  <2>2. QED BY <1>1, <1>5, <2>1, Apart DEF Progress, Moved
<1>6. CASE j \in BatchJobs
  <2>1. Moved(s) /\ BatchWritten(s)' /\ Typed(s)'
    BY <1>6, BatchProgress DEF Progress
  <2>2. QED BY <1>1, <1>6, <2>1, Apart DEF Progress, Moved
<1>7. CASE j \in WishJobs
  <2>1. Moved(s) /\ WishWritten(s)' /\ Typed(s)'
    BY <1>7, WishProgress DEF Progress
  <2>2. QED BY <1>1, <1>7, <2>1, Apart DEF Progress, Moved
<1>8. CASE j \in EndJobs
  <2>1. Moved(s) /\ SessionEnded(s)' /\ Typed(s)'
    BY <1>8, EndProgress DEF Progress
  <2>2. QED BY <1>1, <1>8, <2>1, Apart DEF Progress, Moved
<1>9. CASE j \in StartJobs
  <2>1. Moved(s) /\ SessionStarted(s)' /\ Typed(s)'
    BY <1>9, StartProgress DEF Progress
  <2>2. QED BY <1>1, <1>9, <2>1, Apart DEF Progress, Moved
<1>10. QED BY <1>1, <1>2, <1>3, <1>4, <1>5, <1>6, <1>7, <1>8, <1>9, Classes

-----------------------------------------------------------------------------
(* What others hold stays.                                                 *)

LEMMA ProgressStays ==
  ASSUME NEW t \in Slots, Progress(t), db' = db, writes'[t] = writes[t], job'[t] = job[t], pc'[t] = pc[t],
         found'[t] = found[t], exact'[t] = exact[t]
  PROVE  Progress(t)'
<1>1. Written(t)' = Written(t)
  BY DEF Written
<1>2. /\ FieldWritten(t)' = FieldWritten(t) /\ RowInserted(t)' = RowInserted(t)
      /\ RowDeleted(t)' = RowDeleted(t) /\ ShopDeleted(t)' = ShopDeleted(t)
      /\ BatchWritten(t)' = BatchWritten(t) /\ WishWritten(t)' = WishWritten(t)
  BY <1>1 DEF FieldWritten, RowInserted, RowDeleted, ShopDeleted, BatchWritten, WishWritten
<1>3. SessionEnded(t)' = SessionEnded(t) /\ SessionStarted(t)' = SessionStarted(t)
  BY <1>1 DEF SessionEnded, SessionStarted, Demoted, NumberOfDb, Existing
<1>4. QED BY <1>1, <1>2, <1>3 DEF Progress

\* Who deletes the shop, and who deletes a definition.
LEMMA ShopIsGoing ==
  ASSUME Shapes, NEW s \in Slots, Progress(s), Going(s, Shop) PROVE job[s] \in ShopJobs /\ pc[s] = 2
<1>1. job[s] \in Jobs /\ Shop \in Written(s) /\ writes[s][Shop] = NoRow
  BY DEF Shapes, Going
<1>2. CASE job[s] \in FieldJobs
  <2>1. Written(s) = {job[s].row} /\ db[Shop] # NoRow /\ writes[s][Shop] = Changed(db[Shop], job[s]) /\ job[s].row = Shop
    BY <1>1, <1>2 DEF Progress, FieldWritten
  <2>2. db[Shop] \in RowType(Shop)
    BY <2>1, DbRows, Tables
  <2>3. Changed(db[Shop], job[s]) \in RowType(Shop)
    BY <1>2, <2>1, <2>2, FieldSet
  <2>4. QED BY <1>1, <2>1, <2>3, RowsAreRows DEF Rows
<1>3. CASE job[s] \in InsertJobs
  <2>1. job[s].row = Shop /\ job[s].value = NoRow
    BY <1>1, <1>3 DEF Progress, RowInserted
  <2>2. job[s].value \in RowType(Shop)
    BY <1>3, <2>1, Tables, TablesAssumption DEF InsertJobs
  <2>3. QED BY <2>1, <2>2, RowsAreRows DEF Rows
<1>4. CASE job[s] \in DeleteJobs
  BY <1>1, <1>4, TablesAssumption DEF Progress, RowDeleted, DeleteJobs
<1>5. CASE job[s] \in BatchJobs \union WishJobs
  BY <1>1, <1>5, TablesAssumption DEF Progress, BatchWritten, WishWritten
<1>6. CASE job[s] \in StartJobs \union EndJobs
  BY <1>1, <1>6, SessionChanges, TablesAssumption DEF Progress
<1>7. CASE job[s] \in ShopJobs
  BY <1>1, <1>7 DEF Progress, ShopDeleted
<1>8. QED BY <1>1, <1>2, <1>3, <1>4, <1>5, <1>6, <1>7, Classes DEF Progress

LEMMA HomebrewIsGoing ==
  ASSUME Shapes, NEW s \in Slots, Progress(s), NEW d \in Definitions, Going(s, d)
  PROVE  job[s] \in DeleteJobs /\ job[s].kind = "delete-homebrew" /\ job[s].row = d
<1>1. job[s] \in Jobs /\ d \in Written(s) /\ writes[s][d] = NoRow /\ d \in Rows
  BY DEF Shapes, Going, Rows
<1>2. CASE job[s] \in FieldJobs
  <2>1. Written(s) = {job[s].row} /\ db[d] # NoRow /\ writes[s][d] = Changed(db[d], job[s]) /\ job[s].row = d
    BY <1>1, <1>2 DEF Progress, FieldWritten
  <2>2. db[d] \in RowType(d)
    BY <2>1, DbRows, Tables
  <2>3. Changed(db[d], job[s]) \in RowType(d)
    BY <1>2, <2>1, <2>2, FieldSet
  <2>4. QED BY <1>1, <2>1, <2>3, RowsAreRows
<1>3. CASE job[s] \in InsertJobs
  <2>1. job[s].row = d /\ job[s].value = NoRow
    BY <1>1, <1>3 DEF Progress, RowInserted
  <2>2. job[s].value \in RowType(d)
    BY <1>3, <2>1, Tables, TablesAssumption DEF InsertJobs
  <2>3. QED BY <1>1, <2>1, <2>2, RowsAreRows
<1>4. CASE job[s] \in DeleteJobs
  BY <1>1, <1>4, TablesAssumption DEF Progress, RowDeleted, DeleteJobs
<1>5. CASE job[s] \in BatchJobs \union WishJobs \union ShopJobs
  BY <1>1, <1>5, TablesAssumption DEF Progress, BatchWritten, WishWritten, ShopDeleted
<1>6. CASE job[s] \in StartJobs \union EndJobs
  BY <1>1, <1>6, SessionChanges, TablesAssumption DEF Progress
<1>7. QED BY <1>1, <1>2, <1>3, <1>4, <1>5, <1>6, Classes DEF Progress

-----------------------------------------------------------------------------
(* A request is accepted.                                                  *)

LEMMA BeginStep ==
  ASSUME CampaignInv, NEW s \in Slots, Begin(s) PROVE CampaignInv'
<1>1. Shapes /\ (\A t \in Slots : Progress(t)) /\ OneWriter /\ ShopHeld /\ ItemsHeld /\ PricesHold
      /\ OneCurrent /\ Numbered /\ Exactness /\ RowsAsLogged
  BY DEF CampaignInv
<1>2. PICK j : Welcome(s, j)
  BY <1>1, Accepted
<1>3. /\ j \in Jobs /\ j # Idle /\ Owed(j) /\ job[s] = Idle
      /\ job' = [job EXCEPT ![s] = j] /\ pc' = [pc EXCEPT ![s] = 1] /\ exact' = [exact EXCEPT ![s] = TRUE]
      /\ UNCHANGED <<db, writes, found, book, stale, gone>>
  BY <1>1, <1>2, AcceptFacts DEF Welcome
<1>4. /\ job'[s] = j /\ pc'[s] = 1 /\ Written(s)' = {}
      /\ \A t \in Slots \ {s} : job'[t] = job[t] /\ pc'[t] = pc[t] /\ exact'[t] = exact[t]
      /\ job' \in [Slots -> Jobs] /\ DOMAIN pc' = Slots /\ exact' \in [Slots -> BOOLEAN]
  BY <1>1, <1>3 DEF Shapes, Progress, Written
<1>5. TypeOK'
  <2>1. desk' = desk
    BY <1>2 DEF Welcome, Accept
  <2>2. QED BY <1>1, <1>3, <2>1 DEF Shapes, TypeOK, Existing
<1>6. Shapes'
  BY <1>1, <1>3, <1>4, <1>5 DEF Shapes, Written
<1>7. ASSUME NEW t \in Slots PROVE Progress(t)'
  <2>1. CASE t # s
    <3>1. writes'[t] = writes[t] /\ found'[t] = found[t] /\ db' = db
      BY <1>3
    <3>2. QED BY <1>1, <1>4, <2>1, <3>1, ProgressStays
  <2>2. CASE t = s
    <3>1. j \in StartJobs => (j.number <= NumberOfDb)'
      <4>1. NumberOfDb' = NumberOfDb
        BY <1>3 DEF NumberOfDb, Existing
      <4>2. NumberOfDb \in Nat
        BY <1>1, Numbers, After DEF NumberOfDb
      <4>3. j \in StartJobs => j.number = NumberOfDb
        BY <1>3 DEF Owed
      <4>4. QED BY <4>1, <4>2, <4>3
    <3>2. QED BY <1>3, <1>4, <2>2, <3>1 DEF Progress, FieldWritten, RowInserted, RowDeleted, ShopDeleted, BatchWritten,
                                           WishWritten, SessionEnded, SessionStarted
  <2>3. QED BY <2>1, <2>2
<1>8. OneWriter' /\ ShopHeld' /\ ItemsHeld' /\ OneCurrent' /\ Numbered' /\ RowsAsLogged'
  BY <1>1, <1>3 DEF OneWriter, ShopHeld, ItemsHeld, OneCurrent, Claims, Numbered, RowsAsLogged, Going, Written, Existing, Current
<1>9. PricesHold'
  <2>1. \A e, d, o : Priced(e, d, o)' = Priced(e, d, o)
    BY <1>3 DEF Priced
  <2>2. \A e \in Existing(Entries)' : Priced(e, db[e].of, db[e].override)'
    BY <1>1, <1>3 DEF Priced, PricesHold, Existing
  <2>3. ASSUME NEW t \in Slots, job'[t].kind = "stock-add"
        PROVE  Priced(job[t].value.of, job[t].value.of, job[t].value.override)'
    <3>1. CASE t = s
      BY <1>3, <1>4, <2>3, <3>1 DEF Owed, Priced
    <3>2. CASE t # s
      BY <1>1, <1>3, <1>4, <2>3, <3>2 DEF Priced, PricesHold
    <3>3. QED BY <3>1, <3>2
  <2>4. ASSUME NEW t \in Slots, job'[t].kind = "stock-update" /\ "override" \in DOMAIN job'[t].patch
        PROVE  (\/ job[t].row \in gone
                \/ db[job[t].row] # NoRow /\ Priced(job[t].row, db[job[t].row].of, job[t].patch["override"]))'
    <3>1. CASE t = s
      <4>1. j.row \in Entries
        <5>1. j.kind = "stock-update"
          BY <1>4, <2>4, <3>1
        <5>2. QED BY <1>3, <5>1 DEF Jobs, FieldJobs, Fields, Edit, InsertJobs, DeleteJobs, ShopJobs, BatchJobs, WishJobs, StartJobs, EndJobs
      <4>2. Priced(j.row, db[j.row].of, db[j.row].override)
        BY <1>1, <1>3, <1>4, <2>4, <3>1, <4>1 DEF Owed, PricesHold, Existing
      <4>3. QED BY <1>3, <1>4, <2>4, <3>1, <4>2 DEF Owed, Priced
    <3>2. CASE t # s
      BY <1>1, <1>3, <1>4, <2>4, <3>2 DEF Priced, PricesHold
    <3>3. QED BY <3>1, <3>2
  <2>5. QED BY <2>2, <2>3, <2>4 DEF PricesHold
<1>10. Exactness'
  <2>1. exact'[s]
    BY <1>1, <1>3 DEF Shapes
  <2>2. QED BY <1>1, <1>4, <2>1 DEF Exactness
<1>11. QED BY <1>6, <1>7, <1>8, <1>9, <1>10 DEF CampaignInv

-----------------------------------------------------------------------------
(* What a request has written is known from its progress, before a step    *)
(* and after it.                                                           *)

Understood ==
  \A s \in Slots : Shapes /\ Progress(s) =>
    /\ Changes(s)
    /\ Going(s, Shop) => job[s] \in ShopJobs /\ pc[s] = 2
    /\ \A d \in Definitions : Going(s, d) =>
         job[s] \in DeleteJobs /\ job[s].kind = "delete-homebrew" /\ job[s].row = d
    /\ job[s] \in StartJobs /\ pc[s] = 5 =>
         /\ job[s].row \in Written(s)
         /\ \A h \in Written(s) : h # job[s].row => ~writes[s][h].current

LEMMA Known == Understood
<1> SUFFICES ASSUME NEW s \in Slots, Shapes, Progress(s)
             PROVE  /\ Changes(s)
                    /\ Going(s, Shop) => job[s] \in ShopJobs /\ pc[s] = 2
                    /\ \A d \in Definitions : Going(s, d) =>
                         job[s] \in DeleteJobs /\ job[s].kind = "delete-homebrew" /\ job[s].row = d
                    /\ job[s] \in StartJobs /\ pc[s] = 5 =>
                         /\ job[s].row \in Written(s)
                         /\ \A h \in Written(s) : h # job[s].row => ~writes[s][h].current
  BY DEF Understood
<1>1. Changes(s)
  BY WhatChanges
<1>2. Going(s, Shop) => job[s] \in ShopJobs /\ pc[s] = 2
  BY ShopIsGoing
<1>3. \A d \in Definitions : Going(s, d) =>
        job[s] \in DeleteJobs /\ job[s].kind = "delete-homebrew" /\ job[s].row = d
  BY HomebrewIsGoing
<1>4. ASSUME job[s] \in StartJobs, pc[s] = 5
      PROVE  /\ job[s].row \in Written(s)
             /\ \A h \in Written(s) : h # job[s].row => ~writes[s][h].current
  <2>1. job[s].row \in Written(s) /\ Demoted(s, Written(s) \ {job[s].row})
    BY <1>4 DEF Progress, SessionStarted
  <2>2. QED BY <2>1, DemotedRows
<1>5. QED BY <1>1, <1>2, <1>3, <1>4

LEMMA KnownNext == Understood'
BY Known, PTL

LEMMA StartClaims ==
  ASSUME NEW s \in Slots, Statement(s), job[s] \in StartJobs, pc[s] = 4 PROVE AllowsCurrent(s)
<1>1. persistStartGameSession(s)
  BY OtherStatement
<1>2. QED BY <1>1 DEF persistStartGameSession, Demote, Issues

LEMMA KindsOfJobs ==
  ASSUME NEW j \in Jobs
  PROVE  /\ j.kind = "acquire" => j \in InsertJobs /\ j \notin DeleteJobs
         /\ j.kind = "stock-add" => j \in InsertJobs
         /\ j.kind = "stock-update" => j \in FieldJobs /\ j.row \in Entries
         /\ j.kind = "start-game-session" => j \in StartJobs
<1> DEFINE ok == /\ j.kind = "acquire" => j \in InsertJobs /\ j \notin DeleteJobs
                 /\ j.kind = "stock-add" => j \in InsertJobs
                 /\ j.kind = "stock-update" => j \in FieldJobs /\ j.row \in Entries
                 /\ j.kind = "start-game-session" => j \in StartJobs
<1>1. j = Idle => ok
  BY DEF Idle
<1>2. j \in FieldJobs => ok
  BY DEF FieldJobs, Fields, Edit
<1>3. j \in InsertJobs => ok
  BY Apart DEF InsertJobs
<1>4. j \in DeleteJobs => ok
  BY DEF DeleteJobs
<1>5. j \in ShopJobs \/ j \in BatchJobs \/ j \in WishJobs \/ j \in EndJobs => ok
  BY DEF ShopJobs, BatchJobs, WishJobs, EndJobs
<1>6. j \in StartJobs => ok
  BY DEF StartJobs
<1>7. QED BY <1>1, <1>2, <1>3, <1>4, <1>5, <1>6, Classes

-----------------------------------------------------------------------------
(* A statement.                                                            *)

LEMMA ShapesMoved ==
  ASSUME Shapes, NEW s \in Slots, Moved(s), Typed(s)' PROVE Shapes'
<1>1. ASSUME NEW t \in Slots PROVE Typed(t)'
  <2>1. CASE t = s
    BY <2>1
  <2>2. CASE t # s
    BY <2>2, AlwaysTyped DEF Typed, Written, Moved
  <2>3. QED BY <2>1, <2>2
<1>2. TypeOK'
  BY <1>1 DEF Shapes, TypeOK, Typed, Written, Existing, Moved
<1>3. DOMAIN pc' = Slots
  BY DEF Shapes, Moved
<1>4. QED BY <1>1, <1>2, <1>3 DEF Shapes, Typed, Moved

LEMMA WritersMoved ==
  ASSUME OneWriter, NEW s \in Slots, Moved(s) PROVE OneWriter'
<1>1. ASSUME NEW a \in Slots, NEW b \in Slots, NEW r, r \in Written(a)', r \in Written(b)' PROVE a = b
  <2>1. \A t \in Slots \ {s} : Written(t)' = Written(t)
    BY DEF Moved, Written
  <2>2. \A t \in Slots \ {s} : r \in Written(s)' => (r \in Written(t) => r \in Written(s))
    BY DEF Moved, Written
  <2>3. QED BY <1>1, <2>1, <2>2 DEF OneWriter
<1>2. QED BY <1>1 DEF OneWriter

LEMMA ShopHeldMoved ==
  ASSUME CampaignInv, NEW s \in Slots, Statement(s), Moved(s), Shapes', \A t \in Slots : Progress(t)', OneWriter'
  PROVE  ShopHeld'
<1>1. /\ Shapes /\ OneWriter /\ ShopHeld /\ (\A t \in Slots : Progress(t))
      /\ job' = job /\ db' = db /\ \A t \in Slots \ {s} : writes'[t] = writes[t] /\ Written(t)' = Written(t)
  BY DEF CampaignInv, Moved, Written
<1>2. SUFFICES ASSUME NEW a \in Slots, NEW b \in Slots, Going(a, Shop)', NEW e \in Entries, e \in Written(b)',
                      writes'[b][e] # NoRow
               PROVE  FALSE
  BY DEF ShopHeld
<1>3. job[a] \in ShopJobs /\ pc'[a] = 2 /\ ShopDeleted(a)'
  <2>1. Progress(a)' /\ Shapes'
    OBVIOUS
  <2>2. job'[a] \in ShopJobs /\ pc'[a] = 2
    BY <1>2, <2>1, KnownNext DEF Understood
  <2>3. QED BY <1>1, <2>1, <2>2 DEF Progress
<1>4. a # b
  BY <1>2, <1>3 DEF ShopDeleted
<1>5. CASE a # s /\ b # s
  BY <1>1, <1>2, <1>5 DEF ShopHeld, Going
<1>6. CASE a = s
  <2>1. Delete(s, {Shop} \union Existing(Entries))
    BY <1>3, <1>6, OtherStatement DEF persistDeleteShop
  <2>2. e \in DOMAIN writes[b] /\ writes[b][e] # NoRow
    BY <1>1, <1>2, <1>4, <1>6 DEF Written
  <2>3. ~Refers(e, writes[b][e], Shop)
    BY <1>4, <1>6, <2>1, <2>2 DEF Delete
  <2>4. QED BY <1>2, <2>2, <2>3 DEF Refers
<1>7. CASE b = s
  <2>1. Changes(s)'
    BY KnownNext DEF Understood
  <2>2. /\ db[e] = NoRow => job[s].kind = "stock-add"
        /\ job[s] \in Jobs
    BY <1>1, <1>2, <1>7, <2>1 DEF Changes, StockChanges, Shapes
  <2>3. a # s /\ Shop \in Written(a) /\ writes[a][Shop] = NoRow /\ (db[e] # NoRow => e \in Written(a)')
    BY <1>1, <1>2, <1>3, <1>4, <1>7 DEF ShopDeleted, Going
  <2>4. CASE db[e] # NoRow
    BY <1>2, <1>7, <2>3, <2>4 DEF OneWriter
  <2>5. CASE db[e] = NoRow
    <3>1. ForeignKey(s, Shop)
      BY <2>2, <2>5, KindsOfJobs, InsertStatement
    <3>2. QED BY <2>3, <3>1 DEF ForeignKey, Written
  <2>6. QED BY <2>4, <2>5
<1>8. QED BY <1>5, <1>6, <1>7

LEMMA ItemsHeldMoved ==
  ASSUME CampaignInv, NEW s \in Slots, Statement(s), Moved(s), Shapes', \A t \in Slots : Progress(t)'
  PROVE  ItemsHeld'
<1>1. /\ Shapes /\ ItemsHeld /\ (\A t \in Slots : Progress(t)) /\ job[s] \in Jobs
      /\ job' = job /\ db' = db /\ \A t \in Slots \ {s} : writes'[t] = writes[t] /\ Written(t)' = Written(t)
  BY DEF CampaignInv, Moved, Written, Shapes
<1>2. Changes(s)' /\ \A d \in Definitions : Going(s, d)' =>
        job[s] \in DeleteJobs /\ job[s].kind = "delete-homebrew" /\ job[s].row = d
  <2>1. Progress(s)'
    OBVIOUS
  <2>2. QED BY <1>1, <2>1, KnownNext DEF Understood
<1>3. \A t \in Slots \ {s} : \A d : Going(t, d)' => Going(t, d)
  BY <1>1 DEF Going
<1>4. ASSUME NEW i \in Existing(Items), NEW d, d = db[i].of
      PROVE  db[d] # NoRow /\ \A a \in Slots : ~Going(a, d)'
  <2>1. db[i] # NoRow /\ i \in Items /\ i \in Rows /\ d \in Definitions
    BY <1>1, <1>4, DbRows DEF Existing, Item, Rows
  <2>2. db[d] # NoRow /\ \A a \in Slots : ~Going(a, d)
    BY <1>1, <1>4 DEF ItemsHeld
  <2>3. ASSUME Going(s, d)' PROVE FALSE
    <3>1. job[s] \in DeleteJobs /\ job[s].kind = "delete-homebrew" /\ job[s].row = d
      BY <1>2, <2>1, <2>3
    <3>2. ~Refers(i, db[i], d)
      <4>1. \A x \in Rows : ~Refers(x, db[x], job[s].row)
        BY <3>1, DeleteStatement
      <4>2. QED BY <2>1, <3>1, <4>1
    <3>3. QED BY <1>4, <2>1, <3>2 DEF Refers
  <2>4. QED BY <1>3, <2>2, <2>3
<1>5. ASSUME NEW b \in Slots, NEW i \in Items, i \in Written(b)', writes'[b][i] # NoRow, NEW d, d = writes'[b][i].of
      PROVE  db[d] # NoRow /\ \A a \in Slots : ~Going(a, d)'
  <2>1. CASE b # s
    <3>1. i \in Written(b) /\ writes[b][i] # NoRow /\ d = writes[b][i].of
      BY <1>1, <1>5, <2>1
    <3>2. db[d] # NoRow /\ \A a \in Slots : ~Going(a, d)
      BY <1>1, <3>1 DEF ItemsHeld
    <3>3. d \in Definitions
      BY <1>1, <3>1, WrittenRows DEF Item
    <3>4. ASSUME Going(s, d)' PROVE FALSE
      <4>1. job[s] \in DeleteJobs /\ job[s].row = d
        BY <1>2, <3>3, <3>4
      <4>2. Delete(s, {d})
        BY <4>1, DeleteStatement
      <4>3. ~Refers(i, writes[b][i], d)
        BY <2>1, <3>1, <4>2 DEF Delete, Written
      <4>4. QED BY <3>1, <4>3 DEF Refers
    <3>5. QED BY <1>3, <3>2, <3>4
  <2>2. CASE b = s
    <3>1. /\ db[i] # NoRow => d = db[i].of
          /\ db[i] = NoRow => job[s].kind = "acquire" /\ d = job[s].value.of
      BY <1>1, <1>2, <1>5, <2>2 DEF Changes, ItemsChange
    <3>2. CASE db[i] # NoRow
      BY <1>4, <3>1, <3>2 DEF Existing
    <3>3. CASE db[i] = NoRow
      <4>1. job[s] \in InsertJobs /\ job[s] \notin DeleteJobs
        BY <1>1, <3>1, <3>3, KindsOfJobs
      <4>2. ForeignKey(s, d)
        BY <3>1, <3>3, <4>1, InsertStatement
      <4>3. d \in Definitions
        BY <3>1, <3>3, <4>1 DEF InsertJobs, Item
      <4>4. ~Going(s, d)'
        BY <1>2, <4>1, <4>3
      <4>5. \A a \in Slots \ {s} : ~Going(a, d)
        BY <4>2 DEF ForeignKey, Going, Written
      <4>6. QED BY <1>3, <4>2, <4>4, <4>5 DEF ForeignKey
    <3>4. QED BY <3>2, <3>3
  <2>3. QED BY <2>1, <2>2
<1>6. ItemsHeld'
  <2>1. \A i \in Existing(Items) : db'[db'[i].of] # NoRow /\ \A a \in Slots : ~(db'[i].of \in Written(a)' /\ writes'[a][db'[i].of] = NoRow)
    BY <1>1, <1>4 DEF Going
  <2>2. \A b \in Slots : \A i \in Items : i \in Written(b)' /\ writes'[b][i] # NoRow =>
          /\ db'[writes'[b][i].of] # NoRow
          /\ \A a \in Slots : ~(writes'[b][i].of \in Written(a)' /\ writes'[a][writes'[b][i].of] = NoRow)
    BY <1>1, <1>5 DEF Going
  <2>3. Existing(Items)' = Existing(Items)
    BY <1>1 DEF Existing
  <2>4. QED BY <2>1, <2>2, <2>3 DEF ItemsHeld, Going
<1>7. QED BY <1>6

LEMMA OneCurrentMoved ==
  ASSUME CampaignInv, NEW s \in Slots, Statement(s), Moved(s), Shapes', \A t \in Slots : Progress(t)', OneWriter'
  PROVE  OneCurrent'
<1>1. /\ Shapes /\ OneCurrent /\ job' = job /\ db' = db /\ Current' = Current
      /\ \A t \in Slots \ {s} : writes'[t] = writes[t] /\ Written(t)' = Written(t)
      /\ pc[s] \in Int /\ pc'[s] = pc[s] + 1
  <2>1. pc[s] \in Int
    <3>1. job[s] \in Jobs /\ job[s] # Idle /\ Progress(s)
      BY IdleStands DEF CampaignInv, Shapes
    <3>2. QED BY <3>1, Classes DEF Progress, FieldWritten, RowInserted, RowDeleted, ShopDeleted, BatchWritten, WishWritten,
                                    SessionEnded, SessionStarted
  <2>2. QED BY <2>1 DEF CampaignInv, Moved, Written, Shapes, Current, Existing
<1>2. \A t \in Slots \ {s} : \A g : Claims(t, g)' = Claims(t, g)
  BY <1>1 DEF Claims
<1>3. ASSUME NEW t \in Slots, NEW g, Claims(t, g)', g \notin Current
      PROVE  /\ job[t] \in StartJobs /\ g = job[t].row /\ db[g] = NoRow
             /\ \A h : Claims(t, h)' => h = g
             /\ t = s => AllowsCurrent(s) /\ \A h \in Current : ~Claims(s, h)'
  <2>1. Progress(t)' /\ Changes(t)'
    BY KnownNext DEF Understood
  <2>2. g \in Sessions /\ g \in Written(t)' /\ writes'[t][g].current
    BY <1>3 DEF Claims
  <2>3. db[g] = NoRow /\ job[t] \in StartJobs /\ pc'[t] = 5 /\ g = job[t].row
    BY <1>1, <1>3, <2>1, <2>2 DEF Changes, SessionsChange, Current, Existing
  <2>4. \A h \in Written(t)' : h # g => ~writes'[t][h].current
    BY <1>1, <2>1, <2>3, KnownNext DEF Understood
  <2>5. \A h : Claims(t, h)' => h = g
    BY <2>4 DEF Claims
  <2>6. t = s => AllowsCurrent(s)
    BY <1>1, <2>3, StartClaims
  <2>7. QED BY <1>3, <2>3, <2>5, <2>6
<1>4. ASSUME NEW g, AllowsCurrent(s) PROVE \A t \in Slots \ {s} : ~Claims(t, g)
  BY <1>4 DEF AllowsCurrent, Claims, Written
<1>5. ASSUME NEW a \in Slots, NEW b \in Slots, NEW g, NEW h, Claims(a, g)', Claims(b, h)' PROVE g = h
  <2>1. CASE g \in Current /\ h \in Current
    BY <1>1, <2>1 DEF OneCurrent
  <2>2. ASSUME NEW x \in Slots, NEW y \in Slots, NEW k, NEW l, Claims(x, k)', Claims(y, l)', k \notin Current PROVE k = l
    <3>1. CASE x = y
      BY <1>3, <2>2, <3>1
    <3>2. CASE x # y /\ x = s
      BY <1>2, <1>3, <1>4, <2>2, <3>2
    <3>3. CASE x # y /\ x # s
      <4>1. Claims(x, k) /\ k \in Sessions /\ l \in Sessions
        BY <1>2, <2>2, <3>3 DEF Claims
      <4>2. CASE y # s
        <5>1. Claims(y, l)
          BY <1>2, <2>2, <4>2
        <5>2. QED BY <1>1, <4>1, <5>1 DEF OneCurrent
      <4>3. CASE y = s /\ l \notin Current
        BY <1>3, <1>4, <2>2, <3>3, <4>1, <4>3
      <4>4. CASE y = s /\ l \in Current
        <5>1. l = k \/ l \in Written(x)
          BY <1>1, <4>1, <4>4 DEF OneCurrent
        <5>2. l \in Written(x)' => FALSE
          BY <2>2, <3>3 DEF OneWriter, Claims
        <5>3. QED BY <1>1, <3>3, <5>1, <5>2
      <4>5. QED BY <4>2, <4>3, <4>4
    <3>4. QED BY <3>1, <3>2, <3>3
  <2>3. QED BY <1>5, <2>1, <2>2
<1>6. ASSUME NEW a \in Slots, NEW g, Claims(a, g)', NEW h \in Current PROVE h = g \/ (h \in Written(a)' /\ ~Claims(a, h)')
  <2>1. CASE a # s
    <3>1. Claims(a, g) /\ g \in Sessions
      BY <1>2, <1>6, <2>1 DEF Claims
    <3>2. h = g \/ (h \in Written(a) /\ ~Claims(a, h))
      BY <1>1, <3>1 DEF OneCurrent
    <3>3. QED BY <1>1, <1>2, <2>1, <3>2
  <2>2. CASE a = s /\ g \in Current
    BY <1>1, <2>2 DEF OneCurrent
  <2>3. CASE a = s /\ g \notin Current
    <3>1. AllowsCurrent(s) /\ ~Claims(s, h)'
      BY <1>3, <1>6, <2>3
    <3>2. h \in Sessions /\ db[h] # NoRow /\ db[h].current
      BY DEF Current, Existing
    <3>3. h \in Written(s)
      BY <3>1, <3>2 DEF AllowsCurrent, IsCurrent, Row, Written
    <3>4. h \in Written(s)'
      BY <3>3 DEF Moved, Written
    <3>5. QED BY <2>3, <3>1, <3>4
  <2>4. QED BY <2>1, <2>2, <2>3
<1>7. \A g, h \in Current' : g = h
  BY <1>1 DEF OneCurrent
<1>8. QED BY <1>1, <1>5, <1>6, <1>7 DEF OneCurrent

\* What an entry tells all of is exact.
LEMMA ToldIsExact ==
  ASSUME NEW j, Told(j), NEW row, NEW new, new = Merge(row, j.patch) PROVE new = Retold(j, row, new)
<1>1. DOMAIN <<>> = {}
  OBVIOUS
<1>2. new = [f \in DOMAIN row |-> IF f \in DOMAIN j.patch THEN j.patch[f] ELSE row[f]]
  BY DEF Merge
<1>3. Retold(j, row, new) = [f \in DOMAIN row |-> CASE f \in DOMAIN j.logged -> j.logged[f]
                                                  [] f \in j.named -> new[f]
                                                  [] OTHER -> row[f]]
  BY DEF Retold
<1>4. ASSUME NEW f \in DOMAIN row
      PROVE  new[f] = CASE f \in DOMAIN j.logged -> j.logged[f] [] f \in j.named -> new[f] [] OTHER -> row[f]
  <2>1. CASE j.logged = j.patch
    BY <1>2, <1>4, <2>1
  <2>2. CASE j.logged = <<>> /\ DOMAIN j.patch \subseteq j.named
    BY <1>1, <1>2, <1>4, <2>2
  <2>3. QED BY <2>1, <2>2 DEF Told
<1>5. QED BY <1>2, <1>3, <1>4

LEMMA ExactMoved ==
  ASSUME Shapes, Exactness, NEW s \in Slots, Statement(s), Moved(s) PROVE Exactness'
<1>1. job[s] \in Jobs /\ job[s] # Idle
  BY IdleStands DEF Shapes
<1>2. ASSUME job[s].kind \notin Overwriting PROVE exact'[s] = exact[s] \/ exact'[s]
  <2>1. CASE job[s] \in FieldJobs
    <3> DEFINE row == Row(s, job[s].row)
               new == Merge(row, job[s].patch)
    <3>1. As(s, new = Retold(job[s], row, new))
      BY <2>1, FieldStatement DEF Update
    <3>2. Told(job[s])
      BY <1>2, <2>1 DEF FieldJobs
    <3>3. new = Retold(job[s], row, new)
      <4> HIDE DEF row
      <4>1. QED BY <3>2, ToldIsExact
    <3>4. As(s, TRUE)
      <4> HIDE DEF new
      <4>1. QED BY <3>1, <3>3
    <3>5. QED BY <3>4 DEF As, Shapes
  <2>2. CASE job[s] \in InsertJobs
    BY <2>2, InsertStatement DEF Insert
  <2>3. CASE job[s] \in DeleteJobs
    BY <2>3, DeleteStatement DEF Delete
  <2>4. CASE job[s] \in ShopJobs
    BY <2>4, OtherStatement DEF persistDeleteShop, Delete
  <2>5. job[s] \notin BatchJobs \union WishJobs \union StartJobs \union EndJobs
    BY <1>2 DEF Overwriting, BatchJobs, WishJobs, StartJobs, EndJobs
  <2>6. QED BY <1>1, <2>1, <2>2, <2>3, <2>4, <2>5, Classes
<1>3. job' = job /\ \A t \in Slots \ {s} : exact'[t] = exact[t]
  BY DEF Moved
<1>4. QED BY <1>2, <1>3 DEF Exactness

\* A statement of any request.
LEMMA StatementStep ==
  ASSUME CampaignInv, NEW s \in Slots, Statement(s) PROVE CampaignInv'
<1>1. Shapes /\ (\A t \in Slots : Progress(t)) /\ OneWriter
  BY DEF CampaignInv
<1>2. Moved(s) /\ Progress(s)' /\ Typed(s)'
  BY <1>1, StatementProgress
<1>3. Shapes' /\ OneWriter'
  BY <1>1, <1>2, ShapesMoved, WritersMoved
<1>4. \A t \in Slots : Progress(t)'
  <2>1. ASSUME NEW t \in Slots, t # s PROVE Progress(t)'
    <3>1. /\ db' = db /\ writes'[t] = writes[t] /\ job'[t] = job[t] /\ pc'[t] = pc[t]
          /\ found'[t] = found[t] /\ exact'[t] = exact[t]
      BY <1>1, <1>2, <2>1 DEF Moved, Shapes
    <3>2. QED BY <1>1, <3>1, ProgressStays
  <2>2. QED BY <1>2, <2>1
<1>5. ShopHeld' /\ ItemsHeld' /\ OneCurrent'
  BY <1>2, <1>3, <1>4, ShopHeldMoved, ItemsHeldMoved, OneCurrentMoved
<1>6. PricesHold' /\ Numbered' /\ RowsAsLogged'
  BY <1>2 DEF CampaignInv, Moved, PricesHold, Priced, Numbered, RowsAsLogged, Existing, Current
<1>7. Exactness'
  BY <1>1, <1>2, ExactMoved DEF CampaignInv
<1>8. QED BY <1>3, <1>4, <1>5, <1>6, <1>7 DEF CampaignInv

-----------------------------------------------------------------------------
(* The end of a transaction.                                               *)

\* What a request that has issued its last statement has done.
LEMMA Finished ==
  ASSUME Shapes, NEW s \in Slots, Progress(s), pc[s] > LastStatement(job[s].kind)
  PROVE  /\ job[s] \in FieldJobs \union InsertJobs \union DeleteJobs \union ShopJobs => pc[s] = 2
         /\ job[s] \in BatchJobs \union WishJobs \union EndJobs => pc[s] = 3
         /\ job[s] \in StartJobs => pc[s] = 5
<1>1. job[s] \in FieldJobs => job[s].kind \notin {"start-game-session", "end-game-session", "identify-batch",
                                                  "wishlist-add", "wishlist-remove"}
  BY DEF FieldJobs, Fields, Edit
<1>2. job[s] \in InsertJobs \union DeleteJobs \union ShopJobs =>
        job[s].kind \notin {"start-game-session", "end-game-session", "identify-batch", "wishlist-add", "wishlist-remove"}
  BY DEF InsertJobs, DeleteJobs, ShopJobs
<1>3. job[s] \in BatchJobs \union WishJobs \union EndJobs =>
        job[s].kind \in {"end-game-session", "identify-batch", "wishlist-add", "wishlist-remove"}
  BY DEF BatchJobs, WishJobs, EndJobs
<1>4. job[s] \in StartJobs => job[s].kind = "start-game-session"
  BY DEF StartJobs
<1>5. job[s] \in FieldJobs \union InsertJobs \union DeleteJobs \union ShopJobs => pc[s] > 1 /\ pc[s] \in {1, 2}
  BY <1>1, <1>2 DEF LastStatement, Progress, FieldWritten, RowInserted, RowDeleted, ShopDeleted
<1>6. job[s] \in BatchJobs \union WishJobs \union EndJobs => pc[s] > 2 /\ pc[s] \in {1, 2, 3}
  BY <1>3 DEF LastStatement, Progress, BatchWritten, WishWritten, SessionEnded
<1>7. job[s] \in StartJobs => pc[s] > 4 /\ pc[s] \in {1, 2, 3, 4, 5}
  BY <1>4 DEF LastStatement, Progress, SessionStarted
<1>8. QED BY <1>5, <1>6, <1>7

\* Nothing is held by a request that has ended.
LEMMA Released ==
  ASSUME Shapes, NEW s \in Slots, Release(s)
  PROVE  /\ Written(s)' = {} /\ job'[s] = Idle /\ pc'[s] = 0 /\ exact'[s]
         /\ \A t \in Slots \ {s} : /\ writes'[t] = writes[t] /\ Written(t)' = Written(t) /\ job'[t] = job[t]
                                   /\ pc'[t] = pc[t] /\ found'[t] = found[t] /\ exact'[t] = exact[t]
         /\ job' \in [Slots -> Jobs] /\ DOMAIN pc' = Slots /\ DOMAIN found' = Slots
         /\ exact' \in [Slots -> BOOLEAN] /\ DOMAIN writes' = Slots
         /\ \A t \in Slots : /\ DOMAIN writes'[t] \subseteq Rows
                             /\ \A r \in Written(t)' : writes'[t][r] = NoRow \/ writes'[t][r] \in RowType(r)
<1>1. DOMAIN <<>> = {}
  OBVIOUS
<1>2. Idle \in Jobs
  BY DEF Jobs
<1>3. /\ writes'[s] = <<>> /\ job'[s] = Idle /\ pc'[s] = 0 /\ exact'[s]
      /\ \A t \in Slots \ {s} : /\ writes'[t] = writes[t] /\ job'[t] = job[t]
                                /\ pc'[t] = pc[t] /\ found'[t] = found[t] /\ exact'[t] = exact[t]
      /\ DOMAIN pc' = Slots /\ DOMAIN found' = Slots /\ DOMAIN writes' = Slots
      /\ exact' \in [Slots -> BOOLEAN]
  BY DEF Shapes, Release
<1>4. job' \in [Slots -> Jobs]
  BY <1>2 DEF Shapes, Release
<1>5. \A t \in Slots : DOMAIN writes[t] \subseteq Rows
  BY DEF Shapes, TypeOK
<1>6. QED BY <1>1, <1>3, <1>4, <1>5 DEF Shapes, Written

\* No other has written what one request holds, so that all of it is taken
\* back when the request fails.
LEMMA AbortStep ==
  ASSUME CampaignInv, NEW s \in Slots, Abort(s) PROVE CampaignInv'
<1>1. /\ Shapes /\ (\A t \in Slots : Progress(t)) /\ OneWriter /\ ShopHeld /\ ItemsHeld /\ PricesHold
      /\ OneCurrent /\ Numbered /\ Exactness /\ RowsAsLogged /\ UNCHANGED <<db, book, stale, gone, desk>> /\ Release(s)
  BY DEF CampaignInv, Abort, Release
<1>2. /\ Written(s)' = {} /\ job'[s] = Idle /\ pc'[s] = 0 /\ exact'[s]
      /\ \A t \in Slots \ {s} : /\ writes'[t] = writes[t] /\ Written(t)' = Written(t) /\ job'[t] = job[t]
                                /\ pc'[t] = pc[t] /\ found'[t] = found[t] /\ exact'[t] = exact[t]
  BY <1>1, Released
<1>3. Shapes'
  <2>1. TypeOK'
    BY <1>1, Released DEF Shapes, TypeOK, Existing
  <2>2. QED BY <1>1, <2>1, Released DEF Shapes
<1>4. ASSUME NEW t \in Slots PROVE Progress(t)'
  <2>1. CASE t = s
    <3>1. Idle \notin FieldJobs \union InsertJobs \union DeleteJobs \union ShopJobs \union BatchJobs \union WishJobs
                      \union EndJobs \union StartJobs
      BY DEF Idle, FieldJobs, Fields, Edit, InsertJobs, DeleteJobs, ShopJobs, BatchJobs, WishJobs, EndJobs, StartJobs
    <3>2. QED BY <1>2, <2>1, <3>1 DEF Progress
  <2>2. CASE t # s
    BY <1>1, <1>2, <2>2, ProgressStays
  <2>3. QED BY <2>1, <2>2
<1>5. OneWriter' /\ ShopHeld'
  BY <1>1, <1>2 DEF OneWriter, ShopHeld, Going
<1>6. ItemsHeld'
  BY <1>1, <1>2 DEF ItemsHeld, Going, Existing
<1>7. OneCurrent'
  BY <1>1, <1>2 DEF OneCurrent, Claims, Current, Existing
<1>8. PricesHold'
  BY <1>1, <1>2 DEF PricesHold, Priced, Existing, Idle
<1>9. Numbered' /\ RowsAsLogged'
  BY <1>1 DEF Numbered, RowsAsLogged, Current, Existing
<1>10. Exactness'
  BY <1>1, <1>2 DEF Exactness
<1>11. QED BY <1>3, <1>4, <1>5, <1>6, <1>7, <1>8, <1>9, <1>10 DEF CampaignInv

-----------------------------------------------------------------------------
(* A commit: what the request wrote is what there is.                      *)

\* The rows as s sees them.
Seen(s) == [r \in Rows |-> Row(s, r)]

\* The rows after a commit of s.
Kept(s) ==
  /\ \A r \in Rows : db'[r] = IF r \in Written(s) THEN writes[s][r] ELSE db[r]
  /\ \A t \in Slots \ {s} : \A r \in Written(t) : r \in Rows /\ db'[r] = db[r]
  /\ Written(s)' = {} /\ job'[s] = Idle /\ pc'[s] = 0 /\ exact'[s]
  /\ \A t \in Slots \ {s} : /\ writes'[t] = writes[t] /\ Written(t)' = Written(t) /\ job'[t] = job[t]
                            /\ pc'[t] = pc[t] /\ found'[t] = found[t] /\ exact'[t] = exact[t]

LEMMA CommitKeeps ==
  ASSUME Shapes, OneWriter, NEW s \in Slots, Commit(s) PROVE Kept(s)
<1>1. \A r \in Rows : db'[r] = IF r \in Written(s) THEN writes[s][r] ELSE db[r]
  BY DEF Commit, Row, Written
<1>2. \A t \in Slots \ {s} : \A r \in Written(t) : r \in Rows /\ r \notin Written(s)
  BY DEF Shapes, TypeOK, OneWriter, Written
<1>3. Release(s)
  BY DEF Commit
<1>4. /\ Written(s)' = {} /\ job'[s] = Idle /\ pc'[s] = 0 /\ exact'[s]
      /\ \A t \in Slots \ {s} : /\ writes'[t] = writes[t] /\ Written(t)' = Written(t) /\ job'[t] = job[t]
                                /\ pc'[t] = pc[t] /\ found'[t] = found[t] /\ exact'[t] = exact[t]
  BY <1>3, Released
<1>5. \A t \in Slots \ {s} : \A r \in Written(t) : r \in Rows /\ db'[r] = db[r]
  BY <1>1, <1>2
<1>6. QED BY <1>1, <1>4, <1>5 DEF Kept

\* A row as the log entry of a session makes it.
AfterSession(rows, j, r) ==
  CASE r \in j.ended -> [rows[r] EXCEPT !.current = FALSE]
    [] j.kind = "start-game-session" /\ r = j.row ->
         [number |-> j.number, current |-> TRUE, notes |-> NoRow]
    [] OTHER -> rows[r]

\* The rows as a log entry makes them are rows.
LEMMA ReplayShape ==
  ASSUME NEW rows, rows = [r \in Rows |-> rows[r]], NEW j \in Jobs \ {Idle}, NEW written
  PROVE  Replay(rows, j, written) = [r \in Rows |-> Replay(rows, j, written)[r]]
<1>1. DOMAIN rows = Rows
  OBVIOUS
<1>2. CASE j \in FieldJobs
  <2>1. /\ "patch" \in DOMAIN j
        /\ j.kind \notin {"create-homebrew", "acquire", "create-shop", "stock-add", "delete-homebrew", "consume",
                          "stock-remove", "delete-shop", "identify-batch", "wishlist-add", "wishlist-remove",
                          "start-game-session", "end-game-session"}
    BY <1>2 DEF FieldJobs, Fields, Edit
  <2>2. Replay(rows, j, written) = [rows EXCEPT ![j.row] = IF @ = NoRow THEN @ ELSE Retold(j, @, written[j.row])]
    BY <2>1 DEF Replay
  <2>3. QED BY <1>1, <2>2
<1>3. CASE j \in InsertJobs
  <2>1. "patch" \notin DOMAIN j /\ j.kind \in {"create-homebrew", "acquire", "create-shop", "stock-add"}
    BY <1>3 DEF InsertJobs
  <2>2. QED BY <1>1, <2>1 DEF Replay
<1>4. CASE j \in DeleteJobs
  <2>1. "patch" \notin DOMAIN j /\ j.kind \in {"delete-homebrew", "consume", "stock-remove"}
    BY <1>4 DEF DeleteJobs
  <2>2. QED BY <1>1, <2>1 DEF Replay
<1>5. CASE j \in ShopJobs
  <2>1. "patch" \notin DOMAIN j /\ j.kind = "delete-shop"
    BY <1>5 DEF ShopJobs
  <2>2. QED BY <1>1, <2>1 DEF Replay
<1>6. CASE j \in BatchJobs
  <2>1. "patch" \notin DOMAIN j /\ j.kind = "identify-batch"
    BY <1>6 DEF BatchJobs
  <2>2. QED BY <1>1, <2>1 DEF Replay
<1>7. CASE j \in WishJobs
  <2>1. "patch" \notin DOMAIN j /\ j.kind \in {"wishlist-add", "wishlist-remove"}
    BY <1>7 DEF WishJobs
  <2>2. QED BY <1>1, <2>1 DEF Replay
<1>8. CASE j \in StartJobs \union EndJobs
  <2>1. "patch" \notin DOMAIN j /\ j.kind \in {"start-game-session", "end-game-session"}
    BY <1>8 DEF StartJobs, EndJobs
  <2>2. Replay(rows, j, written) = [r \in Rows |-> AfterSession(rows, j, r)]
    BY <2>1 DEF Replay, AfterSession
  <2>3. QED BY <2>2
<1>9. QED BY <1>2, <1>3, <1>4, <1>5, <1>6, <1>7, <1>8, Classes

LEMMA ShapesCommitted ==
  ASSUME Shapes, OneWriter, NEW s \in Slots, Progress(s), Commit(s) PROVE Shapes'
<1>1. Kept(s) /\ Release(s) /\ Changes(s)
  BY CommitKeeps, WhatChanges DEF Commit
<1>2. db' = [r \in Rows |-> db'[r]] /\ DOMAIN db' = Rows
  BY DEF Commit
<1>3. book' = [r \in Rows |-> book'[r]] /\ DOMAIN book' = Rows
  <2>1. job[s] \in Jobs \ {Idle} /\ book' = Replay(book, job[s], Seen(s)) /\ book = [r \in Rows |-> book[r]]
    BY DEF Shapes, Commit, Busy, Seen
  <2>2. QED BY <2>1, ReplayShape
<1>4. \A r \in Rows : db'[r] # NoRow => db'[r] \in RowType(r)
  BY <1>1 DEF Kept, Shapes, TypeOK, Existing
<1>5. db'[Sheet] # NoRow /\ db'[PartyRow] # NoRow /\ Sheet \in Rows /\ PartyRow \in Rows
  BY <1>1, DbRows DEF Kept, Changes, SheetsStay, Rows
<1>6. gone' \subseteq Definitions \union Entries /\ desk' \in Desks
  BY <1>1 DEF Commit, Release, Shapes, TypeOK, Existing
<1>7. TypeOK'
  BY <1>1, <1>2, <1>3, <1>4, <1>5, <1>6, Released DEF TypeOK, Existing
<1>8. QED BY <1>1, <1>2, <1>3, <1>7, Released DEF Shapes

\* A session that was created has a number after all those there were.
LEMMA NewSessions ==
  ASSUME CampaignInv, NEW s \in Slots, Commit(s), NEW g \in Sessions, db'[g] # NoRow
  PROVE  /\ db'[g] \in Session
         /\ db[g] # NoRow => db'[g].number = db[g].number /\ (db'[g].current => db[g].current)
         /\ g \in Written(s) /\ db'[g].current => Claims(s, g)
         /\ db[g] = NoRow => /\ Claims(s, g) /\ job[s] \in StartJobs
                             /\ exact[s] => \A h \in Existing(Sessions) : db[h].number < db'[g].number
<1>1. Shapes /\ OneWriter /\ Progress(s) /\ Changes(s) /\ Kept(s) /\ pc[s] > LastStatement(job[s].kind)
  BY WhatChanges, CommitKeeps DEF CampaignInv, Commit
<1>2. g \in Rows
  BY DEF Rows
<1>3. CASE g \notin Written(s)
  <2>1. db'[g] = db[g]
    BY <1>1, <1>2, <1>3 DEF Kept
  <2>2. QED BY <1>1, <1>3, <2>1, DbRows
<1>4. CASE g \in Written(s)
  <2>1. db'[g] = writes[s][g]
    BY <1>1, <1>2, <1>4 DEF Kept
  <2>2. /\ writes[s][g] \in Session
        /\ db[g] # NoRow => /\ writes[s][g].number = db[g].number
                            /\ writes[s][g].current => db[g].current
        /\ db[g] = NoRow => job[s] \in StartJobs /\ pc[s] = 5 /\ g = job[s].row
    BY <1>1, <1>4 DEF Changes, SessionsChange
  <2>3. ASSUME db[g] = NoRow
        PROVE  /\ Claims(s, g) /\ job[s] \in StartJobs
               /\ exact[s] => \A h \in Existing(Sessions) : db[h].number < db'[g].number
    <3>1. SessionStarted(s) /\ job[s] \in StartJobs /\ pc[s] = 5 /\ g = job[s].row
      BY <1>1, <2>2, <2>3 DEF Progress
    <3>2. writes[s][g] = [number |-> found[s], current |-> TRUE, notes |-> NoRow]
      BY <3>1 DEF SessionStarted
    <3>3. exact[s] => \A h \in Existing(Sessions) : db[h].number < found[s]
      BY <3>1 DEF SessionStarted
    <3>4. Claims(s, g)
      BY <1>4, <3>2 DEF Claims
    <3>5. QED BY <2>1, <3>1, <3>2, <3>3, <3>4
  <2>4. QED BY <1>4, <2>1, <2>2, <2>3 DEF Claims
<1>5. QED BY <1>3, <1>4

\* No session is lost, and the next number only grows.
FiniteNumbers == Shapes => {db[g].number : g \in Existing(Sessions)} \in {N \in SUBSET Nat : IsFiniteSet(N)}

LEMMA NumbersAreFinite == FiniteNumbers
BY Numbers DEF FiniteNumbers

LEMMA NumbersAreFiniteNext == FiniteNumbers'
BY NumbersAreFinite, PTL

LEMMA NumberGrows ==
  ASSUME CampaignInv, NEW s \in Slots, Commit(s), Shapes'
  PROVE  NumberOfDb \in Nat /\ NumberOfDb' \in Nat /\ NumberOfDb <= NumberOfDb'
<1> DEFINE N == {db[g].number : g \in Existing(Sessions)}
           Later == {db'[g].number : g \in Existing(Sessions)'}
<1>1. N \subseteq Nat /\ IsFiniteSet(N)
  BY Numbers DEF CampaignInv
<1>2. Later \subseteq Nat /\ IsFiniteSet(Later)
  BY NumbersAreFiniteNext DEF FiniteNumbers
<1>3. N \subseteq Later
  <2>1. ASSUME NEW g \in Existing(Sessions) PROVE db[g].number \in Later
    <3>1. g \in Sessions /\ g \in Rows /\ db[g] # NoRow
      BY DEF Existing, Rows
    <3>2. db'[g] # NoRow
      <4>1. Kept(s) /\ Changes(s)
        BY CommitKeeps, WhatChanges DEF CampaignInv
      <4>2. g \in Written(s) => writes[s][g] \in Session
        BY <3>1, <4>1 DEF Changes, SessionsChange
      <4>3. \A row \in Session : row # NoRow
        BY <3>1, Tables, RowsAreRows
      <4>4. QED BY <3>1, <4>1, <4>2, <4>3 DEF Kept
    <3>3. db'[g].number = db[g].number
      BY <3>1, <3>2, NewSessions
    <3>4. QED BY <3>1, <3>2, <3>3 DEF Existing
  <2>2. QED BY <2>1
<1>4. NumberOfDb = NumberAfter(N) /\ NumberOfDb' = NumberAfter(Later)
  BY DEF NumberOfDb
<1>5. QED
  <2> HIDE DEF N, Later
  <2>1. NumberAfter(Later) \in Nat /\ NumberAfter(Later) > 0 /\ \A n \in Later : n < NumberAfter(Later)
    BY <1>2, After
  <2>2. NumberAfter(N) \in Nat /\ NumberAfter(N) <= NumberAfter(Later)
    BY <1>1, <1>3, <2>1, After
  <2>3. QED BY <1>4, <2>1, <2>2

LEMMA ProgressCommitted ==
  ASSUME CampaignInv, NEW s \in Slots, Commit(s), Shapes', NEW t \in Slots PROVE Progress(t)'
<1>1. /\ Shapes /\ OneWriter /\ ShopHeld /\ OneCurrent /\ Progress(s) /\ Progress(t) /\ Kept(s)
      /\ job[t] \in Jobs
  BY CommitKeeps DEF CampaignInv, Shapes
<1>2. CASE t = s
  <2>1. Idle \notin FieldJobs \union InsertJobs \union DeleteJobs \union ShopJobs \union BatchJobs \union WishJobs
                    \union EndJobs \union StartJobs
    BY DEF Idle, FieldJobs, Fields, Edit, InsertJobs, DeleteJobs, ShopJobs, BatchJobs, WishJobs, EndJobs, StartJobs
  <2>2. QED BY <1>1, <1>2, <2>1 DEF Progress, Kept
<1>3. CASE t # s
  <2>1. /\ writes'[t] = writes[t] /\ Written(t)' = Written(t) /\ job'[t] = job[t]
        /\ pc'[t] = pc[t] /\ found'[t] = found[t] /\ exact'[t] = exact[t]
        /\ \A r \in Written(t) : r \in Rows /\ db'[r] = db[r]
    BY <1>1, <1>3 DEF Kept
  <2>2. job[t] \in FieldJobs /\ FieldWritten(t) => FieldWritten(t)'
    BY <2>1 DEF FieldWritten
  <2>3. job[t] \in InsertJobs /\ RowInserted(t) => RowInserted(t)'
    BY <2>1 DEF RowInserted
  <2>4. RowDeleted(t) => RowDeleted(t)'
    BY <2>1 DEF RowDeleted
  <2>5. ASSUME ShopDeleted(t), Written(t) # {} PROVE ShopDeleted(t)'
    <3>1. Going(t, Shop)
      BY <2>5 DEF ShopDeleted, Going
    <3>2. ASSUME NEW e \in Entries, e \notin Written(t) PROVE db'[e] = NoRow
      <4>1. db[e] = NoRow /\ e \in Rows
        BY <2>5, <3>2 DEF ShopDeleted, Rows
      <4>2. e \in Written(s) => writes[s][e] = NoRow
        BY <1>1, <3>1 DEF ShopHeld
      <4>3. QED BY <1>1, <4>1, <4>2 DEF Kept
    <3>3. QED BY <2>1, <2>5, <3>2 DEF ShopDeleted
  <2>6. ShopDeleted(t) => ShopDeleted(t)'
    BY <2>1, <2>5 DEF ShopDeleted
  <2>7. BatchWritten(t) => BatchWritten(t)'
    BY <2>1 DEF BatchWritten
  <2>8. WishWritten(t) => WishWritten(t)'
    BY <2>1 DEF WishWritten
  <2>9. \A D \in SUBSET Written(t) : Demoted(t, D) => Demoted(t, D)'
    BY <2>1 DEF Demoted
  <2>10. SessionEnded(t) => SessionEnded(t)'
    BY <2>1, <2>9 DEF SessionEnded
  <2>11. ASSUME job[t] \in StartJobs, SessionStarted(t) PROVE SessionStarted(t)'
    <3>1. NumberOfDb \in Nat /\ NumberOfDb' \in Nat /\ NumberOfDb <= NumberOfDb' /\ job[t].number \in Nat
      BY <2>11, NumberGrows DEF StartJobs
    <3>2. job'[t].number <= NumberOfDb'
      BY <2>1, <2>11, <3>1 DEF SessionStarted
    <3>3. CASE pc[t] # 5
      <4>1. \/ pc[t] = 1 /\ Written(t) = {}
            \/ pc[t] = 2 /\ Written(t) = {} /\ found[t] \subseteq Sessions
            \/ pc[t] = 3 /\ Demoted(t, Written(t))
            \/ pc[t] = 4 /\ Demoted(t, Written(t)) /\ found[t] \in Nat /\ job[t].number <= found[t] /\ found[t] <= NumberOfDb
        BY <2>11, <3>3 DEF SessionStarted
      <4>2. Demoted(t, Written(t)) => Demoted(t, Written(t))'
        BY <2>1, <2>9 DEF Demoted
      <4>3. QED BY <2>1, <3>1, <3>2, <4>1, <4>2 DEF SessionStarted
    <3>4. CASE pc[t] = 5
      <4> DEFINE g == job[t].row
      <4>1. /\ g \in Written(t) /\ Demoted(t, Written(t) \ {g}) /\ found[t] \in Nat /\ db[g] = NoRow
            /\ writes[t][g] = [number |-> found[t], current |-> TRUE, notes |-> NoRow]
            /\ exact[t] => /\ found[t] = job[t].number
                           /\ \A h \in Existing(Sessions) : db[h].number < found[t]
        BY <2>11, <3>4 DEF SessionStarted
      <4>2. g \in Sessions /\ Claims(t, g)
        BY <2>11, <4>1 DEF StartJobs, Claims
      <4>3. ASSUME NEW h \in Existing(Sessions)' PROVE h \in Existing(Sessions) /\ db'[h].number = db[h].number
        <5>1. h \in Sessions /\ db'[h] # NoRow
          BY DEF Existing
        <5>2. db[h] # NoRow
          <6>1. ASSUME db[h] = NoRow PROVE FALSE
            <7>1. Claims(s, h)
              BY <5>1, <6>1, NewSessions
            <7>2. h = g
              BY <1>1, <4>2, <5>1, <7>1 DEF OneCurrent
            <7>3. QED BY <1>1, <1>3, <4>1, <7>1, <7>2 DEF OneWriter, Claims
          <6>2. QED BY <6>1
        <5>3. QED BY <5>1, <5>2, NewSessions DEF Existing
      <4>4. Demoted(t, Written(t) \ {g})'
        <5>1. Demoted(t, Written(t) \ {g}) => (g' = g /\ (Written(t) \ {g})' = Written(t) \ {g})
          BY <2>1
        <5>2. QED BY <2>1, <4>1, <5>1 DEF Demoted
      <4>5. db'[g] = NoRow
        BY <2>1, <4>1
      <4>6. exact[t] => \A h \in Existing(Sessions)' : db'[h].number < found[t]
        BY <4>1, <4>3
      <4>7. QED BY <2>1, <3>2, <3>4, <4>1, <4>4, <4>5, <4>6 DEF SessionStarted
    <3>5. QED BY <3>3, <3>4
  <2>12. QED BY <1>1, <2>1, <2>2, <2>3, <2>4, <2>6, <2>7, <2>8, <2>10, <2>11 DEF Progress
<1>4. QED BY <1>2, <1>3

LEMMA ItemsHeldCommitted ==
  ASSUME CampaignInv, NEW s \in Slots, Commit(s) PROVE ItemsHeld'
<1>1. Shapes /\ OneWriter /\ ItemsHeld /\ Kept(s)
  BY CommitKeeps DEF CampaignInv
<1>2. \A a \in Slots : \A d : d \in Written(a)' /\ writes'[a][d] = NoRow => Going(a, d)
  BY <1>1 DEF Kept, Going
<1>3. ASSUME NEW d \in Definitions, db[d] # NoRow, \A a \in Slots : ~Going(a, d)
      PROVE  db'[d] # NoRow
  BY <1>1, <1>3 DEF Kept, Going, Rows
<1>4. ASSUME NEW i \in Existing(Items)', NEW d, d = db'[i].of PROVE db'[d] # NoRow /\ \A a \in Slots : ~Going(a, d)
  <2>1. i \in Items /\ i \in Rows /\ db'[i] # NoRow
    BY DEF Existing, Rows
  <2>2. CASE i \in Written(s)
    <3>1. writes[s][i] # NoRow /\ d = writes[s][i].of
      BY <1>1, <1>4, <2>1, <2>2 DEF Kept
    <3>2. d \in Definitions
      BY <1>1, <2>1, <2>2, <3>1, WrittenRows DEF Item
    <3>3. db[d] # NoRow /\ \A a \in Slots : ~Going(a, d)
      BY <1>1, <2>1, <2>2, <3>1 DEF ItemsHeld
    <3>4. QED BY <1>3, <3>2, <3>3
  <2>3. CASE i \notin Written(s)
    <3>1. db[i] # NoRow /\ d = db[i].of
      BY <1>1, <1>4, <2>1, <2>3 DEF Kept
    <3>2. d \in Definitions
      BY <1>1, <2>1, <3>1, DbRows DEF Item
    <3>3. db[d] # NoRow /\ \A a \in Slots : ~Going(a, d)
      BY <1>1, <2>1, <3>1 DEF ItemsHeld, Existing
    <3>4. QED BY <1>3, <3>2, <3>3
  <2>4. QED BY <2>2, <2>3
<1>5. ASSUME NEW t \in Slots, NEW i \in Items, i \in Written(t)', writes'[t][i] # NoRow, NEW d, d = writes'[t][i].of
      PROVE  db'[d] # NoRow /\ \A a \in Slots : ~Going(a, d)
  <2>1. t # s /\ i \in Written(t) /\ writes[t][i] # NoRow /\ d = writes[t][i].of
    BY <1>1, <1>5 DEF Kept
  <2>2. d \in Definitions
    BY <1>1, <2>1, WrittenRows DEF Item
  <2>3. db[d] # NoRow /\ \A a \in Slots : ~Going(a, d)
    BY <1>1, <2>1 DEF ItemsHeld
  <2>4. QED BY <1>3, <2>2, <2>3
<1>6. \A i \in Existing(Items)' : /\ db'[db'[i].of] # NoRow
                                  /\ \A a \in Slots : ~(db'[i].of \in Written(a)' /\ writes'[a][db'[i].of] = NoRow)
  BY <1>2, <1>4
<1>7. \A t \in Slots : \A i \in Items : i \in Written(t)' /\ writes'[t][i] # NoRow =>
        /\ db'[writes'[t][i].of] # NoRow
        /\ \A a \in Slots : ~(writes'[t][i].of \in Written(a)' /\ writes'[a][writes'[t][i].of] = NoRow)
  BY <1>2, <1>5
<1>8. QED BY <1>6, <1>7 DEF ItemsHeld, Going

\* Who deletes the definition of a price, or the entry, leaves its id behind.
LEMMA GoneGrows ==
  ASSUME Shapes, OneWriter, NEW s \in Slots, Commit(s)
  PROVE  /\ gone \subseteq gone'
         /\ \A r \in Definitions \union Entries : db[r] # NoRow /\ Going(s, r) => r \in gone'
BY DEF Commit, Going, Existing, Row, Written

LEMMA PricedStays ==
  ASSUME Shapes, OneWriter, NEW s \in Slots, Progress(s), Commit(s),
         NEW d \in Definitions, NEW e, NEW o, Priced(e, d, o)
  PROVE  Priced(e, d, o)'
<1>1. Kept(s) /\ HomebrewChanges(s) /\ d \in Rows /\ gone \subseteq gone'
  BY CommitKeeps, WhatChanges, GoneGrows DEF Changes, Rows
<1>2. CASE {e, d} \intersect gone # {}
  <2>1. {e, d} \intersect gone' # {}
    BY <1>1, <1>2
  <2>2. QED BY <2>1 DEF Priced
<1>3. CASE {e, d} \intersect gone = {}
  <2>1. db[d] # NoRow /\ (o # NoRow \/ db[d].cost # NoRow)
    BY <1>3 DEF Priced
  <2>2. CASE Going(s, d)
    <3>1. d \in gone'
      BY <2>1, <2>2, GoneGrows
    <3>2. QED BY <3>1 DEF Priced
  <2>3. CASE ~Going(s, d)
    <3>1. db'[d] # NoRow
      BY <1>1, <2>1, <2>3 DEF Kept, Going
    <3>2. db[d].cost # NoRow => db'[d].cost # NoRow
      BY <1>1, <2>1, <2>3 DEF Kept, Going, HomebrewChanges
    <3>3. QED BY <2>1, <3>1, <3>2 DEF Priced
  <2>4. QED BY <2>2, <2>3
<1>4. QED BY <1>2, <1>3

LEMMA PricesHoldCommitted ==
  ASSUME CampaignInv, NEW s \in Slots, Commit(s) PROVE PricesHold'
<1>1. Shapes /\ OneWriter /\ PricesHold /\ Progress(s) /\ Kept(s) /\ StockChanges(s) /\ job \in [Slots -> Jobs]
  BY CommitKeeps, WhatChanges DEF CampaignInv, Changes, Shapes
<1>2. \A t \in Slots : (job'[t] = job[t] /\ t # s) \/ job'[t].kind = "idle"
  BY <1>1 DEF Kept, Idle
<1>3. \A t \in Slots : job[t].kind = "stock-add" => job[t].value \in Entry
  <2>1. \A t \in Slots : job[t].kind = "stock-add" => job[t] \in InsertJobs
    BY <1>1, KindsOfJobs
  <2>2. QED BY <2>1 DEF InsertJobs
<1>4. \A t \in Slots : job[t].kind = "stock-update" => job[t].row \in Entries
  BY <1>1, KindsOfJobs
<1>5. ASSUME NEW e \in Existing(Entries)', NEW d, d = db'[e].of, NEW o, o = db'[e].override PROVE Priced(e, d, o)'
  <2>1. e \in Entries /\ e \in Rows /\ db'[e] # NoRow
    BY DEF Existing, Rows
  <2>2. CASE e \notin Written(s)
    <3>1. db[e] # NoRow /\ d = db[e].of /\ o = db[e].override
      BY <1>1, <1>5, <2>1, <2>2 DEF Kept
    <3>2. d \in Definitions
      BY <1>1, <2>1, <3>1, DbRows DEF Entry
    <3>3. Priced(e, d, o)
      BY <1>1, <2>1, <3>1 DEF PricesHold, Existing
    <3>4. QED BY <1>1, <3>2, <3>3, PricedStays
  <2>3. CASE e \in Written(s) /\ db[e] = NoRow
    <3>1. job[s].kind = "stock-add" /\ d = job[s].value.of /\ o = job[s].value.override
      BY <1>1, <1>5, <2>1, <2>3 DEF Kept, StockChanges
    <3>2. d \in Definitions
      BY <1>3, <3>1 DEF Entry
    <3>3. Priced(d, d, o)
      BY <1>1, <3>1 DEF PricesHold
    <3>4. Priced(d, d, o)'
      BY <1>1, <3>2, <3>3, PricedStays
    <3>5. QED BY <3>4 DEF Priced
  <2>4. CASE e \in Written(s) /\ db[e] # NoRow
    <3>1. /\ job[s].kind = "stock-update" /\ job[s].row = e /\ d = db[e].of
          /\ o = IF "override" \in DOMAIN job[s].patch THEN job[s].patch["override"] ELSE db[e].override
      BY <1>1, <1>5, <2>1, <2>4 DEF Kept, StockChanges
    <3>2. d \in Definitions
      BY <1>1, <2>1, <2>4, <3>1, DbRows DEF Entry
    <3>3. e \in gone \/ Priced(e, d, o)
      BY <1>1, <2>1, <2>4, <3>1 DEF PricesHold, Existing
    <3>4. Priced(e, d, o)
      BY <3>3 DEF Priced
    <3>5. QED BY <1>1, <3>2, <3>4, PricedStays
  <2>5. QED BY <2>2, <2>3, <2>4
<1>6. ASSUME NEW t \in Slots, job'[t].kind = "stock-add", NEW d, d = job'[t].value.of, NEW o, o = job'[t].value.override
      PROVE  Priced(d, d, o)'
  <2>1. job'[t] = job[t]
    BY <1>2, <1>6
  <2>2. d \in Definitions /\ Priced(d, d, o)
    BY <1>1, <1>3, <1>6, <2>1 DEF Entry, PricesHold
  <2>3. QED BY <1>1, <2>2, PricedStays
<1>7. ASSUME NEW t \in Slots, job'[t].kind = "stock-update", "override" \in DOMAIN job'[t].patch,
             NEW e, e = job'[t].row, NEW o, o = job'[t].patch["override"], e \notin gone', NEW d, d = db'[e].of
      PROVE  db'[e] # NoRow /\ Priced(e, d, o)'
  <2>1. job'[t] = job[t] /\ e \in Entries /\ e \in Rows
    BY <1>2, <1>4, <1>7 DEF Rows
  <2>2. db[e] # NoRow /\ Priced(e, db[e].of, o) /\ ~Going(s, e)
    BY <1>1, <1>7, <2>1, GoneGrows DEF PricesHold
  <2>3. db'[e] # NoRow /\ d = db[e].of
    BY <1>1, <1>7, <2>1, <2>2 DEF Kept, Going, StockChanges
  <2>4. d \in Definitions
    BY <1>1, <2>1, <2>2, <2>3, DbRows DEF Entry
  <2>5. QED BY <1>1, <2>1, <2>2, <2>3, <2>4, PricedStays
<1>8. QED
  <2>1. \A e \in Existing(Entries)' : Priced(e, db[e].of, db[e].override)'
    BY <1>5 DEF Priced
  <2>2. \A t \in Slots : job'[t].kind = "stock-add" => Priced(job[t].value.of, job[t].value.of, job[t].value.override)'
    BY <1>6 DEF Priced
  <2>3. \A t \in Slots : job'[t].kind = "stock-update" /\ "override" \in DOMAIN job'[t].patch =>
          \/ job'[t].row \in gone'
          \/ db'[job'[t].row] # NoRow /\ Priced(job[t].row, db[job[t].row].of, job[t].patch["override"])'
    BY <1>7 DEF Priced
  <2>4. QED BY <2>1, <2>2, <2>3 DEF PricesHold

LEMMA OneCurrentCommitted ==
  ASSUME CampaignInv, NEW s \in Slots, Commit(s) PROVE OneCurrent'
<1>1. Shapes /\ OneWriter /\ OneCurrent /\ Kept(s)
  BY CommitKeeps DEF CampaignInv
<1>2. \A t \in Slots : \A g : Claims(t, g)' => Claims(t, g) /\ t # s
  BY <1>1 DEF Kept, Claims
<1>3. ASSUME NEW g \in Current' PROVE g \in Sessions /\ (Claims(s, g) \/ (g \in Current /\ g \notin Written(s)))
  BY <1>1 DEF Kept, Claims, Current, Existing, Rows
<1>4. ASSUME NEW g \in Current', NEW h \in Current' PROVE g = h
  BY <1>1, <1>3 DEF OneCurrent
<1>5. ASSUME NEW t \in Slots, NEW g \in Sessions, Claims(t, g)', NEW h \in Current'
      PROVE  h = g \/ (h \in Written(t)' /\ ~Claims(t, h)')
  <2>1. Claims(t, g) /\ t # s /\ Written(t)' = Written(t)
    BY <1>1, <1>2, <1>5 DEF Kept
  <2>2. CASE Claims(s, h)
    BY <1>1, <1>3, <2>1, <2>2 DEF OneCurrent
  <2>3. CASE h \in Current
    BY <1>1, <1>2, <2>1, <2>3 DEF OneCurrent
  <2>4. QED BY <1>3, <2>2, <2>3
<1>6. \A t, u \in Slots : \A g, h \in Sessions : Claims(t, g)' /\ Claims(u, h)' => g = h
  BY <1>1, <1>2 DEF OneCurrent
<1>7. QED BY <1>4, <1>5, <1>6 DEF OneCurrent

LEMMA NumberedCommitted ==
  ASSUME CampaignInv, NEW s \in Slots, Commit(s), OneCurrent' PROVE Numbered'
<1>1. Shapes /\ OneCurrent /\ Numbered /\ job[s] \in Jobs
  BY DEF CampaignInv, Shapes
<1>2. SUFFICES ASSUME "start-game-session" \notin stale'
               PROVE  /\ \A g, h \in Existing(Sessions)' : db'[g].number = db'[h].number => g = h
                      /\ \A g \in Current', h \in Existing(Sessions)' : db'[h].number <= db'[g].number
  BY DEF Numbered
<1>3. "start-game-session" \notin stale /\ (job[s] \in StartJobs => exact[s])
  BY <1>2 DEF Commit, StartJobs
<1>4. /\ \A g, h \in Existing(Sessions) : db[g].number = db[h].number => g = h
      /\ \A g \in Current, h \in Existing(Sessions) : db[h].number <= db[g].number
  BY <1>1, <1>3 DEF Numbered
<1>5. ASSUME NEW g \in Existing(Sessions)'
      PROVE  /\ g \in Sessions /\ db'[g].number \in Nat
             /\ g \in Existing(Sessions) => db'[g].number = db[g].number
             /\ g \notin Existing(Sessions) =>
                  Claims(s, g) /\ \A h \in Existing(Sessions) : db[h].number < db'[g].number
             /\ g \in Current' => Claims(s, g) \/ g \in Current
  <2>1. g \in Sessions /\ db'[g] # NoRow
    BY DEF Existing
  <2>2. db'[g] \in Session
    BY <2>1, NewSessions
  <2>3. g \in Current' => db'[g].current
    BY DEF Current
  <2>4. db[g] # NoRow => g \in Existing(Sessions)
    BY <2>1 DEF Existing
  <2>5. g \in Existing(Sessions) /\ db[g].current => g \in Current
    BY DEF Current
  <2>6. QED BY <1>3, <2>1, <2>2, <2>3, <2>4, <2>5, NewSessions DEF Session, Existing
<1>6. \A g, h \in Sessions : Claims(s, g) /\ Claims(s, h) => g = h
  BY <1>1 DEF OneCurrent
<1>7. \A g \in Existing(Sessions) : db[g].number \in Nat
  BY <1>1, DbRows DEF Existing, Session
<1>8. ASSUME NEW g \in Existing(Sessions)', NEW h \in Existing(Sessions)', db'[g].number = db'[h].number PROVE g = h
  BY <1>4, <1>5, <1>6, <1>7, <1>8
<1>9. ASSUME NEW g \in Current', NEW h \in Existing(Sessions)' PROVE db'[h].number <= db'[g].number
  <2>1. g \in Existing(Sessions)'
    BY DEF Current
  <2>2. CASE g \notin Existing(Sessions)
    BY <1>5, <1>6, <1>7, <2>1, <2>2
  <2>3. CASE g \in Existing(Sessions)
    <3>1. g \in Current
      <4>1. g \in Sessions /\ db'[g] # NoRow /\ db'[g].current /\ db[g] # NoRow
        BY <2>1, <2>3 DEF Current, Existing
      <4>2. db[g].current
        BY <4>1, NewSessions
      <4>3. QED BY <2>3, <4>2 DEF Current
    <3>2. CASE h \in Existing(Sessions)
      BY <1>4, <1>5, <2>1, <2>3, <3>1, <3>2
    <3>3. CASE h \notin Existing(Sessions)
      <4>1. Claims(s, h) /\ h \in Sessions
        BY <1>5, <3>3
      <4>2. g = h \/ (g \in Written(s) /\ ~Claims(s, g))
        BY <1>1, <3>1, <4>1 DEF OneCurrent
      <4>3. g \in Written(s) => Claims(s, g)
        <5>1. g \in Sessions /\ db'[g] # NoRow /\ db'[g].current
          BY <2>1 DEF Current, Existing
        <5>2. QED BY <5>1, NewSessions
      <4>4. QED BY <2>3, <3>3, <4>2, <4>3
    <3>4. QED BY <3>2, <3>3
  <2>4. QED BY <2>2, <2>3
<1>10. QED BY <1>8, <1>9

-----------------------------------------------------------------------------
(* Committing what is exact is what replaying its log entries does.        *)

LEMMA FieldReplayed ==
  ASSUME Shapes, NEW s \in Slots, job[s] \in FieldJobs, pc[s] = 2, FieldWritten(s), exact[s], NEW r \in Rows
  PROVE  Replay(db, job[s], Seen(s))[r] = Row(s, r)
<1> DEFINE j == job[s]
<1>1. /\ "patch" \in DOMAIN j
      /\ j.kind \notin {"create-homebrew", "acquire", "create-shop", "stock-add", "delete-homebrew", "consume",
                        "stock-remove", "delete-shop", "identify-batch", "wishlist-add", "wishlist-remove",
                        "start-game-session", "end-game-session"}
  BY DEF FieldJobs, Fields, Edit
<1>2. Replay(db, j, Seen(s)) = [db EXCEPT ![j.row] = IF @ = NoRow THEN @ ELSE Retold(j, @, Seen(s)[j.row])]
  BY <1>1 DEF Replay
<1>3. /\ Written(s) = {j.row} /\ db[j.row] # NoRow
      /\ writes[s][j.row] = Retold(j, db[j.row], writes[s][j.row])
  BY DEF FieldWritten
<1>4. DOMAIN db = Rows
  BY DEF Shapes, TypeOK
<1>5. j.row \in Rows
  BY DEF FieldJobs, Fields, Edit, Rows
<1>6. Seen(s)[j.row] = writes[s][j.row]
  BY <1>3, <1>5 DEF Seen, Row, Written
<1> HIDE DEF j
<1>7. CASE r = j.row
  <2>1. Replay(db, j, Seen(s))[r] = writes[s][r]
    BY <1>2, <1>3, <1>4, <1>6, <1>7
  <2>2. QED BY <1>3, <1>7, <2>1 DEF j, Row, Written
<1>8. CASE r # j.row
  BY <1>2, <1>3, <1>4, <1>8 DEF j, Row, Written
<1>9. QED BY <1>7, <1>8

LEMMA InsertReplayed ==
  ASSUME Shapes, NEW s \in Slots, job[s] \in InsertJobs, pc[s] = 2, RowInserted(s), NEW r \in Rows
  PROVE  Replay(db, job[s], Seen(s))[r] = Row(s, r)
<1> DEFINE j == job[s]
<1>1. "patch" \notin DOMAIN j /\ j.kind \in {"create-homebrew", "acquire", "create-shop", "stock-add"}
  BY DEF InsertJobs
<1>2. Written(s) = {j.row} /\ writes[s][j.row] = j.value
  BY DEF RowInserted
<1>3. DOMAIN db = Rows /\ j.row \in Rows
  BY DEF Shapes, TypeOK, InsertJobs, Rows
<1>4. Replay(db, j, Seen(s)) = [db EXCEPT ![j.row] = j.value]
  <2>1. CASE j.kind \in {"acquire", "stock-add"}
    BY <1>1, <2>1 DEF Replay
  <2>2. CASE j.kind \in {"create-homebrew", "create-shop"}
    <3>1. Seen(s)[j.row] = j.value
      BY <1>2, <1>3 DEF Seen, Row, Written
    <3>2. PICK value : value = j.value
      OBVIOUS
    <3>3. value \in Homebrew \/ value \in ShopFields
      BY <2>2, <3>2 DEF InsertJobs
    <3>4. [value EXCEPT !.text = value.text] = value
      BY <3>3 DEF Homebrew, ShopFields
    <3>5. Replay(db, j, Seen(s)) = [db EXCEPT ![j.row] = [value EXCEPT !.text = value.text]]
      BY <1>1, <2>2, <3>1, <3>2 DEF Replay
    <3>6. QED BY <3>2, <3>4, <3>5
  <2>3. QED BY <1>1, <2>1, <2>2
<1>5. QED BY <1>2, <1>3, <1>4 DEF Row, Written

LEMMA DeleteReplayed ==
  ASSUME Shapes, NEW s \in Slots, pc[s] = 2, NEW r \in Rows,
         \/ job[s] \in DeleteJobs /\ RowDeleted(s)
         \/ job[s] \in ShopJobs /\ ShopDeleted(s)
  PROVE  Replay(db, job[s], Seen(s))[r] = Row(s, r)
<1> DEFINE j == job[s]
<1>1. DOMAIN db = Rows
  BY DEF Shapes, TypeOK
<1>2. CASE job[s] \in DeleteJobs /\ RowDeleted(s)
  <2>1. "patch" \notin DOMAIN j /\ j.kind \in {"delete-homebrew", "consume", "stock-remove"}
    BY <1>2 DEF DeleteJobs
  <2>2. Replay(db, j, Seen(s)) = [db EXCEPT ![j.row] = NoRow]
    BY <2>1 DEF Replay
  <2>3. Written(s) = {j.row} /\ writes[s][j.row] = NoRow
    BY <1>2 DEF RowDeleted
  <2>4. QED BY <1>1, <2>2, <2>3 DEF Row, Written
<1>3. CASE job[s] \in ShopJobs /\ ShopDeleted(s)
  <2>1. "patch" \notin DOMAIN j /\ j.kind = "delete-shop"
    BY <1>3 DEF ShopJobs
  <2>2. Replay(db, j, Seen(s)) = [x \in Rows |-> IF x \in Entries \union {Shop} THEN NoRow ELSE db[x]]
    BY <2>1 DEF Replay
  <2>3. /\ Shop \in Written(s) /\ Written(s) \subseteq {Shop} \union Entries
        /\ \A x \in Written(s) : writes[s][x] = NoRow
        /\ \A e \in Entries : e \notin Written(s) => db[e] = NoRow
    BY <1>3 DEF ShopDeleted
  <2>4. CASE r \in Entries \union {Shop}
    <3>1. Row(s, r) = NoRow
      BY <2>3, <2>4 DEF Row, Written
    <3>2. QED BY <2>2, <2>4, <3>1
  <2>5. CASE r \notin Entries \union {Shop}
    <3>1. Row(s, r) = db[r]
      BY <2>3, <2>5 DEF Row, Written
    <3>2. QED BY <2>2, <2>5, <3>1
  <2>6. QED BY <2>4, <2>5
<1>4. QED BY <1>2, <1>3

LEMMA BatchReplayed ==
  ASSUME Shapes, NEW s \in Slots, job[s] \in BatchJobs, pc[s] = 3, BatchWritten(s), exact[s], NEW r \in Rows
  PROVE  Replay(db, job[s], Seen(s))[r] = Row(s, r)
<1> DEFINE j == job[s]
<1>1. "patch" \notin DOMAIN j /\ j.kind = "identify-batch"
  BY DEF BatchJobs
<1>2. Replay(db, j, Seen(s)) = [x \in Rows |-> IF x \in j.affected /\ db[x] # NoRow
                                      THEN [db[x] EXCEPT !.identified = j.value] ELSE db[x]]
  BY <1>1 DEF Replay
<1>3. /\ Written(s) = j.affected
      /\ \A i \in Written(s) : db[i] # NoRow /\ writes[s][i] = [db[i] EXCEPT !.identified = j.value]
  BY DEF BatchWritten
<1>4. CASE r \in Written(s)
  BY <1>2, <1>3, <1>4 DEF Row, Written
<1>5. CASE r \notin Written(s)
  BY <1>2, <1>3, <1>5 DEF Row, Written
<1>6. QED BY <1>4, <1>5

LEMMA WishReplayed ==
  ASSUME Shapes, NEW s \in Slots, job[s] \in WishJobs, pc[s] = 3, WishWritten(s), exact[s], NEW r \in Rows
  PROVE  Replay(db, job[s], Seen(s))[r] = Row(s, r)
<1> DEFINE j == job[s]
<1>1. "patch" \notin DOMAIN j /\ j.kind \in {"wishlist-add", "wishlist-remove"}
  BY DEF WishJobs
<1>2. /\ Written(s) = {Sheet}
      /\ writes[s][Sheet] = [db[Sheet] EXCEPT !.wishlist = Wished(j, db[Sheet].wishlist)]
  BY DEF WishWritten
<1>3. DOMAIN db = Rows /\ db[Sheet] \in SheetFields
  BY DbRows DEF Shapes, TypeOK
<1>4. Replay(db, j, Seen(s)) = [db EXCEPT ![Sheet] = [db[Sheet] EXCEPT !.wishlist = Wished(j, db[Sheet].wishlist)]]
  <2>1. CASE j.kind = "wishlist-add"
    BY <1>1, <1>3, <2>1 DEF Replay, Wished
  <2>2. CASE j.kind = "wishlist-remove"
    BY <1>1, <1>3, <2>2 DEF Replay, Wished
  <2>3. QED BY <1>1, <2>1, <2>2
<1>5. QED BY <1>2, <1>3, <1>4 DEF Row, Written

LEMMA SessionReplayed ==
  ASSUME Shapes, NEW s \in Slots, exact[s], NEW r \in Rows,
         \/ job[s] \in EndJobs /\ SessionEnded(s) /\ pc[s] = 3
         \/ job[s] \in StartJobs /\ SessionStarted(s) /\ pc[s] = 5
  PROVE  Replay(db, job[s], Seen(s))[r] = Row(s, r)
<1> DEFINE j == job[s]
<1>1. "patch" \notin DOMAIN j /\ j.kind \in {"start-game-session", "end-game-session"}
  BY DEF StartJobs, EndJobs
<1>2. Replay(db, j, Seen(s)) = [x \in Rows |-> AfterSession(db, j, x)]
  BY <1>1 DEF Replay, AfterSession
<1>3. CASE job[s] \in EndJobs /\ SessionEnded(s) /\ pc[s] = 3
  <2>1. /\ j.kind = "end-game-session" /\ Written(s) = j.ended
        /\ \A g \in Written(s) : writes[s][g] = [db[g] EXCEPT !.current = FALSE]
    <3>1. Demoted(s, Written(s))
      BY <1>3 DEF SessionEnded
    <3>2. Written(s) = j.ended /\ \A g \in Written(s) : writes[s][g] = [db[g] EXCEPT !.current = FALSE]
      BY <3>1 DEF Demoted
    <3>3. j.kind = "end-game-session"
      BY <1>3 DEF EndJobs
    <3>4. QED BY <3>2, <3>3
  <2>2. AfterSession(db, j, r) = Row(s, r)
    BY <2>1 DEF AfterSession, Row, Written
  <2>3. QED BY <1>2, <2>2
<1>4. CASE job[s] \in StartJobs /\ SessionStarted(s) /\ pc[s] = 5
  <2>1. /\ j.kind = "start-game-session" /\ j.row \in Written(s) /\ Written(s) \ {j.row} = j.ended
        /\ \A g \in Written(s) \ {j.row} : writes[s][g] = [db[g] EXCEPT !.current = FALSE]
        /\ writes[s][j.row] = [number |-> j.number, current |-> TRUE, notes |-> NoRow]
    <3>1. /\ j.row \in Written(s) /\ Demoted(s, Written(s) \ {j.row})
          /\ writes[s][j.row] = [number |-> j.number, current |-> TRUE, notes |-> NoRow]
      <4>1. /\ j.row \in Written(s) /\ Demoted(s, Written(s) \ {j.row})
            /\ writes[s][j.row] = [number |-> found[s], current |-> TRUE, notes |-> NoRow]
        BY <1>4 DEF SessionStarted
      <4>2. found[s] = j.number
        BY <1>4 DEF SessionStarted
      <4>3. QED BY <4>1, <4>2
    <3>2. /\ Written(s) \ {j.row} = j.ended
          /\ \A g \in Written(s) \ {j.row} : writes[s][g] = [db[g] EXCEPT !.current = FALSE]
      BY <3>1 DEF Demoted
    <3>3. j.kind = "start-game-session"
      BY <1>4 DEF StartJobs
    <3>4. QED BY <3>1, <3>2, <3>3
  <2>2. AfterSession(db, j, r) = Row(s, r)
    BY <2>1 DEF AfterSession, Row, Written
  <2>3. QED BY <1>2, <2>2
<1>5. QED BY <1>3, <1>4

LEMMA Replayed ==
  ASSUME Shapes, NEW s \in Slots, Progress(s), Busy(s), pc[s] > LastStatement(job[s].kind), exact[s]
  PROVE  Replay(db, job[s], Seen(s)) = Seen(s)
<1>1. job[s] \in Jobs \ {Idle} /\ db = [r \in Rows |-> db[r]]
  BY DEF Shapes, Busy
<1>2. /\ job[s] \in FieldJobs \union InsertJobs \union DeleteJobs \union ShopJobs => pc[s] = 2
      /\ job[s] \in BatchJobs \union WishJobs \union EndJobs => pc[s] = 3
      /\ job[s] \in StartJobs => pc[s] = 5
  BY Finished
<1>3. ASSUME NEW r \in Rows PROVE Replay(db, job[s], Seen(s))[r] = Row(s, r)
  <2>1. CASE job[s] \in FieldJobs
    BY <1>2, <2>1, FieldReplayed DEF Progress
  <2>2. CASE job[s] \in InsertJobs
    BY <1>2, <2>2, InsertReplayed DEF Progress
  <2>3. CASE job[s] \in DeleteJobs \union ShopJobs
    BY <1>2, <2>3, DeleteReplayed DEF Progress
  <2>4. CASE job[s] \in BatchJobs
    BY <1>2, <2>4, BatchReplayed DEF Progress
  <2>5. CASE job[s] \in WishJobs
    BY <1>2, <2>5, WishReplayed DEF Progress
  <2>6. CASE job[s] \in StartJobs \union EndJobs
    BY <1>2, <2>6, SessionReplayed DEF Progress
  <2>7. QED BY <1>1, <2>1, <2>2, <2>3, <2>4, <2>5, <2>6, Classes
<1>4. Replay(db, job[s], Seen(s)) = [r \in Rows |-> Replay(db, job[s], Seen(s))[r]]
  BY <1>1, ReplayShape
<1>5. QED BY <1>3, <1>4 DEF Seen

\* A commit of any request.
LEMMA CommitStep ==
  ASSUME CampaignInv, NEW s \in Slots, Commit(s) PROVE CampaignInv'
<1>1. Shapes /\ OneWriter /\ Progress(s) /\ Kept(s) /\ Exactness /\ RowsAsLogged
  BY CommitKeeps DEF CampaignInv
<1>2. Shapes'
  BY <1>1, ShapesCommitted
<1>3. \A t \in Slots : Progress(t)'
  BY <1>2, ProgressCommitted
<1>4. OneWriter' /\ ShopHeld'
  BY <1>1 DEF Kept, OneWriter, ShopHeld, Going, CampaignInv
<1>5. ItemsHeld' /\ PricesHold' /\ OneCurrent'
  BY ItemsHeldCommitted, PricesHoldCommitted, OneCurrentCommitted
<1>6. Numbered'
  BY <1>5, NumberedCommitted
<1>7. RowsAsLogged'
  <2>1. stale' \subseteq Overwriting
    BY <1>1 DEF Commit, Exactness, RowsAsLogged
  <2> SUFFICES ASSUME stale' = {} PROVE db' = book'
    BY <2>1 DEF RowsAsLogged
  <2>2. exact[s] /\ stale = {} /\ Busy(s) /\ pc[s] > LastStatement(job[s].kind)
        /\ db' = Seen(s) /\ book' = Replay(book, job[s], Seen(s))
    BY DEF Commit, Seen
  <2>3. db = book
    BY <1>1, <2>2 DEF RowsAsLogged
  <2>4. Replay(db, job[s], Seen(s)) = Seen(s)
    BY <1>1, <2>2, Replayed
  <2>5. QED BY <2>2, <2>3, <2>4
<1>8. Exactness'
  BY <1>1 DEF Kept, Exactness
<1>9. QED BY <1>2, <1>3, <1>4, <1>5, <1>6, <1>7, <1>8 DEF CampaignInv

-----------------------------------------------------------------------------
(* Theorems.                                                               *)

LEMMA InitRows ==
  ASSUME Init
  PROVE  \E d \in Definitions, i \in Items, g \in Sessions, e \in Entries :
           /\ \A r \in Definitions : IF r = d THEN db[r] \in Homebrew ELSE db[r] = NoRow
           /\ \A r \in Items : IF r = i THEN db[r] \in Item /\ db[r].of = d ELSE db[r] = NoRow
           /\ \A r \in Sessions : IF r = g THEN db[r] \in Session ELSE db[r] = NoRow
           /\ \A r \in Entries : IF r = e THEN db[r] \in Entry /\ db[r].of = d /\ db[r].override # NoRow ELSE db[r] = NoRow
           /\ db[Shop] \in ShopFields
           /\ db[Sheet] \in SheetFields
           /\ db[PartyRow] \in PartyFields
           /\ DOMAIN db = Rows /\ db = [r \in Rows |-> db[r]] /\ book = db
<1>1. PICK d \in Definitions, i \in Items, g \in Sessions, e \in Entries, w \in Wishes, text \in Texts, price \in Prices,
           cost \in Prices \union {NoRow}, shared \in BOOLEAN, current \in BOOLEAN :
        db = [r \in Rows |->
               CASE r = d        -> [text |-> text, cost |-> cost]
                 [] r = i        -> [of |-> d, shared |-> shared, identified |-> FALSE]
                 [] r = g        -> [number |-> 1, current |-> current, notes |-> NoRow]
                 [] r = Shop     -> [text |-> text, open |-> FALSE]
                 [] r = e        -> [of |-> d, override |-> price, quantity |-> text]
                 [] r = Sheet    -> [name |-> text, class |-> text, level |-> text, wishlist |-> {w}]
                 [] r = PartyRow -> [name |-> text, rule |-> text, economy |-> text]
                 [] OTHER        -> NoRow]
  BY DEF Init
<1>2. \A r \in Definitions : db[r] = IF r = d THEN [text |-> text, cost |-> cost] ELSE NoRow
  BY <1>1, TablesAssumption DEF Rows
<1>3. \A r \in Items : db[r] = IF r = i THEN [of |-> d, shared |-> shared, identified |-> FALSE] ELSE NoRow
  BY <1>1, TablesAssumption DEF Rows
<1>4. \A r \in Sessions : db[r] = IF r = g THEN [number |-> 1, current |-> current, notes |-> NoRow] ELSE NoRow
  BY <1>1, TablesAssumption DEF Rows
<1>5. \A r \in Entries : db[r] = IF r = e THEN [of |-> d, override |-> price, quantity |-> text] ELSE NoRow
  BY <1>1, TablesAssumption DEF Rows
<1>6. db[Shop] = [text |-> text, open |-> FALSE]
  BY <1>1, TablesAssumption DEF Rows
<1>7. db[Sheet] = [name |-> text, class |-> text, level |-> text, wishlist |-> {w}]
  BY <1>1, TablesAssumption DEF Rows
<1>8. db[PartyRow] = [name |-> text, rule |-> text, economy |-> text]
  BY <1>1, TablesAssumption DEF Rows
<1>9. DOMAIN db = Rows /\ db = [r \in Rows |-> db[r]] /\ book = db
  BY <1>1 DEF Init
<1>10. db[Sheet] \in SheetFields
  BY <1>7 DEF SheetFields
<1>11. \A r \in Definitions : IF r = d THEN db[r] \in Homebrew ELSE db[r] = NoRow
  BY <1>2 DEF Homebrew
<1>12. \A r \in Items : IF r = i THEN db[r] \in Item /\ db[r].of = d ELSE db[r] = NoRow
  <2>1. [of |-> d, shared |-> shared, identified |-> FALSE] \in Item
    BY DEF Item
  <2>2. QED BY <1>3, <2>1
<1>13. \A r \in Sessions : IF r = g THEN db[r] \in Session ELSE db[r] = NoRow
  BY <1>4 DEF Session
<1>14. \A r \in Entries : IF r = e THEN db[r] \in Entry /\ db[r].of = d /\ db[r].override # NoRow ELSE db[r] = NoRow
  <2>1. [of |-> d, override |-> price, quantity |-> text] \in Entry /\ price # NoRow
    BY NoRowAssumption DEF Entry
  <2>2. QED BY <1>5, <2>1
<1>15. db[Shop] \in ShopFields /\ db[PartyRow] \in PartyFields
  BY <1>6, <1>8 DEF ShopFields, PartyFields
<1>16. QED BY <1>9, <1>10, <1>11, <1>12, <1>13, <1>14, <1>15

LEMMA InitHolds ==
  ASSUME Init PROVE CampaignInv
<1>1. PICK d \in Definitions, i \in Items, g \in Sessions, e \in Entries :
           /\ \A r \in Definitions : IF r = d THEN db[r] \in Homebrew ELSE db[r] = NoRow
           /\ \A r \in Items : IF r = i THEN db[r] \in Item /\ db[r].of = d ELSE db[r] = NoRow
           /\ \A r \in Sessions : IF r = g THEN db[r] \in Session ELSE db[r] = NoRow
           /\ \A r \in Entries : IF r = e THEN db[r] \in Entry /\ db[r].of = d /\ db[r].override # NoRow ELSE db[r] = NoRow
           /\ db[Shop] \in ShopFields
           /\ db[Sheet] \in SheetFields
           /\ db[PartyRow] \in PartyFields
           /\ DOMAIN db = Rows /\ db = [r \in Rows |-> db[r]] /\ book = db
  BY InitRows
<1>2. /\ writes = [s \in Slots |-> <<>>] /\ job = [s \in Slots |-> Idle] /\ pc = [s \in Slots |-> 0]
      /\ found = [s \in Slots |-> {}] /\ exact = [s \in Slots |-> TRUE]
      /\ stale = {} /\ gone = {} /\ desk \in Desks
  BY DEF Init
<1>3. \A s \in Slots : Written(s) = {} /\ job[s] = Idle /\ pc[s] = 0
  <2>1. DOMAIN <<>> = {}
    OBVIOUS
  <2>2. QED BY <1>2, <2>1 DEF Written
<1>4. db[d] # NoRow
  <2>1. db[d] \in RowType(d)
    BY <1>1, Tables
  <2>2. QED BY <2>1, RowsAreRows DEF Rows
<1>5. TypeOK
  <2>1. \A r \in Rows : db[r] # NoRow => db[r] \in RowType(r)
    BY <1>1, Tables DEF Rows
  <2>2. db[Sheet] # NoRow /\ db[PartyRow] # NoRow
    <3>1. db[Sheet] \in RowType(Sheet) /\ db[PartyRow] \in RowType(PartyRow)
      BY <1>1, Tables
    <3>2. QED BY <3>1, RowsAreRows DEF Rows
  <2>3. \A s \in Slots : DOMAIN writes[s] \subseteq Rows
    BY <1>3 DEF Written
  <2>4. QED BY <1>1, <1>2, <2>1, <2>2, <2>3 DEF TypeOK, Existing, Rows
<1>6. Shapes
  <2>1. job \in [Slots -> Jobs]
    BY <1>2 DEF Jobs
  <2>2. DOMAIN pc = Slots /\ DOMAIN found = Slots /\ exact \in [Slots -> BOOLEAN] /\ DOMAIN writes = Slots
    BY <1>2
  <2>3. book = [r \in Rows |-> book[r]]
    BY <1>1
  <2>4. QED BY <1>1, <1>3, <1>5, <2>1, <2>2, <2>3 DEF Shapes
<1>7. \A s \in Slots : Progress(s)
  <2>1. Idle \notin FieldJobs \union InsertJobs \union DeleteJobs \union ShopJobs \union BatchJobs \union WishJobs
                    \union EndJobs \union StartJobs
    BY DEF Idle, FieldJobs, Fields, Edit, InsertJobs, DeleteJobs, ShopJobs, BatchJobs, WishJobs, EndJobs, StartJobs
  <2>2. QED BY <1>3, <2>1 DEF Progress
<1>8. OneWriter /\ ShopHeld
  BY <1>3 DEF OneWriter, ShopHeld, Going
<1>9. ItemsHeld
  BY <1>1, <1>3, <1>4 DEF ItemsHeld, Going, Existing
<1>10. PricesHold
  <2>1. \A s \in Slots : job[s].kind = "idle"
    BY <1>3 DEF Idle
  <2>2. \A x \in Existing(Entries) : db[x].of = d /\ db[x].override # NoRow
    BY <1>1 DEF Existing
  <2>3. QED BY <1>4, <2>1, <2>2 DEF PricesHold, Priced
<1>11. \A h \in Existing(Sessions) : h = g /\ db[h].number \in Nat
  BY <1>1 DEF Existing, Session
<1>12. \A h \in Current : h \in Existing(Sessions)
  BY DEF Current
<1>13. OneCurrent
  BY <1>3, <1>11, <1>12 DEF OneCurrent, Claims
<1>14. Numbered
  BY <1>11, <1>12 DEF Numbered
<1>15. RowsAsLogged
  BY <1>1, <1>2 DEF RowsAsLogged
<1>16. Exactness
  BY <1>2 DEF Exactness
<1>17. QED BY <1>6, <1>7, <1>8, <1>9, <1>10, <1>13, <1>14, <1>15, <1>16 DEF CampaignInv

LEMMA UnchangedInv ==
  ASSUME CampaignInv, UNCHANGED vars PROVE CampaignInv'
<1>1. UNCHANGED <<db, writes, job, pc, found, exact, book, stale, gone, desk>>
  BY DEF vars, request
<1>2. /\ Shapes' /\ OneWriter' /\ ShopHeld' /\ ItemsHeld'
      /\ PricesHold' /\ OneCurrent' /\ Numbered' /\ Exactness' /\ RowsAsLogged'
  <2>1. Shapes'
    BY <1>1 DEF CampaignInv, Shapes, TypeOK, Written, Existing
  <2>2. OneWriter' /\ ShopHeld' /\ Exactness' /\ RowsAsLogged'
    BY <1>1 DEF CampaignInv, OneWriter, ShopHeld, Exactness, RowsAsLogged, Going, Written
  <2>3. ItemsHeld'
    BY <1>1 DEF CampaignInv, ItemsHeld, Going, Written, Existing
  <2>4. PricesHold'
    BY <1>1 DEF CampaignInv, PricesHold, Priced, Existing
  <2>5. OneCurrent'
    BY <1>1 DEF CampaignInv, OneCurrent, Claims, Written, Existing, Current
  <2>6. Numbered'
    BY <1>1 DEF CampaignInv, Numbered, Existing, Current
  <2>7. QED BY <2>1, <2>2, <2>3, <2>4, <2>5, <2>6
<1>3. \A t \in Slots : Progress(t)'
  BY <1>1, ProgressStays DEF CampaignInv
<1>4. QED BY <1>2, <1>3 DEF CampaignInv

\* What every request has written, whom it holds up and what is owed to those
\* that wait: the inductive invariant of the requests of POST /sync/actions
\* that overlap, of any number, over any tables.
THEOREM CampaignInvariant == Spec => []CampaignInv
<1>1. Init => CampaignInv
  BY InitHolds
<1>2. CampaignInv /\ [Next]_vars => CampaignInv'
  <2>1. SUFFICES ASSUME CampaignInv, [Next]_vars PROVE CampaignInv'
    OBVIOUS
  <2>2. CASE UNCHANGED vars
    BY <2>1, <2>2, UnchangedInv
  <2>3. CASE Next
    <3>1. PICK s \in Slots : Begin(s) \/ Statement(s) \/ Commit(s) \/ Abort(s)
      BY <2>3 DEF Next
    <3>2. QED BY <2>1, <3>1, BeginStep, StatementStep, CommitStep, AbortStep
  <2>4. QED BY <2>1, <2>2, <2>3
<1>3. QED BY <1>1, <1>2, PTL DEF Spec

\* The rows are those of their tables, whatever is written.
THEOREM CampaignTypes == Spec => []TypeOK
<1>1. CampaignInv => TypeOK
  BY DEF CampaignInv, Shapes
<1>2. QED BY <1>1, CampaignInvariant, PTL

\* Replaying the log gives the rows, in any overlap, as long as no request
\* wrote over what had changed since it read it: the statements of the
\* persistors and the log entries do the same, an entry that names a field
\* without a value being taken to have it as it was written.  The requests
\* that can write over are those of wishlists, of sessions, the batch
\* identification, the edits of homebrew and of characters and the update of a
\* stock entry; no other makes the log and the rows differ.
THEOREM LogGivesRows == Spec => []RowsAsLogged
<1>1. CampaignInv => RowsAsLogged
  BY DEF CampaignInv
<1>2. QED BY <1>1, CampaignInvariant, PTL

\* One session at most is the current one, and the numbers are in the order of
\* the starts: the partial unique index and the locks of the demoted rows
\* are enough, whoever starts and ends.
THEOREM SessionsStayInOrder == Spec => []SessionsInOrder
<1>1. CampaignInv => SessionsInOrder
  <2>1. SUFFICES ASSUME CampaignInv PROVE SessionsInOrder
    OBVIOUS
  <2>2. OneCurrent /\ Numbered
    BY <2>1 DEF CampaignInv
  <2>3. \A g, h \in Current : g = h
    BY <2>2 DEF OneCurrent
  <2>4. Cardinality(Current) <= 1
    <3>1. CASE Current = {}
      BY <3>1, FS_EmptySet
    <3>2. ASSUME NEW g \in Current PROVE Cardinality(Current) <= 1
      <4>1. Current = {g}
        BY <2>3, <3>2
      <4>2. Cardinality({g}) = 1
        BY FS_Singleton
      <4>3. QED BY <4>1, <4>2
    <3>3. QED BY <3>1, <3>2
  <2>5. QED BY <2>2, <2>4 DEF SessionsInOrder, Numbered
<1>2. QED BY <1>1, CampaignInvariant, PTL

\* No item loses its definition, and no stock entry its price: ON DELETE
\* RESTRICT, the foreign keys and what the reducer refuses are enough, as
\* long as no id is used again.
THEOREM CatalogStays == Spec => []CatalogHolds
<1>1. CampaignInv => CatalogHolds
  BY DEF CampaignInv, ItemsHeld, PricesHold, Priced, CatalogHolds
<1>2. QED BY <1>1, CampaignInvariant, PTL

-----------------------------------------------------------------------------
(* The members.  MemInv is the inductive invariant of Membership.          *)

\* One DM, who is the owner; the banker is another player.
Roles ==
  /\ M!Dms = {owner}
  /\ banker # NoUser => M!ActivePlayer(banker) /\ banker # owner

\* A player row names a character of its own user, every character is named by
\* the row of its owner, and no id of a character is used again.
Playing ==
  /\ \A u \in Users : playerChar[u] # NoCharacter =>
       M!ActivePlayer(u) /\ charOwner[playerChar[u]] = u
  /\ \A c \in M!Living : playerChar[charOwner[c]] = c
  /\ M!Living \subseteq minted

\* The pools are there, and the stashes of the living and of no others; what
\* has a place has it in one of them.
Placed ==
  /\ {M!PartyStash, M!RecoveredLoot} \subseteq stashes
  /\ \A c \in M!Living : M!Inventory(c) \in stashes
  /\ \A c \in Characters : stashes \intersect M!OwnStashes(c) # {} => c \in M!Living
  /\ \A i \in Goods : at[i] # Nowhere => at[i] \in stashes

\* The coins that came in are in the stashes, and in the log.
Counted == M!CoinsIn(stashes) = world /\ coins = coinLog

MemInv == M!TypeOK /\ Roles /\ Playing /\ Placed /\ Counted

\* The two halves of the types.
RowTypes ==
  /\ owner \in Users /\ banker \in Users \union {NoUser}
  /\ dmRow \in [Users -> M!Status] /\ playerRow \in [Users -> M!Status]
  /\ playerChar \in [Users -> Characters \union {NoCharacter}]
  /\ charOwner \in [Characters -> Users \union {NoUser}]
  /\ minted \subseteq Characters

GoodsTypes ==
  /\ stashes \subseteq M!Stashes
  /\ at \in [Goods -> M!Stashes \union {Nowhere}]
  /\ coins \in [stashes -> Nat] /\ coinLog \in [stashes -> Int]
  /\ world \in 0..MaxCoins
  /\ used \subseteq Goods

(***************************************************************************)
(* TypeOK is the two halves.                                               *)
(***************************************************************************)
LEMMA Types == M!TypeOK <=> RowTypes /\ GoodsTypes
BY DEF M!TypeOK, RowTypes, GoodsTypes

-----------------------------------------------------------------------------
(* Stashes and sums.                                                       *)

(***************************************************************************)
(* A stash is a pool, or the inventory or the storage of one character.    *)
(***************************************************************************)
LEMMA StashKinds ==
  /\ \A s \in M!Stashes :
       \/ s \in {M!PartyStash, M!RecoveredLoot}
       \/ \E c \in Characters : s \in M!OwnStashes(c)
  /\ {M!PartyStash, M!RecoveredLoot} \subseteq M!Stashes
  /\ \A c \in Characters : M!OwnStashes(c) \subseteq M!Stashes
  /\ \A c : M!OwnStashes(c) = {M!Inventory(c), M!Storage(c)}
<1>1. \A s : s \in M!Stashes <=> \/ \E c \in Characters : s \in M!OwnStashes(c)
                             \/ s \in {M!PartyStash, M!RecoveredLoot}
  BY Zenon DEF M!Stashes
<1>2. \A c : M!OwnStashes(c) = {M!Inventory(c), M!Storage(c)}
  BY Zenon DEF M!OwnStashes
<1> QED
  BY <1>1, <1>2

(***************************************************************************)
(* What the fields of a stash say.                                         *)
(***************************************************************************)
LEMMA StashFields ==
  /\ \A c : /\ M!Inventory(c).scope = "character" /\ M!Inventory(c).of = c
            /\ M!Storage(c).scope = "character" /\ M!Storage(c).of = c
            /\ M!Inventory(c).carried /\ ~M!Storage(c).carried
  /\ M!PartyStash.scope = "party" /\ M!RecoveredLoot.scope = "recovered-loot"
<1>1. \A c : /\ M!Inventory(c).scope = "character" /\ M!Inventory(c).of = c
             /\ M!Storage(c).scope = "character" /\ M!Storage(c).of = c
  BY DEF M!Inventory, M!Storage
<1>2. \A c : M!Inventory(c).carried /\ ~M!Storage(c).carried
  BY DEF M!Inventory, M!Storage
<1>3. M!PartyStash.scope = "party" /\ M!RecoveredLoot.scope = "recovered-loot"
  BY DEF M!PartyStash, M!RecoveredLoot
<1> QED
  BY <1>1, <1>2, <1>3

(***************************************************************************)
(* Different stashes are different.                                        *)
(***************************************************************************)
LEMMA StashesDiffer ==
  /\ M!PartyStash # M!RecoveredLoot
  /\ \A c : {M!PartyStash, M!RecoveredLoot} \intersect M!OwnStashes(c) = {}
  /\ \A c, d : M!Inventory(c) # M!Storage(d)
  /\ \A c, d : c # d => M!OwnStashes(c) \intersect M!OwnStashes(d) = {}
<1>1. \A c, d : M!Inventory(c) # M!Storage(d)
  <2> SUFFICES ASSUME NEW c, NEW d, M!Inventory(c) = M!Storage(d) PROVE FALSE
    OBVIOUS
  <2>1. M!Inventory(c).carried = M!Storage(d).carried
    OBVIOUS
  <2> QED
    BY <2>1, StashFields
<1>2. M!PartyStash # M!RecoveredLoot
  BY StashFields
<1>3. \A c : {M!PartyStash, M!RecoveredLoot} \intersect M!OwnStashes(c) = {}
  BY StashFields, StashKinds
<1>4. \A c, d : c # d => M!OwnStashes(c) \intersect M!OwnStashes(d) = {}
  BY StashFields, StashKinds
<1> QED
  BY <1>1, <1>2, <1>3, <1>4

(***************************************************************************)
(* CoinsIn is a sum in the sense of SumTheorems.                           *)
(***************************************************************************)
LEMMA CoinsAreTotal == ASSUME NEW S PROVE M!CoinsIn(S) = Total(coins, S)
BY DEF M!CoinsIn, Total, M!MapThenSumSet, MapThenSumSet, M!MapThenFoldSet, MapThenFoldSet

(***************************************************************************)
(* The members are counted by the Cardinality of FiniteSets.               *)
(***************************************************************************)
LEMMA CountsAlike == ASSUME NEW S PROVE M!Cardinality(S) = Cardinality(S)
BY DEF M!Cardinality, Cardinality

(***************************************************************************)
(* The same after a step.                                                  *)
(***************************************************************************)
LEMMA CoinsAreTotalNext == (M!CoinsIn(stashes) = Total(coins, stashes))'
<1>1. M!CoinsIn(stashes) = Total(coins, stashes)
  BY CoinsAreTotal
<1> QED
  BY <1>1, PTL

(***************************************************************************)
(* Finitely many characters have finitely many stashes.                    *)
(***************************************************************************)
LEMMA StashesFinite == IsFiniteSet(M!Stashes)
<1> DEFINE I == {M!Inventory(c) : c \in Characters}
           K == {M!Storage(c) : c \in Characters}
           f == [s \in I |-> s.of]
           g == [s \in K |-> s.of]
<1>1. f \in Injection(I, Characters)
  BY StashFields DEF Injection, IsInjective
<1>2. g \in Injection(K, Characters)
  BY StashFields DEF Injection, IsInjective
<1>3. IsFiniteSet(I) /\ IsFiniteSet(K)
  <2> HIDE DEF f, g, I, K
  <2> QED
    BY <1>1, <1>2, CharactersAssumption, FS_Injection
<1>4. IsFiniteSet({M!PartyStash} \union {M!RecoveredLoot})
  BY FS_Singleton, FS_Union
<1>5. IsFiniteSet((I \union K) \union ({M!PartyStash} \union {M!RecoveredLoot}))
  <2> HIDE DEF I, K
  <2> QED
    BY <1>3, <1>4, FS_Union
<1>6. M!Stashes = (I \union K) \union ({M!PartyStash} \union {M!RecoveredLoot})
  BY StashKinds
<1> QED
  BY <1>5, <1>6

(***************************************************************************)
(* What the invariant says of coins, as sums.                              *)
(***************************************************************************)
LEMMA Purses ==
  ASSUME MemInv
  PROVE  /\ IsFiniteSet(stashes) /\ \A S \in SUBSET stashes : IsFiniteSet(S)
         /\ \A s \in stashes : coins[s] \in Nat /\ coins[s] \in Int
         /\ Total(coins, stashes) = world /\ world \in Nat
         /\ \A S \in SUBSET stashes : Total(coins, S) \in Nat
<1>1. IsFiniteSet(stashes)
  BY StashesFinite, FS_Subset DEF MemInv, M!TypeOK
<1>2. \A s \in stashes : coins[s] \in Nat /\ coins[s] \in Int
  BY DEF MemInv, M!TypeOK
<1>3. Total(coins, stashes) = world /\ world \in Nat
  BY CoinsAreTotal, CoinsAssumption DEF MemInv, Counted, M!TypeOK
<1>4. ASSUME NEW S \in SUBSET stashes PROVE IsFiniteSet(S) /\ Total(coins, S) \in Nat
  BY <1>1, <1>2, FS_Subset, TotalNat
<1> QED
  BY <1>1, <1>2, <1>3, <1>4

-----------------------------------------------------------------------------
(* Coins that go where they are found.                                     *)

\* f without the stashes own, whose coins are n, which the loot gets.
ToLoot(f, own, n) ==
  [s \in stashes \ own |-> f[s] + IF s = M!RecoveredLoot THEN n ELSE 0]

(***************************************************************************)
(* When stashes go and the loot gets their coins, no coin is lost.         *)
(***************************************************************************)
LEMMA ToLootKeeps ==
  ASSUME MemInv, NEW own \in SUBSET stashes, M!RecoveredLoot \notin own
  PROVE  /\ ToLoot(coins, own, Total(coins, own)) \in [stashes \ own -> Nat]
         /\ Total(ToLoot(coins, own, Total(coins, own)), stashes \ own) = world
<1> DEFINE rest == stashes \ own
           n == Total(coins, own)
           h == ToLoot(coins, own, n)
<1>1. M!RecoveredLoot \in rest /\ rest \in SUBSET stashes
  BY DEF MemInv, Placed
<1>2. n \in Nat /\ \A s \in rest : coins[s] \in Nat /\ coins[s] \in Int
  BY Purses
<1>3. \A s \in rest : h[s] = IF s = M!RecoveredLoot THEN coins[s] + n ELSE coins[s]
  <2> HIDE DEF n
  <2> QED
    BY <1>2 DEF ToLoot
<1>4. h \in [rest -> Nat]
  <2>1. h = [s \in rest |-> h[s]]
    BY DEF ToLoot
  <2> HIDE DEF h, n, rest
  <2>2. \A s \in rest : h[s] \in Nat
    BY <1>2, <1>3
  <2> QED
    BY <2>1, <2>2
<1>5. Total(coins, stashes) = n + Total(coins, rest)
  <2>1. IsFiniteSet(stashes) /\ \A s \in stashes : coins[s] \in Int
    BY Purses
  <2> QED
    BY <2>1, TotalSplit
<1>6. Total(h, rest) = Total(coins, rest) - coins[M!RecoveredLoot] + h[M!RecoveredLoot]
  <2>1. IsFiniteSet(rest) /\ h[M!RecoveredLoot] \in Int
    BY <1>1, <1>4, Purses
  <2> HIDE DEF h, n, rest
  <2> QED
    BY <1>1, <1>2, <1>3, <2>1, TotalReplace
<1>7. h[M!RecoveredLoot] = coins[M!RecoveredLoot] + n /\ coins[M!RecoveredLoot] \in Nat
  BY <1>1, <1>2, <1>3
<1>8. Total(coins, rest) \in Nat /\ Total(coins, stashes) = world
  BY <1>1, Purses
<1>9. Total(h, rest) = world
  <2> HIDE DEF h, n, rest
  <2> QED
    BY <1>2, <1>5, <1>6, <1>7, <1>8
<1> QED
  BY <1>4, <1>9

(***************************************************************************)
(* What is left of the goods when the stashes of a character that dies, or *)
(* a storage, go: everything that was there is in the loot.                *)
(***************************************************************************)
LEMMA LootKeeps ==
  ASSUME MemInv, NEW own \in SUBSET stashes,
         {M!PartyStash, M!RecoveredLoot} \intersect own = {},
         stashes' = stashes \ own,
         at' = [i \in Goods |-> IF at[i] \in own THEN M!RecoveredLoot ELSE at[i]],
         coins' = ToLoot(coins, own, Total(coins, own)),
         coinLog' = ToLoot(coinLog, own, Total(coins, own)),
         world' = world, used' = used
  PROVE  /\ GoodsTypes' /\ Counted'
         /\ {M!PartyStash, M!RecoveredLoot} \subseteq stashes'
         /\ \A i \in Goods : at'[i] # Nowhere => at'[i] \in stashes'
<1>1. {M!PartyStash, M!RecoveredLoot} \subseteq stashes'
  BY DEF MemInv, Placed
<1>2. \A i \in Goods : at'[i] # Nowhere => at'[i] \in stashes'
  BY <1>1 DEF MemInv, Placed
<1>3. coins' = coinLog'
  BY DEF MemInv, Counted
<1>4. coins' \in [stashes' -> Nat] /\ Total(coins', stashes') = world'
  BY ToLootKeeps
<1>5. at' \in [Goods -> M!Stashes \union {Nowhere}]
  BY <1>1 DEF MemInv, M!TypeOK
<1>6. M!CoinsIn(stashes)' = Total(coins', stashes')
  BY CoinsAreTotalNext
<1>7. coinLog' \in [stashes' -> Int]
  BY <1>3, <1>4
<1> QED
  BY <1>1, <1>2, <1>3, <1>4, <1>5, <1>6, <1>7 DEF GoodsTypes, Counted, MemInv, M!TypeOK

(***************************************************************************)
(* cascadeCharacterToRecoveredLoot: nothing is left that points at the     *)
(* character.                                                              *)
(***************************************************************************)
LEMMA CascadeKeeps ==
  ASSUME MemInv, NEW c \in M!Living, M!Cascade(c), world' = world, minted' = minted, used' = used
  PROVE  /\ GoodsTypes' /\ Counted' /\ Placed'
         /\ M!Living' = M!Living \ {c} /\ M!Living' \subseteq minted'
         /\ playerChar' = [u \in Users |-> IF u = charOwner[c] THEN NoCharacter ELSE playerChar[u]]
         /\ playerChar' \in [Users -> Characters \union {NoCharacter}]
         /\ charOwner' \in [Characters -> Users \union {NoUser}]
         /\ \A d \in M!Living' : charOwner'[d] = charOwner[d]
<1> DEFINE own == stashes \intersect M!OwnStashes(c)
<1>1. own \in SUBSET stashes /\ {M!PartyStash, M!RecoveredLoot} \intersect own = {}
  BY StashesDiffer
<1>2. /\ stashes' = stashes \ own
      /\ at' = [i \in Goods |-> IF at[i] \in own THEN M!RecoveredLoot ELSE at[i]]
      /\ coins' = ToLoot(coins, own, Total(coins, own))
      /\ coinLog' = ToLoot(coinLog, own, Total(coins, own))
      /\ charOwner' = [charOwner EXCEPT ![c] = NoUser]
      /\ playerChar' = [u \in Users |-> IF playerChar[u] = c THEN NoCharacter ELSE playerChar[u]]
  BY CoinsAreTotal DEF M!Cascade, ToLoot
<1>3. /\ GoodsTypes' /\ Counted'
      /\ {M!PartyStash, M!RecoveredLoot} \subseteq stashes'
      /\ \A i \in Goods : at'[i] # Nowhere => at'[i] \in stashes'
  <2> HIDE DEF own
  <2> QED
    BY <1>1, <1>2, LootKeeps
<1>4. /\ c \in Characters /\ charOwner \in [Characters -> Users \union {NoUser}]
      /\ playerChar \in [Users -> Characters \union {NoCharacter}] /\ charOwner[c] \in Users
  BY DEF MemInv, M!TypeOK, M!Living
<1>5. /\ charOwner' \in [Characters -> Users \union {NoUser}]
      /\ \A d \in Characters : charOwner'[d] = IF d = c THEN NoUser ELSE charOwner[d]
  BY <1>2, <1>4
<1>6. M!Living' = M!Living \ {c} /\ \A d \in M!Living' : charOwner'[d] = charOwner[d]
  BY <1>4, <1>5 DEF M!Living
<1>7. \A u \in Users : playerChar[u] = c <=> u = charOwner[c]
  BY <1>4, CharactersAssumption DEF MemInv, Playing
<1>8. /\ playerChar' = [u \in Users |-> IF u = charOwner[c] THEN NoCharacter ELSE playerChar[u]]
      /\ playerChar' \in [Users -> Characters \union {NoCharacter}]
  BY <1>2, <1>4, <1>7
<1>9. \A d \in M!Living' : M!Inventory(d) \in stashes'
  BY <1>2, <1>6, StashKinds, StashesDiffer DEF MemInv, Placed
<1>10. \A d \in Characters : stashes' \intersect M!OwnStashes(d) # {} => d \in M!Living'
  BY <1>2, <1>6 DEF MemInv, Placed
<1> QED
  BY <1>3, <1>5, <1>6, <1>8, <1>9, <1>10 DEF Placed, MemInv, Playing

(***************************************************************************)
(* A new stash is empty.                                                   *)
(***************************************************************************)
LEMMA NewPurseKeeps ==
  ASSUME MemInv, NEW s \in M!Stashes, s \notin stashes
  PROVE  /\ M!OnStashes(coins, stashes \union {s}) \in [stashes \union {s} -> Nat]
         /\ M!OnStashes(coins, stashes \union {s}) \in [stashes \union {s} -> Int]
         /\ Total(M!OnStashes(coins, stashes \union {s}), stashes \union {s}) = world
<1> DEFINE T == stashes \union {s}
           h == M!OnStashes(coins, T)
<1>1. DOMAIN coins = stashes
  BY DEF MemInv, M!TypeOK
<1>2. /\ h[s] = 0 /\ \A t \in stashes : h[t] = coins[t]
      /\ h = [t \in T |-> h[t]]
  BY <1>1 DEF M!OnStashes
<1>3. \A t \in stashes : coins[t] \in Nat /\ coins[t] \in Int
  BY Purses
<1>4. IsFiniteSet(stashes) /\ Total(coins, stashes) = world /\ world \in Nat
  BY Purses
<1> HIDE DEF h
<1>5. Total(h, stashes) = Total(coins, stashes)
  BY <1>2, <1>4, TotalAgrees
<1>6. h[s] \in Int /\ \A t \in stashes : h[t] \in Int
  BY <1>2, <1>3
<1>7. Total(h, T) = h[s] + Total(h, stashes)
  BY <1>4, <1>6, TotalInsert
<1>8. \A t \in T : h[t] \in Nat
  BY <1>2, <1>3
<1>9. h \in [T -> Nat] /\ h \in [T -> Int]
  BY <1>2, <1>8
<1>10. Total(h, T) = world
  BY <1>2, <1>4, <1>5, <1>7
<1> QED
  BY <1>9, <1>10 DEF h

(***************************************************************************)
(* What the goods are with a new stash.                                    *)
(***************************************************************************)
LEMMA NewStashKeeps ==
  ASSUME MemInv, NEW s \in M!Stashes, s \notin stashes,
         stashes' = stashes \union {s},
         coins' = M!OnStashes(coins, stashes'), coinLog' = M!OnStashes(coinLog, stashes'),
         at' = at, world' = world, used' = used
  PROVE  /\ GoodsTypes' /\ Counted'
         /\ {M!PartyStash, M!RecoveredLoot} \subseteq stashes'
         /\ \A i \in Goods : at'[i] # Nowhere => at'[i] \in stashes'
<1>1. coins = coinLog
  BY DEF MemInv, Counted
<1>2. coins' = coinLog'
  BY <1>1
<1>3. coins' = M!OnStashes(coins, stashes \union {s})
  OBVIOUS
<1>4. /\ coins' \in [stashes' -> Nat] /\ coins' \in [stashes' -> Int]
      /\ Total(coins', stashes') = world
  BY <1>3, NewPurseKeeps
<1>5. M!CoinsIn(stashes)' = world'
  BY <1>4, CoinsAreTotalNext
<1>6. coinLog' \in [stashes' -> Int]
  BY <1>2, <1>4
<1> QED
  BY <1>2, <1>4, <1>5, <1>6 DEF GoodsTypes, Counted, MemInv, M!TypeOK, Placed

-----------------------------------------------------------------------------
(* One lemma per action.                                                   *)

(***************************************************************************)
(* A new character: its id was never used, so nothing of another of that   *)
(* id is about.                                                            *)
(***************************************************************************)
LEMMA CreateCharacterKeeps ==
  ASSUME MemInv, NEW u \in Users, NEW c \in Characters, M!CreateCharacter(u, c)
  PROVE  MemInv'
<1> USE DEF M!CreateCharacter, M!Mint
<1>1. RowTypes /\ GoodsTypes
  BY Types DEF MemInv
<1>2. c \notin M!Living /\ charOwner[c] = NoUser /\ M!Inventory(c) \notin stashes
  BY <1>1, StashKinds DEF MemInv, Playing, Placed, M!Living, RowTypes
<1>3. /\ GoodsTypes' /\ Counted'
      /\ {M!PartyStash, M!RecoveredLoot} \subseteq stashes'
      /\ \A i \in Goods : at'[i] # Nowhere => at'[i] \in stashes'
  <2>1. M!Inventory(c) \in M!Stashes
    BY StashKinds
  <2> QED
    BY <1>2, <2>1, NewStashKeeps
<1>4. /\ charOwner' = [charOwner EXCEPT ![c] = u]
      /\ playerRow' = [playerRow EXCEPT ![u] = "active"]
      /\ playerChar' = [playerChar EXCEPT ![u] = c]
      /\ minted' = minted \union {c} /\ UNCHANGED <<owner, banker, dmRow>>
      /\ stashes' = stashes \union {M!Inventory(c)}
  OBVIOUS
<1>5. RowTypes'
  BY <1>1, <1>4 DEF RowTypes, M!Status
<1>6. M!Living' = M!Living \union {c} /\ \A d \in M!Living : charOwner'[d] = charOwner[d]
  BY <1>1, <1>2, <1>4, UsersAssumption DEF M!Living, RowTypes
<1>7. M!isMember(u) /\ playerChar[u] = NoCharacter
  BY <1>1, CharactersAssumption DEF M!checkGuard, M!ActivePlayer, RowTypes, MemInv, Playing
<1>8. Roles'
  BY <1>1, <1>4 DEF MemInv, Roles, M!Dms, M!ActivePlayer, RowTypes
<1>9. Playing'
  <2>1. \A v \in Users : v # u => /\ playerChar'[v] = playerChar[v]
                                /\ M!ActivePlayer(v)' = M!ActivePlayer(v)
    BY <1>1, <1>4 DEF M!ActivePlayer, RowTypes
  <2>2. playerChar'[u] = c /\ M!ActivePlayer(u)' /\ charOwner'[c] = u
    BY <1>1, <1>4 DEF M!ActivePlayer, RowTypes
  <2>3. \A v \in Users : v # u /\ playerChar[v] # NoCharacter => playerChar[v] # c
    BY <1>1, <1>2, UsersAssumption DEF MemInv, Playing
  <2>4. \A v \in Users : playerChar'[v] # NoCharacter =>
          M!ActivePlayer(v)' /\ charOwner'[playerChar'[v]] = v
    BY <1>1, <1>4, <2>1, <2>2, <2>3 DEF MemInv, Playing, RowTypes
  <2>5. \A d \in M!Living' : playerChar'[charOwner'[d]] = d
    BY <1>1, <1>2, <1>6, <1>7, <2>1, <2>2, CharactersAssumption DEF MemInv, Playing,
       RowTypes, M!Living
  <2> QED
    BY <1>4, <1>6, <2>4, <2>5 DEF MemInv, Playing
<1>10. Placed'
  <2>1. \A d \in M!Living' : M!Inventory(d) \in stashes'
    BY <1>4, <1>6 DEF MemInv, Placed
  <2>2. \A d \in Characters : stashes' \intersect M!OwnStashes(d) # {} => d \in M!Living'
    BY <1>4, <1>6, StashesDiffer, StashKinds DEF MemInv, Placed
  <2> QED
    BY <1>3, <2>1, <2>2 DEF Placed
<1> QED
  BY <1>3, <1>5, <1>8, <1>9, <1>10, Types, PTL DEF MemInv

(***************************************************************************)
(* deleteCharacter: the row of the player stays, without a character.      *)
(***************************************************************************)
LEMMA DeleteCharacterKeeps ==
  ASSUME MemInv, NEW u \in Users, NEW c \in Characters, M!DeleteCharacter(u, c)
  PROVE  MemInv'
<1> USE DEF M!DeleteCharacter
<1>1. RowTypes /\ c \in M!Living
  BY Types DEF MemInv
<1>2. /\ GoodsTypes' /\ Counted' /\ Placed'
      /\ M!Living' = M!Living \ {c} /\ M!Living' \subseteq minted'
      /\ playerChar' = [v \in Users |-> IF v = charOwner[c] THEN NoCharacter ELSE playerChar[v]]
      /\ playerChar' \in [Users -> Characters \union {NoCharacter}]
      /\ charOwner' \in [Characters -> Users \union {NoUser}]
      /\ \A d \in M!Living' : charOwner'[d] = charOwner[d]
  BY <1>1, CascadeKeeps
<1>3. RowTypes'
  BY <1>1, <1>2 DEF RowTypes
<1>4. Roles'
  BY DEF MemInv, Roles, M!Dms, M!ActivePlayer
<1>5. Playing'
  BY <1>1, <1>2 DEF MemInv, Playing, RowTypes, M!ActivePlayer, M!Living
<1> QED
  BY <1>2, <1>3, <1>4, <1>5, Types, PTL DEF MemInv

(***************************************************************************)
(* Whoever goes is no DM, is Banker no longer, and the character goes.     *)
(***************************************************************************)
LEMMA DepartKeeps ==
  ASSUME MemInv, NEW u \in Users, u # owner, M!Depart(u)
  PROVE  MemInv'
<1> USE DEF M!Depart
<1>1. RowTypes
  BY Types DEF MemInv
<1>2. /\ dmRow' = dmRow /\ owner' = owner
      /\ playerRow' \in [Users -> M!Status] /\ playerRow'[u] # "active"
      /\ \A v \in Users : v # u => playerRow'[v] = playerRow[v]
  <2>1. dmRow[u] # "active"
    BY DEF MemInv, Roles, M!Dms
  <2>2. dmRow' = [dmRow EXCEPT ![u] = dmRow[u]]
    BY <2>1 DEF M!SoftDelete
  <2>3. dmRow' = dmRow
    BY <1>1, <2>2 DEF RowTypes
  <2> QED
    BY <1>1, <2>3 DEF M!SoftDelete, RowTypes, M!Status
<1>3. Roles'
  BY <1>1, <1>2 DEF MemInv, Roles, M!Dms, M!ActivePlayer, RowTypes
<1>4. banker' \in Users \union {NoUser}
  BY <1>1 DEF RowTypes
<1>5. ASSUME NEW c \in M!GoesWith(u), M!Cascade(c) PROVE MemInv'
  <2>1. c \in M!Living /\ charOwner[c] = u
    BY <1>1, <1>5, UsersAssumption DEF M!GoesWith, MemInv, Playing, M!Living, RowTypes
  <2>2. /\ GoodsTypes' /\ Counted' /\ Placed'
        /\ M!Living' = M!Living \ {c} /\ M!Living' \subseteq minted'
        /\ playerChar' = [v \in Users |-> IF v = charOwner[c] THEN NoCharacter ELSE playerChar[v]]
        /\ playerChar' \in [Users -> Characters \union {NoCharacter}]
        /\ charOwner' \in [Characters -> Users \union {NoUser}]
        /\ \A d \in M!Living' : charOwner'[d] = charOwner[d]
    BY <1>5, <2>1, CascadeKeeps
  <2>3. RowTypes'
    BY <1>1, <1>2, <1>4, <2>2 DEF RowTypes
  <2>4. \A v \in Users : playerChar'[v] # NoCharacter =>
          M!ActivePlayer(v)' /\ charOwner'[playerChar'[v]] = v
    <3> SUFFICES ASSUME NEW v \in Users, playerChar'[v] # NoCharacter
                 PROVE  M!ActivePlayer(v)' /\ charOwner'[playerChar'[v]] = v
      OBVIOUS
    <3>1. v # u /\ playerChar'[v] = playerChar[v]
      BY <2>1, <2>2
    <3>2. M!ActivePlayer(v) /\ charOwner[playerChar[v]] = v /\ playerChar[v] \in Characters
      BY <1>1, <3>1 DEF MemInv, Playing, RowTypes
    <3>3. playerChar[v] \in M!Living'
      BY <2>1, <2>2, <3>1, <3>2, UsersAssumption DEF M!Living
    <3> QED
      BY <1>2, <2>2, <3>1, <3>2, <3>3 DEF M!ActivePlayer
  <2>5. \A d \in M!Living' : playerChar'[charOwner'[d]] = d
    <3> SUFFICES ASSUME NEW d \in M!Living' PROVE playerChar'[charOwner'[d]] = d
      OBVIOUS
    <3>1. d \in M!Living /\ d # c /\ charOwner'[d] = charOwner[d] /\ charOwner[d] \in Users
      BY <1>1, <2>2 DEF M!Living, RowTypes
    <3>2. playerChar[charOwner[d]] = d /\ playerChar[u] = c
      BY <2>1, <3>1 DEF MemInv, Playing
    <3> QED
      BY <2>1, <2>2, <3>1, <3>2
  <2>6. Playing'
    BY <2>2, <2>4, <2>5 DEF Playing
  <2> QED
    BY <1>3, <2>2, <2>3, <2>6, Types, PTL DEF MemInv
<1>6. CASE /\ M!GoesWith(u) = {}
           /\ UNCHANGED <<playerChar, charOwner, stashes, at, coins, coinLog>>
  <2>1. playerChar[u] = NoCharacter
    BY <1>6 DEF M!GoesWith, MemInv, Playing
  <2>2. RowTypes'
    BY <1>1, <1>2, <1>4, <1>6 DEF RowTypes
  <2>3. GoodsTypes' /\ Placed'
    BY <1>6, Types DEF MemInv, GoodsTypes, Placed, M!Living
  <2>4. Counted'
    <3>1. /\ M!CoinsIn(stashes) = Total(coins, stashes)
          /\ M!CoinsIn(stashes)' = Total(coins', stashes')
      BY CoinsAreTotal, CoinsAreTotalNext
    <3> QED
      BY <1>6, <3>1 DEF MemInv, Counted
  <2>5. Playing'
    BY <1>2, <1>6, <2>1 DEF MemInv, Playing, M!ActivePlayer, M!Living
  <2> QED
    BY <1>3, <2>2, <2>3, <2>4, <2>5, Types, PTL DEF MemInv
<1> QED
  BY <1>5, <1>6

(***************************************************************************)
(* leaveParty: not the owner, who is the only DM.                          *)
(***************************************************************************)
LEMMA LeaveKeeps ==
  ASSUME MemInv, NEW u \in Users, M!Leave(u)
  PROVE  u # owner /\ M!Depart(u) /\ MemInv'
<1>1. u # owner
  BY DEF M!Leave, MemInv, Roles, M!Dms
<1> QED
  BY <1>1, DepartKeeps DEF M!Leave

(***************************************************************************)
(* kickPlayer: not a DM.                                                   *)
(***************************************************************************)
LEMMA KickKeeps ==
  ASSUME MemInv, NEW u \in Users, NEW t \in Users, M!Kick(u, t)
  PROVE  t # owner /\ M!Depart(t) /\ MemInv'
<1>1. t # owner
  BY DEF M!Kick, MemInv, Roles, M!Dms
<1> QED
  BY <1>1, DepartKeeps DEF M!Kick

(***************************************************************************)
(* The goods, when nothing of them changes.                                *)
(***************************************************************************)
LEMMA GoodsStay ==
  ASSUME MemInv, UNCHANGED <<charOwner, M!goods, minted>>
  PROVE  GoodsTypes' /\ Placed' /\ Counted' /\ M!Living' = M!Living
<1>1. GoodsTypes' /\ Placed' /\ M!Living' = M!Living
  BY Types DEF MemInv, GoodsTypes, Placed, M!Living, M!goods
<1>2. M!CoinsIn(stashes) = Total(coins, stashes) /\ M!CoinsIn(stashes)' = Total(coins', stashes')
  BY CoinsAreTotal, CoinsAreTotalNext
<1>3. Counted'
  BY <1>2 DEF MemInv, Counted, M!goods
<1> QED
  BY <1>1, <1>3

(***************************************************************************)
(* POST /parties/join.                                                     *)
(***************************************************************************)
LEMMA JoinKeeps ==
  ASSUME MemInv, NEW u \in Users, M!Join(u)
  PROVE  MemInv'
<1> USE DEF M!Join
<1>1. RowTypes
  BY Types DEF MemInv
<1>2. GoodsTypes' /\ Placed' /\ Counted' /\ M!Living' = M!Living
  BY GoodsStay
<1>3. RowTypes'
  BY <1>1 DEF RowTypes, M!Status
<1>4. Roles'
  BY <1>1 DEF MemInv, Roles, M!Dms, M!ActivePlayer, RowTypes
<1>5. ~M!ActivePlayer(u) /\ playerChar[u] = NoCharacter
  BY DEF MemInv, Playing
<1>6. Playing'
  BY <1>1, <1>2, <1>5 DEF MemInv, Playing, M!ActivePlayer, RowTypes, M!Living
<1> QED
  BY <1>2, <1>3, <1>4, <1>6, Types, PTL DEF MemInv

(***************************************************************************)
(* appointBanker and revokeBanker.                                         *)
(***************************************************************************)
LEMMA BankerKeeps ==
  ASSUME MemInv, NEW u \in Users,
         M!RevokeBanker(u) \/ \E t \in Users : M!AppointBanker(u, t)
  PROVE  MemInv'
<1>1. /\ UNCHANGED <<owner, dmRow, playerRow, playerChar, charOwner, M!goods, minted>>
      /\ \/ banker' = NoUser
         \/ \E t \in Users : banker' = t /\ M!ActivePlayer(t) /\ t # owner
  BY DEF M!RevokeBanker, M!AppointBanker
<1>2. GoodsTypes' /\ Placed' /\ Counted' /\ M!Living' = M!Living
  BY <1>1, GoodsStay
<1>3. RowTypes /\ RowTypes'
  BY <1>1, Types DEF MemInv, RowTypes
<1>4. Roles'
  BY <1>1 DEF MemInv, Roles, M!Dms, M!ActivePlayer
<1>5. Playing'
  BY <1>1, <1>2 DEF MemInv, Playing, M!ActivePlayer
<1> QED
  BY <1>2, <1>3, <1>4, <1>5, Types, PTL DEF MemInv

(***************************************************************************)
(* dmTransfer: the old DM is a player from now on, the new one no Banker.  *)
(***************************************************************************)
LEMMA DmTransferKeeps ==
  ASSUME MemInv, NEW u \in Users, NEW t \in Users, M!DmTransfer(u, t)
  PROVE  u = owner /\ MemInv'
<1> USE DEF M!DmTransfer
<1>1. RowTypes /\ u = owner
  BY Types DEF MemInv, Roles, M!Dms
<1>2. GoodsTypes' /\ Placed' /\ Counted' /\ M!Living' = M!Living
  BY GoodsStay
<1>3. RowTypes'
  BY <1>1 DEF RowTypes, M!Status
<1>4. /\ \A v \in Users : dmRow'[v] = "active" <=> v = t
      /\ \A v \in Users : M!ActivePlayer(v) => M!ActivePlayer(v)'
  BY <1>1 DEF MemInv, Roles, M!Dms, M!ActivePlayer, RowTypes
<1>5. Roles'
  BY <1>1, <1>3, <1>4 DEF MemInv, Roles, M!Dms, RowTypes
<1>6. Playing'
  BY <1>2, <1>4 DEF MemInv, Playing
<1> QED
  BY <1>1, <1>2, <1>3, <1>5, <1>6, Types, PTL DEF MemInv

(***************************************************************************)
(* The rows, when nothing of the members and characters changes.           *)
(***************************************************************************)
LEMMA RowsStay ==
  ASSUME MemInv, UNCHANGED <<M!rows, charOwner, minted>>
  PROVE  RowTypes' /\ Roles' /\ Playing' /\ M!Living' = M!Living
<1>1. RowTypes
  BY Types DEF MemInv
<1>2. RowTypes' /\ M!Living' = M!Living
  BY <1>1 DEF RowTypes, M!rows, M!Living
<1>3. Roles' /\ Playing'
  BY DEF MemInv, Roles, Playing, M!Dms, M!ActivePlayer, M!rows, M!Living
<1> QED
  BY <1>2, <1>3

(***************************************************************************)
(* createStash.                                                            *)
(***************************************************************************)
LEMMA CreateStashKeeps ==
  ASSUME MemInv, NEW u \in Users, NEW c \in Characters, M!CreateStash(u, c)
  PROVE  MemInv'
<1> USE DEF M!CreateStash
<1>1. RowTypes' /\ Roles' /\ Playing' /\ M!Living' = M!Living
  BY RowsStay
<1>2. /\ GoodsTypes' /\ Counted'
      /\ {M!PartyStash, M!RecoveredLoot} \subseteq stashes'
      /\ \A i \in Goods : at'[i] # Nowhere => at'[i] \in stashes'
  <2>1. M!Storage(c) \in M!Stashes
    BY StashKinds
  <2> QED
    BY <2>1, NewStashKeeps
<1>3. Placed'
  <2>1. c \in M!Living /\ stashes' = stashes \union {M!Storage(c)}
    OBVIOUS
  <2>2. \A d \in Characters : stashes' \intersect M!OwnStashes(d) # {} => d \in M!Living'
    BY <1>1, <2>1, StashKinds, StashesDiffer DEF MemInv, Placed
  <2> QED
    BY <1>1, <1>2, <2>1, <2>2 DEF Placed, MemInv
<1> QED
  BY <1>1, <1>2, <1>3, Types, PTL DEF MemInv

(***************************************************************************)
(* deleteStash.                                                            *)
(***************************************************************************)
LEMMA DeleteStashKeeps ==
  ASSUME MemInv, NEW u \in Users, NEW s \in stashes, M!DeleteStash(u, s)
  PROVE  MemInv'
<1>1. RowTypes' /\ Roles' /\ Playing' /\ M!Living' = M!Living
  BY RowsStay DEF M!DeleteStash
<1>2. s # M!PartyStash /\ s # M!RecoveredLoot /\ \A c : s # M!Inventory(c)
  BY StashFields DEF M!DeleteStash
<1>3. Total(coins, {s}) = coins[s]
  <2>1. coins[s] \in Int
    BY Purses
  <2>2. Total(coins, {} \union {s}) = coins[s] + Total(coins, {})
    BY <2>1, TotalInsert, FS_EmptySet
  <2>3. Total(coins, {}) = 0 /\ {} \union {s} = {s}
    BY TotalEmpty
  <2> QED
    BY <2>1, <2>2, <2>3
<1>4. /\ stashes' = stashes \ {s}
      /\ at' = [i \in Goods |-> IF at[i] \in {s} THEN M!RecoveredLoot ELSE at[i]]
      /\ coins' = ToLoot(coins, {s}, Total(coins, {s}))
      /\ coinLog' = ToLoot(coinLog, {s}, Total(coins, {s}))
      /\ world' = world /\ used' = used
  BY <1>3 DEF M!DeleteStash, ToLoot
<1>5. /\ GoodsTypes' /\ Counted'
      /\ {M!PartyStash, M!RecoveredLoot} \subseteq stashes'
      /\ \A i \in Goods : at'[i] # Nowhere => at'[i] \in stashes'
  BY <1>2, <1>4, LootKeeps
<1>6. Placed'
  BY <1>1, <1>2, <1>4, <1>5 DEF MemInv, Placed
<1> QED
  BY <1>1, <1>5, <1>6, Types, PTL DEF MemInv

(***************************************************************************)
(* acquire, consume, transfer: an item has a new place, or none.           *)
(***************************************************************************)
LEMMA PutKeeps ==
  ASSUME MemInv, NEW i \in Goods, NEW s \in stashes \union {Nowhere}, M!Put(i, s),
         used' \subseteq Goods
  PROVE  MemInv'
<1> USE DEF M!Put
<1>1. RowTypes' /\ Roles' /\ Playing' /\ M!Living' = M!Living
  BY RowsStay
<1>2. Counted'
  <2>1. M!CoinsIn(stashes) = Total(coins, stashes) /\ M!CoinsIn(stashes)' = Total(coins', stashes')
    BY CoinsAreTotal, CoinsAreTotalNext
  <2> QED
    BY <2>1 DEF MemInv, Counted
<1>3. GoodsTypes /\ at \in [Goods -> M!Stashes \union {Nowhere}] /\ stashes \subseteq M!Stashes
  BY Types DEF MemInv, GoodsTypes
<1>4. at' \in [Goods -> M!Stashes \union {Nowhere}]
  BY <1>3
<1>5. GoodsTypes'
  BY <1>3, <1>4 DEF GoodsTypes
<1>6. \A k \in Goods : at'[k] # Nowhere => at'[k] \in stashes'
  BY <1>3 DEF MemInv, Placed
<1>7. Placed'
  BY <1>1, <1>6 DEF MemInv, Placed
<1> QED
  BY <1>1, <1>2, <1>5, <1>7, Types, PTL DEF MemInv

(***************************************************************************)
(* The purses are others, of the same sum but for what comes in.           *)
(***************************************************************************)
LEMMA PursesKeep ==
  ASSUME MemInv, UNCHANGED <<M!rows, charOwner, stashes, at, minted, used>>,
         coins' \in [stashes -> Nat], coinLog' = coins',
         Total(coins', stashes) = world', world' <= MaxCoins
  PROVE  MemInv'
<1>1. RowTypes' /\ Roles' /\ Playing' /\ M!Living' = M!Living
  BY RowsStay
<1>2. Placed'
  BY <1>1 DEF MemInv, Placed
<1>3. Counted'
  BY CoinsAreTotalNext DEF Counted
<1>4. world' \in Nat
  <2>1. \A s \in stashes : coins'[s] \in Nat
    OBVIOUS
  <2> QED
    BY <2>1, Purses, TotalNat
<1>5. coinLog' \in [stashes' -> Int] /\ coins' \in [stashes' -> Nat]
  OBVIOUS
<1>6. GoodsTypes'
  BY <1>4, <1>5, CoinsAssumption, Types DEF MemInv, GoodsTypes
<1> QED
  BY <1>1, <1>2, <1>3, <1>6, Types, PTL DEF MemInv

(***************************************************************************)
(* currencyChange.                                                         *)
(***************************************************************************)
LEMMA CurrencyChangeKeeps ==
  ASSUME MemInv, NEW u \in Users, NEW s \in stashes, NEW delta \in Int, NEW reason,
         M!CurrencyChange(u, s, delta, reason)
  PROVE  MemInv'
<1> DEFINE h == [coins EXCEPT ![s] = @ + delta]
<1>1. /\ coins' = h /\ coinLog' = [coinLog EXCEPT ![s] = @ + delta]
      /\ world' = world + delta /\ world + delta <= MaxCoins /\ coins[s] + delta >= 0
      /\ UNCHANGED <<M!rows, charOwner, stashes, at, minted, used>>
  BY DEF M!CurrencyChange
<1>2. coinLog = coins /\ coins \in [stashes -> Nat]
  BY DEF MemInv, M!TypeOK, Counted
<1>3. coinLog' = coins'
  BY <1>1, <1>2
<1>4. coins[s] \in Nat /\ coins[s] + delta \in Nat
  BY <1>1, <1>2
<1>5. h \in [stashes -> Nat] /\ h[s] = coins[s] + delta /\ \A t \in stashes \ {s} : h[t] = coins[t]
  BY <1>2, <1>4
<1>6. Total(h, stashes) = world + delta
  <2>1. /\ IsFiniteSet(stashes) /\ \A t \in stashes : coins[t] \in Int
        /\ Total(coins, stashes) = world /\ world \in Nat
    BY Purses
  <2>2. h[s] \in Int
    BY <1>4, <1>5
  <2> HIDE DEF h
  <2>3. Total(h, stashes) = Total(coins, stashes) - coins[s] + h[s]
    BY <1>5, <2>1, <2>2, TotalReplace
  <2> QED
    BY <1>4, <1>5, <2>1, <2>3
<1> HIDE DEF h
<1>7. coins' \in [stashes -> Nat] /\ Total(coins', stashes) = world' /\ world' <= MaxCoins
  BY <1>1, <1>5, <1>6
<1> QED
  BY <1>1, <1>3, <1>7, PursesKeep

(***************************************************************************)
(* currencyTransfer.                                                       *)
(***************************************************************************)
LEMMA CurrencyTransferKeeps ==
  ASSUME MemInv, NEW u \in Users, NEW from, NEW to, NEW n \in Nat,
         M!CurrencyTransfer(u, from, to, n)
  PROVE  MemInv'
<1> DEFINE g == [coins EXCEPT ![from] = @ - n]
           h == M!Moved(coins, from, to, n)
<1>1. /\ coins' = h /\ coinLog' = M!Moved(coinLog, from, to, n)
      /\ UNCHANGED <<M!rows, charOwner, stashes, at, world, minted, used>>
      /\ from \in stashes /\ to \in stashes /\ from # to /\ coins[from] >= n
  BY DEF M!CurrencyTransfer
<1>2. coinLog = coins /\ coins \in [stashes -> Nat]
  BY DEF MemInv, M!TypeOK, Counted
<1>3. coinLog' = coins'
  BY <1>1, <1>2
<1>4. coins[from] \in Nat /\ coins[to] \in Nat /\ coins[from] - n \in Nat
  BY <1>1, <1>2
<1>5. /\ h \in [stashes -> Nat] /\ h[to] = coins[to] + n /\ h[from] = coins[from] - n
      /\ g \in [stashes -> Int] /\ g[from] = coins[from] - n /\ g[to] = coins[to]
      /\ \A t \in stashes \ {from} : g[t] = coins[t]
      /\ \A t \in stashes \ {to} : h[t] = g[t]
  BY <1>1, <1>2, <1>4 DEF M!Moved
<1>6. Total(h, stashes) = world
  <2>1. /\ IsFiniteSet(stashes) /\ \A t \in stashes : coins[t] \in Int
        /\ Total(coins, stashes) = world /\ world \in Nat
    BY Purses
  <2>2. /\ g[from] \in Int /\ h[to] \in Int /\ \A t \in stashes : g[t] \in Int
    BY <1>4, <1>5
  <2> HIDE DEF g, h
  <2>3. Total(g, stashes) = Total(coins, stashes) - coins[from] + g[from]
    BY <1>1, <1>5, <2>1, <2>2, TotalReplace
  <2>4. Total(h, stashes) = Total(g, stashes) - g[to] + h[to]
    BY <1>1, <1>5, <2>1, <2>2, TotalReplace
  <2> QED
    BY <1>4, <1>5, <2>1, <2>3, <2>4
<1> HIDE DEF g, h
<1>7. coins' \in [stashes -> Nat] /\ Total(coins', stashes) = world' /\ world' <= MaxCoins
  <2>1. world <= MaxCoins
    BY CoinsAssumption DEF MemInv, M!TypeOK
  <2> QED
    BY <1>1, <1>5, <1>6, <2>1
<1> QED
  BY <1>1, <1>3, <1>7, PursesKeep

(***************************************************************************)
(* A share of every recipient: together no more than there is.             *)
(***************************************************************************)
LEMMA ShareFits ==
  ASSUME NEW p \in Nat, NEW n \in Nat, n > 0
  PROVE  p \div n \in Nat /\ n * (p \div n) \in Nat /\ n * (p \div n) <= p
<1>1. p \div n \in Nat /\ p = n * (p \div n) + (p % n) /\ p % n \in 0..(n - 1)
  OBVIOUS
<1>2. PICK q \in Nat : q = p \div n
  BY <1>1
<1>3. n * q \in Nat
  OBVIOUS
<1>4. PICK m \in Nat : m = n * q
  BY <1>3
<1>5. PICK r \in 0..(n - 1) : r = p % n
  BY <1>1
<1>6. p = m + r
  BY <1>1, <1>2, <1>4, <1>5
<1> QED
  BY <1>1, <1>2, <1>4, <1>5, <1>6

(***************************************************************************)
(* splitEvenly: what the pool pays is what the recipients get.             *)
(***************************************************************************)
LEMMA SplitEvenlyKeeps ==
  ASSUME MemInv, NEW u \in Users, NEW recipients \in SUBSET M!Living,
         M!SplitEvenly(u, recipients)
  PROVE  MemInv'
<1> DEFINE n == Cardinality(recipients)
           share == coins[M!PartyStash] \div n
           W == {M!Inventory(c) : c \in recipients}
           others == (stashes \ {M!PartyStash}) \ W
           h == [s \in stashes |->
                   CASE s = M!PartyStash -> coins[s] - n * share
                     [] \E c \in recipients : s = M!Inventory(c) -> coins[s] + share
                     [] OTHER -> coins[s]]
<1>1. coinLog = coins /\ coins \in [stashes -> Nat]
  BY DEF MemInv, M!TypeOK, Counted
<1>2. /\ coins' = h /\ coinLog' = coins' /\ recipients # {}
      /\ UNCHANGED <<M!rows, charOwner, stashes, at, world, minted, used>>
  BY <1>1, CountsAlike DEF M!SplitEvenly
<1>3. /\ W \subseteq stashes /\ M!PartyStash \in stashes /\ M!PartyStash \notin W
      /\ \A s \in stashes : s \in W <=> \E c \in recipients : s = M!Inventory(c)
  <2>1. \A c \in recipients : M!Inventory(c) \in stashes
    BY DEF MemInv, Placed
  <2>2. M!PartyStash \in stashes /\ \A c : M!Inventory(c) # M!PartyStash
    BY StashFields DEF MemInv, Placed
  <2> QED
    BY <2>1, <2>2
<1>4. IsFiniteSet(recipients) /\ n \in Nat /\ n > 0
  <2>1. recipients \subseteq Characters
    BY DEF M!Living
  <2>2. IsFiniteSet(recipients) /\ n \in Nat
    BY <2>1, CharactersAssumption, FS_Subset, FS_CardinalityType
  <2>3. n # 0
    BY <1>2, <2>2, FS_EmptySet
  <2> QED
    BY <2>2, <2>3
<1>5. IsFiniteSet(W) /\ Cardinality(W) = n
  <2> DEFINE f == [c \in recipients |-> M!Inventory(c)]
  <2>1. f \in Bijection(recipients, W)
    BY StashFields DEF Bijection, Injection, Surjection, IsInjective
  <2>2. ExistsBijection(recipients, W)
    <3> HIDE DEF f, W
    <3> QED
      BY <2>1 DEF ExistsBijection
  <2> HIDE DEF W
  <2> QED
    BY <1>4, <2>2, FS_Bijection
<1>6. coins[M!PartyStash] \in Nat
  BY <1>1, <1>3
<1>7. share \in Nat /\ n * share \in Nat /\ n * share <= coins[M!PartyStash]
  <2> HIDE DEF n
  <2> QED
    BY <1>4, <1>6, ShareFits
<1>8. PICK k \in Nat : k = share
  BY <1>7
<1>9. PICK paid \in Nat : paid = n * share
  BY <1>7
<1>10. /\ DOMAIN h = stashes
       /\ h[M!PartyStash] = coins[M!PartyStash] - paid
       /\ \A s \in W : h[s] = coins[s] + k
       /\ \A s \in others : h[s] = coins[s]
       /\ h = [s \in stashes |-> h[s]]
  <2>1. DOMAIN h = stashes /\ h = [s \in stashes |-> h[s]]
    OBVIOUS
  <2>2. h[M!PartyStash] = coins[M!PartyStash] - paid
    BY <1>3, <1>9
  <2>3. \A s \in W : /\ s \in stashes /\ s # M!PartyStash
                     /\ \E c \in recipients : s = M!Inventory(c)
    BY <1>3
  <2>4. \A s \in others : /\ s \in stashes /\ s # M!PartyStash
                          /\ ~ \E c \in recipients : s = M!Inventory(c)
    OBVIOUS
  <2>5. \A s \in stashes : s # M!PartyStash
           => h[s] = IF \E c \in recipients : s = M!Inventory(c) THEN coins[s] + share
                                                               ELSE coins[s]
    OBVIOUS
  <2> HIDE DEF h, share, n, W, others
  <2> QED
    BY <1>8, <2>1, <2>2, <2>3, <2>4, <2>5
<1> HIDE DEF h, share, n, W
<1>11. \A s \in stashes : coins[s] \in Nat /\ h[s] \in Nat
  <2>1. ASSUME NEW s \in stashes PROVE s = M!PartyStash \/ s \in W \/ s \in others
    BY DEF others
  <2>2. coins[M!PartyStash] - paid \in Nat
    BY <1>6, <1>7, <1>9
  <2> HIDE DEF others
  <2>3. \A s \in stashes : coins[s] \in Nat
    BY <1>1
  <2>4. ASSUME NEW s \in stashes PROVE h[s] \in Nat
    BY <1>8, <1>10, <2>1, <2>2, <2>3, <2>4
  <2> QED
    BY <2>3, <2>4
<1>12. h \in [stashes -> Nat]
  BY <1>10, <1>11
<1>13. IsFiniteSet(stashes) /\ IsFiniteSet(stashes \ {M!PartyStash}) /\ IsFiniteSet(others)
  BY Purses, FS_Subset
<1>14. \A s \in stashes : coins[s] \in Int /\ h[s] \in Int
  BY <1>11
<1>15. /\ Total(coins, stashes) = coins[M!PartyStash] + Total(coins, stashes \ {M!PartyStash})
       /\ Total(h, stashes) = h[M!PartyStash] + Total(h, stashes \ {M!PartyStash})
  BY <1>3, <1>13, <1>14, TotalRemove
<1>16. /\ Total(coins, stashes \ {M!PartyStash}) = Total(coins, W) + Total(coins, others)
       /\ Total(h, stashes \ {M!PartyStash}) = Total(h, W) + Total(h, others)
  <2>1. W \in SUBSET (stashes \ {M!PartyStash})
    BY <1>3
  <2> QED
    BY <1>13, <1>14, <2>1, TotalSplit
<1>17. Total(h, others) = Total(coins, others)
  BY <1>10, <1>13, TotalAgrees
<1>18. Total(h, W) = Total(coins, W) + n * k
  <2>1. \A s \in W : coins[s] \in Int /\ h[s] = coins[s] + k
    BY <1>3, <1>10, <1>14
  <2> QED
    BY <1>5, <2>1, TotalShift
<1>19. n * k = paid
  BY <1>8, <1>9
<1>20. Total(coins, W) \in Int /\ Total(coins, others) \in Int
  BY <1>3, <1>5, <1>13, <1>14, TotalInt
<1>21. Total(h, stashes) = Total(coins, stashes)
  BY <1>6, <1>10, <1>15, <1>16, <1>17, <1>18, <1>19, <1>20
<1>22. coins' \in [stashes -> Nat] /\ Total(coins', stashes) = world' /\ world' <= MaxCoins
  <2>1. world <= MaxCoins /\ Total(coins, stashes) = world
    BY CoinsAssumption, Purses DEF MemInv, M!TypeOK
  <2> QED
    BY <1>2, <1>12, <1>21, <2>1
<1> QED
  BY <1>2, <1>22, PursesKeep

-----------------------------------------------------------------------------
(* MemInv is inductive.                                                    *)

(***************************************************************************)
(* The bootstrap of a party.                                               *)
(***************************************************************************)
LEMMA MemInit == M!Init => MemInv
<1> SUFFICES ASSUME NEW u \in Users, NEW c \in Characters \union {NoCharacter},
                    owner = u, banker = NoUser,
                    dmRow = [v \in Users |-> IF v = u THEN "active" ELSE "none"],
                    playerRow = [v \in Users |-> IF v = u /\ c # NoCharacter THEN "active"
                                                  ELSE "none"],
                    playerChar = [v \in Users |-> IF v = u THEN c ELSE NoCharacter],
                    charOwner = [d \in Characters |-> IF d = c THEN u ELSE NoUser],
                    stashes = {M!PartyStash, M!RecoveredLoot}
                              \union {M!Inventory(d) : d \in {c} \ {NoCharacter}},
                    at = [i \in Goods |-> Nowhere],
                    coins = [s \in stashes |-> 0], coinLog = coins, world = 0,
                    minted = {c} \ {NoCharacter}, used = {}
             PROVE  MemInv
  BY DEF M!Init
<1>1. RowTypes
  BY DEF RowTypes, M!Status
<1>2. stashes \subseteq M!Stashes /\ {M!PartyStash, M!RecoveredLoot} \subseteq stashes
  BY StashKinds
<1>3. GoodsTypes
  <2>1. coins \in [stashes -> Nat] /\ coinLog \in [stashes -> Int]
    OBVIOUS
  <2> QED
    BY <1>2, <2>1, CoinsAssumption DEF GoodsTypes
<1>4. M!Living = {c} \ {NoCharacter}
  BY UsersAssumption, CharactersAssumption DEF M!Living
<1>5. Roles
  BY DEF Roles, M!Dms
<1>6. Playing
  BY <1>4, CharactersAssumption DEF Playing, M!ActivePlayer
<1>7. Placed
  <2>1. \A s \in stashes : \/ s = M!PartyStash \/ s = M!RecoveredLoot
                          \/ (c \in M!Living /\ s = M!Inventory(c))
    BY <1>4
  <2>2. \A d \in Characters : stashes \intersect M!OwnStashes(d) # {} => d \in M!Living
    BY <2>1, StashKinds, StashesDiffer, StashFields
  <2>3. \A d \in M!Living : M!Inventory(d) \in stashes
    BY <1>4
  <2> QED
    BY <1>2, <2>2, <2>3 DEF Placed
<1>8. Counted
  <2>1. IsFiniteSet(stashes) /\ \A s \in stashes : coins[s] \in Int /\ coins[s] = 0
    BY <1>2, StashesFinite, FS_Subset
  <2>2. Total(coins, stashes) = Total(coins, {})
    BY <2>1, TotalSupport
  <2> QED
    BY <2>2, TotalEmpty, CoinsAreTotal DEF Counted
<1> QED
  BY <1>1, <1>3, <1>5, <1>6, <1>7, <1>8, Types DEF MemInv

(***************************************************************************)
(* Every action of a member keeps the invariant.                           *)
(***************************************************************************)
LEMMA MemStep == MemInv /\ M!Next => MemInv'
<1> SUFFICES ASSUME MemInv, NEW u \in Users, M!MemberStep(u) \/ M!StashStep(u)
             PROVE  MemInv'
  BY DEF M!Next
<1>1. CASE M!MemberStep(u)
  BY <1>1, JoinKeeps, LeaveKeeps, KickKeeps, BankerKeeps, DmTransferKeeps,
     CreateCharacterKeeps, DeleteCharacterKeeps, CreateStashKeeps DEF M!MemberStep
<1>2. CASE M!StashStep(u)
  <2>1. ASSUME NEW s \in stashes, M!DeleteStash(u, s) PROVE MemInv'
    BY <2>1, DeleteStashKeeps
  <2>2. ASSUME NEW s \in stashes, NEW delta \in {1, -1}, NEW reason,
               M!CurrencyChange(u, s, delta, reason)
        PROVE  MemInv'
    <3>1. delta \in Int
      OBVIOUS
    <3> QED
      BY <2>2, <3>1, CurrencyChangeKeeps
  <2>3. ASSUME NEW s \in stashes, NEW to \in stashes, NEW n \in 1..MaxCoins,
               M!CurrencyTransfer(u, s, to, n)
        PROVE  MemInv'
    <3>1. n \in Nat
      BY CoinsAssumption
    <3> QED
      BY <2>3, <3>1, CurrencyTransferKeeps
  <2>4. ASSUME NEW i \in Goods, NEW s \in stashes,
               M!Acquire(u, i, s) \/ M!Transfer(u, i, s)
        PROVE  MemInv'
    <3>1. used \subseteq Goods
      BY DEF MemInv, M!TypeOK
    <3>2. M!Put(i, s) /\ used' \subseteq Goods /\ s \in stashes \union {Nowhere}
      BY <2>4, <3>1 DEF M!Acquire, M!Transfer
    <3> QED
      BY <3>2, PutKeeps
  <2>5. ASSUME NEW i \in Goods, M!Consume(u, i) PROVE MemInv'
    <3>1. used \subseteq Goods
      BY DEF MemInv, M!TypeOK
    <3>2. M!Put(i, Nowhere) /\ used' \subseteq Goods /\ Nowhere \in stashes \union {Nowhere}
      BY <2>5, <3>1 DEF M!Consume
    <3> QED
      BY <3>2, PutKeeps
  <2>6. ASSUME NEW recipients \in SUBSET M!Living, M!SplitEvenly(u, recipients) PROVE MemInv'
    BY <2>6, SplitEvenlyKeeps
  <2> QED
    BY <1>2, <2>1, <2>2, <2>3, <2>4, <2>5, <2>6 DEF M!StashStep
<1> QED
  BY <1>1, <1>2

-----------------------------------------------------------------------------
(* What follows.                                                           *)

(***************************************************************************)
(* Nothing points at what is gone.                                         *)
(***************************************************************************)
LEMMA MemOrphans == MemInv => M!NothingIsOrphaned
<1> SUFFICES ASSUME MemInv PROVE M!NothingIsOrphaned
  OBVIOUS
<1>1. \A s \in stashes : s.scope = "character" => s.of \in M!Living
  <2> SUFFICES ASSUME NEW s \in stashes, s.scope = "character" PROVE s.of \in M!Living
    OBVIOUS
  <2>1. PICK c \in Characters : s \in M!OwnStashes(c)
    BY StashKinds, StashFields DEF MemInv, M!TypeOK
  <2>2. s.of = c /\ c \in M!Living
    BY <2>1, StashKinds, StashFields DEF MemInv, Placed
  <2> QED
    BY <2>2
<1>2. \A c \in Characters : c \in M!Living <=>
        \E u \in M!Players : playerChar[u] = c /\ charOwner[c] = u
  <2>1. ASSUME NEW c \in M!Living
        PROVE  \E u \in M!Players : playerChar[u] = c /\ charOwner[c] = u
    <3>1. charOwner[c] \in Users /\ playerChar[charOwner[c]] = c /\ c # NoCharacter
      BY CharactersAssumption DEF MemInv, M!TypeOK, M!Living, Playing
    <3>2. charOwner[c] \in M!Players
      BY <3>1 DEF MemInv, Playing, M!Players, M!ActivePlayer
    <3> QED
      BY <3>1, <3>2
  <2>2. ASSUME NEW c \in Characters, NEW u \in M!Players, charOwner[c] = u
        PROVE  c \in M!Living
    BY <2>2, UsersAssumption DEF M!Living, M!Players
  <2> QED
    BY <2>1, <2>2
<1> QED
  BY <1>1, <1>2 DEF M!NothingIsOrphaned, MemInv, Placed, Counted

(***************************************************************************)
(* A step of the reducer is a step of the roster, or none.                 *)
(***************************************************************************)
LEMMA MemRoster ==
  ASSUME MemInv, M!Next
  PROVE  M!R!RosterNext \/ UNCHANGED <<owner, banker, M!Members>>
<1>1. RowTypes /\ M!Dms = {owner} /\ M!Dms \subseteq M!Members
  BY Types DEF MemInv, Roles, M!Members
<1>2. ASSUME NEW u \in Users, u # owner, M!Depart(u), M!isMember(u)
      PROVE  M!R!RosterNext
  <2>1. dmRow' = dmRow /\ M!Members' = M!Members \ {u} /\ u \in M!Members
    BY <1>1, <1>2 DEF M!Depart, M!SoftDelete, M!Members, M!Dms, M!Players, RowTypes,
       M!isMember
  <2>2. M!R!Depart(u)
    BY <1>2, <2>1 DEF M!R!Depart, M!R!ClearedBanker, M!Depart
  <2> QED
    BY <2>2 DEF M!R!RosterNext
<1>3. ASSUME NEW u \in Users, M!Join(u)
      PROVE  M!R!RosterNext
  <2>1. M!Members' = M!Members \union {u} /\ u \notin M!Members
    BY <1>1, <1>3 DEF M!Join, M!Members, M!Dms, M!Players, RowTypes, M!isMember
  <2>2. M!R!Join(u)
    BY <1>3, <2>1 DEF M!R!Join, M!Join
  <2> QED
    BY <2>2 DEF M!R!RosterNext
<1>4. ASSUME NEW u \in Users, NEW t \in Users, M!AppointBanker(u, t)
      PROVE  M!R!RosterNext
  <2>1. M!Members' = M!Members /\ t \in M!Members
    BY <1>4 DEF M!AppointBanker, M!Members, M!Dms, M!Players, M!ActivePlayer
  <2>2. M!R!Appoint(t)
    BY <1>4, <2>1 DEF M!R!Appoint, M!AppointBanker
  <2> QED
    BY <2>2 DEF M!R!RosterNext
<1>5. ASSUME NEW u \in Users, M!RevokeBanker(u)
      PROVE  M!R!RosterNext
  BY <1>5 DEF M!RevokeBanker, M!R!RosterNext, M!R!Revoke, M!Members, M!Dms, M!Players
<1>6. ASSUME NEW u \in Users, NEW t \in Users, M!DmTransfer(u, t)
      PROVE  M!R!RosterNext
  <2>1. u = owner /\ t # u /\ M!ActivePlayer(t) /\ u \in M!Members /\ t \in M!Members
    BY <1>1, <1>6 DEF M!DmTransfer, M!Dms, M!Members, M!Players, M!ActivePlayer
  <2>2. M!Dms' = {t} /\ M!Players' = M!Players \union {u}
    BY <1>1, <1>6, <2>1 DEF M!DmTransfer, M!Dms, M!Players, RowTypes
  <2>3. M!Members' = M!Members
    BY <1>1, <2>1, <2>2 DEF M!Members, M!ActivePlayer, M!Players
  <2>4. M!R!HandOver(t)
    BY <1>6, <2>1, <2>3 DEF M!R!HandOver, M!R!ClearedBanker, M!DmTransfer
  <2> QED
    BY <2>4 DEF M!R!RosterNext
<1>7. ASSUME NEW u \in Users, NEW c \in Characters, M!CreateCharacter(u, c)
      PROVE  UNCHANGED <<owner, banker, M!Members>>
  BY <1>1, <1>7 DEF M!CreateCharacter, M!Mint, M!checkGuard, M!isMember, M!Members, M!Dms,
     M!Players, RowTypes
<1>8. ASSUME NEW u \in Users, NEW c \in Characters, M!DeleteCharacter(u, c)
      PROVE  UNCHANGED <<owner, banker, M!Members>>
  BY <1>8 DEF M!DeleteCharacter, M!Members, M!Dms, M!Players
<1>9. ASSUME NEW u \in Users, NEW c \in Characters, M!CreateStash(u, c)
      PROVE  UNCHANGED <<owner, banker, M!Members>>
  BY <1>9 DEF M!CreateStash, M!rows, M!Members, M!Dms, M!Players
<1>10. ASSUME NEW u \in Users, M!StashStep(u)
       PROVE  UNCHANGED <<owner, banker, M!Members>>
  BY <1>10 DEF M!StashStep, M!DeleteStash, M!CurrencyChange, M!CurrencyTransfer, M!Acquire,
     M!Transfer,
     M!Consume, M!Put, M!SplitEvenly, M!rows, M!Members, M!Dms, M!Players
<1>11. ASSUME NEW u \in Users, M!MemberStep(u)
       PROVE  M!R!RosterNext \/ UNCHANGED <<owner, banker, M!Members>>
  <2>1. ASSUME M!Leave(u) PROVE M!R!RosterNext
    BY <1>2, <2>1, LeaveKeeps DEF M!Leave
  <2>2. ASSUME NEW t \in Users, M!Kick(u, t) PROVE M!R!RosterNext
    BY <1>2, <2>2, KickKeeps DEF M!Kick
  <2> QED
    BY <1>3, <1>4, <1>5, <1>6, <1>7, <1>8, <1>9, <1>11, <2>1, <2>2 DEF M!MemberStep
<1> QED
  BY <1>10, <1>11 DEF M!Next

(***************************************************************************)
(* Who the guards and the screens take a member for.                       *)
(***************************************************************************)
LEMMA Hats ==
  ASSUME MemInv
  PROVE  /\ owner \in M!Members /\ M!IsDm(owner) /\ M!userIsDm(owner)
         /\ banker # NoUser => banker \in M!Members /\ M!deriveActorRole(banker) = "banker"
         /\ \A u \in M!Members : u \in Users /\ M!isMember(u)
         /\ \A u \in M!Members : M!userIsDm(u) => u = owner /\ M!IsDm(u)
         /\ \A u \in M!Members : M!isCurrentUserDmOrSolo(u) => M!isSolo \/ M!IsDm(u)
<1>1. owner \in Users /\ NoUser \notin Users /\ owner \in M!Dms /\ \A u \in M!Dms : u = owner
  BY UsersAssumption DEF MemInv, M!TypeOK, Roles
<1>2. owner \in M!Members /\ M!IsDm(owner) /\ M!userIsDm(owner)
  BY <1>1 DEF MemInv, Roles, M!Members, M!Dms, M!IsDm, M!deriveActorRole, M!userIsDm
<1>3. banker # NoUser => banker \in M!Members /\ M!deriveActorRole(banker) = "banker"
  BY DEF MemInv, M!TypeOK, Roles, M!Members, M!Players, M!ActivePlayer, M!deriveActorRole
<1>4. \A u \in M!Members : u \in Users /\ M!isMember(u)
  BY DEF M!Members, M!Dms, M!Players, M!isMember
<1>5. \A u \in M!Members : M!userIsDm(u) => u = owner /\ M!IsDm(u)
  BY <1>1, <1>2, <1>4 DEF M!userIsDm, M!Dms
<1>6. \A u \in M!Members : M!isCurrentUserDmOrSolo(u) => M!isSolo \/ M!IsDm(u)
  BY <1>5 DEF M!isCurrentUserDmOrSolo, M!userIsDm
<1> QED
  BY <1>2, <1>3, <1>4, <1>5, <1>6

(***************************************************************************)
(* Who may use a stash: the DM any, a member the pools and those of the    *)
(* own character; what is taken out of a pool takes the Banker, if there   *)
(* is one.                                                                 *)
(***************************************************************************)
LEMMA Access ==
  ASSUME MemInv, NEW s \in stashes
  PROVE  /\ M!ownsOrShares(owner, s)
         /\ \A u : s.scope # "character" => M!ownsOrShares(u, s)
         /\ \A u, c : c \in M!Living /\ s \in M!OwnStashes(c) /\ M!ownsCharacter(u, c)
                        => M!ownsOrShares(u, s)
         /\ M!isSharedPoolStash(s) <=> s.scope # "character"
         /\ s.scope = "character" => \A u : M!checkBankerGate(u, s)
         /\ \A u : banker = NoUser \/ banker = u => M!checkBankerGate(u, s)
<1>1. s.scope \in {"character", "party", "recovered-loot"}
  BY StashKinds, StashFields DEF MemInv, M!TypeOK
<1>2. s.scope = "character" => s.of \in M!Living
  BY MemOrphans DEF M!NothingIsOrphaned
<1>3. M!IsDm(owner)
  BY Hats
<1>4. M!isSharedPoolStash(s) <=> s.scope # "character"
  BY <1>1 DEF M!isSharedPoolStash
<1>5. \A u : banker = NoUser \/ banker = u => M!checkBankerGate(u, s)
  BY DEF M!checkBankerGate, M!deriveActorRole
<1>6. s.scope = "character" => \A u : M!checkBankerGate(u, s)
  BY <1>4 DEF M!checkBankerGate
<1>7. M!ownsOrShares(owner, s) /\ \A u : s.scope # "character" => M!ownsOrShares(u, s)
  BY <1>2, <1>3 DEF M!ownsOrShares, M!ownsCharacter
<1>8. \A u, c : c \in M!Living /\ s \in M!OwnStashes(c) /\ M!ownsCharacter(u, c)
                  => M!ownsOrShares(u, s)
  <2>1. \A c : s \in M!OwnStashes(c) => s.of = c
    BY StashKinds, StashFields
  <2> QED
    BY <2>1 DEF M!ownsOrShares
<1> QED
  BY <1>4, <1>5, <1>6, <1>7, <1>8

(***************************************************************************)
(* Whatever is locked for others is not for the DM or the Banker.          *)
(***************************************************************************)
LEMMA Served ==
  ASSUME MemInv, NEW s \in stashes
  PROVE  \E u \in M!Members : M!isMember(u) /\ M!ownsOrShares(u, s) /\ M!checkBankerGate(u, s)
<1>1. CASE s.scope = "character" \/ banker = NoUser
  BY <1>1, Hats, Access
<1>2. CASE s.scope # "character" /\ banker # NoUser
  BY <1>2, Hats, Access
<1> QED
  BY <1>1, <1>2

(***************************************************************************)
(* Nothing is locked for good.                                             *)
(***************************************************************************)
LEMMA MemUnlocked == MemInv => M!NothingIsLocked
<1> SUFFICES ASSUME MemInv PROVE M!NothingIsLocked
  OBVIOUS
<1>1. /\ owner \in M!Members /\ M!isMember(owner) /\ M!IsDm(owner) /\ dmRow[owner] = "active"
      /\ \A i \in Goods : at[i] # Nowhere => at[i] \in stashes
  BY Hats DEF MemInv, Placed, M!userIsDm
<1>2. ASSUME NEW s \in stashes
      PROVE  /\ \A reason \in {"deposit", "withdraw", "convert", "gameplay-drain"} :
                  M!SomeMember(LAMBDA u : M!currencyChangeGuard(u, s, reason))
             /\ M!SomeMember(LAMBDA u : M!currencyTransferGuard(u, s))
             /\ M!SomeMember(LAMBDA u : M!acquireGuard(u, s))
             /\ M!SomeMember(LAMBDA u : M!renameStashGuard(u, s))
  <2>1. PICK v \in M!Members : M!isMember(v) /\ M!ownsOrShares(v, s) /\ M!checkBankerGate(v, s)
    BY Served
  <2>2. ASSUME NEW reason \in {"deposit", "withdraw", "convert", "gameplay-drain"}
        PROVE  M!SomeMember(LAMBDA u : M!currencyChangeGuard(u, s, reason))
    <3>1. reason # "gameplay-drain" => M!checkGuard(v, M!currencyChangeGuard(v, s, reason))
      BY <2>1 DEF M!checkGuard, M!currencyChangeGuard
    <3>2. reason = "gameplay-drain" => M!checkGuard(owner, M!currencyChangeGuard(owner, s, reason))
      BY <1>1, Access DEF M!checkGuard, M!currencyChangeGuard
    <3> QED
      BY <1>1, <2>1, <3>1, <3>2 DEF M!SomeMember
  <2>3. /\ M!checkGuard(v, M!currencyTransferGuard(v, s)) /\ M!checkGuard(v, M!acquireGuard(v, s))
        /\ M!checkGuard(v, M!renameStashGuard(v, s))
    BY <2>1 DEF M!checkGuard, M!currencyTransferGuard, M!acquireGuard, M!renameStashGuard
  <2> QED
    BY <2>1, <2>2, <2>3 DEF M!SomeMember
<1>3. ASSUME NEW i \in Goods, at[i] # Nowhere
      PROVE  /\ M!SomeMember(LAMBDA u : M!transferGuard(u, i) /\ M!consumeGuard(u, i))
             /\ M!SomeMember(LAMBDA u : M!splitGuard(u, i) /\ M!editItemInstanceGuard(u, i))
  <2>1. PICK v \in M!Members : /\ M!isMember(v)
                              /\ M!ownsOrShares(v, at[i]) /\ M!checkBankerGate(v, at[i])
    BY <1>1, <1>3, Served
  <2>2. /\ M!checkGuard(v, M!transferGuard(v, i) /\ M!consumeGuard(v, i))
        /\ M!checkGuard(v, M!splitGuard(v, i) /\ M!editItemInstanceGuard(v, i))
    BY <1>3, <2>1 DEF M!checkGuard, M!transferGuard, M!consumeGuard, M!splitGuard,
       M!editItemInstanceGuard
  <2> QED
    BY <2>1, <2>2 DEF M!SomeMember
<1>4. ASSUME NEW i \in Goods, at[i] # Nowhere, NEW c \in M!Living, at[i] = M!Inventory(c)
      PROVE  /\ M!SomeMember(LAMBDA u :
                  /\ M!equipGuard(u, i, c) /\ M!unequipGuard(u, i, c)
                  /\ M!attuneGuard(u, i, c, FALSE) /\ M!unattuneGuard(u, i, c)
                  /\ M!useChargeGuard(u, i, c) /\ M!rechargeGuard(u, i, c, FALSE))
             /\ M!SomeMember(LAMBDA u : M!attuneGuard(u, i, c, TRUE))
  <2>1. M!WornBy(owner, i, c) /\ M!ownsCharacter(owner, c) /\ M!isCharacterInventoryStash(at[i], c)
    BY <1>1, <1>4 DEF M!WornBy, M!ownsCharacter, M!isCharacterInventoryStash
  <2>2. /\ M!checkGuard(owner,
              /\ M!equipGuard(owner, i, c) /\ M!unequipGuard(owner, i, c)
              /\ M!attuneGuard(owner, i, c, FALSE) /\ M!unattuneGuard(owner, i, c)
              /\ M!useChargeGuard(owner, i, c) /\ M!rechargeGuard(owner, i, c, FALSE))
        /\ M!checkGuard(owner, M!attuneGuard(owner, i, c, TRUE))
    BY <1>1, <2>1 DEF M!checkGuard, M!equipGuard, M!unequipGuard, M!attuneGuard,
       M!unattuneGuard,
       M!useChargeGuard, M!rechargeGuard
  <2> QED
    BY <1>1, <2>2 DEF M!SomeMember
<1>5. ASSUME NEW c \in M!Living
      PROVE  /\ M!SomeMember(LAMBDA u :
                  /\ M!renameCharacterGuard(u, c) /\ M!editCharacterGuard(u, c, FALSE)
                  /\ M!wishlistAddGuard(u, c) /\ M!wishlistRemoveGuard(u, c)
                  /\ \A i \in Goods : M!rechargeGuard(u, i, c, TRUE))
             /\ M!SomeMember(LAMBDA u : M!editCharacterGuard(u, c, TRUE))
  <2>1. M!ownsCharacter(owner, c)
    BY <1>1 DEF M!ownsCharacter
  <2>2. /\ M!checkGuard(owner,
              /\ M!renameCharacterGuard(owner, c) /\ M!editCharacterGuard(owner, c, FALSE)
              /\ M!wishlistAddGuard(owner, c) /\ M!wishlistRemoveGuard(owner, c)
              /\ \A i \in Goods : M!rechargeGuard(owner, i, c, TRUE))
        /\ M!checkGuard(owner, M!editCharacterGuard(owner, c, TRUE))
    BY <1>1, <2>1 DEF M!checkGuard, M!renameCharacterGuard, M!editCharacterGuard,
       M!wishlistAddGuard,
       M!wishlistRemoveGuard, M!rechargeGuard
  <2> QED
    BY <1>1, <2>2 DEF M!SomeMember
<1>6. M!SomeMember(LAMBDA u :
       /\ M!seedCatalogGuard(u) /\ M!identifyGuard(u) /\ M!identifyBatchGuard(u)
       /\ M!createHomebrewGuard(u) /\ M!editHomebrewGuard(u) /\ M!deleteHomebrewGuard(u)
       /\ M!renamePartyGuard(u) /\ M!setEncumbranceGuard(u) /\ M!updatePartyEconomyGuard(u)
       /\ M!createShopGuard(u) /\ M!editShopGuard(u) /\ M!deleteShopGuard(u)
       /\ M!setShopOpenGuard(u) /\ M!editShopStockGuard(u)
       /\ M!purchaseGuard(u, FALSE) /\ M!saleGuard(u, FALSE)
       /\ M!startGameSessionGuard(u) /\ M!endGameSessionGuard(u) /\ M!editGameSessionNotesGuard(u))
  BY <1>1 DEF M!SomeMember, M!checkGuard, M!seedCatalogGuard, M!identifyGuard,
     M!identifyBatchGuard,
     M!createHomebrewGuard, M!editHomebrewGuard, M!deleteHomebrewGuard, M!renamePartyGuard,
     M!setEncumbranceGuard, M!updatePartyEconomyGuard, M!createShopGuard, M!editShopGuard,
     M!deleteShopGuard, M!setShopOpenGuard, M!editShopStockGuard, M!purchaseGuard,
     M!saleGuard,
     M!startGameSessionGuard, M!endGameSessionGuard, M!editGameSessionNotesGuard
<1>7. ASSUME banker # NoUser
      PROVE  M!SomeMember(LAMBDA u : M!splitEvenlyGuard(u, M!PartyStash, {}))
  <2>1. banker \in M!Members /\ M!isMember(banker) /\ M!deriveActorRole(banker) = "banker"
    BY <1>7, Hats
  <2>2. M!checkGuard(banker, M!splitEvenlyGuard(banker, M!PartyStash, {}))
    BY <2>1 DEF M!checkGuard, M!splitEvenlyGuard
  <2> QED
    BY <2>1, <2>2 DEF M!SomeMember
<1>8. ASSUME NEW i \in Goods, NEW author \in Users, NEW type \in {"acquire", "transfer", "identify"}
      PROVE  \E u \in M!Members : M!canSeeLogEntry(u, M!deriveActorRoleForSlice(author, type), i)
  BY <1>1 DEF M!canSeeLogEntry
<1> QED
  BY <1>2, <1>3, <1>4, <1>5, <1>6, <1>7, <1>8 DEF M!NothingIsLocked

(***************************************************************************)
(* Somebody is offered what lies in the pools: the Banker, or the DM when  *)
(* there is none.                                                          *)
(***************************************************************************)
LEMMA MemPool == MemInv => M!PoolIsServed
<1> SUFFICES ASSUME MemInv, NEW s \in {M!PartyStash, M!RecoveredLoot}
             PROVE  \E u \in M!Members :
                      /\ M!showWithdrawInline(M!bankerContext(u, s)) /\ M!WithdrawInline(u, s)
                      /\ \A i \in M!Rows(s) : M!MoveItem(u, i)
  BY DEF M!PoolIsServed
<1>1. s \in stashes /\ s.scope # "character" /\ Nowhere \notin stashes
  BY StashFields, NowhereAssumption DEF MemInv, Placed, M!TypeOK
<1>2. PICK u \in M!Members : /\ M!isMember(u)
                             /\ banker = NoUser \/ banker = u
                             /\ banker # NoUser => ~M!userIsDm(u) \/ banker = u
  BY Hats
<1>3. M!ownsOrShares(u, s) /\ M!checkBankerGate(u, s)
  BY <1>1, <1>2, Access
<1>4. M!showWithdrawInline(M!bankerContext(u, s))
  BY <1>2 DEF M!showWithdrawInline, M!bankerContext
<1>5. M!WithdrawInline(u, s)
  BY <1>2, <1>3 DEF M!WithdrawInline, M!Verdict, M!checkGuard, M!currencyChangeGuard
<1>6. \A i \in M!Rows(s) : M!MoveItem(u, i)
  BY <1>1, <1>2, <1>3 DEF M!Rows, M!MoveItem, M!Verdict, M!checkGuard, M!transferGuard
<1> QED
  BY <1>4, <1>5, <1>6

(***************************************************************************)
(* The rows of a stash that a member may use.                              *)
(***************************************************************************)
LEMMA RowsOffered ==
  ASSUME MemInv, NEW s \in stashes, NEW u, M!isMember(u), M!isSolo \/ M!ownsOrShares(u, s)
  PROVE  /\ M!AddItem(u, s) /\ M!DepositInline(u, s)
         /\ M!Verdict(u, M!renameStashGuard(u, s)) /\ M!Verdict(u, M!deleteStashGuard(u, s))
         /\ \A i \in M!Rows(s) : M!ItemRow(u, i)
         /\ M!checkBankerGate(u, s) =>
              /\ M!WithdrawInline(u, s) /\ M!ConvertCurrency(u, s) /\ M!CurrencyTransferModal(u, s)
              /\ \A i \in M!Rows(s) : M!MoveItem(u, i)
<1> USE DEF M!Verdict, M!checkGuard
<1>1. /\ M!AddItem(u, s) /\ M!DepositInline(u, s)
      /\ M!Verdict(u, M!renameStashGuard(u, s)) /\ M!Verdict(u, M!deleteStashGuard(u, s))
  BY DEF M!AddItem, M!acquireGuard, M!DepositInline, M!currencyChangeGuard,
     M!renameStashGuard,
     M!deleteStashGuard
<1>2. Nowhere \notin stashes
  BY NowhereAssumption DEF MemInv, M!TypeOK
<1>3. \A i \in M!Rows(s) : M!ItemRow(u, i)
  BY <1>2 DEF M!Rows, M!ItemRow, M!acquireGuard, M!consumeGuard, M!splitGuard,
     M!editItemInstanceGuard
<1>4. M!checkBankerGate(u, s) =>
        M!WithdrawInline(u, s) /\ M!ConvertCurrency(u, s) /\ M!CurrencyTransferModal(u, s)
  BY DEF M!WithdrawInline, M!ConvertCurrency, M!CurrencyTransferModal,
     M!currencyChangeGuard,
     M!currencyTransferGuard
<1>5. M!checkBankerGate(u, s) => \A i \in M!Rows(s) : M!MoveItem(u, i)
  BY <1>2 DEF M!Rows, M!MoveItem, M!transferGuard
<1> QED
  BY <1>1, <1>3, <1>4, <1>5

(***************************************************************************)
(* SharedPool: the screens gate what the guards gate.                      *)
(***************************************************************************)
LEMMA PoolOffered ==
  ASSUME MemInv, NEW u \in M!Members, NEW s \in stashes, M!isSharedPoolStash(s)
  PROVE  M!SharedPool(u, s)
<1>1. s.scope # "character" /\ M!ownsOrShares(u, s) /\ M!isMember(u)
  BY Access, Hats
<1>2. /\ M!AddItem(u, s) /\ M!DepositInline(u, s) /\ \A i \in M!Rows(s) : M!ItemRow(u, i)
      /\ M!checkBankerGate(u, s) =>
           M!WithdrawInline(u, s) /\ M!ConvertCurrency(u, s) /\ M!CurrencyTransferModal(u, s)
  BY <1>1, RowsOffered
<1> DEFINE x == M!bankerContext(u, s)
<1>3. /\ x.pool /\ x.userIsBanker = (banker = u)
      /\ x.userIsDmWithBankerActive = (banker # NoUser /\ M!userIsDm(u) /\ banker # u)
      /\ x.userIsGatedFromPool = (banker # NoUser /\ banker # u /\ ~M!userIsDm(u))
      /\ x.isPartyStash = (s = M!PartyStash)
  BY <1>1 DEF M!bankerContext
<1> HIDE DEF x
<1>4. M!showTransferConvert(x) \/ M!showWithdrawInline(x) => M!checkBankerGate(u, s)
  <2>1. M!showTransferConvert(x) \/ M!showWithdrawInline(x) => banker = NoUser \/ banker = u
    BY <1>3 DEF M!showTransferConvert, M!showWithdrawInline
  <2> QED
    BY <2>1, Access
<1>5. M!showSplitButton(x) => M!SplitEvenlyModal(u, s)
  <2> SUFFICES ASSUME banker = u, s = M!PartyStash PROVE M!SplitEvenlyModal(u, s)
    BY <1>3 DEF M!showSplitButton
  <2>1. M!deriveActorRole(u) = "banker" /\ banker # NoUser
    BY Hats, UsersAssumption DEF M!deriveActorRole
  <2>2. ASSUME NEW chosen \in SUBSET M!Recipients
        PROVE  M!splitEvenlyGuard(u, s, chosen)
    <3>1. chosen \subseteq {playerChar[v] : v \in M!Players} \ {NoCharacter}
      BY CharactersAssumption DEF M!Recipients, M!Living
    <3> QED
      BY <2>1, <3>1 DEF M!splitEvenlyGuard
  <2> QED
    BY <1>1, <2>2 DEF M!SplitEvenlyModal, M!Verdict, M!checkGuard
<1>6. M!showDrainButton(x) => M!DrainCurrency(u, s)
  <2>1. M!showDrainButton(x) => M!IsDm(u)
    BY <1>3, Hats DEF M!showDrainButton
  <2> QED
    BY <1>1, <2>1 DEF M!DrainCurrency, M!Verdict, M!checkGuard, M!currencyChangeGuard
<1>7. M!CurrencyRow(u, s)
  BY <1>2, <1>4, <1>5, <1>6 DEF M!CurrencyRow, x
<1> QED
  BY <1>2, <1>7 DEF M!SharedPool

(***************************************************************************)
(* The coins of a stash of a character, for who may use it.                *)
(***************************************************************************)
LEMMA PurseOffered ==
  ASSUME MemInv, NEW u \in M!Members, NEW s \in stashes, s.scope = "character",
         M!isSolo \/ M!ownsOrShares(u, s)
  PROVE  M!CurrencyRow(u, s)
<1>1. M!checkBankerGate(u, s) /\ M!isMember(u)
  BY Access, Hats
<1>2. /\ M!DepositInline(u, s) /\ M!WithdrawInline(u, s)
      /\ M!ConvertCurrency(u, s) /\ M!CurrencyTransferModal(u, s)
  BY <1>1, RowsOffered
<1>3. ~M!bankerContext(u, s).pool
  BY DEF M!bankerContext
<1> QED
  BY <1>2, <1>3 DEF M!CurrencyRow, M!showSplitButton, M!showDrainButton

(***************************************************************************)
(* The sheet of a character, its storages among it.                        *)
(***************************************************************************)
LEMMA SheetOffered ==
  ASSUME MemInv, NEW u \in M!Members, NEW c \in M!Sheets(u)
  PROVE  /\ M!CharacterSheet(u, c) /\ M!StorageOverview(u, c)
         /\ M!Storage(c) \in stashes => M!StorageDetail(u, M!Storage(c))
<1>1. M!isMember(u) /\ c \in M!Living /\ (M!isCurrentUserDmOrSolo(u) => M!isSolo \/ M!IsDm(u))
  BY Hats DEF M!Sheets, M!getOwnCharacter
<1>2. M!isSolo \/ M!ownsCharacter(u, c)
  <2>1. CASE M!DmTools(u)
    BY <1>1, <2>1 DEF M!DmTools, M!ownsCharacter
  <2>2. CASE ~M!DmTools(u)
    <3>1. playerChar[u] = c /\ c # NoCharacter /\ u \in Users
      BY <2>2, CharactersAssumption, Hats DEF M!Sheets, M!getOwnCharacter, M!Living
    <3>2. charOwner[c] = u
      BY <3>1 DEF MemInv, Playing
    <3> QED
      BY <1>1, <3>2 DEF M!ownsCharacter
  <2> QED
    BY <2>1, <2>2
<1>3. M!Inventory(c) \in stashes /\ M!Inventory(c).scope = "character" /\ M!Inventory(c).of = c
  BY <1>1, StashFields DEF MemInv, Placed
<1>4. M!Storage(c).scope = "character"
  BY StashFields
<1>5. \A s \in stashes : s \in M!OwnStashes(c) => M!isSolo \/ M!ownsOrShares(u, s)
  BY <1>1, <1>2, Access
<1>6. ASSUME NEW s \in stashes, s \in {M!Inventory(c), M!Storage(c)}
      PROVE  /\ M!CurrencyRow(u, s) /\ M!AddItem(u, s)
             /\ M!Verdict(u, M!renameStashGuard(u, s)) /\ M!Verdict(u, M!deleteStashGuard(u, s))
             /\ \A i \in M!Rows(s) : M!ItemRow(u, i) /\ M!MoveItem(u, i)
  <2>1. s.scope = "character" /\ (M!isSolo \/ M!ownsOrShares(u, s))
    BY <1>3, <1>4, <1>5, <1>6, StashKinds
  <2> QED
    BY <1>1, <2>1, Access, RowsOffered, PurseOffered
<1>7. M!Storage(c) \in stashes => M!StorageDetail(u, M!Storage(c))
  BY <1>6 DEF M!StorageDetail
<1>8. M!StorageOverview(u, c)
  BY <1>1, <1>2 DEF M!StorageOverview, M!Verdict, M!checkGuard, M!createStashGuard
<1>9. M!RestMenu(u, c)
  BY <1>1, <1>2 DEF M!RestMenu, M!Verdict, M!checkGuard, M!rechargeGuard
<1>10. ASSUME NEW i \in M!Rows(M!Inventory(c))
       PROVE  M!EquipControls(u, i, c) /\ M!ChargeControls(u, i)
  <2>1. at[i] = M!Inventory(c)
    BY DEF M!Rows
  <2>2. M!isSolo \/ M!WornBy(u, i, c)
    BY <1>2, <1>3, <2>1 DEF M!WornBy, M!isCharacterInventoryStash
  <2>3. M!EquipControls(u, i, c)
    BY <1>1, <2>2 DEF M!EquipControls, M!Verdict, M!checkGuard, M!equipGuard,
       M!unequipGuard,
       M!unattuneGuard, M!attuneGuard
  <2>4. M!ItemCharacter(u, i) = {c}
    BY <1>3, <2>1 DEF M!ItemCharacter
  <2>5. /\ M!Verdict(u, M!useChargeGuard(u, i, c)) /\ M!Verdict(u, M!rechargeGuard(u, i, c, FALSE))
    BY <1>1, <1>2, <1>3, <2>1, <2>2 DEF M!Verdict, M!checkGuard, M!useChargeGuard,
       M!rechargeGuard,
       M!isCharacterInventoryStash
  <2> QED
    BY <2>3, <2>4, <2>5 DEF M!ChargeControls
<1>11. M!EditCharacter(u, c) /\ M!DeleteCharacterDialog(u, c) /\ M!WishlistDialog(u, c)
  BY <1>1, <1>2 DEF M!EditCharacter, M!DeleteCharacterDialog, M!WishlistDialog, M!Verdict,
     M!checkGuard,
     M!editCharacterGuard, M!deleteCharacterGuard, M!wishlistAddGuard,
     M!wishlistRemoveGuard,
     M!ownsCharacter
<1>12. M!CharacterSheet(u, c)
  BY <1>3, <1>6, <1>9, <1>10, <1>11 DEF M!CharacterSheet
<1> QED
  BY <1>7, <1>8, <1>12

(***************************************************************************)
(* The shops: whom they are shown to, they serve with the own character.   *)
(***************************************************************************)
LEMMA ShopOffered ==
  ASSUME MemInv, NEW u \in M!Members, NEW open \in BOOLEAN, M!ShopShown(u, open)
  PROVE  M!Storefront(u, open)
<1>1. M!isMember(u) /\ u \in Users /\ (M!isSolo \/ open \/ M!IsDm(u))
  BY Hats DEF M!ShopShown
<1>2. ASSUME NEW c \in M!myCharacter(u) PROVE M!StockCard(u, c, open) /\ M!SellModal(u, c, open)
  <2>1. c \in M!Living /\ charOwner[c] = u
    BY DEF M!myCharacter
  <2>2. playerChar[u] = c /\ c # NoCharacter
    BY <2>1, CharactersAssumption DEF MemInv, Playing, M!Living
  <2>3. c \in M!getOwnCharacter(u)
    BY <1>1, <2>1, <2>2 DEF M!getOwnCharacter, MemInv, Playing
  <2> QED
    BY <1>1, <2>3 DEF M!StockCard, M!SellModal, M!Verdict, M!checkGuard, M!purchaseGuard,
       M!saleGuard
<1> QED
  BY <1>2 DEF M!Storefront

(***************************************************************************)
(* The settings of the party: what the list of members offers for each     *)
(* row.                                                                    *)
(***************************************************************************)
LEMMA SettingsOffered ==
  ASSUME MemInv, NEW u \in M!Members
  PROVE  M!PartySettings(u)
<1>1. M!isMember(u) /\ u \in Users /\ (M!userIsDm(u) => u = owner /\ M!IsDm(u))
  BY Hats
<1>2. ASSUME NEW m \in M!MemberRows
      PROVE  /\ M!isKickable(u, m) => M!handleKick(u, m[1])
             /\ M!canBeAppointed(u, m) => M!handleAppointBanker(u, m[1])
             /\ M!canBeRevoked(u, m) => M!handleRevokeBanker(u)
             /\ M!canBeTransferredTo(u, m) => M!handleTransferDm(u, m[1])
  <2>1. m[1] \in Users /\ M!isMember(m[1]) /\ (m[2] # "dm" => M!ActivePlayer(m[1]))
    BY DEF M!MemberRows, M!isMember, M!ActivePlayer
  <2>2. m[1] # u => Cardinality(M!Members) >= 2
    <3> SUFFICES ASSUME m[1] # u PROVE Cardinality(M!Members) >= 2
      OBVIOUS
    <3>1. IsFiniteSet(M!Members)
      BY UsersAssumption, FS_Subset DEF M!Members, M!Dms, M!Players
    <3>2. m[1] \in M!Members \ {u}
      BY <2>1 DEF M!Members, M!Dms, M!Players, M!isMember
    <3>3. /\ IsFiniteSet(M!Members \ {u})
          /\ Cardinality(M!Members \ {u}) = Cardinality(M!Members) - 1
      BY <3>1, FS_RemoveElement
    <3>4. Cardinality(M!Members \ {u}) # 0
      BY <3>2, <3>3, FS_EmptySet
    <3>5. Cardinality(M!Members \ {u}) \in Nat /\ Cardinality(M!Members) \in Nat
      BY <3>1, <3>3, FS_CardinalityType
    <3> QED
      BY <3>3, <3>4, <3>5
  <2>3. M!isKickable(u, m) => M!handleKick(u, m[1])
    BY <1>1, <2>1 DEF M!isKickable, M!handleKick, M!Verdict, M!checkGuard, M!kickPlayerGuard
  <2>4. M!canBeAppointed(u, m) => M!handleAppointBanker(u, m[1])
    BY <1>1, <2>1, <2>2, CountsAlike DEF M!canBeAppointed, M!handleAppointBanker, M!Verdict,
       M!checkGuard,
       M!appointBankerGuard
  <2>5. M!canBeRevoked(u, m) => M!handleRevokeBanker(u)
    BY <1>1, <2>1, UsersAssumption DEF M!canBeRevoked, M!handleRevokeBanker, M!Verdict,
       M!checkGuard,
       M!revokeBankerGuard
  <2>6. M!canBeTransferredTo(u, m) => M!handleTransferDm(u, m[1])
    BY <1>1, <2>1 DEF M!canBeTransferredTo, M!handleTransferDm, M!Verdict, M!checkGuard,
       M!dmTransferGuard
  <2> QED
    BY <2>3, <2>4, <2>5, <2>6
<1>3. M!userIsDm(u) => M!HouseRules(u)
  BY <1>1 DEF M!HouseRules, M!Verdict, M!checkGuard, M!setEncumbranceGuard,
     M!updatePartyEconomyGuard
<1>4. M!getOwnCharacter(u) = {} => M!handleCreateCharacter(u)
  <2>1. M!ActivePlayer(u) /\ playerChar[u] # NoCharacter => playerChar[u] \in M!getOwnCharacter(u)
    BY <1>1, UsersAssumption DEF MemInv, M!TypeOK, Playing, M!getOwnCharacter, M!Living
  <2> QED
    BY <1>1, <2>1 DEF M!handleCreateCharacter, M!Verdict, M!checkGuard,
       M!createCharacterGuard
<1>5. \A c \in M!getOwnCharacter(u) : M!Verdict(u, M!renameCharacterGuard(u, c))
  <2>1. \A c \in M!getOwnCharacter(u) : c \in M!Living /\ charOwner[c] = u
    BY <1>1, CharactersAssumption DEF M!getOwnCharacter, M!Living, MemInv, Playing
  <2> QED
    BY <1>1, <2>1 DEF M!Verdict, M!checkGuard, M!renameCharacterGuard, M!ownsCharacter
<1> QED
  BY <1>2, <1>3, <1>4, <1>5 DEF M!PartySettings

(***************************************************************************)
(* The tools of the DM.                                                    *)
(***************************************************************************)
LEMMA ToolsOffered ==
  ASSUME MemInv, NEW u \in M!Members, M!DmTools(u)
  PROVE  /\ M!ShopsList(u) /\ M!ShopManage(u) /\ M!SessionsSection(u)
         /\ M!handleLevelUpParty(u) /\ M!IdentificationPanel(u) /\ M!distribute(u)
<1> USE DEF M!Verdict, M!checkGuard
<1>1. M!isMember(u) /\ (M!isSolo \/ M!IsDm(u))
  BY Hats DEF M!DmTools
<1>2. M!ShopsList(u) /\ M!ShopManage(u)
  BY <1>1 DEF M!ShopsList, M!createShopGuard, M!ShopManage, M!ShopSettings, M!editShopGuard,
     M!setShopOpenGuard, M!StockTable, M!editShopStockGuard, M!deleteShopGuard
<1>3. M!SessionsSection(u) /\ M!IdentificationPanel(u)
  BY <1>1 DEF M!SessionsSection, M!startGameSessionGuard, M!endGameSessionGuard,
     M!SessionRow,
     M!editGameSessionNotesGuard, M!IdentificationPanel, M!GroupCard, M!BatchIdentifyDialog,
     M!identifyGuard, M!identifyBatchGuard
<1>4. M!handleLevelUpParty(u)
  BY <1>1 DEF M!handleLevelUpParty, M!editCharacterGuard
<1>5. M!distribute(u)
  <2>1. \A s \in M!LootTargets : s \in stashes /\ (M!isSolo \/ M!ownsOrShares(u, s))
    <3>1. M!PartyStash \in stashes /\ \A c \in M!Living : M!Inventory(c) \in stashes
      BY DEF MemInv, Placed
    <3>2. M!PartyStash.scope # "character" /\ \A c \in M!Living : M!Inventory(c) \in M!OwnStashes(c)
      BY StashFields, StashKinds
    <3>3. \A c \in M!Living : M!isSolo \/ M!ownsCharacter(u, c)
      BY <1>1 DEF M!ownsCharacter
    <3> QED
      BY <3>1, <3>2, <3>3, Access DEF M!LootTargets
  <2> QED
    BY <1>1, <2>1 DEF M!distribute, M!currencyChangeGuard, M!acquireGuard
<1> QED
  BY <1>2, <1>3, <1>4, <1>5

(***************************************************************************)
(* No control that is shown is refused.                                    *)
(***************************************************************************)
LEMMA MemOffered == MemInv => M!OfferedIsAllowed
BY PoolOffered, SheetOffered, ShopOffered, SettingsOffered,
   ToolsOffered DEF M!OfferedIsAllowed

-----------------------------------------------------------------------------
(* Either side.                                                            *)

\* The members evolve, or the requests and there are no members.
EitherInv ==
  \/ side = "members" /\ MemInv
  \/ side = "requests" /\ NoMembers

(***************************************************************************)
(* A party begins well, or not at all.                                     *)
(***************************************************************************)
LEMMA EitherInit == InitEither => EitherInv
BY MemInit DEF InitEither, EitherInv

(***************************************************************************)
(* The sides do not meet.                                                  *)
(***************************************************************************)
LEMMA EitherStep ==
  EitherInv /\ [NextEither]_<<side, vars, memberVars>> => EitherInv'
<1> SUFFICES ASSUME EitherInv, [NextEither]_<<side, vars, memberVars>> PROVE EitherInv'
  OBVIOUS
<1>1. CASE side = "members" /\ M!Next /\ side' = side
  <2>1. MemInv
    BY <1>1 DEF EitherInv
  <2>2. MemInv'
    BY <1>1, <2>1, MemStep
  <2> QED
    BY <1>1, <2>2 DEF EitherInv
<1>2. CASE UNCHANGED <<side, memberVars>>
  <2>1. NoMembers => NoMembers'
    BY <1>2 DEF NoMembers, memberVars
  <2>2. MemInv => MemInv'
    <3> SUFFICES ASSUME MemInv PROVE MemInv'
      OBVIOUS
    <3>1. UNCHANGED <<charOwner, M!goods, minted>> /\ UNCHANGED <<M!rows, charOwner, minted>>
      BY <1>2 DEF memberVars, M!goods, M!rows
    <3>2. GoodsTypes' /\ Placed' /\ Counted'
      BY <3>1, GoodsStay
    <3>3. RowTypes' /\ Roles' /\ Playing'
      BY <3>1, RowsStay
    <3> QED
      BY <3>2, <3>3, Types, PTL DEF MemInv
  <2> QED
    BY <1>2, <2>1, <2>2 DEF EitherInv
<1>3. CASE UNCHANGED <<side, vars, memberVars>>
  BY <1>2, <1>3
<1> QED
  BY <1>1, <1>2, <1>3 DEF NextEither

(***************************************************************************)
(* The invariant of the two sides.                                         *)
(***************************************************************************)
LEMMA EitherAlways == SpecEither => []EitherInv
BY EitherInit, EitherStep, PTL DEF SpecEither

(***************************************************************************)
(* The types of Membership are right at all times.                         *)
(***************************************************************************)
THEOREM MembersTypes == SpecEither => [](side = "members" => M!TypeOK)
<1>1. EitherInv => (side = "members" => M!TypeOK)
  BY DEF EitherInv, MemInv
<1> QED
  BY <1>1, EitherAlways, PTL

(***************************************************************************)
(* Whoever leaves, is kicked or gives up a character leaves everything in  *)
(* the loot (cascadeCharacterToRecoveredLoot), no row of a stash, a        *)
(* character or an item points at something that is gone, and no coin is   *)
(* lost or made by any of the reducers.                                    *)
(***************************************************************************)
THEOREM NothingIsEverOrphaned == SpecEither => []NothingIsOrphaned
<1>1. ASSUME NoMembers PROVE NothingIsOrphaned
  <2>1. M!Living = {} /\ M!Players = {}
    BY <1>1 DEF NoMembers, M!Living, M!Players
  <2>2. M!CoinsIn(stashes) = 0
    BY <1>1, CoinsAreTotal, TotalEmpty DEF NoMembers
  <2> QED
    BY <1>1, <2>1, <2>2 DEF NoMembers, NothingIsOrphaned, M!NothingIsOrphaned
<1>2. EitherInv => NothingIsOrphaned
  BY <1>1, MemOrphans DEF EitherInv, NothingIsOrphaned
<1> QED
  BY <1>2, EitherAlways, PTL

(***************************************************************************)
(* Whatever the history of joining, leaving, banking and handing over,     *)
(* checkGuard lets somebody work with everything there is.                 *)
(***************************************************************************)
THEOREM NothingIsEverLocked == SpecEither => []NothingIsLocked
<1>1. EitherInv => NothingIsLocked
  BY MemUnlocked DEF EitherInv, NothingIsLocked
<1> QED
  BY <1>1, EitherAlways, PTL

(***************************************************************************)
(* What the screens derive the role of their user from and what the guards *)
(* derive it from agree: a control that is shown is not refused.  Screens  *)
(* leaves out five that are known to be: moving an item out of a pool, the *)
(* name of the party, the identification on an item's page, homebrew, and  *)
(* the leaving of the last DM.                                             *)
(***************************************************************************)
THEOREM OffersAreAllowed == SpecEither => []OfferedIsAllowed
<1>1. EitherInv => OfferedIsAllowed
  BY MemOffered DEF EitherInv, OfferedIsAllowed
<1> QED
  BY <1>1, EitherAlways, PTL

(***************************************************************************)
(* No history of Bankers and DMs shuts a pool for good: somebody is offered *)
(* to pay out of it and to take what lies in it.                           *)
(***************************************************************************)
THEOREM PoolsAreServed == SpecEither => []PoolIsServed
<1>1. EitherInv => PoolIsServed
  BY MemPool DEF EitherInv, PoolIsServed
<1> QED
  BY <1>1, EitherAlways, PTL

(***************************************************************************)
(* The members as the reducer evolves them implement Roster: each step is  *)
(* one of its steps, or changes neither the DM nor the Banker nor who is a *)
(* member.                                                                 *)
(***************************************************************************)
THEOREM ReducerIsARoster == SpecEither => ReducerIsRoster
<1>1. EitherInv /\ [NextEither]_<<side, vars, memberVars>>
        => [side = "members" => M!R!RosterNext]_<<owner, banker, M!Members>>
  <2> SUFFICES ASSUME EitherInv, [NextEither]_<<side, vars, memberVars>>, side = "members"
               PROVE  M!R!RosterNext \/ UNCHANGED <<owner, banker, M!Members>>
    OBVIOUS
  <2>1. MemInv
    BY DEF EitherInv
  <2>2. CASE M!Next
    BY <2>1, <2>2, MemRoster
  <2>3. CASE UNCHANGED <<side, vars, memberVars>>
    BY <2>3 DEF memberVars, M!Members, M!Dms, M!Players
  <2> QED
    BY <2>2, <2>3 DEF NextEither
<1> QED
  BY <1>1, EitherAlways, PTL DEF SpecEither, ReducerIsRoster
=============================================================================
