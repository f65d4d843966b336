------------------------------ MODULE Campaign ------------------------------
(***************************************************************************)
(* What the DM and the players keep beside the items' places: the          *)
(* homebrew, the shop and its stock, the identification of items, the      *)
(* sessions, the sheets and the wishlists, under requests of               *)
(* POST /sync/actions that overlap.                                        *)
(*                                                                         *)
(* A request loads the state and the reducer accepts it (the actions named *)
(* as in the reducer); its persistor then issues its statements one by one *)
(* (the persist actions), in one READ COMMITTED transaction: a statement   *)
(* sees what is committed and its own writes, a row that was written is    *)
(* locked until the commit or the abort.  Foreign keys and the partial     *)
(* index on the current session are in the statements they hold up.        *)
(*                                                                         *)
(* A text is a member of Texts, whether it is a name, a level, a rule, a   *)
(* rate or a quantity.  A field that is cleared with `undefined' is not in *)
(* a patch: JSON drops it on the way to the server.  The hint of an item   *)
(* is left out.                                                            *)
(***************************************************************************)
EXTENDS Naturals, FiniteSets, Functions, FiniteSetsExt

CONSTANTS
  Definitions,  \* the ids of homebrew definitions
  Items,        \* of item rows
  Sessions,     \* of game sessions
  Entries,      \* of stock entries
  Wishes,       \* of wishlist entries
  Shop,         \* of the shop,
  Sheet,        \* of the character
  PartyRow,     \* and of the party
  NoRow,        \* no such row, no such value
  Texts,        \* what a field may hold
  Prices,       \* and what a price may be
  Slots,        \* the requests the server handles at the same time
  Desks,        \* bound: sets of kinds of request, one of which is used
  MaxRequests   \* bound: requests ever received

Rows == Definitions \union Items \union Sessions \union Entries \union {Shop, Sheet, PartyRow}

Homebrew == [text : Texts, cost : Prices \union {NoRow}]
Item == [of : Definitions, shared : BOOLEAN, identified : BOOLEAN]
Session == [number : Nat, current : BOOLEAN, notes : Texts \union {NoRow}]
Entry == [of : Definitions, override : Prices \union {NoRow}, quantity : Texts]
ShopFields == [text : Texts, open : BOOLEAN]
SheetFields == [name : Texts, class : Texts, level : Texts, wishlist : SUBSET Wishes]
PartyFields == [name : Texts, rule : Texts, economy : Texts]

RowType(r) ==
  CASE r \in Definitions -> Homebrew
    [] r \in Items       -> Item
    [] r \in Sessions    -> Session
    [] r \in Entries     -> Entry
    [] r = Shop          -> ShopFields
    [] r = Sheet         -> SheetFields
    [] r = PartyRow      -> PartyFields

\* The ids are of different tables.
ASSUME TablesAssumption ==
  /\ Definitions \intersect Items = {} /\ Sessions \intersect Entries = {}
  /\ (Definitions \union Items) \intersect (Sessions \union Entries) = {}
  /\ {Shop, Sheet, PartyRow} \intersect (Definitions \union Items \union Sessions \union Entries) = {}
  /\ Shop # Sheet /\ Shop # PartyRow /\ Sheet # PartyRow
ASSUME NoRowAssumption == NoRow \notin Prices /\ \A r \in Rows : NoRow \notin RowType(r)
ASSUME SessionsAssumption == IsFiniteSet(Sessions)
ASSUME BoundAssumption == MaxRequests \in Nat

VARIABLES
  db,      \* the committed rows
  writes,  \* slot -> the rows its transaction has written
  job,     \* slot -> the request it handles
  pc,      \* slot -> the statement it is about to issue
  found,   \* slot -> what its last read found
  exact,   \* slot -> what it writes is what its log entries say
  book,    \* the rows as the committed log entries make them
  stale,   \* kinds of request that committed although not exact
  gone,    \* definitions and stock entries deleted, of which a late retry may use the id
  taken,   \* requests received
  desk     \* the kinds of request there are

request == <<job, pc, found, exact>>
vars == <<db, writes, request, book, stale, gone, taken, desk>>

Idle == [kind |-> "idle"]
Busy(s) == job[s] # Idle

Existing(S) == {r \in S : db[r] # NoRow}
Current == {g \in Existing(Sessions) : db[g].current}

(* Mutant: the sessions are counted instead.                               *)
NumberOf(numbers) == Cardinality(numbers)

NumberAfter(numbers) == Max({0} \union numbers) + 1

\* Foreign keys: an item's definition and a stock entry's shop.
Refers(x, row, r) ==
  \/ x \in Items /\ row # NoRow /\ row.of = r
  \/ x \in Entries /\ row # NoRow /\ r = Shop

-----------------------------------------------------------------------------
(* Statements.                                                             *)

Row(s, r) == IF r \in DOMAIN writes[s] THEN writes[s][r] ELSE db[r]
Free(s, r) == \A t \in Slots \ {s} : r \notin DOMAIN writes[t]

Accept(s, j) ==
  /\ taken < MaxRequests /\ ~Busy(s) /\ j.kind \in desk
  /\ taken' = taken + 1
  /\ job' = [job EXCEPT ![s] = j]
  /\ pc' = [pc EXCEPT ![s] = 1]
  /\ exact' = [exact EXCEPT ![s] = TRUE]
  /\ UNCHANGED <<db, writes, found, book, stale, gone, desk>>

Issues(s, kind, n) ==
  /\ job[s].kind = kind /\ pc[s] = n
  /\ pc' = [pc EXCEPT ![s] = n + 1]
  /\ UNCHANGED <<db, job, book, stale, gone, taken, desk>>

Finds(s, what) ==
  /\ found' = [found EXCEPT ![s] = what]
  /\ UNCHANGED <<writes, exact>>

\* The rows of DOMAIN new are written; a lock of another is waited for.
Writes(s, new) ==
  /\ \A r \in DOMAIN new : Free(s, r)
  /\ writes' = [writes EXCEPT ![s] = [r \in DOMAIN @ \union DOMAIN new |->
                                         IF r \in DOMAIN new THEN new[r] ELSE @[r]]]
  /\ UNCHANGED found

As(s, fact) == exact' = [exact EXCEPT ![s] = fact]

\* The row exists, and nobody is deleting it.
ForeignKey(s, r) ==
  /\ db[r] # NoRow
  /\ \A t \in Slots \ {s} : r \in DOMAIN writes[t] => writes[t][r] # NoRow

Insert(s, r, row) ==
  /\ Row(s, r) = NoRow
  /\ Writes(s, [x \in {r} |-> row])
  /\ UNCHANGED exact

\* Nobody is about to refer to the row.
Delete(s, S) ==
  /\ \A t \in Slots \ {s} : \A x \in DOMAIN writes[t], r \in S : ~Refers(x, writes[t][x], r)
  /\ Writes(s, [x \in S |-> NoRow])
  /\ UNCHANGED exact

\* The given fields of a row are written, and no other.
Merge(row, patch) == [f \in DOMAIN row |-> IF f \in DOMAIN patch THEN patch[f] ELSE row[f]]

\* The row as the entry of an edit tells it: the values it logs; the fields
\* it names without a value, as they are in the row that was written; nothing
\* else changed.
Retold(j, row, written) ==
  [f \in DOMAIN row |-> CASE f \in DOMAIN j.logged -> j.logged[f]
                           [] f \in j.named -> written[f]
                           [] OTHER -> row[f]]

Update(s, kind) ==
  LET j == job[s]
      new == Merge(Row(s, j.row), j.patch) IN
  /\ Issues(s, kind, 1)
  /\ Row(s, j.row) # NoRow
  /\ Writes(s, [x \in {j.row} |-> new])
  /\ As(s, new = Retold(j, Row(s, j.row), new))

\* The fields that a patch would change.
Differs(r, patch) == {f \in DOMAIN patch : patch[f] # db[r][f]}

\* The reducers that edit a row refuse one that is not there and a patch
\* that changes nothing.  Their entries name the fields that change, without
\* a value, or log values.
Edits(s, kind, r, patch, logged) ==
  /\ db[r] # NoRow /\ Differs(r, patch) # {}
  /\ Accept(s, [kind |-> kind, row |-> r, patch |-> patch,
                named |-> Differs(r, patch) \ DOMAIN logged, logged |-> logged])

Sets(s, kind, r, field, value) ==
  LET patch == [f \in {field} |-> value] IN Edits(s, kind, r, patch, patch)

\* No value is logged.
Names(s, kind, r, patch) == Edits(s, kind, r, patch, <<>>)

\* Patches: some of the fields of a record.
Some(records) == UNION {{Restrict(record, F) : F \in SUBSET DOMAIN record} : record \in records}

-----------------------------------------------------------------------------
(* Homebrew.                                                               *)

createHomebrew(s) ==
  \E d \in Definitions, text \in Texts, cost \in Prices \union {NoRow} :
    Accept(s, [kind |-> "create-homebrew", row |-> d, value |-> [text |-> text, cost |-> cost]])

persistCreateHomebrew(s) ==
  /\ Issues(s, "create-homebrew", 1)
  /\ Insert(s, job[s].row, job[s].value)

\* The form sends every field, changed or not, but for a cost left blank.
editHomebrew(s) ==
  \E d \in Definitions, patch \in Some([text : Texts, cost : Prices]) :
    "text" \in DOMAIN patch /\ Names(s, "edit-homebrew", d, patch)

persistEditHomebrew(s) == Update(s, "edit-homebrew")

deleteHomebrew(s) ==
  \E d \in Existing(Definitions) :
    /\ \A i \in Existing(Items) : db[i].of # d
    /\ Accept(s, [kind |-> "delete-homebrew", row |-> d])

(* Mutant: ON DELETE SET NULL, as it is for the log's session.             *)
persistDeleteHomebrewAnyway(s) ==
  /\ Issues(s, "delete-homebrew", 1)
  /\ Row(s, job[s].row) # NoRow
  /\ Delete(s, {job[s].row})

\* ON DELETE RESTRICT.
persistDeleteHomebrew(s) ==
  /\ Issues(s, "delete-homebrew", 1)
  /\ Row(s, job[s].row) # NoRow
  /\ \A x \in Rows : ~Refers(x, db[x], job[s].row)
  /\ Delete(s, {job[s].row})

-----------------------------------------------------------------------------
(* Items.  Shared: the stash it lies in carries a partyId, as the Party    *)
(* Stash and the Recovered Loot do and the stashes of characters do not.   *)

acquire(s) ==
  \E i \in Items, d \in Existing(Definitions), shared \in BOOLEAN :
    Accept(s, [kind |-> "acquire", row |-> i,
               value |-> [of |-> d, shared |-> shared, identified |-> TRUE]])

persistAcquire(s) ==
  /\ Issues(s, "acquire", 1)
  /\ ForeignKey(s, job[s].value.of)
  /\ Insert(s, job[s].row, job[s].value)

consume(s) == \E i \in Existing(Items) : Accept(s, [kind |-> "consume", row |-> i])

persistConsume(s) ==
  /\ Issues(s, "consume", 1)
  /\ Row(s, job[s].row) # NoRow
  /\ Delete(s, {job[s].row})

identifyAction(s) ==
  \E i \in Items, to \in BOOLEAN : Sets(s, "identify", i, "identified", to)

persistIdentify(s) == Update(s, "identify")

\* The items of a definition that are not as asked for, all of which the
\* reducer logs.
identifyBatchAction(s) ==
  \E d \in Definitions, to \in BOOLEAN :
    LET affected == {i \in Existing(Items) : db[i].of = d /\ db[i].identified # to} IN
    /\ affected # {}
    /\ Accept(s, [kind |-> "identify-batch", row |-> d, affected |-> affected, value |-> to])

\* updateMany, over the stashes of which partyId is the party's.
persistIdentifyBatch(s) ==
  LET j == job[s]
      Matches(row) == /\ row # NoRow
                      /\ row.of = j.row /\ row.shared /\ row.identified # j.value
      updated == {i \in found[s] : Matches(Row(s, i))} IN
  \/ /\ Issues(s, "identify-batch", 1)
     /\ Finds(s, {i \in Items : Matches(Row(s, i))})
  \/ /\ Issues(s, "identify-batch", 2)
     /\ \A i \in found[s] : Free(s, i)
     /\ Writes(s, [i \in updated |-> [Row(s, i) EXCEPT !.identified = j.value]])
     /\ As(s, updated = j.affected)

-----------------------------------------------------------------------------
(* The shop.                                                               *)

createShop(s) ==
  /\ db[Shop] = NoRow
  /\ \E text \in Texts :
       Accept(s, [kind |-> "create-shop", row |-> Shop, value |-> [text |-> text, open |-> FALSE]])

persistCreateShop(s) ==
  /\ Issues(s, "create-shop", 1)
  /\ Insert(s, Shop, job[s].value)

editShop(s) == \E text \in Texts : Names(s, "edit-shop", Shop, [text |-> text])

persistEditShop(s) == Update(s, "edit-shop")

setShopOpen(s) == \E open \in BOOLEAN : Sets(s, "set-shop-open", Shop, "open", open)

persistSetShopOpen(s) == Update(s, "set-shop-open")

deleteShop(s) == db[Shop] # NoRow /\ Accept(s, [kind |-> "delete-shop", row |-> Shop])

(* Mutant: the stock stays.                                                *)
persistDeleteShopAlone(s) ==
  /\ Issues(s, "delete-shop", 1)
  /\ Row(s, Shop) # NoRow
  /\ Delete(s, {Shop})

\* The stock goes with the shop: ON DELETE CASCADE.
persistDeleteShop(s) ==
  /\ Issues(s, "delete-shop", 1)
  /\ Row(s, Shop) # NoRow
  /\ Delete(s, {Shop} \union Existing(Entries))

\* An entry has a price of its own (override) or that of its definition.  An
\* update may give either field; its entry logs both, as they would be then.
editShopStock(s) ==
  /\ db[Shop] # NoRow
  /\ \/ \E e \in Entries, d \in Existing(Definitions), override \in Prices \union {NoRow}, quantity \in Texts :
          /\ db[e] = NoRow
          /\ db[d].cost # NoRow \/ override # NoRow
          /\ Accept(s, [kind |-> "stock-add", row |-> e,
                        value |-> [of |-> d, override |-> override, quantity |-> quantity]])
     \/ \E e \in Existing(Entries), patch \in Some([override : Prices \union {NoRow}, quantity : Texts]) :
          LET d == db[e].of
              new == Merge(db[e], patch) IN
          /\ "override" \in DOMAIN patch /\ new.override = NoRow /\ db[d] # NoRow => db[d].cost # NoRow
          /\ Edits(s, "stock-update", e, patch, [override |-> new.override, quantity |-> new.quantity])
     \/ \E e \in Existing(Entries) : Accept(s, [kind |-> "stock-remove", row |-> e])

persistEditShopStock(s) ==
  \/ /\ Issues(s, "stock-add", 1)
     /\ ForeignKey(s, Shop)
     /\ Insert(s, job[s].row, job[s].value)
  \/ Update(s, "stock-update")
  \/ /\ Issues(s, "stock-remove", 1)
     /\ Row(s, job[s].row) # NoRow
     /\ Delete(s, {job[s].row})

-----------------------------------------------------------------------------
(* The character's sheet, the party, the wishlist.                         *)

renameCharacter(s) == \E text \in Texts : Sets(s, "rename-character", Sheet, "name", text)

persistRenameCharacter(s) == Update(s, "rename-character")

\* The form sends the fields that differ from what its tab shows.
editCharacter(s) ==
  \E patch \in Some([class : Texts, level : Texts]) : Names(s, "edit-character", Sheet, patch)

persistEditCharacter(s) == Update(s, "edit-character")

renameParty(s) == \E text \in Texts : Sets(s, "rename-party", PartyRow, "name", text)

persistRenameParty(s) == Update(s, "rename-party")

setEncumbrance(s) == \E text \in Texts : Sets(s, "set-encumbrance", PartyRow, "rule", text)

persistSetEncumbrance(s) == Update(s, "set-encumbrance")

updatePartyEconomy(s) ==
  \E text \in Texts : Sets(s, "update-party-economy", PartyRow, "economy", text)

persistUpdatePartyEconomy(s) == Update(s, "update-party-economy")

wishlistAdd(s) ==
  \E w \in Wishes : w \notin db[Sheet].wishlist /\ Accept(s, [kind |-> "wishlist-add", wish |-> w])

wishlistRemove(s) ==
  \E w \in db[Sheet].wishlist : Accept(s, [kind |-> "wishlist-remove", wish |-> w])

\* The whole column is read, and written back with the entry or without it.
persistWishlist(s, kind, Next(_)) ==
  \/ /\ Issues(s, kind, 1)
     /\ Finds(s, Row(s, Sheet).wishlist)
  \/ /\ Issues(s, kind, 2)
     /\ Next(found[s]) # found[s]
     /\ Writes(s, [x \in {Sheet} |-> [Row(s, x) EXCEPT !.wishlist = Next(found[s])]])
     /\ As(s, found[s] = Row(s, Sheet).wishlist)

persistWishlistAdd(s) ==
  persistWishlist(s, "wishlist-add", LAMBDA list : list \union {job[s].wish})

persistWishlistRemove(s) ==
  persistWishlist(s, "wishlist-remove", LAMBDA list : list \ {job[s].wish})

-----------------------------------------------------------------------------
(* Game sessions.                                                          *)

startGameSession(s) ==
  \E g \in Sessions, endCurrentFirst \in BOOLEAN :
    /\ Current # {} => endCurrentFirst
    /\ Accept(s, [kind |-> "start-game-session", row |-> g, demotes |-> endCurrentFirst,
                  ended |-> Current,
                  number |-> NumberAfter({db[h].number : h \in Existing(Sessions)})])

endGameSession(s) ==
  /\ Current # {}
  /\ Accept(s, [kind |-> "end-game-session", demotes |-> TRUE, ended |-> Current])

editGameSessionNotes(s) ==
  \E g \in Sessions, text \in Texts : Sets(s, "edit-game-session-notes", g, "notes", text)

IsCurrent(s, g) == Row(s, g) # NoRow /\ Row(s, g).current

\* updateMany where isCurrent: the rows are found, then written where they
\* still match.  A start that was not told to end a session finds none.
Demote(s, kind) ==
  LET demoted == {g \in found[s] : IsCurrent(s, g)} IN
  \/ /\ Issues(s, kind, 1)
     /\ Finds(s, {g \in Sessions : IsCurrent(s, g) /\ job[s].demotes})
  \/ /\ Issues(s, kind, 2)
     /\ \A g \in found[s] : Free(s, g)
     /\ Writes(s, [g \in demoted |-> [Row(s, g) EXCEPT !.current = FALSE]])
     /\ As(s, demoted = job[s].ended)

NextNumber(s) == NumberAfter({Row(s, g).number : g \in {h \in Sessions : Row(s, h) # NoRow}})

\* The partial unique index: one session at most is the current one, and an
\* insert waits for whoever is changing that.
AllowsCurrent(s) ==
  /\ \A g \in Sessions : ~IsCurrent(s, g)
  /\ \A t \in Slots \ {s} : \A g \in Sessions \intersect DOMAIN writes[t] : ~writes[t][g].current

\* The number is read before the session is created.
persistStartGameSession(s) ==
  LET j == job[s] IN
  \/ Demote(s, "start-game-session")
  \/ /\ Issues(s, "start-game-session", 3)
     /\ Finds(s, NextNumber(s))
  \/ /\ Issues(s, "start-game-session", 4)
     /\ AllowsCurrent(s)
     /\ Row(s, j.row) = NoRow
     /\ Writes(s, [x \in {j.row} |-> [number |-> found[s], current |-> TRUE, notes |-> NoRow]])
     /\ As(s, exact[s] /\ j.number = NextNumber(s))

persistEndGameSession(s) == Demote(s, "end-game-session")

persistEditGameSessionNotes(s) == Update(s, "edit-game-session-notes")

-----------------------------------------------------------------------------
(* The end of a transaction.                                               *)

LastStatement(kind) ==
  CASE kind = "start-game-session" -> 4
    [] kind \in {"end-game-session", "identify-batch", "wishlist-add", "wishlist-remove"} -> 2
    [] OTHER -> 1

\* The rows as the log entries of a request leave them.  The entry of a
\* creation names every field and logs the text.
Replay(rows, j, written) ==
  CASE "patch" \in DOMAIN j ->
         [rows EXCEPT ![j.row] =
            IF @ = NoRow THEN @ ELSE Retold(j, @, written[j.row])]
    [] j.kind \in {"create-homebrew", "create-shop"} ->
         [rows EXCEPT ![j.row] = [written[j.row] EXCEPT !.text = j.value.text]]
    [] j.kind \in {"acquire", "stock-add"} ->
         [rows EXCEPT ![j.row] = j.value]
    [] j.kind \in {"delete-homebrew", "consume", "stock-remove"} ->
         [rows EXCEPT ![j.row] = NoRow]
    [] j.kind = "delete-shop" ->
         [r \in Rows |-> IF r \in Entries \union {Shop} THEN NoRow ELSE rows[r]]
    [] j.kind = "identify-batch" ->
         [r \in Rows |-> IF r \in j.affected /\ rows[r] # NoRow
                         THEN [rows[r] EXCEPT !.identified = j.value] ELSE rows[r]]
    [] j.kind = "wishlist-add" -> [rows EXCEPT ![Sheet].wishlist = @ \union {j.wish}]
    [] j.kind = "wishlist-remove" -> [rows EXCEPT ![Sheet].wishlist = @ \ {j.wish}]
    [] j.kind \in {"start-game-session", "end-game-session"} ->
         [r \in Rows |->
            CASE r \in j.ended -> [rows[r] EXCEPT !.current = FALSE]
              [] j.kind = "start-game-session" /\ r = j.row ->
                   [number |-> j.number, current |-> TRUE, notes |-> NoRow]
              [] OTHER -> rows[r]]

Release(s) ==
  /\ writes' = [writes EXCEPT ![s] = <<>>]
  /\ job' = [job EXCEPT ![s] = Idle]
  /\ pc' = [pc EXCEPT ![s] = 0]
  /\ found' = [found EXCEPT ![s] = {}]
  /\ exact' = [exact EXCEPT ![s] = TRUE]
  /\ UNCHANGED <<taken, desk>>

Commit(s) ==
  /\ Busy(s) /\ pc[s] > LastStatement(job[s].kind)
  /\ db' = [r \in Rows |-> Row(s, r)]
  /\ book' = Replay(book, job[s], [r \in Rows |-> Row(s, r)])
  /\ stale' = IF exact[s] THEN stale ELSE stale \union {job[s].kind}
  /\ gone' = gone \union {r \in Existing(Definitions \union Entries) : Row(s, r) = NoRow}
  /\ Release(s)

\* A statement fails (a row is gone or is there already, a key or an index
\* does not allow it), the transaction times out or the server stops.
Abort(s) ==
  /\ Busy(s)
  /\ Release(s)
  /\ UNCHANGED <<db, book, stale, gone>>

-----------------------------------------------------------------------------
\* A definition, an item of it, a shop that lists it, a session, a wish.
Init ==
  /\ \E d \in Definitions, i \in Items, g \in Sessions, e \in Entries, w \in Wishes, text \in Texts, price \in Prices,
        cost \in Prices \union {NoRow}, shared, current \in BOOLEAN :
       db = [r \in Rows |->
               CASE r = d        -> [text |-> text, cost |-> cost]
                 [] r = i        -> [of |-> d, shared |-> shared, identified |-> FALSE]
                 [] r = g        -> [number |-> 1, current |-> current, notes |-> NoRow]
                 [] r = Shop     -> [text |-> text, open |-> FALSE]
                 [] r = e        -> [of |-> d, override |-> price, quantity |-> text]
                 [] r = Sheet    -> [name |-> text, class |-> text, level |-> text, wishlist |-> {w}]
                 [] r = PartyRow -> [name |-> text, rule |-> text, economy |-> text]
                 [] OTHER        -> NoRow]
  /\ writes = [s \in Slots |-> <<>>]
  /\ job = [s \in Slots |-> Idle]
  /\ pc = [s \in Slots |-> 0]
  /\ found = [s \in Slots |-> {}]
  /\ exact = [s \in Slots |-> TRUE]
  /\ book = db
  /\ stale = {} /\ gone = {}
  /\ taken = 0
  /\ desk \in Desks

Begin(s) ==
  \/ createHomebrew(s) \/ editHomebrew(s) \/ deleteHomebrew(s)
  \/ acquire(s) \/ consume(s) \/ identifyAction(s) \/ identifyBatchAction(s)
  \/ createShop(s) \/ editShop(s) \/ setShopOpen(s) \/ deleteShop(s) \/ editShopStock(s)
  \/ renameCharacter(s) \/ editCharacter(s) \/ wishlistAdd(s) \/ wishlistRemove(s)
  \/ renameParty(s) \/ setEncumbrance(s) \/ updatePartyEconomy(s)
  \/ startGameSession(s) \/ endGameSession(s) \/ editGameSessionNotes(s)

Statement(s) ==
  \/ persistCreateHomebrew(s) \/ persistEditHomebrew(s) \/ persistDeleteHomebrew(s)
  \/ persistAcquire(s) \/ persistConsume(s) \/ persistIdentify(s) \/ persistIdentifyBatch(s)
  \/ persistCreateShop(s) \/ persistEditShop(s) \/ persistSetShopOpen(s)
  \/ persistDeleteShop(s) \/ persistEditShopStock(s)
  \/ persistRenameCharacter(s) \/ persistEditCharacter(s)
  \/ persistWishlistAdd(s) \/ persistWishlistRemove(s)
  \/ persistRenameParty(s) \/ persistSetEncumbrance(s) \/ persistUpdatePartyEconomy(s)
  \/ persistStartGameSession(s) \/ persistEndGameSession(s) \/ persistEditGameSessionNotes(s)

Next == \E s \in Slots : Begin(s) \/ Statement(s) \/ Commit(s) \/ Abort(s)

Spec == Init /\ [][Next]_vars

-----------------------------------------------------------------------------
(* Properties.                                                             *)

TypeOK ==
  /\ DOMAIN db = Rows /\ DOMAIN book = Rows
  /\ \A r \in Existing(Rows) : db[r] \in RowType(r)
  /\ {Sheet, PartyRow} \subseteq Existing(Rows)
  /\ \A s \in Slots : DOMAIN writes[s] \subseteq Rows
  /\ gone \subseteq Definitions \union Entries /\ desk \in Desks

\* The requests that may write over what changed since the reducer, or an
\* earlier statement of theirs, read it, so that their entries do not tell
\* what they did.
Overwriting ==
  {"wishlist-add", "wishlist-remove", "identify-batch", "start-game-session", "end-game-session",
   "edit-homebrew", "edit-character", "stock-update"}

\* Replaying the log in the order of the commits gives the rows, whatever
\* overlaps and whatever fails: a field that two requests set, a shop deleted
\* while it is stocked, a definition deleted while it is used, an id that is
\* inserted twice.  What an entry names without a value, as those of edits of
\* homebrew, of shops and of characters do, counts as logged.  Not so once a
\* request committed whose entries do not tell what it wrote (stale), and
\* only these can: a wishlist, a session or a batch identification written
\* over what changed since it was read (a batch also misses what lies in the
\* stashes of characters); an edit of a homebrew definition or of a character
\* of which a field that changed since the load, and that the entry does not
\* name, is set back; an update of a stock entry that gives one field and
\* logs the other as it was.
RowsAsLogged == stale \subseteq Overwriting /\ (stale = {} => db = book)

\* There is one current session at most, whoever starts and ends at the same
\* time, and as long as nobody started beside another the sessions are
\* numbered in the order they began.
SessionsInOrder ==
  /\ Cardinality(Current) <= 1
  /\ "start-game-session" \notin stale =>
       /\ \A g, h \in Existing(Sessions) : db[g].number = db[h].number => g = h
       /\ \A g \in Current, h \in Existing(Sessions) : db[h].number <= db[g].number

\* Every item has its definition, and every stock entry a price, its own or
\* that of its definition, as long as that exists and neither id was used
\* before.
CatalogHolds ==
  /\ \A i \in Existing(Items) : db[db[i].of] # NoRow
  /\ \A e \in Existing(Entries) :
       LET d == db[e].of IN
       {e, d} \intersect gone = {} /\ db[d] # NoRow => db[e].override # NoRow \/ db[d].cost # NoRow
=============================================================================
