------------------------------- MODULE Party -------------------------------
(***************************************************************************)
(* Membership and roles of one party, as the server keeps them: the rows   *)
(* of Party, PartyMembership and Character, and the requests that change   *)
(* them (parties/routes.ts, parties/leave.ts, the membership actions of    *)
(* POST /sync/actions, POST /users/me/delete).                             *)
(*                                                                         *)
(* A request is handled in steps, and other requests run in between: the   *)
(* route resolves the actor's role, the state is loaded and judged by the  *)
(* guard and the reducer, and the persistor runs its statements, each on   *)
(* the rows committed by then.  Transactions run at READ COMMITTED and     *)
(* re-judge nothing: a verdict may be out of date when its rows become     *)
(* visible (`stale' records the kinds of request that committed so), and   *)
(* what one statement found may be out of date at the commit (`outrun'     *)
(* records what that was).                                                 *)
(*                                                                         *)
(* A transaction's writes become visible together, at the commit; until    *)
(* then others read the rows as they were and wait before they write them. *)
(* A statement that reads what it does not lock is a step; one that only   *)
(* locks and writes is part of the step that follows it, which no other    *)
(* transaction can tell.  Invite codes, items and coins are left out.      *)
(***************************************************************************)
EXTENDS Naturals, FiniteSets

CONSTANTS
  Users,          \* the accounts that meet in the party
  NoUser,         \* the null of ownerUserId-like columns
  Slots,          \* the requests the server handles at the same time
  MaxCharacters,  \* bound: characters ever created
  MaxRequests     \* bound: requests ever received

ASSUME UsersAssumption == NoUser \notin Users
ASSUME BoundAssumption == MaxCharacters \in Nat /\ MaxRequests \in Nat

Characters == 1..MaxCharacters
NoCharacter == 0

VARIABLES
  owner,       \* Party.ownerUserId
  banker,      \* Party.bankerUserId
  archived,    \* Party.archivedAt is set
  dmRow,       \* user -> status of the row (user, party, 'dm')
  playerRow,   \* user -> status of the row (user, party, 'player')
  playerChar,  \* user -> characterId of the player row
  charOwner,   \* character -> ownerUserId, NoUser when there is no such row
  minted,      \* how many characters were ever created
  deleted,     \* users whose account was anonymised
  request,     \* slot -> the request it handles
  stale,       \* kinds of request that committed on an outdated verdict
  outrun,      \* what a transaction had found otherwise than it was at its commit
  taken        \* how many requests were received

rows == <<owner, banker, archived, dmRow, playerRow, playerChar, charOwner, minted>>
marks == <<stale, outrun>>
vars == <<rows, deleted, request, marks, taken>>

\* A membership row was never written, is active (leftAt null), or is
\* soft-deleted (leftAt set).
Status == {"none", "active", "left"}

Kinds == {"join", "leave", "kick", "create", "remove",
          "appoint", "revoke", "transfer", "delete"}

\* What is done next: before the transaction, in it, and after it.
Stages == {"count", "load",
           "char", "drop", "end", "remain", "row", "swap", "bank", "scan", "archive", "commit",
           "anonymise"}
Outside == {"count", "load", "anonymise"}

NoTarget == 0
Targets == Users \union Characters \union {NoTarget}

\* What the statements of a transaction found: the rows of a user, the character
\* the player row points at, and whether the user is the banker.
Finds == [dm : Status, player : Status, char : Characters \union {NoCharacter}, bank : BOOLEAN]
Nothing == [dm |-> "none", player |-> "none", char |-> NoCharacter, bank |-> FALSE]

Idle == [kind |-> "idle"]
Requests ==
  {q \in [kind : Kinds, user : Users, target : Targets,
          asDm : BOOLEAN, stage : Stages, found : Finds] :
     /\ q.kind \in {"kick", "appoint", "transfer"} => q.target \in Users
     /\ q.kind = "remove" => q.target \in Characters
     /\ q.found.char # NoCharacter => q.kind \in {"leave", "delete", "kick"}}

TypeOK ==
  /\ owner \in Users
  /\ banker \in Users \union {NoUser}
  /\ archived \in BOOLEAN
  /\ dmRow \in [Users -> Status]
  /\ playerRow \in [Users -> Status]
  /\ playerChar \in [Users -> Characters \union {NoCharacter}]
  /\ charOwner \in [Characters -> Users \union {NoUser}]
  /\ minted \in 0..MaxCharacters
  /\ deleted \subseteq Users
  /\ request \in [Slots -> Requests \union {Idle}]
  /\ stale \subseteq Kinds \union {"archive"}
  /\ outrun \subseteq {"dm", "player", "char", "bank"}
  /\ taken \in 0..MaxRequests

-----------------------------------------------------------------------------
(* What a request reads.                                                   *)

Dms == {u \in Users : dmRow[u] = "active"}
Players == {u \in Users : playerRow[u] = "active"}
Members == Dms \union Players

Solo == \E u \in Users : Members = {u}

\* deriveActorRole over the row resolveActor prefers: a banker is not the DM.
ActsAsDm(u) == u \in Dms /\ banker # u

HasCharacter(u) == u \in Players /\ playerChar[u] # NoCharacter

-----------------------------------------------------------------------------
(* Verdicts.  What checkGuard and the reducer say of a request, its role   *)
(* resolved earlier, on the state loaded now.                              *)

MayJoin(u) == ~archived /\ u \notin Members

(* Mutant: nobody asks for a DM before leaving. *)
MayLeaveAsSoleDm(u) == u \in Members /\ Members \ {u} # {}

MayLeave(u) ==
  /\ u \in Members
  /\ Members \ {u} # {}
  /\ u \in Dms => Dms \ {u} # {}

MayKick(u, t, asDm) ==
  asDm /\ u \in Members /\ t # u /\ t \in Members /\ t \notin Dms

MayCreate(u) == u \in Members /\ ~HasCharacter(u)

MayRemove(u, c, asDm) ==
  /\ u \in Members
  /\ charOwner[c] # NoUser
  /\ Solo \/ asDm \/ charOwner[c] = u

MayAppoint(u, t, asDm) ==
  /\ Solo \/ asDm
  /\ u \in Dms
  /\ t # owner
  /\ banker = NoUser
  /\ t \in Players
  /\ ~Solo

MayRevoke(u, asDm) == (Solo \/ asDm) /\ u \in Dms /\ banker # NoUser

MayTransfer(u, t, asDm) ==
  (Solo \/ asDm) /\ u \in Dms /\ t # u /\ t \in Players

Accepted(q, asDm) ==
  CASE q.kind = "join"                -> MayJoin(q.user)
    [] q.kind \in {"leave", "delete"} -> MayLeave(q.user)
    [] q.kind = "kick"                -> MayKick(q.user, q.target, asDm)
    [] q.kind = "create"              -> MayCreate(q.user)
    [] q.kind = "remove"              -> MayRemove(q.user, q.target, asDm)
    [] q.kind = "appoint"             -> MayAppoint(q.user, q.target, asDm)
    [] q.kind = "revoke"              -> MayRevoke(q.user, asDm)
    [] q.kind = "transfer"            -> MayTransfer(q.user, q.target, asDm)

\* The users whose deletion has ended their membership and goes on.
Vanishing ==
  {u \in Users : \E s \in Slots : request[s] # Idle /\ request[s].stage = "anonymise" /\ request[s].user = u}

\* Would the request still be accepted, were it judged again now?
StillAccepted(q) ==
  q.user \notin deleted \union Vanishing /\ ~archived /\ Accepted(q, ActsAsDm(q.user))

-----------------------------------------------------------------------------
(* The first reads of a request.                                           *)

Take(s, k, u, t, stage) ==
  /\ taken < MaxRequests
  /\ taken' = taken + 1
  /\ request[s] = Idle
  /\ u \notin deleted
  /\ request' = [request EXCEPT ![s] =
       [kind |-> k, user |-> u, target |-> t, asDm |-> ActsAsDm(u), stage |-> stage,
        found |-> Nothing]]
  /\ UNCHANGED <<rows, deleted, marks>>

\* POST /parties/join: the invite resolves to a live party, and the caller
\* is not a member yet.
TakeJoin(s, u) == MayJoin(u) /\ Take(s, "join", u, NoTarget, "commit")

\* POST /parties/:id/leave: resolveActor.
TakeLeave(s, u) == u \in Members /\ Take(s, "leave", u, NoTarget, "count")

\* POST /parties/:id/kick: resolveActor, DM only.
TakeKick(s, u, t) ==
  u \in Members /\ ActsAsDm(u) /\ Take(s, "kick", u, t, "load")

\* POST /sync/actions: the party is not archived, and resolveActor.
TakeSync(s, u, k, t) ==
  ~archived /\ u \in Members /\ Take(s, k, u, t, "load")

(* Mutant: the account is anonymised without leaving the party. *)
TakeDeleteAtOnce(s, u) == Take(s, "delete", u, NoTarget, "anonymise")

\* POST /users/me/delete: the parties to leave are listed and the actor is
\* resolved; without one there is nothing to leave.
TakeDelete(s, u) ==
  Take(s, "delete", u, NoTarget,
       IF u \in Members /\ ~archived THEN "count" ELSE "anonymise")

Answer(s) == request' = [request EXCEPT ![s] = Idle] /\ UNCHANGED taken
AtStage(q, stage, found) ==
  [kind |-> q.kind, user |-> q.user, target |-> q.target,
   asDm |-> stage \in {"count", "load"} /\ q.asDm, stage |-> stage, found |-> found]
Proceed(s, stage, found) ==
  request' = [request EXCEPT ![s] = AtStage(request[s], stage, found)] /\ UNCHANGED taken
Advance(s, stage) == Proceed(s, stage, Nothing)

\* After leavePartyForUser a leave is answered, a deletion goes on.
AfterLeave(s) ==
  IF request[s].kind = "delete" THEN Advance(s, "anonymise") ELSE Answer(s)

\* leavePartyForUser counts the active members outside any transaction.
Count(s) ==
  /\ request[s] # Idle /\ request[s].stage = "count"
  /\ Advance(s, IF Members = {request[s].user} THEN "scan" ELSE "load")
  /\ UNCHANGED <<rows, deleted, marks>>

\* The first statement of the transaction.
FirstOf(kind) ==
  CASE kind \in {"leave", "delete", "kick"} -> "char"
    [] kind = "create"                      -> "row"
    [] kind = "transfer"                    -> "swap"
    [] OTHER                                -> "commit"

\* loadAppStateForUser, then the guard and the reducer.  A rejected request
\* is answered and writes nothing; an account deletion goes on when there is
\* no membership left to end, and stops when the user is the sole DM.
Load(s) ==
  /\ request[s] # Idle /\ request[s].stage = "load"
  /\ LET q == request[s] IN
       CASE Accepted(q, q.asDm) -> Advance(s, FirstOf(q.kind))
         [] ~Accepted(q, q.asDm) /\ q.user \notin Members -> AfterLeave(s)
         [] OTHER                -> Answer(s)
  /\ UNCHANGED <<rows, deleted, marks>>

-----------------------------------------------------------------------------
(* Transactions.                                                           *)

At(s, stage, kinds) ==
  /\ request[s] # Idle
  /\ request[s].stage = stage
  /\ request[s].kind \in kinds

\* Whose rows a request writes.
Subject(q) == IF q.kind = "kick" THEN q.target ELSE q.user

(* Mutant: whoever goes leaves the character behind. *)
NothingCascades(u) == NoCharacter

\* The character behind an active player row, if any.
CascadedChar(u) == IF HasCharacter(u) THEN playerChar[u] ELSE NoCharacter

\* What the statements of a transaction would find now.
Present(q) ==
  LET u == Subject(q) IN
  [dm     |-> dmRow[u],
   player |-> playerRow[u],
   char   |-> CascadedChar(u),
   bank   |-> banker = (IF q.kind = "transfer" THEN q.target ELSE u)]

\* The rows the cascade of a character writes.
CascadeRows(c) ==
  IF c = NoCharacter THEN {}
  ELSE {<<"char", c>>} \union {<<"player", u>> : u \in {v \in Users : playerChar[v] = c}}

ActiveRows(u, found) ==
  {r \in {<<"dm", u>>, <<"player", u>>} : found[r[1]] = "active"}

\* The rows a transaction has written by now, which others wait for.
Locked(s) ==
  LET q == request[s]
      u == Subject(q) IN
  CASE q = Idle -> {}
    [] At(s, "end", {"leave", "delete", "kick"}) -> CascadeRows(q.found.char)
    [] At(s, "remain", {"leave", "delete"}) \/ At(s, "commit", {"leave", "delete", "kick"}) ->
         CascadeRows(q.found.char) \union ActiveRows(u, q.found)
           \union (IF q.found.bank THEN {<<"party">>} ELSE {})
    [] At(s, "bank", {"transfer"}) -> {<<"dm", u>>, <<"dm", q.target>>}
    [] At(s, "commit", {"transfer"}) ->
         {<<"dm", u>>, <<"dm", q.target>>}
           \union (IF q.found.player = "active" THEN {} ELSE {<<"player", u>>})
    [] OTHER -> {}

Free(s, written) == \A o \in Slots \ {s} : Locked(o) \intersect written = {}

\* A statement that throws, a deadlock or the end of the time rolls the
\* transaction back; the answer is a 422 or a 500.
Fail(s) == Answer(s) /\ UNCHANGED <<rows, deleted, marks>>

RollBack(s) ==
  /\ request[s] # Idle /\ request[s].stage \notin Outside
  /\ Fail(s)

Find(s, stage, found) == Proceed(s, stage, found) /\ UNCHANGED <<rows, deleted, marks>>

\* persistLeaveParty and persistKickPlayer: the character of the active player
\* row.
FindCharacter(s) ==
  /\ At(s, "char", {"leave", "delete", "kick"})
  /\ Find(s, "drop", [Nothing EXCEPT !.char = CascadedChar(Subject(request[s]))])

\* cascadeCharacterToRecoveredLootDb, if there is one: the rows that point at it
\* are cleared and it is deleted.  Then the active rows are looked for.
DropCharacter(s) ==
  LET q == request[s]
      u == Subject(q)
      c == q.found.char IN
  /\ At(s, "drop", {"leave", "delete", "kick"})
  /\ Free(s, CascadeRows(c))
  /\ IF c # NoCharacter /\ charOwner[c] = NoUser THEN Fail(s)
     ELSE Find(s, "end", [q.found EXCEPT !.dm = dmRow[u], !.player = playerRow[u]])

\* Those found active are soft-deleted, unless they ended before they were free.
\* Then the party is looked for by its banker, who is the banker no more.
EndRows(s) ==
  LET q == request[s]
      u == Subject(q)
      Reread(found, now) == IF found = "active" THEN now ELSE found IN
  /\ At(s, "end", {"leave", "delete", "kick"})
  /\ Free(s, ActiveRows(u, q.found))
  /\ banker = u => Free(s, {<<"party">>})
  /\ Find(s, IF q.kind = "kick" THEN "commit" ELSE "remain",
          [q.found EXCEPT !.dm = Reread(@, dmRow[u]),
                          !.player = Reread(@, playerRow[u]),
                          !.bank = banker = u])

\* Emptying the party is an error: the members left are counted, without the
\* rows the transaction has ended.
CountRemaining(s) ==
  LET q == request[s]
      kept == ({<<"dm", v>> : v \in Dms} \union {<<"player", v>> : v \in Players})
                \ ActiveRows(q.user, q.found) IN
  /\ At(s, "remain", {"leave", "delete"})
  /\ IF kept = {} THEN Fail(s) ELSE Find(s, "commit", q.found)

\* persistAddCharacterToExistingParty: an active player row must be free.
FindRow(s) ==
  LET u == request[s].user IN
  /\ At(s, "row", {"create"})
  /\ IF HasCharacter(u) THEN Fail(s)
     ELSE Find(s, "commit", [Nothing EXCEPT !.player = playerRow[u]])

\* persistDmTransfer: the DM row of the old DM, which must exist, ends, the one
\* of the new DM is upserted, and the player row of the old DM is looked for.
SwapRows(s) ==
  LET q == request[s] IN
  /\ At(s, "swap", {"transfer"})
  /\ Free(s, {<<"dm", q.user>>, <<"dm", q.target>>})
  /\ IF dmRow[q.user] = "none" THEN Fail(s)
     ELSE Find(s, "bank", [Nothing EXCEPT !.player = playerRow[q.user]])

\* That row is inserted or reactivated, if it was not active, and the banker is
\* read.
FindBanker(s) ==
  LET q == request[s] IN
  /\ At(s, "bank", {"transfer"})
  /\ q.found.player # "active" => Free(s, {<<"player", q.user>>})
  /\ IF q.found.player = "none" /\ playerRow[q.user] # "none" THEN Fail(s)
     ELSE Find(s, "commit", [q.found EXCEPT !.bank = banker = q.target])

\* The sole member leaves: the active rows are looked for.
FindRows(s) ==
  LET u == request[s].user IN
  /\ At(s, "scan", {"leave", "delete"})
  /\ Find(s, "archive", [Nothing EXCEPT !.dm = dmRow[u], !.player = playerRow[u]])

-----------------------------------------------------------------------------
(* The commits.                                                            *)

Judge(s) ==
  stale' = IF StillAccepted(request[s]) THEN stale ELSE stale \union {request[s].kind}

\* Among what the transaction had to find, what is otherwise by now?
Compare(s, looked) ==
  outrun' = outrun \union
    {x \in looked : request[s].found[x] # Present(request[s])[x]}

\* cascadeCharacterToRecoveredLootDb: drop the character, clear the player
\* rows that point at it.
Cascade(c) ==
  IF c = NoCharacter THEN UNCHANGED <<playerChar, charOwner>>
  ELSE /\ playerChar' = [v \in Users |-> IF playerChar[v] = c THEN NoCharacter ELSE playerChar[v]]
       /\ charOwner' = [charOwner EXCEPT ![c] = NoUser]

\* The row of u ends, if it was found active.
SoftDelete(row, u, found) == IF found = "active" THEN [row EXCEPT ![u] = "left"] ELSE row

(* Mutant: a banker who goes stays the banker. *)
DepartAsBanker(u, found) ==
  /\ Cascade(found.char)
  /\ dmRow' = SoftDelete(dmRow, u, found.dm)
  /\ playerRow' = SoftDelete(playerRow, u, found.player)
  /\ UNCHANGED <<owner, banker, archived, minted>>

\* The rows of u that were found active end, the character that was found goes
\* to Recovered Loot, and a banker who was found is a banker no more.
Depart(u, found) ==
  /\ Cascade(found.char)
  /\ dmRow' = SoftDelete(dmRow, u, found.dm)
  /\ playerRow' = SoftDelete(playerRow, u, found.player)
  /\ banker' = IF found.bank THEN NoUser ELSE banker
  /\ UNCHANGED <<owner, archived, minted>>

\* persistJoinParty upserts: a soft-deleted row is reactivated, an active
\* one is reset.
CommitJoin(s) ==
  LET u == request[s].user IN
  /\ At(s, "commit", {"join"})
  /\ Free(s, {<<"player", u>>})
  /\ playerRow' = [playerRow EXCEPT ![u] = "active"]
  /\ playerChar' = [playerChar EXCEPT ![u] = NoCharacter]
  /\ Judge(s) /\ Answer(s)
  /\ UNCHANGED <<owner, banker, archived, dmRow, charOwner, minted, deleted, outrun>>

\* persistLeaveParty and persistKickPlayer become visible.
CommitDeparture(s) ==
  /\ At(s, "commit", {"leave", "delete", "kick"})
  /\ Depart(Subject(request[s]), request[s].found)
  /\ Judge(s) /\ Compare(s, {"dm", "player", "char", "bank"})
  /\ AfterLeave(s)
  /\ UNCHANGED deleted

(* Mutant: only the DM row of the sole member ends. *)
CommitArchiveOfDm(s) ==
  LET u == request[s].user IN
  /\ At(s, "archive", {"leave", "delete"})
  /\ dmRow' = SoftDelete(dmRow, u, request[s].found.dm)
  /\ archived' = TRUE
  /\ stale' = IF Members = {u} /\ ~archived /\ u \notin deleted
              THEN stale ELSE stale \union {"archive"}
  /\ Compare(s, {"dm", "player"})
  /\ AfterLeave(s)
  /\ UNCHANGED <<owner, banker, playerRow, playerChar, charOwner, minted, deleted>>

\* The rows found active end and the party is archived.  The character stays.
CommitArchive(s) ==
  LET u == request[s].user
      found == request[s].found IN
  /\ At(s, "archive", {"leave", "delete"})
  /\ Free(s, ActiveRows(u, found) \union {<<"party">>})
  /\ dmRow' = SoftDelete(dmRow, u, found.dm)
  /\ playerRow' = SoftDelete(playerRow, u, found.player)
  /\ archived' = TRUE
  /\ stale' = IF Members = {u} /\ ~archived /\ u \notin deleted
              THEN stale ELSE stale \union {"archive"}
  /\ Compare(s, {"dm", "player"})
  /\ AfterLeave(s)
  /\ UNCHANGED <<owner, banker, playerChar, charOwner, minted, deleted>>

\* The row that was found active gets the character, by its key; otherwise one
\* is inserted, which collides with a soft-deleted one.
CommitCreate(s) ==
  LET u == request[s].user IN
  /\ At(s, "commit", {"create"})
  /\ Free(s, {<<"player", u>>})
  /\ IF request[s].found.player # "active" /\ playerRow[u] # "none" THEN Fail(s)
     ELSE
       /\ minted < MaxCharacters
       /\ minted' = minted + 1
       /\ charOwner' = [charOwner EXCEPT ![minted + 1] = u]
       /\ playerRow' = IF request[s].found.player = "active" THEN playerRow
                       ELSE [playerRow EXCEPT ![u] = "active"]
       /\ playerChar' = [playerChar EXCEPT ![u] = minted + 1]
       /\ Judge(s) /\ Compare(s, {"player", "char"}) /\ Answer(s)
       /\ UNCHANGED <<owner, banker, archived, dmRow, deleted>>

\* persistDeleteCharacter.
CommitRemove(s) ==
  LET c == request[s].target IN
  /\ At(s, "commit", {"remove"})
  /\ Free(s, CascadeRows(c))
  /\ IF charOwner[c] = NoUser THEN Fail(s)
     ELSE /\ Cascade(c)
          /\ Judge(s) /\ Answer(s)
          /\ UNCHANGED <<owner, banker, archived, dmRow, playerRow, minted, deleted, outrun>>

\* persistAppointBanker and persistRevokeBanker, one statement each; the table
\* refuses a banker who is the owner.
CommitBanker(s) ==
  LET named == IF request[s].kind = "appoint" THEN request[s].target ELSE NoUser IN
  /\ At(s, "commit", {"appoint", "revoke"})
  /\ Free(s, {<<"party">>})
  /\ IF named = owner THEN Fail(s)
     ELSE /\ banker' = named
          /\ Judge(s) /\ Answer(s)
          /\ UNCHANGED <<owner, archived, dmRow, playerRow, playerChar, charOwner, minted,
                         deleted, outrun>>

\* The rows of persistDmTransfer.
HandOver(old, new, found) ==
  /\ owner' = new
  /\ dmRow' = [dmRow EXCEPT ![old] = "left", ![new] = "active"]
  /\ playerRow' = IF found.player = "active" THEN playerRow
                  ELSE [playerRow EXCEPT ![old] = "active"]
  /\ playerChar' = IF found.player = "active" THEN playerChar
                   ELSE [playerChar EXCEPT ![old] = NoCharacter]
  /\ UNCHANGED <<archived, charOwner, minted, deleted>>

(* Mutant: the new DM keeps the bank. *)
CommitTransferToBanker(s) ==
  /\ At(s, "commit", {"transfer"})
  /\ HandOver(request[s].user, request[s].target, request[s].found)
  /\ Judge(s) /\ Compare(s, {"player", "bank"}) /\ Answer(s)
  /\ UNCHANGED banker

\* persistDmTransfer ends with the owner and, if the new DM was found to be the
\* banker, the banker; the table refuses a banker who is the owner.
CommitTransfer(s) ==
  LET new == request[s].target
      found == request[s].found IN
  /\ At(s, "commit", {"transfer"})
  /\ Free(s, {<<"party">>})
  /\ IF ~found.bank /\ banker = new THEN Fail(s)
     ELSE /\ HandOver(request[s].user, new, found)
          /\ banker' = IF found.bank THEN NoUser ELSE banker
          /\ Judge(s) /\ Compare(s, {"player", "bank"}) /\ Answer(s)

\* The second half of POST /users/me/delete.
Anonymise(s) ==
  /\ request[s] # Idle /\ request[s].stage = "anonymise"
  /\ deleted' = deleted \union {request[s].user}
  /\ Answer(s)
  /\ UNCHANGED <<rows, marks>>

-----------------------------------------------------------------------------
\* A party as an earlier history left it: the owner is the DM, with or
\* without a player row (dmOnly), some users play, some of them have a
\* character, one of them may be the banker; nobody has left yet.
Init ==
  /\ owner \in Users
  /\ archived = FALSE
  /\ dmRow = [u \in Users |-> IF u = owner THEN "active" ELSE "none"]
  /\ playerRow \in [Users -> {"none", "active"}]
  /\ playerChar \in [Users -> Characters \union {NoCharacter}]
  /\ \A u \in Users : playerRow[u] = "none" => playerChar[u] = NoCharacter
  /\ \A u, v \in Users : u # v /\ playerChar[u] = playerChar[v] => playerChar[u] = NoCharacter
  /\ charOwner \in [Characters -> Users \union {NoUser}]
  /\ \A c \in Characters, u \in Users : charOwner[c] = u <=> playerChar[u] = c
  /\ minted \in 0..MaxCharacters
  /\ \A c \in Characters : charOwner[c] # NoUser <=> c <= minted
  /\ banker \in (Players \ {owner}) \union {NoUser}
  /\ deleted = {}
  /\ request = [s \in Slots |-> Idle]
  /\ stale = {}
  /\ outrun = {}
  /\ taken = 0

Receive(s) ==
  \E u \in Users :
    \/ TakeJoin(s, u)
    \/ TakeLeave(s, u)
    \/ TakeDelete(s, u)
    \/ \E t \in Users : TakeKick(s, u, t)
    \/ \E t \in Users : TakeSync(s, u, "appoint", t)
    \/ \E t \in Users : TakeSync(s, u, "transfer", t)
    \/ \E c \in Characters : TakeSync(s, u, "remove", c)
    \/ TakeSync(s, u, "create", NoTarget)
    \/ TakeSync(s, u, "revoke", NoTarget)

Statement(s) ==
  \/ FindCharacter(s) \/ DropCharacter(s) \/ EndRows(s) \/ CountRemaining(s)
  \/ FindRow(s)
  \/ SwapRows(s) \/ FindBanker(s)
  \/ FindRows(s)
  \/ RollBack(s)

Commit(s) ==
  \/ CommitJoin(s)
  \/ CommitDeparture(s)
  \/ CommitArchive(s)
  \/ CommitCreate(s)
  \/ CommitRemove(s)
  \/ CommitBanker(s)
  \/ CommitTransfer(s)

Next ==
  \E s \in Slots :
    Receive(s) \/ Count(s) \/ Load(s) \/ Statement(s) \/ Commit(s) \/ Anonymise(s)

Spec == Init /\ [][Next]_vars

-----------------------------------------------------------------------------
(* Properties.                                                             *)

\* No request of these kinds committed on an outdated verdict.
Fresh(kinds) == stale \intersect kinds = {}

\* Nobody changed, between the statement that found it and the commit, any of
\* these under a transaction.
Current(found) == outrun \intersect found = {}

\* A live party has exactly one DM and it is the owner, as long as no
\* departure, kick or hand-over was written on an outdated verdict: a leave
\* that overlaps the hand-over of the role to the leaver is what can leave a
\* party without a DM (parties/leave.ts reads the state before its
\* transaction).
OneDm ==
  Fresh({"leave", "kick", "transfer", "delete"}) => archived \/ Dms = {owner}

\* The banker of a live party is an active player and not the owner.  Two
\* things can break it: an appointment that is written on an outdated verdict,
\* and one that commits after a departure of the appointed looked for its
\* party by the banker (persistor.ts) and before the departure commits.
BankerPlays ==
  /\ Fresh({"appoint"}) /\ Current({"bank"})
  /\ ~archived /\ banker # NoUser
  => banker \in Players \ {owner}

\* Every character is the one its owner's player row points at, and in a live
\* party that owner still plays: leaving, being kicked and deleting an account
\* take the character along, whatever runs in between.  What can break it:
\* joining twice at the same time resets a row that already got its character;
\* a character that is created after a departure of its user looked for one,
\* or for a row that ends or gets another one before the creation commits.
CharactersHaveRows ==
  Fresh({"join", "transfer"}) /\ Current({"player", "char"}) =>
    \A c \in Characters : charOwner[c] # NoUser =>
      /\ playerChar[charOwner[c]] = c
      /\ archived \/ charOwner[c] \in Players

\* An archived party has no members: nobody is let in after the last one
\* left, unless the archiving, a join, a character or a hand-over was written
\* on an outdated verdict, or the last one got a row after the archiving
\* looked for them.
ArchivedIsEmpty ==
  Fresh({"archive", "join", "create", "transfer"}) /\ Current({"dm", "player"}) =>
    (archived => Members = {})

\* A deleted account is no member of a live party: the deletion leaves the
\* party first, and stops when the user is its only DM.  What can break it is
\* an entry on an outdated verdict, or a row that the user got after the
\* deletion looked for them.
DeletedHasLeft ==
  Fresh({"join", "create", "transfer"}) /\ Current({"dm", "player"}) =>
    archived \/ Members \intersect deleted = {}

\* The party is a roster: as long as every request commits on a verdict that
\* still holds and on what its statements still would find, every write is one
\* step of Roster, however the requests overlap.
R == INSTANCE Roster WITH dm <- owner, members <- Members, open <- ~archived

RosterSteps ==
  [][stale' # {} \/ outrun' # {} \/ R!RosterNext]_<<owner, banker, Members, archived>>
=============================================================================
