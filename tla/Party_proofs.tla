---------------------------- MODULE Party_proofs ----------------------------
(***************************************************************************)
(* Proofs about Party, for every set of users and requests and every bound.*)
(*                                                                         *)
(* The roles need no strengthening beyond the types: OneDm and BankerPlays *)
(* are inductive next to TypeOK.  The characters need three facts about    *)
(* how rows and characters point at each other (Pointers).  What a         *)
(* transaction found is compared with the rows at its commit, so nothing   *)
(* need be known of the steps between its statements.                      *)
(***************************************************************************)
EXTENDS Party, TLAPS

\* A row that was never written points at no character, as long as nobody
\* changed a row under a creation; a row points at its user's own character;
\* characters are numbered as they are created.
Pointers ==
  /\ Current({"player", "char"}) =>
       \A u \in Users : playerRow[u] = "none" => playerChar[u] = NoCharacter
  /\ \A u \in Users : playerChar[u] # NoCharacter => charOwner[playerChar[u]] = u
  /\ \A c \in Characters : c > minted => charOwner[c] = NoUser

-----------------------------------------------------------------------------
(* What one step can be.                                                   *)

\* A step that writes no row others can see: a request is received, judged,
\* refused or rolled back, or a statement of its transaction runs.
Quiet == UNCHANGED <<rows, deleted, marks>>

\* Every step is quiet, a commit, or the anonymisation of an account.
LEMMA StepCases ==
  ASSUME [Next]_vars
  PROVE  \/ Quiet
         \/ \E s \in Slots :
              \/ CommitJoin(s) \/ CommitDeparture(s) \/ CommitArchive(s)
              \/ CommitCreate(s) \/ CommitRemove(s)
              \/ CommitBanker(s) \/ CommitTransfer(s) \/ Anonymise(s)
<1>1. CASE UNCHANGED vars
  BY <1>1 DEF vars, Quiet
<1>2. ASSUME NEW s \in Slots, Receive(s) PROVE Quiet
  BY <1>2 DEF Receive, TakeJoin, TakeLeave, TakeKick, TakeSync, TakeDelete, Take, Quiet
<1>3. ASSUME NEW s \in Slots, Count(s) \/ Load(s) PROVE Quiet
  BY <1>3 DEF Count, Load, Quiet
<1>4. ASSUME NEW s \in Slots, Statement(s) PROVE Quiet
  BY <1>4 DEF Statement, FindCharacter, DropCharacter, EndRows, CountRemaining, FindRow,
              SwapRows, FindBanker, FindRows, RollBack, Find, Fail, Quiet
<1> QED BY <1>1, <1>2, <1>3, <1>4 DEF Next, Commit

-----------------------------------------------------------------------------
(* Types.                                                                  *)

\* A request in a slot, one that is answered and one that proceeds are
\* requests.
LEMMA RequestTypes ==
  ASSUME TypeOK, NEW s \in Slots, request[s] # Idle
  PROVE  /\ request[s] \in Requests
         /\ request[s].user \in Users
         /\ request[s].kind \in Kinds
         /\ request[s].found \in Finds
         /\ request[s].kind \in {"kick", "appoint", "transfer"} => request[s].target \in Users
         /\ request[s].kind = "remove" => request[s].target \in Characters
         /\ Subject(request[s]) \in Users
         /\ request[s].kind \in {"leave", "delete", "kick"} \/ request[s].found.char = NoCharacter
         /\ \A st \in Stages, f \in Finds :
              request[s].kind \in {"leave", "delete", "kick"} \/ f.char = NoCharacter =>
                AtStage(request[s], st, f) \in Requests
<1>1. request[s] \in Requests
  BY DEF TypeOK
<1>2. ASSUME NEW st \in Stages, NEW f \in Finds,
             request[s].kind \in {"leave", "delete", "kick"} \/ f.char = NoCharacter
      PROVE  AtStage(request[s], st, f) \in Requests
  BY <1>1, <1>2 DEF Requests, AtStage
<1> QED BY <1>1, <1>2 DEF Requests, Subject

\* Answering and proceeding keep the slots well typed.
LEMMA SlotTypes ==
  ASSUME TypeOK, NEW s \in Slots, request[s] # Idle
  PROVE  /\ Answer(s) => request' \in [Slots -> Requests \union {Idle}] /\ taken' = taken
         /\ \A st \in Stages, f \in Finds :
              /\ request[s].kind \in {"leave", "delete", "kick"} \/ f.char = NoCharacter
              /\ Proceed(s, st, f)
              => request' \in [Slots -> Requests \union {Idle}] /\ taken' = taken
         /\ \A st \in Stages : Advance(s, st) =>
              request' \in [Slots -> Requests \union {Idle}] /\ taken' = taken
         /\ AfterLeave(s) => request' \in [Slots -> Requests \union {Idle}] /\ taken' = taken
<1>1. Answer(s) => request' \in [Slots -> Requests \union {Idle}] /\ taken' = taken
  BY DEF TypeOK, Answer
<1>2. ASSUME NEW st \in Stages, NEW f \in Finds, Proceed(s, st, f),
             request[s].kind \in {"leave", "delete", "kick"} \/ f.char = NoCharacter
      PROVE  request' \in [Slots -> Requests \union {Idle}] /\ taken' = taken
  BY <1>2, RequestTypes DEF TypeOK, Proceed
<1>3. Nothing \in Finds /\ Nothing.char = NoCharacter
  BY DEF Nothing, Finds, Status
<1>4. ASSUME NEW st \in Stages, Advance(s, st)
      PROVE  request' \in [Slots -> Requests \union {Idle}] /\ taken' = taken
  BY <1>2, <1>3, <1>4 DEF Advance
<1>5. AfterLeave(s) => request' \in [Slots -> Requests \union {Idle}] /\ taken' = taken
  BY <1>1, <1>4 DEF AfterLeave, Stages
<1> QED BY <1>1, <1>2, <1>4, <1>5

\* What a statement can find.
LEMMA FindTypes ==
  ASSUME TypeOK, NEW u \in Users, NEW f \in Finds, NEW row \in Status, NEW other \in Status,
         NEW b \in BOOLEAN
  PROVE  /\ Nothing \in Finds
         /\ [Nothing EXCEPT !.char = CascadedChar(u)] \in Finds
         /\ [Nothing EXCEPT !.player = row] \in Finds
         /\ [Nothing EXCEPT !.dm = row, !.player = other] \in Finds
         /\ [f EXCEPT !.dm = row, !.player = other] \in Finds
         /\ [f EXCEPT !.dm = row, !.player = other, !.bank = b] \in Finds
         /\ [f EXCEPT !.bank = b] \in Finds
<1>1. CascadedChar(u) \in Characters \union {NoCharacter}
  BY DEF CascadedChar, HasCharacter, TypeOK
<1>2. Nothing \in Finds
  BY DEF Nothing, Finds, Status
<1> QED BY <1>1, <1>2 DEF Finds

\* Receiving a request keeps the types.
LEMMA TakeTypes ==
  ASSUME TypeOK, NEW s \in Slots, NEW k \in Kinds, NEW u \in Users, NEW t \in Targets,
         NEW st \in Stages, Take(s, k, u, t, st),
         k \in {"kick", "appoint", "transfer"} => t \in Users,
         k = "remove" => t \in Characters
  PROVE  TypeOK'
<1> DEFINE q == [kind |-> k, user |-> u, target |-> t, asDm |-> ActsAsDm(u), stage |-> st,
                 found |-> Nothing]
<1>1. ActsAsDm(u) \in BOOLEAN /\ Nothing \in Finds /\ Nothing.char = NoCharacter
  BY DEF ActsAsDm, Nothing, Finds, Status
<1>2. q \in Requests
  BY <1>1 DEF Requests
<1> HIDE DEF q
<1>3. request' = [request EXCEPT ![s] = q]
  BY DEF Take, q
<1>4. request' \in [Slots -> Requests \union {Idle}]
  BY <1>2, <1>3 DEF TypeOK
<1>5. taken' \in 0..MaxRequests
  BY BoundAssumption DEF Take, TypeOK
<1> QED BY <1>4, <1>5 DEF Take, TypeOK, rows, marks

\* The rows of someone who departs, and the character that goes, stay typed.
LEMMA DepartTypes ==
  ASSUME TypeOK, NEW u \in Users, NEW found \in Finds, Depart(u, found)
  PROVE  /\ dmRow' \in [Users -> Status] /\ playerRow' \in [Users -> Status]
         /\ playerChar' \in [Users -> Characters \union {NoCharacter}]
         /\ charOwner' \in [Characters -> Users \union {NoUser}]
         /\ banker' \in Users \union {NoUser}
<1>1. dmRow' \in [Users -> Status] /\ playerRow' \in [Users -> Status]
  BY DEF TypeOK, Depart, SoftDelete, Status
<1>2. /\ playerChar' \in [Users -> Characters \union {NoCharacter}]
      /\ charOwner' \in [Characters -> Users \union {NoUser}]
  BY DEF TypeOK, Depart, Cascade
<1> QED BY <1>1, <1>2 DEF TypeOK, Depart

\* A step that writes no row and keeps the slots typed keeps the types.
LEMMA QuietTypes ==
  ASSUME TypeOK, Quiet, request' \in [Slots -> Requests \union {Idle}], taken' = taken
  PROVE  TypeOK'
BY DEF TypeOK, Quiet, rows, marks

\* A statement keeps the types: what it finds are rows.
LEMMA StatementTypes ==
  ASSUME TypeOK, NEW s \in Slots, Statement(s)
  PROVE  TypeOK'
<1> DEFINE q == request[s]
           u == Subject(q)
           Typed == request' \in [Slots -> Requests \union {Idle}] /\ taken' = taken
<1>1. Quiet /\ q # Idle
  BY DEF Statement, FindCharacter, DropCharacter, EndRows, CountRemaining, FindRow,
         SwapRows, FindBanker, FindRows, RollBack, Find, Fail, Quiet, At
<1>2. /\ q.user \in Users /\ q.found \in Finds /\ u \in Users
      /\ q.kind \in {"leave", "delete", "kick"} \/ q.found.char = NoCharacter
  BY <1>1, RequestTypes
<1>3. ASSUME Fail(s) PROVE Typed
  BY <1>1, <1>3, SlotTypes DEF Fail
<1>4. ASSUME NEW st \in Stages, NEW f \in Finds, Find(s, st, f),
             q.kind \in {"leave", "delete", "kick"} \/ f.char = NoCharacter
      PROVE  Typed
  BY <1>1, <1>4, SlotTypes DEF Find
<1>5. \A v \in Users : dmRow[v] \in Status /\ playerRow[v] \in Status
  BY DEF TypeOK
<1>6. q.found.dm \in Status /\ q.found.player \in Status
  BY <1>2 DEF Finds
<1> SUFFICES Typed
  BY <1>1, QuietTypes
<1> HIDE DEF Typed
<1>7. CASE FindCharacter(s)
  <2>1. [Nothing EXCEPT !.char = CascadedChar(u)] \in Finds
    BY <1>2, <1>6, FindTypes
  <2> QED BY <1>4, <1>7, <2>1 DEF FindCharacter, Stages, At
<1>8. CASE DropCharacter(s)
  <2>1. [q.found EXCEPT !.dm = dmRow[u], !.player = playerRow[u]] \in Finds
    BY <1>2, <1>5, FindTypes
  <2> QED BY <1>3, <1>4, <1>8, <2>1 DEF DropCharacter, Stages, At
<1>9. CASE EndRows(s)
  <2> DEFINE Reread(found, now) == IF found = "active" THEN now ELSE found
             d == Reread(q.found.dm, dmRow[u])
             p == Reread(q.found.player, playerRow[u])
             f == [q.found EXCEPT !.dm = d, !.player = p, !.bank = (banker = u)]
  <2>1. d \in Status /\ p \in Status
    BY <1>2, <1>5, <1>6
  <2>2. f = [q.found EXCEPT !.dm = Reread(@, dmRow[u]),
                            !.player = Reread(@, playerRow[u]), !.bank = banker = u]
    BY <1>2 DEF Finds
  <2>3. (Find(s, "commit", f) \/ Find(s, "remain", f)) /\ q.kind \in {"leave", "delete", "kick"}
    BY <1>9, <2>2 DEF EndRows, At
  <2> HIDE DEF d, p
  <2>4. f \in Finds
    BY <1>2, <2>1, FindTypes
  <2> HIDE DEF f
  <2> QED BY <1>4, <2>3, <2>4 DEF Stages
<1>10. CASE CountRemaining(s)
  BY <1>2, <1>3, <1>4, <1>10 DEF CountRemaining, Stages
<1>11. CASE FindRow(s)
  <2>1. [Nothing EXCEPT !.player = playerRow[q.user]] \in Finds
    BY <1>2, <1>5, FindTypes
  <2>2. [Nothing EXCEPT !.player = playerRow[q.user]].char = NoCharacter
    BY DEF Nothing
  <2> QED BY <1>3, <1>4, <1>11, <2>1, <2>2 DEF FindRow, Stages
<1>12. CASE SwapRows(s)
  <2>1. [Nothing EXCEPT !.player = playerRow[q.user]] \in Finds
    BY <1>2, <1>5, FindTypes
  <2>2. [Nothing EXCEPT !.player = playerRow[q.user]].char = NoCharacter
    BY DEF Nothing
  <2> QED BY <1>3, <1>4, <1>12, <2>1, <2>2 DEF SwapRows, Stages
<1>13. CASE FindBanker(s)
  <2>1. [q.found EXCEPT !.bank = (banker = q.target)] \in Finds
    BY <1>2, <1>6, FindTypes
  <2>2. [q.found EXCEPT !.bank = (banker = q.target)].char = q.found.char
    BY <1>2 DEF Finds
  <2> QED BY <1>2, <1>3, <1>4, <1>13, <2>1, <2>2 DEF FindBanker, Stages, At
<1>14. CASE FindRows(s)
  <2>1. [Nothing EXCEPT !.dm = dmRow[q.user], !.player = playerRow[q.user]] \in Finds
    BY <1>2, <1>5, FindTypes
  <2> QED BY <1>4, <1>14, <2>1 DEF FindRows, Stages, At
<1>15. CASE RollBack(s)
  BY <1>3, <1>15 DEF RollBack
<1> QED BY <1>7, <1>8, <1>9, <1>10, <1>11, <1>12, <1>13, <1>14, <1>15 DEF Statement

\* The types of the rows, the slots, and the notes hold in every state.
LEMMA TypeStep ==
  ASSUME TypeOK, [Next]_vars
  PROVE  TypeOK'
<1>1. CASE UNCHANGED vars
  BY <1>1 DEF vars, rows, marks, TypeOK
<1>2. ASSUME NEW s \in Slots, Receive(s) PROVE TypeOK'
  <2>1. PICK u \in Users :
          \/ TakeJoin(s, u) \/ TakeLeave(s, u) \/ TakeDelete(s, u)
          \/ \E t \in Users : TakeKick(s, u, t)
          \/ \E t \in Users : TakeSync(s, u, "appoint", t)
          \/ \E t \in Users : TakeSync(s, u, "transfer", t)
          \/ \E c \in Characters : TakeSync(s, u, "remove", c)
          \/ TakeSync(s, u, "create", NoTarget)
          \/ TakeSync(s, u, "revoke", NoTarget)
    BY <1>2 DEF Receive
  <2> USE DEF Kinds, Stages, Targets
  <2>2. CASE TakeJoin(s, u)
    BY <2>2, TakeTypes DEF TakeJoin
  <2>3. CASE TakeLeave(s, u)
    BY <2>3, TakeTypes DEF TakeLeave
  <2>4. CASE TakeDelete(s, u)
    BY <2>4, TakeTypes DEF TakeDelete
  <2>5. CASE \E t \in Users : TakeKick(s, u, t)
    BY <2>5, TakeTypes DEF TakeKick
  <2>6. CASE \E t \in Users : TakeSync(s, u, "appoint", t)
    BY <2>6, TakeTypes DEF TakeSync
  <2>7. CASE \E t \in Users : TakeSync(s, u, "transfer", t)
    BY <2>7, TakeTypes DEF TakeSync
  <2>8. CASE \E c \in Characters : TakeSync(s, u, "remove", c)
    BY <2>8, TakeTypes DEF TakeSync
  <2>9. CASE TakeSync(s, u, "create", NoTarget) \/ TakeSync(s, u, "revoke", NoTarget)
    BY <2>9, TakeTypes DEF TakeSync
  <2> QED BY <2>1, <2>2, <2>3, <2>4, <2>5, <2>6, <2>7, <2>8, <2>9
<1>3. ASSUME NEW s \in Slots, Count(s) PROVE TypeOK'
  <2>1. request' \in [Slots -> Requests \union {Idle}] /\ taken' = taken
    BY <1>3, SlotTypes DEF Count, Stages
  <2> QED BY <1>3, <2>1, QuietTypes DEF Count, Quiet
<1>4. ASSUME NEW s \in Slots, Load(s) PROVE TypeOK'
  <2>1. /\ request[s] # Idle
        /\ Advance(s, FirstOf(request[s].kind)) \/ AfterLeave(s) \/ Answer(s)
    BY <1>4 DEF Load
  <2>2. FirstOf(request[s].kind) \in Stages
    BY DEF FirstOf, Stages
  <2>3. request' \in [Slots -> Requests \union {Idle}] /\ taken' = taken
    BY <2>1, <2>2, SlotTypes
  <2> QED BY <1>4, <2>3, QuietTypes DEF Load, Quiet
<1>5. ASSUME NEW s \in Slots, Commit(s) \/ Anonymise(s) PROVE TypeOK'
  <2>1. request[s] # Idle
    BY <1>5 DEF Commit, CommitJoin, CommitDeparture, CommitArchive, CommitCreate,
                CommitRemove, CommitBanker, CommitTransfer, Anonymise, At
  <2>2. request' \in [Slots -> Requests \union {Idle}] /\ taken' = taken
    BY <1>5, <2>1, SlotTypes
       DEF Commit, CommitJoin, CommitDeparture, CommitArchive, CommitCreate,
           CommitRemove, CommitBanker, CommitTransfer, Anonymise, Fail
  <2> DEFINE u == request[s].user
  <2>3. /\ u \in Users /\ request[s].kind \in Kinds /\ request[s].found \in Finds
        /\ Subject(request[s]) \in Users
        /\ request[s].kind \in {"kick", "appoint", "transfer"} => request[s].target \in Users
        /\ request[s].kind = "remove" => request[s].target \in Characters
    BY <2>1, RequestTypes
  <2>4. Judge(s) => stale' \subseteq Kinds \union {"archive"}
    BY <2>3 DEF Judge, TypeOK
  <2>5. Fail(s) => TypeOK'
    BY <2>2, QuietTypes DEF Fail, Quiet
  <2>6. ASSUME NEW looked \in SUBSET {"dm", "player", "char", "bank"}, Compare(s, looked)
        PROVE  outrun' \subseteq {"dm", "player", "char", "bank"}
    BY <2>6 DEF Compare, TypeOK
  <2>7. CASE CommitJoin(s)
    BY <2>7, <2>2, <2>3, <2>4 DEF CommitJoin, TypeOK, Status
  <2>8. CASE CommitDeparture(s)
    <3>1. outrun' \subseteq {"dm", "player", "char", "bank"}
      BY <2>6, <2>8 DEF CommitDeparture
    <3> QED BY <2>2, <2>3, <2>4, <2>8, <3>1, DepartTypes DEF CommitDeparture, TypeOK, Depart
  <2>9. CASE CommitArchive(s)
    <3>1. outrun' \subseteq {"dm", "player", "char", "bank"}
      BY <2>6, <2>9 DEF CommitArchive
    <3>2. dmRow' \in [Users -> Status] /\ playerRow' \in [Users -> Status]
      BY <2>9, <2>3 DEF CommitArchive, SoftDelete, TypeOK, Status
    <3> QED BY <2>9, <2>2, <3>1, <3>2 DEF CommitArchive, TypeOK
  <2>10. CASE CommitCreate(s)
    <3>1. CASE Fail(s)
      BY <3>1, <2>5
    <3>2. CASE ~Fail(s)
      <4>1. minted + 1 \in Characters /\ minted + 1 \in 0..MaxCharacters
        BY <2>10, <3>2, BoundAssumption DEF CommitCreate, TypeOK, Characters
      <4>2. minted' = minted + 1 /\ Judge(s)
        BY <2>10, <3>2 DEF CommitCreate
      <4>3. charOwner' \in [Characters -> Users \union {NoUser}]
        BY <2>10, <3>2, <2>3 DEF CommitCreate, TypeOK
      <4>4. playerChar' \in [Users -> Characters \union {NoCharacter}]
        BY <2>10, <3>2, <4>1 DEF CommitCreate, TypeOK
      <4>5. playerRow' \in [Users -> Status]
        BY <2>10, <3>2 DEF CommitCreate, TypeOK, Status
      <4>6. outrun' \subseteq {"dm", "player", "char", "bank"}
        BY <2>6, <2>10, <3>2 DEF CommitCreate
      <4> QED BY <2>10, <3>2, <2>2, <2>4, <4>1, <4>2, <4>3, <4>4, <4>5, <4>6
              DEF CommitCreate, TypeOK
    <3> QED BY <3>1, <3>2
  <2>11. CASE CommitRemove(s)
    BY <2>11, <2>2, <2>4, <2>5 DEF CommitRemove, Cascade, TypeOK
  <2>12. CASE CommitBanker(s)
    BY <2>12, <2>2, <2>3, <2>4, <2>5 DEF CommitBanker, At, TypeOK
  <2>13. CASE CommitTransfer(s)
    <3>1. CASE Fail(s)
      BY <3>1, <2>5
    <3>2. CASE ~Fail(s)
      <4>1. request[s].target \in Users
        BY <2>13, <2>3 DEF CommitTransfer, At
      <4>2. /\ dmRow' \in [Users -> Status] /\ playerRow' \in [Users -> Status]
            /\ playerChar' \in [Users -> Characters \union {NoCharacter}]
            /\ owner' \in Users /\ banker' \in Users \union {NoUser}
        BY <2>13, <3>2, <4>1 DEF CommitTransfer, HandOver, TypeOK, Status
      <4>3. outrun' \subseteq {"dm", "player", "char", "bank"}
        BY <2>6, <2>13, <3>2 DEF CommitTransfer
      <4> QED BY <2>13, <3>2, <2>2, <2>4, <4>2, <4>3 DEF CommitTransfer, HandOver, TypeOK
    <3> QED BY <3>1, <3>2
  <2>14. CASE Anonymise(s)
    BY <2>14, <2>2, <2>3 DEF Anonymise, TypeOK, rows, marks
  <2> QED BY <1>5, <2>7, <2>8, <2>9, <2>10, <2>11, <2>12, <2>13, <2>14 DEF Commit
<1> QED BY <1>1, <1>2, <1>3, <1>4, <1>5, StatementTypes DEF Next

\* The type invariant holds in every reachable state.
THEOREM PartyTypes == Spec => []TypeOK
<1>1. ASSUME Init PROVE TypeOK
  <2>1. dmRow \in [Users -> Status] /\ playerRow \in [Users -> Status]
    BY <1>1 DEF Init, Status
  <2>2. banker \in Users \union {NoUser}
    BY <1>1 DEF Init, Players
  <2>3. request \in [Slots -> Requests \union {Idle}]
    BY <1>1 DEF Init
  <2>4. taken \in 0..MaxRequests
    BY <1>1, BoundAssumption DEF Init
  <2> QED BY <1>1, <2>1, <2>2, <2>3, <2>4 DEF Init, TypeOK
<1> QED BY <1>1, TypeStep, PTL DEF Spec

-----------------------------------------------------------------------------
(* Roles.                                                                  *)

\* A note of an outdated verdict is never taken back.
LEMMA FreshBefore ==
  ASSUME NEW K, stale \subseteq stale', Fresh(K)'
  PROVE  Fresh(K)
BY DEF Fresh

\* Nor is one of what was found otherwise.
LEMMA CurrentBefore ==
  ASSUME NEW F, outrun \subseteq outrun', Current(F)'
  PROVE  Current(F)
BY DEF Current

\* A commit that leaves no note of its kind was on a verdict that holds now.
LEMMA JudgedFresh ==
  ASSUME NEW K, NEW s \in Slots, Judge(s), Fresh(K)'
  PROVE  /\ Fresh(K)
         /\ request[s].kind \in K => StillAccepted(request[s])
BY DEF Fresh, Judge

\* A commit that leaves no note of what it looked for found it as it is now.
LEMMA ComparedCurrent ==
  ASSUME NEW s \in Slots, NEW looked, NEW F, Compare(s, looked), Current(F)'
  PROVE  /\ Current(F)
         /\ \A x \in looked \intersect F : request[s].found[x] = Present(request[s])[x]
BY DEF Current, Compare

\* The same, field by field.
LEMMA FoundIsPresent ==
  ASSUME NEW s \in Slots, NEW looked, NEW F, Compare(s, looked), Current(F)'
  PROVE  LET u == Subject(request[s]) IN
         /\ "dm" \in looked \intersect F => request[s].found.dm = dmRow[u]
         /\ "player" \in looked \intersect F => request[s].found.player = playerRow[u]
         /\ "char" \in looked \intersect F => request[s].found.char = CascadedChar(u)
         /\ "bank" \in looked \intersect F =>
              request[s].found.bank =
                (banker = (IF request[s].kind = "transfer" THEN request[s].target ELSE u))
<1>1. \A x \in looked \intersect F : request[s].found[x] = Present(request[s])[x]
  BY ComparedCurrent
<1> QED BY <1>1 DEF Present

\* What it means of each kind of request that its verdict still holds.
LEMMA Verdicts ==
  ASSUME NEW s \in Slots, StillAccepted(request[s])
  PROVE  LET u == request[s].user
             t == request[s].target IN
         /\ u \notin deleted /\ u \notin Vanishing /\ ~archived
         /\ request[s].kind = "join" => MayJoin(u)
         /\ request[s].kind \in {"leave", "delete"} => MayLeave(u)
         /\ request[s].kind = "kick" => MayKick(u, t, ActsAsDm(u))
         /\ request[s].kind = "create" => MayCreate(u)
         /\ request[s].kind = "remove" => MayRemove(u, t, ActsAsDm(u))
         /\ request[s].kind = "appoint" => MayAppoint(u, t, ActsAsDm(u))
         /\ request[s].kind = "revoke" => MayRevoke(u, ActsAsDm(u))
         /\ request[s].kind = "transfer" => MayTransfer(u, t, ActsAsDm(u))
<1>1. /\ request[s].user \notin deleted /\ request[s].user \notin Vanishing /\ ~archived
      /\ Accepted(request[s], ActsAsDm(request[s].user))
  BY DEF StillAccepted
<1>2. CASE request[s].kind = "join"
  BY <1>1, <1>2 DEF Accepted
<1>3. CASE request[s].kind = "leave"
  BY <1>1, <1>3 DEF Accepted
<1>4. CASE request[s].kind = "delete"
  BY <1>1, <1>4 DEF Accepted
<1>5. CASE request[s].kind = "kick"
  BY <1>1, <1>5 DEF Accepted
<1>6. CASE request[s].kind = "create"
  BY <1>1, <1>6 DEF Accepted
<1>7. CASE request[s].kind = "remove"
  BY <1>1, <1>7 DEF Accepted
<1>8. CASE request[s].kind = "appoint"
  BY <1>1, <1>8 DEF Accepted
<1>9. CASE request[s].kind = "revoke"
  BY <1>1, <1>9 DEF Accepted
<1>10. CASE request[s].kind = "transfer"
  BY <1>1, <1>10 DEF Accepted
<1> QED BY <1>1, <1>2, <1>3, <1>4, <1>5, <1>6, <1>7, <1>8, <1>9, <1>10

\* What a departure leaves of the memberships: all of them but the user's, and
\* none of the user's when both rows were found as they are.
LEMMA DepartMembers ==
  ASSUME TypeOK, NEW u \in Users, NEW found, Depart(u, found)
  PROVE  /\ Dms \ {u} \subseteq Dms' /\ Dms' \subseteq Dms
         /\ Players \ {u} \subseteq Players' /\ Players' \subseteq Players
         /\ Members \ {u} \subseteq Members' /\ Members' \subseteq Members
         /\ found.dm = dmRow[u] /\ found.player = playerRow[u] => Members' = Members \ {u}
         /\ owner' = owner /\ archived' = archived
<1>1. /\ dmRow' = SoftDelete(dmRow, u, found.dm)
      /\ playerRow' = SoftDelete(playerRow, u, found.player)
      /\ owner' = owner /\ archived' = archived
  BY DEF Depart
<1>2. Dms \ {u} \subseteq Dms' /\ Dms' \subseteq Dms
  BY <1>1 DEF TypeOK, SoftDelete, Dms
<1>3. Players \ {u} \subseteq Players' /\ Players' \subseteq Players
  BY <1>1 DEF TypeOK, SoftDelete, Players
<1>4. found.dm = dmRow[u] /\ found.player = playerRow[u] => u \notin Dms' /\ u \notin Players'
  BY <1>1 DEF TypeOK, SoftDelete, Dms, Players
<1> QED BY <1>1, <1>2, <1>3, <1>4 DEF Members

\* Who a departure that commits is of.
LEMMA DepartureOf ==
  ASSUME TypeOK, NEW s \in Slots, CommitDeparture(s)
  PROVE  /\ Subject(request[s]) \in Users
         /\ Depart(Subject(request[s]), request[s].found)
         /\ Judge(s) /\ Compare(s, {"dm", "player", "char", "bank"})
         /\ stale \subseteq stale' /\ outrun \subseteq outrun' /\ deleted' = deleted
         /\ request[s].kind \in {"leave", "delete", "kick"}
         /\ request[s].kind \in {"leave", "delete"} => Subject(request[s]) = request[s].user
         /\ request[s].kind = "kick" => Subject(request[s]) = request[s].target
<1>1. request[s] # Idle /\ request[s].kind \in {"leave", "delete", "kick"}
  BY DEF CommitDeparture, At
<1>2. Subject(request[s]) \in Users
  BY <1>1, RequestTypes
<1> QED BY <1>1, <1>2 DEF CommitDeparture, Subject, Judge, Compare

\* One step keeps the DM the owner and alone.
LEMMA OneDmStep ==
  ASSUME TypeOK, OneDm, [Next]_vars
  PROVE  OneDm'
<1> DEFINE K == {"leave", "kick", "transfer", "delete"}
<1> SUFFICES ASSUME Fresh(K)', ~archived' PROVE (Dms = {owner})'
  BY DEF OneDm
<1>1. CASE Quiet
  BY <1>1 DEF Quiet, rows, marks, OneDm, Fresh, Dms
<1>2. ASSUME NEW s \in Slots,
             CommitJoin(s) \/ CommitCreate(s) \/ CommitRemove(s) \/ CommitBanker(s) \/ Anonymise(s)
      PROVE  (Dms = {owner})'
  <2>1. UNCHANGED <<owner, archived, dmRow>> /\ stale \subseteq stale'
    BY <1>2 DEF CommitJoin, CommitCreate, CommitRemove, CommitBanker, Anonymise, Fail, rows,
                marks, Judge
  <2> QED BY <2>1, FreshBefore DEF OneDm, Dms
<1>3. ASSUME NEW s \in Slots, CommitDeparture(s) PROVE (Dms = {owner})'
  <2> DEFINE u == Subject(request[s])
  <2>1. /\ Depart(u, request[s].found) /\ u \in Users
        /\ request[s].kind \in {"leave", "delete", "kick"}
        /\ request[s].kind \in {"leave", "delete"} => u = request[s].user
        /\ request[s].kind = "kick" => u = request[s].target
    BY <1>3, DepartureOf
  <2>2. Fresh(K) /\ StillAccepted(request[s])
    BY <1>3, <2>1, DepartureOf, JudgedFresh
  <2>3. Dms = {owner}
    BY <2>1, <2>2, DepartMembers DEF OneDm
  <2>4. u # owner
    <3>1. CASE request[s].kind \in {"leave", "delete"}
      BY <2>1, <2>2, <2>3, <3>1, Verdicts DEF MayLeave
    <3>2. CASE request[s].kind = "kick"
      BY <2>1, <2>2, <2>3, <3>2, Verdicts DEF MayKick
    <3> QED BY <2>1, <3>1, <3>2
  <2> HIDE DEF u
  <2> QED BY <2>1, <2>3, <2>4, DepartMembers
<1>4. ASSUME NEW s \in Slots, CommitArchive(s) PROVE (Dms = {owner})'
  BY <1>4 DEF CommitArchive
<1>5. ASSUME NEW s \in Slots, CommitTransfer(s) PROVE (Dms = {owner})'
  <2>1. CASE Fail(s)
    BY <2>1 DEF Fail, rows, marks, OneDm, Fresh, Dms
  <2>2. CASE ~Fail(s)
    <3> DEFINE old == request[s].user
               new == request[s].target
    <3>1. Judge(s) /\ request[s].kind = "transfer" /\ old \in Users /\ new \in Users
      BY <1>5, <2>2, RequestTypes DEF CommitTransfer, At
    <3>2. Fresh(K) /\ old \in Dms /\ new # old /\ ~archived
      BY <3>1, JudgedFresh, Verdicts DEF MayTransfer
    <3>3. Dms = {old}
      BY <3>2 DEF OneDm
    <3>4. dmRow' = [dmRow EXCEPT ![old] = "left", ![new] = "active"] /\ owner' = new
      BY <1>5, <2>2 DEF CommitTransfer, HandOver
    <3> QED BY <3>1, <3>2, <3>3, <3>4 DEF TypeOK, Dms
  <2> QED BY <2>1, <2>2
<1> QED BY <1>1, <1>2, <1>3, <1>4, <1>5, StepCases

\* In every reachable state a live party has one DM, its owner, unless a
\* departure or hand-over was written on an outdated verdict, whatever others
\* commit between the statements of its transaction.
THEOREM PartyHasOneDm == Spec => []OneDm
<1>1. Init => OneDm
  BY DEF Init, OneDm, Dms
<1>2. TypeOK /\ OneDm /\ [Next]_vars => OneDm'
  BY OneDmStep
<1> QED BY <1>1, <1>2, PartyTypes, PTL DEF Spec

\* One step keeps the banker a player and not the owner.
LEMMA BankerPlaysStep ==
  ASSUME TypeOK, BankerPlays, [Next]_vars
  PROVE  BankerPlays'
<1> SUFFICES ASSUME Fresh({"appoint"})', Current({"bank"})', ~archived', banker' # NoUser
             PROVE  (banker \in Players \ {owner})'
  BY DEF BankerPlays
<1>1. CASE Quiet
  BY <1>1 DEF Quiet, rows, marks, BankerPlays, Fresh, Current, Players
<1>2. ASSUME NEW s \in Slots, CommitJoin(s) \/ CommitCreate(s) \/ CommitRemove(s) \/ Anonymise(s)
      PROVE  (banker \in Players \ {owner})'
  <2>1. /\ UNCHANGED <<owner, banker, archived>>
        /\ stale \subseteq stale' /\ outrun \subseteq outrun'
    BY <1>2 DEF CommitJoin, CommitCreate, CommitRemove, Anonymise, Fail, rows, marks, Judge,
                Compare
  <2>2. Players \subseteq Players'
    BY <1>2 DEF CommitJoin, CommitCreate, CommitRemove, Anonymise, Fail, rows, Players, TypeOK
  <2>3. Fresh({"appoint"}) /\ Current({"bank"})
    BY <2>1, FreshBefore, CurrentBefore
  <2> QED BY <2>1, <2>2, <2>3 DEF BankerPlays
<1>3. ASSUME NEW s \in Slots, CommitDeparture(s) PROVE (banker \in Players \ {owner})'
  <2> DEFINE u == Subject(request[s])
  <2>1. /\ u \in Users /\ Depart(u, request[s].found) /\ request[s].kind # "transfer"
        /\ Compare(s, {"dm", "player", "char", "bank"})
        /\ stale \subseteq stale' /\ outrun \subseteq outrun'
    BY <1>3, DepartureOf
  <2>2. Fresh({"appoint"}) /\ Current({"bank"})
    BY <2>1, FreshBefore, CurrentBefore
  <2>3. request[s].found.bank = (banker = u)
    BY <2>1, FoundIsPresent
  <2>4. banker' = banker /\ banker # u
    BY <2>1, <2>3 DEF Depart
  <2> HIDE DEF u
  <2> QED BY <2>1, <2>2, <2>4, DepartMembers DEF BankerPlays
<1>4. ASSUME NEW s \in Slots, CommitArchive(s) PROVE (banker \in Players \ {owner})'
  BY <1>4 DEF CommitArchive
<1>5. ASSUME NEW s \in Slots, CommitBanker(s) PROVE (banker \in Players \ {owner})'
  <2> SUFFICES ASSUME ~Fail(s) PROVE (banker \in Players \ {owner})'
    BY DEF Fail, rows, marks, BankerPlays, Fresh, Current, Players
  <2>1. Judge(s) /\ request[s].kind = "appoint" /\ banker' = request[s].target
    BY <1>5 DEF CommitBanker, At
  <2>2. MayAppoint(request[s].user, request[s].target, ActsAsDm(request[s].user))
    BY <2>1, JudgedFresh, Verdicts
  <2> QED BY <1>5, <2>1, <2>2 DEF MayAppoint, CommitBanker, Players
<1>6. ASSUME NEW s \in Slots, CommitTransfer(s) PROVE (banker \in Players \ {owner})'
  <2>1. CASE Fail(s)
    BY <2>1 DEF Fail, rows, marks, BankerPlays, Fresh, Current, Players
  <2>2. CASE ~Fail(s)
    <3>1. /\ Judge(s) /\ Compare(s, {"player", "bank"}) /\ request[s].kind = "transfer"
          /\ archived' = archived /\ owner' = request[s].target
          /\ banker' = IF request[s].found.bank THEN NoUser ELSE banker
      BY <1>6, <2>2 DEF CommitTransfer, HandOver, At
    <3>2. Fresh({"appoint"}) /\ Current({"bank"})
      BY <3>1, JudgedFresh, ComparedCurrent
    <3>3. request[s].found.bank = (banker = request[s].target)
      BY <3>1, FoundIsPresent
    <3>4. Players \subseteq Players'
      BY <1>6, <2>2 DEF CommitTransfer, HandOver, Players, TypeOK
    <3> QED BY <3>1, <3>2, <3>3, <3>4 DEF BankerPlays
  <2> QED BY <2>1, <2>2
<1> QED BY <1>1, <1>2, <1>3, <1>4, <1>5, <1>6, StepCases

\* In every reachable state the banker of a live party plays in it and is not
\* its owner, unless the appointment was written on an outdated verdict or
\* committed between the statement by which a departure looked for the banker
\* and the commit of the departure.
THEOREM BankerIsAPlayer == Spec => []BankerPlays
<1>1. Init => BankerPlays
  BY DEF Init, BankerPlays
<1>2. TypeOK /\ BankerPlays /\ [Next]_vars => BankerPlays'
  BY BankerPlaysStep
<1> QED BY <1>1, <1>2, PartyTypes, PTL DEF Spec

-----------------------------------------------------------------------------
(* Characters.                                                             *)

\* Rows keep pointing at their users' characters when a character goes.
LEMMA CascadePointers ==
  ASSUME TypeOK, Pointers, NEW c, Cascade(c), minted' = minted, outrun \subseteq outrun',
         \A u \in Users : playerRow'[u] = "none" => playerRow[u] = "none"
  PROVE  /\ Pointers'
         /\ \A d \in Characters : charOwner'[d] # NoUser =>
              /\ d # c /\ charOwner'[d] = charOwner[d] /\ charOwner[d] \in Users
              /\ playerChar[charOwner[d]] = d => playerChar'[charOwner[d]] = d
<1>0. Current({"player", "char"})' => Current({"player", "char"})
  BY CurrentBefore
<1> HIDE DEF Current
<1>1. CASE c = NoCharacter
  <2>1. UNCHANGED <<playerChar, charOwner>>
    BY <1>1 DEF Cascade
  <2>2. Pointers'
    BY <1>0, <2>1 DEF Pointers
  <2> QED BY <1>1, <2>1, <2>2 DEF TypeOK, NoCharacter, Characters
<1>2. CASE c # NoCharacter
  <2>1. /\ playerChar' = [v \in Users |-> IF playerChar[v] = c THEN NoCharacter ELSE playerChar[v]]
        /\ charOwner' = [charOwner EXCEPT ![c] = NoUser]
    BY <1>2 DEF Cascade
  <2>2. Current({"player", "char"})' =>
          \A u \in Users : playerRow'[u] = "none" => playerChar'[u] = NoCharacter
    BY <1>0, <2>1 DEF Pointers
  <2>3. \A u \in Users : playerChar'[u] # NoCharacter => charOwner'[playerChar'[u]] = u
    BY <2>1 DEF Pointers, TypeOK
  <2>4. \A d \in Characters : d > minted' => charOwner'[d] = NoUser
    BY <2>1 DEF Pointers, TypeOK
  <2>5. \A d \in Characters : charOwner'[d] # NoUser =>
              /\ d # c /\ charOwner'[d] = charOwner[d] /\ charOwner[d] \in Users
              /\ playerChar[charOwner[d]] = d => playerChar'[charOwner[d]] = d
    BY <2>1 DEF TypeOK
  <2> QED BY <2>2, <2>3, <2>4, <2>5 DEF Pointers
<1> QED BY <1>1, <1>2

\* What a departure takes along: the character it found, and when the row and
\* the character were found as they are, no other is left behind.
LEMMA DepartCharacters ==
  ASSUME TypeOK, Pointers, NEW s \in Slots, CommitDeparture(s)
  PROVE  Pointers' /\ (CharactersHaveRows => CharactersHaveRows')
<1> DEFINE u == Subject(request[s])
           found == request[s].found
<1>1. /\ u \in Users /\ Depart(u, found) /\ stale \subseteq stale' /\ outrun \subseteq outrun'
      /\ Compare(s, {"dm", "player", "char", "bank"})
  BY DepartureOf
<1>2. Cascade(found.char) /\ minted' = minted
  BY <1>1 DEF Depart
<1>3. \A v \in Users : playerRow'[v] = "none" => playerRow[v] = "none"
  BY <1>1 DEF Depart, SoftDelete, TypeOK
<1>4. Pointers' /\ \A d \in Characters : charOwner'[d] # NoUser =>
              /\ d # found.char /\ charOwner'[d] = charOwner[d] /\ charOwner[d] \in Users
              /\ playerChar[charOwner[d]] = d => playerChar'[charOwner[d]] = d
  BY <1>1, <1>2, <1>3, CascadePointers
<1>5. ASSUME CharactersHaveRows, Fresh({"join", "transfer"})', Current({"player", "char"})',
             NEW d \in Characters, charOwner'[d] # NoUser
      PROVE  playerChar'[charOwner'[d]] = d /\ (archived' \/ charOwner'[d] \in Players')
  <2>1. Fresh({"join", "transfer"}) /\ Current({"player", "char"})
    BY <1>1, <1>5, FreshBefore, CurrentBefore
  <2>2. playerChar[charOwner[d]] = d /\ (archived \/ charOwner[d] \in Players)
    BY <1>4, <1>5, <2>1 DEF CharactersHaveRows
  <2>3. found.char = CascadedChar(u)
    BY <1>1, <1>5, FoundIsPresent
  <2>4. charOwner[d] = u => archived
    BY <1>4, <1>5, <2>2, <2>3 DEF CascadedChar, HasCharacter, NoCharacter, Characters
  <2>5. archived' = archived /\ Players \ {u} \subseteq Players'
    BY <1>1, DepartMembers
  <2> QED BY <1>4, <1>5, <2>2, <2>4, <2>5
<1> QED BY <1>4, <1>5 DEF CharactersHaveRows

\* One step keeps rows and characters pointing at each other.
LEMMA CharactersStep ==
  ASSUME TypeOK, Pointers, CharactersHaveRows, [Next]_vars
  PROVE  Pointers' /\ CharactersHaveRows'
<1> DEFINE K == {"join", "transfer"}
           F == {"player", "char"}
<1> USE DEF NoCharacter
<1>0. ASSUME stale \subseteq stale', outrun \subseteq outrun'
      PROVE  (Fresh(K)' => Fresh(K)) /\ (Current(F)' => Current(F))
  BY <1>0, FreshBefore, CurrentBefore
<1>1. ASSUME UNCHANGED rows, stale \subseteq stale', outrun \subseteq outrun'
      PROVE  Pointers' /\ CharactersHaveRows'
  <2>1. Pointers'
    BY <1>0, <1>1 DEF rows, Pointers
  <2> QED BY <1>0, <1>1, <2>1 DEF rows, CharactersHaveRows, Players
<1>2. CASE Quiet
  BY <1>1, <1>2 DEF Quiet, marks
<1>3. ASSUME NEW s \in Slots, Fail(s) \/ Anonymise(s) PROVE Pointers' /\ CharactersHaveRows'
  BY <1>1, <1>3 DEF Fail, Anonymise, marks
<1>4. ASSUME NEW s \in Slots, CommitJoin(s) PROVE Pointers' /\ CharactersHaveRows'
  <2> DEFINE u == request[s].user
  <2>1. u \in Users /\ Judge(s) /\ request[s].kind = "join"
    BY <1>4, RequestTypes DEF CommitJoin, At
  <2>2. /\ playerRow' = [playerRow EXCEPT ![u] = "active"]
        /\ playerChar' = [playerChar EXCEPT ![u] = NoCharacter]
        /\ UNCHANGED <<charOwner, minted, archived, outrun>>
    BY <1>4 DEF CommitJoin
  <2>3. Current(F)' = Current(F)
    BY <2>2 DEF Current
  <2>4. Pointers'
    BY <2>1, <2>2, <2>3 DEF Pointers, TypeOK
  <2>5. ASSUME Fresh(K)', Current(F)', NEW c \in Characters, charOwner[c] # NoUser
        PROVE  playerChar'[charOwner[c]] = c /\ charOwner[c] \in Players'
    <3>1. Fresh(K) /\ ~archived /\ u \notin Members
      BY <2>1, <2>5, JudgedFresh, Verdicts DEF MayJoin
    <3>2. charOwner[c] \in Players /\ playerChar[charOwner[c]] = c
      BY <2>3, <2>5, <3>1 DEF CharactersHaveRows
    <3> QED BY <2>1, <2>2, <3>1, <3>2 DEF TypeOK, Players, Members
  <2> QED BY <2>2, <2>4, <2>5 DEF CharactersHaveRows
<1>5. ASSUME NEW s \in Slots, CommitDeparture(s) PROVE Pointers' /\ CharactersHaveRows'
  BY <1>5, DepartCharacters
<1>6. ASSUME NEW s \in Slots, CommitArchive(s) PROVE Pointers' /\ CharactersHaveRows'
  <2>1. /\ stale \subseteq stale' /\ outrun \subseteq outrun'
        /\ UNCHANGED <<playerChar, charOwner, minted>> /\ archived'
    BY <1>6 DEF CommitArchive, Compare
  <2>2. \A v \in Users : playerRow'[v] = "none" => playerRow[v] = "none"
    BY <1>6 DEF CommitArchive, SoftDelete, TypeOK
  <2>3. Pointers'
    BY <1>0, <2>1, <2>2 DEF Pointers
  <2> QED BY <1>0, <2>1, <2>3 DEF CharactersHaveRows
<1>7. ASSUME NEW s \in Slots, CommitCreate(s) PROVE Pointers' /\ CharactersHaveRows'
  <2>1. CASE Fail(s)
    BY <1>3, <2>1
  <2>2. CASE ~Fail(s)
    <3> DEFINE u == request[s].user
               n == minted + 1
    <3>1. /\ u \in Users /\ Judge(s) /\ Compare(s, F)
          /\ request[s].kind = "create" /\ Subject(request[s]) = u
          /\ request[s].found.player # "active" => playerRow[u] = "none"
      BY <1>7, <2>2, RequestTypes DEF CommitCreate, At, Subject
    <3>2. n \in Characters /\ n > minted /\ n # NoCharacter
      BY <1>7, <2>2, BoundAssumption DEF CommitCreate, TypeOK, Characters
    <3>3. /\ minted' = n
          /\ charOwner' = [charOwner EXCEPT ![n] = u]
          /\ playerRow' = IF request[s].found.player = "active" THEN playerRow
                          ELSE [playerRow EXCEPT ![u] = "active"]
          /\ playerChar' = [playerChar EXCEPT ![u] = n]
          /\ archived' = archived
      BY <1>7, <2>2 DEF CommitCreate
    <3>4. charOwner[n] = NoUser
      BY <3>2 DEF Pointers
    <3>5. ASSUME Current(F)'
          PROVE  /\ Current(F) /\ u \in Players'
                 /\ \A v \in Users : playerRow'[v] = "none" => playerRow[v] = "none" /\ v # u
      <4>1. Current(F) /\ request[s].found.player = playerRow[u]
        BY <3>1, <3>5, ComparedCurrent, FoundIsPresent
      <4> QED BY <3>1, <3>3, <4>1 DEF TypeOK, Players
    <3>6. Current(F)' => \A v \in Users : playerRow'[v] = "none" => playerChar'[v] = NoCharacter
      BY <3>1, <3>3, <3>5 DEF Pointers, TypeOK
    <3>7. \A v \in Users : playerChar'[v] # NoCharacter => charOwner'[playerChar'[v]] = v
      BY <3>1, <3>2, <3>3, <3>4, UsersAssumption DEF Pointers, TypeOK
    <3>8. \A c \in Characters : c > minted' => charOwner'[c] = NoUser
      BY <3>2, <3>3 DEF Pointers, TypeOK, Characters
    <3>9. ASSUME Fresh(K)', Current(F)', NEW c \in Characters, charOwner'[c] # NoUser
          PROVE  playerChar'[charOwner'[c]] = c /\ (archived' \/ charOwner'[c] \in Players')
      <4>1. CASE c = n
        BY <3>1, <3>2, <3>3, <3>5, <3>9, <4>1 DEF TypeOK
      <4>2. CASE c # n
        <5>1. charOwner'[c] = charOwner[c] /\ charOwner[c] \in Users
          BY <3>9, <4>2, <3>3 DEF TypeOK
        <5>2. playerChar[charOwner[c]] = c /\ (archived \/ charOwner[c] \in Players)
          BY <3>1, <3>5, <3>9, <5>1, JudgedFresh DEF CharactersHaveRows
        <5>3. request[s].found.char = CascadedChar(u) /\ request[s].found.player = playerRow[u]
          BY <3>1, <3>9, FoundIsPresent
        <5>4. Players \subseteq Players'
          BY <3>1, <3>3 DEF TypeOK, Players
        <5>5. charOwner[c] # u
          <6>1. request[s].found.char = NoCharacter
            BY <1>7, <3>1, RequestTypes DEF CommitCreate, At
          <6>2. playerChar[u] = NoCharacter
            BY <3>1, <3>5, <3>9, <5>3, <6>1
               DEF CascadedChar, HasCharacter, Players, Pointers, TypeOK
          <6> QED BY <5>2, <6>2 DEF Characters
        <5> QED BY <3>1, <3>3, <5>1, <5>2, <5>4, <5>5 DEF TypeOK
      <4> QED BY <4>1, <4>2
    <3> QED BY <3>6, <3>7, <3>8, <3>9 DEF Pointers, CharactersHaveRows
  <2> QED BY <2>1, <2>2
<1>8. ASSUME NEW s \in Slots, CommitRemove(s) PROVE Pointers' /\ CharactersHaveRows'
  <2>1. CASE Fail(s)
    BY <1>3, <2>1
  <2>2. CASE ~Fail(s)
    <3> DEFINE c == request[s].target
    <3>1. /\ Cascade(c) /\ Judge(s)
          /\ UNCHANGED <<archived, playerRow, minted, outrun>>
      BY <1>8, <2>2 DEF CommitRemove
    <3> HIDE DEF c
    <3>2. stale \subseteq stale' /\ outrun \subseteq outrun' /\ Players' = Players
      BY <3>1 DEF Judge, Players
    <3>3. Pointers' /\ \A d \in Characters : charOwner'[d] # NoUser =>
              /\ d # c /\ charOwner'[d] = charOwner[d] /\ charOwner[d] \in Users
              /\ playerChar[charOwner[d]] = d => playerChar'[charOwner[d]] = d
      BY <3>1, <3>2, CascadePointers
    <3> QED BY <1>0, <3>1, <3>2, <3>3 DEF CharactersHaveRows
  <2> QED BY <2>1, <2>2
<1>9. ASSUME NEW s \in Slots, CommitBanker(s) PROVE Pointers' /\ CharactersHaveRows'
  <2>1. /\ UNCHANGED <<archived, playerRow, playerChar, charOwner, minted>>
        /\ stale \subseteq stale' /\ outrun \subseteq outrun'
    BY <1>9 DEF CommitBanker, Judge, Fail, rows, marks
  <2>2. Pointers'
    BY <1>0, <2>1 DEF Pointers
  <2> QED BY <1>0, <2>1, <2>2 DEF CharactersHaveRows, Players
<1>10. ASSUME NEW s \in Slots, CommitTransfer(s) PROVE Pointers' /\ CharactersHaveRows'
  <2>1. CASE Fail(s)
    BY <1>3, <2>1
  <2>2. CASE ~Fail(s)
    <3> DEFINE old == request[s].user
               found == request[s].found
    <3>1. /\ Judge(s) /\ Compare(s, {"player", "bank"}) /\ request[s].kind = "transfer"
          /\ old \in Users /\ Subject(request[s]) = old
          /\ stale \subseteq stale' /\ outrun \subseteq outrun'
      BY <1>10, <2>2, RequestTypes DEF CommitTransfer, At, Subject, Judge, Compare
    <3>2. /\ playerRow' = IF found.player = "active" THEN playerRow
                          ELSE [playerRow EXCEPT ![old] = "active"]
          /\ playerChar' = IF found.player = "active" THEN playerChar
                            ELSE [playerChar EXCEPT ![old] = NoCharacter]
          /\ UNCHANGED <<archived, charOwner, minted>>
      BY <1>10, <2>2 DEF CommitTransfer, HandOver
    <3>3. Pointers'
      BY <1>0, <3>1, <3>2 DEF Pointers, TypeOK
    <3>4. ASSUME Fresh(K)', Current(F)', NEW c \in Characters, charOwner[c] # NoUser
          PROVE  playerChar'[charOwner[c]] = c /\ charOwner[c] \in Players'
      <4>1. Fresh(K) /\ Current(F) /\ ~archived /\ found.player = playerRow[old]
        BY <3>1, <3>4, JudgedFresh, ComparedCurrent, FoundIsPresent, Verdicts
      <4>2. charOwner[c] \in Players /\ playerChar[charOwner[c]] = c
        BY <3>4, <4>1 DEF CharactersHaveRows
      <4> QED BY <3>1, <3>2, <4>1, <4>2 DEF TypeOK, Players
    <3> QED BY <3>2, <3>3, <3>4 DEF CharactersHaveRows
  <2> QED BY <2>1, <2>2
<1> QED BY <1>2, <1>3, <1>4, <1>5, <1>6, <1>7, <1>8, <1>9, <1>10, StepCases

\* In every reachable state a character of a live party has an owner who plays
\* and whose row points at it, unless someone joined or handed over on an
\* outdated verdict, or somebody changed the row or the character of a request
\* between the statement that found it and the commit.
THEOREM PartyCharactersHaveRows == Spec => []CharactersHaveRows
<1>1. Init => Pointers /\ CharactersHaveRows
  <2> SUFFICES ASSUME Init PROVE Pointers /\ CharactersHaveRows
    OBVIOUS
  <2>1. Pointers
    BY DEF Init, Pointers, Characters, NoCharacter
  <2>2. CharactersHaveRows
    BY DEF Init, CharactersHaveRows, Players, Characters, NoCharacter
  <2> QED BY <2>1, <2>2
<1>2. TypeOK /\ Pointers /\ CharactersHaveRows /\ [Next]_vars => Pointers' /\ CharactersHaveRows'
  BY CharactersStep
<1> QED BY <1>1, <1>2, PartyTypes, PTL DEF Spec

-----------------------------------------------------------------------------
(* Members.                                                                *)

\* What each commit does to the memberships, to the roles and to the flags:
\* what it may do at most, and what it does when its statements found the rows
\* as they are at the commit.
LEMMA CommitMembers ==
  ASSUME TypeOK, NEW s \in Slots, Commit(s) \/ Anonymise(s)
  PROVE  LET u == request[s].user
             t == request[s].target
             w == Subject(request[s]) IN
         /\ stale \subseteq stale' /\ outrun \subseteq outrun'
         /\ \/ UNCHANGED <<owner, banker, Members, archived, deleted>>
            \/ /\ request[s].kind \in {"join", "create"} /\ u \in Users /\ Judge(s)
               /\ Members' \in {Members, Members \union {u}}
               /\ UNCHANGED <<owner, banker, archived, deleted>>
            \/ /\ request[s].kind \in {"leave", "delete", "kick"} /\ w \in Users /\ Judge(s)
               /\ request[s].kind \in {"leave", "delete"} => w = u
               /\ request[s].kind = "kick" => w = t
               /\ Members' \subseteq Members
               /\ Current({"dm", "player"})' => Members' = Members \ {w}
               /\ Current({"bank"})' => banker' = IF banker = w THEN NoUser ELSE banker
               /\ UNCHANGED <<owner, archived, deleted>>
            \/ /\ request[s].kind \in {"appoint", "revoke"} /\ u \in Users /\ Judge(s)
               /\ request[s].kind = "appoint" => t \in Users
               /\ banker' = IF request[s].kind = "appoint" THEN t ELSE NoUser
               /\ UNCHANGED <<owner, Members, archived, deleted>>
            \/ /\ request[s].kind = "transfer" /\ u \in Users /\ t \in Users /\ Judge(s)
               /\ Members' \subseteq Members \union {u, t}
               /\ Current({"dm", "player"})' => Members' = Members \union {u, t}
               /\ owner' = t
               /\ Current({"bank"})' => banker' = IF banker = t THEN NoUser ELSE banker
               /\ UNCHANGED <<archived, deleted>>
            \/ /\ u \in Users
               /\ "archive" \notin stale' => Members = {u} /\ ~archived
               /\ archived' /\ Members' \subseteq Members
               /\ Current({"dm", "player"})' => Members' = Members \ {u}
               /\ UNCHANGED <<owner, banker, deleted>>
            \/ /\ u \in Users
               /\ u \in Vanishing
               /\ deleted' = deleted \union {u}
               /\ UNCHANGED <<owner, banker, Members, archived>>
<1> DEFINE u == request[s].user
           t == request[s].target
           w == Subject(request[s])
           found == request[s].found
<1>1. request[s] # Idle
  BY DEF Commit, CommitJoin, CommitDeparture, CommitArchive, CommitCreate,
         CommitRemove, CommitBanker, CommitTransfer, Anonymise, At
<1>2. /\ u \in Users
      /\ request[s].kind \in {"kick", "appoint", "transfer"} => t \in Users
  BY <1>1, RequestTypes
<1>3. stale \subseteq stale' /\ outrun \subseteq outrun'
  BY DEF Commit, CommitJoin, CommitDeparture, CommitArchive, CommitCreate,
         CommitRemove, CommitBanker, CommitTransfer, Anonymise, Fail, Judge, Compare, marks
<1>4. CASE Fail(s)
  BY <1>3, <1>4 DEF Fail, rows, Members, Players, Dms
<1>5. CASE CommitJoin(s)
  <2>1. Members' = Members \union {u}
    BY <1>2, <1>5 DEF CommitJoin, TypeOK, Members, Players, Dms
  <2> QED BY <1>2, <1>3, <1>5, <2>1 DEF CommitJoin, At
<1>6. CASE CommitDeparture(s)
  <2>1. /\ w \in Users /\ Depart(w, found) /\ Judge(s) /\ deleted' = deleted
        /\ Compare(s, {"dm", "player", "char", "bank"})
        /\ request[s].kind \in {"leave", "delete", "kick"}
        /\ request[s].kind \in {"leave", "delete"} => w = u
        /\ request[s].kind = "kick" => w = t
    BY <1>6, DepartureOf
  <2>2. /\ Members' \subseteq Members
        /\ found.dm = dmRow[w] /\ found.player = playerRow[w] => Members' = Members \ {w}
    BY <2>1, DepartMembers
  <2>3. Current({"dm", "player"})' => found.dm = dmRow[w] /\ found.player = playerRow[w]
    BY <2>1, FoundIsPresent
  <2>4. Current({"bank"})' => found.bank = (banker = w)
    BY <2>1, FoundIsPresent
  <2>5. banker' = (IF found.bank THEN NoUser ELSE banker) /\ UNCHANGED <<owner, archived>>
    BY <2>1 DEF Depart
  <2> HIDE DEF w, found
  <2> QED BY <1>3, <2>1, <2>2, <2>3, <2>4, <2>5 DEF w
<1>7. CASE CommitCreate(s) /\ ~Fail(s)
  <2>1. Members' \in {Members, Members \union {u}}
    BY <1>2, <1>7 DEF CommitCreate, TypeOK, Members, Players, Dms
  <2> QED BY <1>2, <1>3, <1>7, <2>1 DEF CommitCreate, At
<1>8. CASE CommitRemove(s) /\ ~Fail(s)
  <2>1. Members' = Members
    BY <1>8 DEF CommitRemove, Members, Players, Dms
  <2> QED BY <1>3, <1>8, <2>1 DEF CommitRemove
<1>9. CASE CommitBanker(s) /\ ~Fail(s)
  <2>1. Members' = Members
    BY <1>9 DEF CommitBanker, Members, Players, Dms
  <2> QED BY <1>2, <1>3, <1>9, <2>1 DEF CommitBanker, At
<1>10. CASE CommitTransfer(s) /\ ~Fail(s)
  <2>1. /\ request[s].kind = "transfer" /\ t \in Users /\ w = u
        /\ HandOver(u, t, found) /\ Judge(s) /\ Compare(s, {"player", "bank"})
        /\ banker' = IF found.bank THEN NoUser ELSE banker
    BY <1>2, <1>10 DEF CommitTransfer, At, Subject
  <2>2. /\ dmRow' = [dmRow EXCEPT ![u] = "left", ![t] = "active"]
        /\ playerRow' = IF found.player = "active" THEN playerRow
                        ELSE [playerRow EXCEPT ![u] = "active"]
        /\ owner' = t /\ UNCHANGED <<archived, deleted>>
    BY <2>1 DEF HandOver
  <2>3. Members' \subseteq Members \union {u, t}
    BY <1>2, <2>1, <2>2 DEF TypeOK, Members, Players, Dms
  <2>4. ASSUME Current({"dm", "player"})' PROVE Members' = Members \union {u, t}
    <3>1. found.player = playerRow[u]
      BY <2>1, <2>4, FoundIsPresent
    <3> QED BY <1>2, <2>1, <2>2, <3>1 DEF TypeOK, Members, Players, Dms
  <2>5. Current({"bank"})' => found.bank = (banker = t)
    BY <2>1, FoundIsPresent
  <2> HIDE DEF found
  <2> QED BY <1>2, <1>3, <2>1, <2>2, <2>3, <2>4, <2>5
<1>11. CASE CommitArchive(s)
  <2>1. /\ dmRow' = SoftDelete(dmRow, u, found.dm)
        /\ playerRow' = SoftDelete(playerRow, u, found.player)
        /\ archived' /\ Compare(s, {"dm", "player"}) /\ w = u
        /\ UNCHANGED <<owner, banker, deleted>>
    BY <1>11 DEF CommitArchive, At, Subject
  <2>2. Members' \subseteq Members
    BY <1>2, <2>1 DEF SoftDelete, TypeOK, Members, Players, Dms
  <2>3. ASSUME Current({"dm", "player"})' PROVE Members' = Members \ {u}
    <3>1. found.dm = dmRow[u] /\ found.player = playerRow[u]
      BY <2>1, <2>3, FoundIsPresent
    <3> QED BY <1>2, <2>1, <3>1 DEF SoftDelete, TypeOK, Members, Players, Dms
  <2>4. "archive" \notin stale' => Members = {u} /\ ~archived
    BY <1>11 DEF CommitArchive
  <2> QED BY <1>2, <1>3, <2>1, <2>2, <2>3, <2>4
<1>12. CASE Anonymise(s)
  <2>1. Members' = Members
    BY <1>12 DEF Anonymise, rows, Members, Players, Dms
  <2>2. u \in Vanishing
    BY <1>2, <1>12 DEF Anonymise, Vanishing
  <2> QED BY <1>2, <1>3, <1>12, <2>1, <2>2 DEF Anonymise, rows
<1> QED BY <1>4, <1>5, <1>6, <1>7, <1>8, <1>9, <1>10, <1>11, <1>12 DEF Commit

\* A step is a commit, or it leaves memberships, roles and flags alone.
LEMMA CommitOrQuiet ==
  ASSUME [Next]_vars
  PROVE  \/ UNCHANGED <<owner, banker, Members, archived, deleted, stale, outrun>>
         \/ \E s \in Slots : Commit(s) \/ Anonymise(s)
<1>1. CASE Quiet
  BY <1>1 DEF Quiet, rows, marks, Members, Players, Dms
<1> QED BY <1>1, StepCases DEF Commit

\* One step keeps an archived party empty.
LEMMA ArchivedIsEmptyStep ==
  ASSUME TypeOK, ArchivedIsEmpty, [Next]_vars
  PROVE  ArchivedIsEmpty'
<1> DEFINE K == {"archive", "join", "create", "transfer"}
           F == {"dm", "player"}
<1> SUFFICES ASSUME Fresh(K)', Current(F)', archived' PROVE (Members = {})'
  BY DEF ArchivedIsEmpty
<1>1. CASE UNCHANGED <<owner, banker, Members, archived, deleted, stale, outrun>>
  BY <1>1 DEF ArchivedIsEmpty, Fresh, Current
<1>2. ASSUME NEW s \in Slots, Commit(s) \/ Anonymise(s) PROVE (Members = {})'
  <2>1. stale \subseteq stale' /\ outrun \subseteq outrun'
    BY <1>2, CommitMembers
  <2>2. Fresh(K) /\ Current(F) /\ "archive" \notin stale'
    BY <2>1, FreshBefore, CurrentBefore DEF Fresh
  <2>3. Judge(s) /\ request[s].kind \in K => ~archived
    BY JudgedFresh, Verdicts
  <2>4. archived => Members = {}
    BY <2>2 DEF ArchivedIsEmpty
  <2> QED BY <1>2, <2>2, <2>3, <2>4, CommitMembers
<1> QED BY <1>1, <1>2, CommitOrQuiet

\* In every reachable state an archived party has no members, unless someone
\* archived it or got in on an outdated verdict, or a row changed between the
\* statement that found it and the commit.
THEOREM ArchivedPartyIsEmpty == Spec => []ArchivedIsEmpty
<1>1. Init => ArchivedIsEmpty
  BY DEF Init, ArchivedIsEmpty
<1>2. TypeOK /\ ArchivedIsEmpty /\ [Next]_vars => ArchivedIsEmpty'
  BY ArchivedIsEmptyStep
<1> QED BY <1>1, <1>2, PartyTypes, PTL DEF Spec

\* A request that replaces another in its slot is the only one that can begin
\* to anonymise.
LEMMA VanishingBySlot ==
  ASSUME TypeOK, NEW s \in Slots, NEW x, request' = [request EXCEPT ![s] = x],
         NEW w \in Vanishing'
  PROVE  w \in Vanishing \/ (x # Idle /\ x.stage = "anonymise" /\ x.user = w)
<1>1. PICK r \in Slots : request'[r] # Idle /\ request'[r].stage = "anonymise" /\ request'[r].user = w
  BY DEF Vanishing
<1>2. CASE r = s
  BY <1>1, <1>2 DEF TypeOK
<1>3. CASE r # s
  <2>1. request'[r] = request[r]
    BY <1>3 DEF TypeOK
  <2> QED BY <1>1, <2>1 DEF Vanishing
<1> QED BY <1>2, <1>3

\* Answering a request, or going on to another stage, lets nobody begin to
\* anonymise; the end of a departure lets its user.
LEMMA VanishingAnswers ==
  ASSUME TypeOK, NEW s \in Slots, NEW w \in Vanishing'
  PROVE  /\ Answer(s) => w \in Vanishing
         /\ \A st \in Stages \ {"anonymise"} : \A f : Proceed(s, st, f) => w \in Vanishing
         /\ \A st \in Stages \ {"anonymise"} : Advance(s, st) => w \in Vanishing
         /\ AfterLeave(s) =>
              w \in Vanishing \/ (request[s].kind = "delete" /\ w = request[s].user)
<1>1. Answer(s) => w \in Vanishing
  BY VanishingBySlot DEF Answer
<1>2. ASSUME NEW st \in Stages, NEW f, Proceed(s, st, f)
      PROVE  w \in Vanishing \/ (st = "anonymise" /\ w = request[s].user)
  <2> DEFINE x == AtStage(request[s], st, f)
  <2>1. x.stage = st /\ x.user = request[s].user
    BY DEF AtStage
  <2>2. request' = [request EXCEPT ![s] = x]
    BY <1>2 DEF Proceed
  <2> HIDE DEF x
  <2> QED BY <2>1, <2>2, VanishingBySlot
<1> QED BY <1>1, <1>2 DEF AfterLeave, Advance, Stages

\* Whoever begins to anonymise is no member, or the party is archived, as long
\* as every departure found the rows as they are at its commit.
LEMMA VanishingHasLeft ==
  ASSUME TypeOK, [Next]_vars, NEW w \in Vanishing', Current({"dm", "player"})'
  PROVE  w \in Vanishing \/ w \notin Members' \/ archived'
<1>1. CASE UNCHANGED vars
  BY <1>1 DEF vars, Vanishing
<1>2. ASSUME NEW s \in Slots, Receive(s) PROVE w \in Vanishing \/ w \notin Members' \/ archived'
  <2>1. Members' = Members /\ archived' = archived
    BY <1>2 DEF Receive, TakeJoin, TakeLeave, TakeKick, TakeSync, TakeDelete, Take, rows,
                Members, Players, Dms
  <2>2. ASSUME NEW k, NEW u, NEW t, NEW st, Take(s, k, u, t, st)
        PROVE  w \in Vanishing \/ (st = "anonymise" /\ w = u)
    <3> DEFINE x == [kind |-> k, user |-> u, target |-> t, asDm |-> ActsAsDm(u), stage |-> st,
                     found |-> Nothing]
    <3>1. request' = [request EXCEPT ![s] = x]
      BY <2>2 DEF Take
    <3>2. x.stage = st /\ x.user = u
      OBVIOUS
    <3> HIDE DEF x
    <3> QED BY <3>1, <3>2, VanishingBySlot
  <2>3. ASSUME NEW u \in Users, TakeDelete(s, u) PROVE w \in Vanishing \/ w \notin Members \/ archived
    BY <2>2, <2>3 DEF TakeDelete
  <2>4. ASSUME NEW u \in Users,
               \/ TakeJoin(s, u) \/ TakeLeave(s, u)
               \/ \E t \in Users : TakeKick(s, u, t)
               \/ \E t \in Users : TakeSync(s, u, "appoint", t)
               \/ \E t \in Users : TakeSync(s, u, "transfer", t)
               \/ \E c \in Characters : TakeSync(s, u, "remove", c)
               \/ TakeSync(s, u, "create", NoTarget)
               \/ TakeSync(s, u, "revoke", NoTarget)
        PROVE  w \in Vanishing
    BY <2>2, <2>4 DEF TakeJoin, TakeLeave, TakeKick, TakeSync
  <2> QED BY <1>2, <2>1, <2>3, <2>4 DEF Receive
<1>3. ASSUME NEW s \in Slots, Count(s) PROVE w \in Vanishing
  BY <1>3, VanishingAnswers DEF Count, Stages
<1>4. ASSUME NEW s \in Slots, Load(s) PROVE w \in Vanishing \/ w \notin Members'
  <2>1. Members' = Members
    BY <1>4 DEF Load, rows, Members, Players, Dms
  <2>2. CASE Advance(s, FirstOf(request[s].kind)) \/ Answer(s)
    <3>1. FirstOf(request[s].kind) \in Stages \ {"anonymise"}
      BY DEF FirstOf, Stages
    <3> QED BY <2>2, <3>1, VanishingAnswers
  <2>3. CASE request[s].user \notin Members /\ AfterLeave(s)
    BY <2>1, <2>3, VanishingAnswers
  <2> QED BY <1>4, <2>2, <2>3 DEF Load
<1>5. ASSUME NEW s \in Slots, Statement(s) PROVE w \in Vanishing
  <2>1. ASSUME Fail(s) PROVE w \in Vanishing
    BY <2>1, VanishingAnswers DEF Fail
  <2>2. ASSUME NEW st \in Stages \ {"anonymise"}, NEW f, Find(s, st, f) PROVE w \in Vanishing
    BY <2>2, VanishingAnswers DEF Find
  <2>3. {"drop", "end", "remain", "commit", "bank", "archive"} \subseteq Stages \ {"anonymise"}
    BY DEF Stages
  <2>4. CASE FindCharacter(s) \/ DropCharacter(s)
    BY <2>1, <2>2, <2>3, <2>4 DEF FindCharacter, DropCharacter
  <2>5. CASE EndRows(s) \/ CountRemaining(s)
    BY <2>1, <2>2, <2>3, <2>5 DEF EndRows, CountRemaining
  <2>6. CASE FindRow(s) \/ SwapRows(s)
    BY <2>1, <2>2, <2>3, <2>6 DEF FindRow, SwapRows
  <2>7. CASE FindBanker(s) \/ FindRows(s) \/ RollBack(s)
    BY <2>1, <2>2, <2>3, <2>7 DEF FindBanker, FindRows, RollBack
  <2> QED BY <1>5, <2>4, <2>5, <2>6, <2>7 DEF Statement
<1>6. ASSUME NEW s \in Slots, CommitDeparture(s) PROVE w \in Vanishing \/ w \notin Members'
  <2> DEFINE u == Subject(request[s])
             found == request[s].found
  <2>1. /\ u \in Users /\ Depart(u, found) /\ Compare(s, {"dm", "player", "char", "bank"})
        /\ request[s].kind \in {"leave", "delete"} => u = request[s].user
    BY <1>6, DepartureOf
  <2>2. found.dm = dmRow[u] /\ found.player = playerRow[u]
    BY <2>1, FoundIsPresent
  <2>3. u \notin Members'
    BY <2>1, <2>2, DepartMembers
  <2>4. AfterLeave(s)
    BY <1>6 DEF CommitDeparture
  <2>5. w \in Vanishing \/ w = u
    BY <2>1, <2>4, VanishingAnswers
  <2> QED BY <2>3, <2>5
<1>7. ASSUME NEW s \in Slots, CommitArchive(s) PROVE archived'
  BY <1>7 DEF CommitArchive
<1>8. ASSUME NEW s \in Slots,
             \/ CommitJoin(s) \/ CommitCreate(s) \/ CommitRemove(s)
             \/ CommitBanker(s) \/ CommitTransfer(s) \/ Anonymise(s)
      PROVE  w \in Vanishing
  BY <1>8, VanishingAnswers DEF CommitJoin, CommitCreate, CommitRemove,
     CommitBanker, CommitTransfer, Anonymise, Fail
<1> QED BY <1>1, <1>2, <1>3, <1>4, <1>5, <1>6, <1>7, <1>8 DEF Next, Commit

\* DeletedHasLeft and the same of the accounts that are about to be anonymised:
\* between the end of the membership and the anonymisation others may run.
NobodyGoneStays ==
  Fresh({"join", "create", "transfer"}) /\ Current({"dm", "player"}) =>
    archived \/ Members \intersect (deleted \union Vanishing) = {}

\* One step keeps deleted accounts out of a live party.
LEMMA NobodyGoneStep ==
  ASSUME TypeOK, NobodyGoneStays, [Next]_vars
  PROVE  NobodyGoneStays'
<1> DEFINE K == {"join", "create", "transfer"}
           F == {"dm", "player"}
           gone == deleted \union Vanishing
<1> SUFFICES ASSUME Fresh(K)', Current(F)', ~archived', NEW w, w \in Members', w \in gone'
             PROVE FALSE
  BY DEF NobodyGoneStays
<1>1. CASE UNCHANGED <<owner, banker, Members, archived, deleted, stale, outrun>>
  <2>1. w \in gone
    BY <1>1, VanishingHasLeft
  <2> QED BY <1>1, <2>1 DEF NobodyGoneStays, Fresh, Current
<1>2. ASSUME NEW s \in Slots, Commit(s) \/ Anonymise(s) PROVE FALSE
  <2>1. stale \subseteq stale' /\ outrun \subseteq outrun'
    BY <1>2, CommitMembers
  <2>2. Fresh(K) /\ Current(F)
    BY <2>1, FreshBefore, CurrentBefore
  <2>3. Judge(s) /\ request[s].kind \in K => request[s].user \notin gone
    BY JudgedFresh, Verdicts
  <2>4. Judge(s) /\ request[s].kind = "transfer" =>
          request[s].target \in Members /\ request[s].user \in Members
    BY JudgedFresh, Verdicts DEF MayTransfer, Members
  <2>5. w \in gone
    BY <1>2, CommitMembers, VanishingHasLeft
  <2>6. archived \/ w \notin Members
    BY <2>2, <2>5 DEF NobodyGoneStays
  <2> HIDE DEF gone
  <2> QED BY <1>2, <2>1, <2>3, <2>4, <2>5, <2>6, CommitMembers
<1> QED BY <1>1, <1>2, CommitOrQuiet

\* In every reachable state a deleted account is no member of a live party,
\* unless someone got in on an outdated verdict, or a row changed between the
\* statement that found it and the commit.
THEOREM DeletedAccountHasLeft == Spec => []DeletedHasLeft
<1>1. Init => NobodyGoneStays
  BY DEF Init, NobodyGoneStays, Vanishing
<1>2. TypeOK /\ NobodyGoneStays /\ [Next]_vars => NobodyGoneStays'
  BY NobodyGoneStep
<1>3. NobodyGoneStays => DeletedHasLeft
  BY DEF NobodyGoneStays, DeletedHasLeft
<1> QED BY <1>1, <1>2, <1>3, PartyTypes, PTL DEF Spec

-----------------------------------------------------------------------------
(* The party implements the roster.                                        *)

\* A step that leaves no note is a step of the roster.
LEMMA RosterStep ==
  ASSUME TypeOK, OneDm, [Next]_vars, stale' = {}, outrun' = {}
  PROVE  R!RosterNext \/ UNCHANGED <<owner, banker, Members, archived>>
<1>1. CASE UNCHANGED <<owner, banker, Members, archived, deleted, stale, outrun>>
  BY <1>1
<1>2. ASSUME NEW s \in Slots, Commit(s) \/ Anonymise(s)
      PROVE  R!RosterNext \/ UNCHANGED <<owner, banker, Members, archived>>
  <2> DEFINE u == request[s].user
             t == request[s].target
             w == Subject(request[s])
  <2>0. Current({"dm", "player"})' /\ Current({"bank"})'
    BY DEF Current
  <2>1. stale = {} /\ (archived \/ Dms = {owner})
    BY <1>2, CommitMembers DEF OneDm, Fresh
  <2>2. Judge(s) => StillAccepted(request[s])
    BY DEF Judge
  <2>3. Dms \subseteq Members /\ Players \subseteq Members
    BY DEF Members
  <2>4. CASE /\ request[s].kind \in {"join", "create"} /\ u \in Users /\ Judge(s)
             /\ Members' \in {Members, Members \union {u}}
             /\ UNCHANGED <<owner, banker, archived, deleted>>
    <3>1. ~archived
      BY <2>2, <2>4, Verdicts
    <3>2. CASE u \notin Members /\ Members' = Members \union {u}
      BY <2>4, <3>1, <3>2 DEF R!RosterNext, R!Join
    <3>3. CASE u \in Members \/ Members' = Members
      BY <2>4, <3>3
    <3> QED BY <2>4, <3>2, <3>3
  <2>5. CASE /\ request[s].kind \in {"leave", "delete", "kick"} /\ w \in Users /\ Judge(s)
             /\ request[s].kind \in {"leave", "delete"} => w = u
             /\ request[s].kind = "kick" => w = t
             /\ Members' = Members \ {w}
             /\ banker' = IF banker = w THEN NoUser ELSE banker
             /\ UNCHANGED <<owner, archived, deleted>>
    <3>1. ~archived
      BY <2>2, <2>5, Verdicts
    <3>2. w \in Members \ {owner}
      <4>1. CASE request[s].kind = "kick"
        BY <2>1, <2>2, <2>5, <3>1, <4>1, Verdicts DEF MayKick
      <4>2. CASE request[s].kind \in {"leave", "delete"}
        BY <2>1, <2>2, <2>5, <3>1, <4>2, Verdicts DEF MayLeave
      <4> QED BY <2>5, <4>1, <4>2
    <3> HIDE DEF w
    <3> QED BY <2>5, <3>1, <3>2 DEF R!RosterNext, R!Depart, R!ClearedBanker
  <2>6. CASE /\ request[s].kind \in {"appoint", "revoke"} /\ u \in Users /\ Judge(s)
             /\ request[s].kind = "appoint" => t \in Users
             /\ banker' = IF request[s].kind = "appoint" THEN t ELSE NoUser
             /\ UNCHANGED <<owner, Members, archived, deleted>>
    <3>1. CASE request[s].kind = "appoint"
      <4>1. ~archived /\ banker = NoUser /\ t \in Members \ {owner}
        BY <2>2, <2>3, <2>6, <3>1, Verdicts DEF MayAppoint
      <4> QED BY <2>6, <3>1, <4>1 DEF R!RosterNext, R!Appoint
    <3>2. CASE request[s].kind = "revoke"
      <4>1. ~archived /\ banker # NoUser
        BY <2>2, <3>2, <2>6, Verdicts DEF MayRevoke
      <4> QED BY <2>6, <3>2, <4>1 DEF R!RosterNext, R!Revoke
    <3> QED BY <2>6, <3>1, <3>2
  <2>7. CASE /\ request[s].kind = "transfer" /\ u \in Users /\ t \in Users /\ Judge(s)
             /\ Members' = Members \union {u, t}
             /\ owner' = t
             /\ banker' = IF banker = t THEN NoUser ELSE banker
             /\ UNCHANGED <<archived, deleted>>
    <3>1. ~archived /\ u \in Dms /\ t # u /\ t \in Players
      BY <2>2, <2>7, Verdicts DEF MayTransfer
    <3>2. t \in Members \ {owner} /\ Members' = Members
      BY <2>1, <2>3, <2>7, <3>1
    <3> QED BY <2>7, <3>1, <3>2 DEF R!RosterNext, R!HandOver, R!ClearedBanker
  <2>8. CASE /\ u \in Users
             /\ "archive" \notin stale' => Members = {u} /\ ~archived
             /\ archived' /\ Members' = Members \ {u}
             /\ UNCHANGED <<owner, banker, deleted>>
    <3>1. ~archived /\ Members = {owner} /\ Members' = {}
      BY <2>1, <2>3, <2>8
    <3>2. (~archived') = FALSE
      BY <2>8
    <3> QED BY <2>8, <3>1, <3>2 DEF R!RosterNext, R!Close
  <2> HIDE DEF u, t, w
  <2> QED BY <1>2, <2>0, <2>4, <2>5, <2>6, <2>7, <2>8, CommitMembers DEF u, t, w
<1> QED BY <1>1, <1>2, CommitOrQuiet

\* Every behaviour of the party is one of the roster, step by step, as long as
\* every request commits on a verdict that still holds and on rows that are
\* still as its statements found them.
THEOREM PartyIsARoster == Spec => RosterSteps
<1>1. TypeOK /\ OneDm /\ [Next]_vars =>
        [stale' # {} \/ outrun' # {} \/ R!RosterNext]_<<owner, banker, Members, archived>>
  BY RosterStep
<1> QED BY <1>1, PartyTypes, PartyHasOneDm, PTL DEF Spec, RosterSteps
=============================================================================
