----------------------------- MODULE SyncQueue -----------------------------
(***************************************************************************)
(* The client sync queue of the web app in server mode: the optimistic     *)
(* dispatch of the store (apps/web/src/store/index.ts), the batching queue *)
(* with its retry loop (sync/queue.ts), the outbox kept in IndexedDB       *)
(* (sync/outbox.ts), the drain that runs on every socket connect           *)
(* (sync/reconnect.ts) and the party navigation that replaces the store    *)
(* (components/PartyScopeSync.tsx).  The tabs are those of one browser and *)
(* one account: they share the outbox and the Web Lock that serialises     *)
(* flushes.  The server is only what a POST /sync/actions promises: a      *)
(* batch is applied whole or not at all, and a batch that mints an id the  *)
(* server already has is rejected.                                         *)
(*                                                                         *)
(* A dispatched action is a number, given in dispatch order.  A party's    *)
(* state is the set of dispatches whose effect it shows, its log the set   *)
(* of dispatches it holds server entries of.                               *)
(***************************************************************************)
EXTENDS Naturals, FiniteSets

CONSTANTS
  Tabs,           \* the open tabs of the browser
  Parties,        \* the server parties the user is a member of
  Solo,           \* those with fewer than two active members
  NoParty,        \* no party: the Hub, or an empty store
  NoSnapshot,     \* "null" where a snapshot or a pulled state may be
  Free,           \* nobody holds the lock 'sync-queue-flush'
  Answers,        \* the answers of POST /sync/actions that are explored
  Kinds,          \* the kinds of dispatch that are explored
  OnlineReports,  \* the values of navigator.onLine that are explored
  MAX_BATCH,      \* the most actions in one POST (100)
  MAX_ATTEMPTS,   \* the network failures after which a batch is parked (5)
  MaxDispatches,  \* bound: dispatches of a behaviour
  MaxConnects,    \* bound: socket connects of a behaviour
  MaxCloses       \* bound: tabs closed in a behaviour

AllAnswers == {"ok", "rejected", "unauthenticated", "display_name_required",
               "api_error"}

(***************************************************************************)
(* The kinds of dispatch: "mints" creates a row under an id of its own, so *)
(* that the server answers 422 id_already_exists to a second application;  *)
(* "plain" does not; "void" reaches no queue: its reducer throws, or it is *)
(* a seed-catalog.                                                         *)
(***************************************************************************)
AllKinds == {"plain", "mints", "void"}

ASSUME PartiesAssumption == NoParty \notin Parties /\ Solo \subseteq Parties
ASSUME TabsAssumption == Free \notin Tabs
ASSUME SnapshotAssumption == NoSnapshot \notin [party : Parties \union {NoParty},
                                     effects : SUBSET Nat, log : SUBSET Nat]
ASSUME AnswersAssumption == Answers \subseteq AllAnswers
ASSUME KindsAssumption == Kinds \subseteq AllKinds
ASSUME OnlineAssumption == OnlineReports \subseteq BOOLEAN
ASSUME BoundsAssumption == /\ MAX_BATCH \in Nat \ {0}
                           /\ MAX_ATTEMPTS \in Nat \ {0}
                           /\ MaxDispatches \in Nat
                           /\ MaxConnects \in Nat
                           /\ MaxCloses \in Nat

Dispatches == 1 .. MaxDispatches

(***************************************************************************)
(* What the user's dispatch promise can settle with; "closed" is a         *)
(* dispatch whose tab was closed before.                                   *)
(***************************************************************************)
Settled == AllAnswers \union {"sync_paused", "closed"}

Origin == [tab : Tabs \union {Free}, party : Parties \union {NoParty},
           kind : AllKinds]

NoOrigin == [tab |-> Free, party |-> NoParty, kind |-> "void"]

View == [party : Parties \union {NoParty},
         effects : SUBSET Dispatches, log : SUBSET Dispatches]

EmptyView == [party |-> NoParty, effects |-> {}, log |-> {}]

(* Mutant: the optimistic dispatch writes a log entry of its own.          *)
ShowingLogged(v, ids) ==
  [party |-> v.party, effects |-> v.effects \union ids, log |-> v.log \union ids]

Showing(v, ids) ==
  [party |-> v.party, effects |-> v.effects \union ids, log |-> v.log]

(* appendServerLogEntries: nothing asks which party the entries are of.    *)
Logging(v, ids) ==
  [party |-> v.party, effects |-> v.effects, log |-> v.log \union ids]

Row == [id : Nat, party : Parties \union {NoParty}, ids : SUBSET Dispatches]

FlightStages == AllAnswers \union
  {"idle", "lock", "sent", "removeRow", "park", "backoff", "signOut"}

(* A batch in flight: where flushBatchWithRetry is with it, the snapshot to *)
(* roll back to, its outbox row (0: none) and the failures so far.  Once   *)
(* the server has answered, the stage is the answer.                       *)
Flight == [stage : FlightStages,
           party : Parties \union {NoParty},
           ids : SUBSET Dispatches,
           snapshot : View \union {NoSnapshot},
           row : Nat,
           attempt : Nat]

NoFlight == [stage |-> "idle", party |-> NoParty, ids |-> {},
             snapshot |-> NoSnapshot, row |-> 0, attempt |-> 0]

(* The batch f at another stage.                                           *)
At(f, stage, row, attempt) ==
  [stage |-> stage, party |-> f.party, ids |-> f.ids, snapshot |-> f.snapshot,
   row |-> row, attempt |-> attempt]

DrainStages == AllAnswers \union {"idle", "pull", "hydrate", "list", "sent"}

(* A run of drainOutbox: the party it started for, the state it pulled and *)
(* the rows it has listed and not replayed yet.                            *)
Drain == {d \in [stage : DrainStages,
                party : Parties \union {NoParty},
                pulled : View \union {NoSnapshot},
                rows : SUBSET Row] :
            d.stage = "hydrate" => d.pulled \in View}

Draining(stage, party, state, rows) ==
  [stage |-> stage, party |-> party, pulled |-> state, rows |-> rows]

NoDrain == Draining("idle", NoParty, NoSnapshot, {})

VARIABLES
  \* the tabs
  session,          \* [Tabs -> the session status]
  online,           \* what navigator.onLine last reported
  url,              \* [Tabs -> the party of the URL]
  pulled,           \* [Tabs -> the state PartyScopeSync pulled, not yet hydrated]
  view,             \* [Tabs -> the store: party, effects shown, log]
  queue,            \* [Tabs -> the dispatches buffered, in dispatch order]
  timer,            \* [Tabs -> is the debounce timer set?]
  preBatchSnapshot, \* [Tabs -> the state a rejected batch is rolled back to]
  inflight,         \* [Tabs -> the batch being flushed]
  drain,            \* [Tabs -> the drain a socket connect started]
  \* shared by the tabs
  lock,             \* the tab that holds the Web Lock, or Free
  outbox,           \* the rows of the IndexedDB outbox
  nextRow,          \* the id of the next row
  \* the dispatches
  issued,           \* how many there are
  origin,           \* [Dispatches -> where each came from]
  outcome,          \* [Dispatches -> what the dispatch promise settled with]
  \* the server and the network
  applied,          \* [Dispatches -> how often the server applied it]
  refused,          \* the dispatches of batches that were answered 422
  late,             \* batches whose connection broke before the server read them
  lost,             \* the dispatches of batches that met a network error
  connects,         \* how many socket connects there were
  closes            \* how many tabs were closed

clientVars == <<session, online, url, pulled, view, queue, timer,
                preBatchSnapshot, inflight, drain>>
sharedVars == <<lock, outbox, nextRow>>
dispatchVars == <<issued, origin, outcome>>
serverVars == <<applied, refused, late, lost>>
budgetVars == <<connects, closes>>
vars == <<clientVars, sharedVars, dispatchVars, serverVars, budgetVars>>

TypeOK ==
  /\ session \in [Tabs -> {"authenticated", "needsDisplayName", "anonymous"}]
  /\ online \in BOOLEAN
  /\ url \in [Tabs -> Parties \union {NoParty}]
  /\ pulled \in [Tabs -> View \union {NoSnapshot}]
  /\ view \in [Tabs -> View]
  /\ queue \in [Tabs -> SUBSET Dispatches]
  /\ timer \in [Tabs -> BOOLEAN]
  /\ preBatchSnapshot \in [Tabs -> View \union {NoSnapshot}]
  /\ inflight \in [Tabs -> Flight]
  /\ drain \in [Tabs -> Drain]
  /\ lock \in Tabs \union {Free}
  /\ outbox \subseteq Row
  /\ nextRow \in Nat \ {0}
  /\ issued \in 0 .. MaxDispatches
  /\ origin \in [Dispatches -> Origin]
  /\ outcome \in [Dispatches -> Settled \union {"unissued", "pending"}]
  /\ applied \in [Dispatches -> Nat]
  /\ refused \subseteq Dispatches
  /\ late \subseteq SUBSET Dispatches
  /\ lost \subseteq Dispatches
  /\ connects \in 0 .. MaxConnects
  /\ closes \in 0 .. MaxCloses

Init ==
  /\ session = [t \in Tabs |-> "authenticated"]
  /\ online \in OnlineReports
  /\ url = [t \in Tabs |-> NoParty]
  /\ pulled = [t \in Tabs |-> NoSnapshot]
  /\ view = [t \in Tabs |-> EmptyView]
  /\ queue = [t \in Tabs |-> {}]
  /\ timer = [t \in Tabs |-> FALSE]
  /\ preBatchSnapshot = [t \in Tabs |-> NoSnapshot]
  /\ inflight = [t \in Tabs |-> NoFlight]
  /\ drain = [t \in Tabs |-> NoDrain]
  /\ lock = Free
  /\ outbox = {}
  /\ nextRow = 1
  /\ issued = 0
  /\ origin = [d \in Dispatches |-> NoOrigin]
  /\ outcome = [d \in Dispatches |-> "unissued"]
  /\ applied = [d \in Dispatches |-> 0]
  /\ refused = {}
  /\ late = {}
  /\ lost = {}
  /\ connects = 0
  /\ closes = 0

-----------------------------------------------------------------------------
(***************************************************************************)
(* The server.                                                             *)
(***************************************************************************)
Committed == {d \in Dispatches : applied[d] > 0}

(* GET /sync/state of party p.                                             *)
ServerState(p) ==
  LET ds == {d \in Committed : origin[d].party = p}
  IN [party |-> p, effects |-> ds, log |-> ds]

AlreadyMinted(ids) == \E d \in ids : origin[d].kind = "mints" /\ d \in Committed

(* The answers the server may give to a POST of ids.                       *)
Verdicts(ids) ==
  IF AlreadyMinted(ids) THEN (Answers \ {"ok"}) \union {"rejected"} ELSE Answers

(* The server reads the batch: one transaction applies all of it or nothing. *)
Process(ids, verdict) ==
  /\ applied' = IF verdict = "ok"
                THEN [d \in Dispatches |-> IF d \in ids THEN applied[d] + 1
                                                        ELSE applied[d]]
                ELSE applied
  /\ refused' = IF verdict = "rejected" THEN refused \union ids ELSE refused

(* A request whose connection broke before the server read it.             *)
ServeLate(ids) ==
  /\ ids \in late
  /\ \E verdict \in Verdicts(ids) : Process(ids, verdict)
  /\ late' = late \ {ids}
  /\ UNCHANGED <<clientVars, sharedVars, dispatchVars, lost, budgetVars>>

-----------------------------------------------------------------------------
(***************************************************************************)
(* The store: optimistic dispatch, navigation, session.                    *)
(***************************************************************************)
InParty(t) == /\ session[t] = "authenticated"
              /\ url[t] # NoParty
              /\ view[t].party = url[t]

(* canDispatchFor: no writes to a shared party while the browser is offline. *)
CanDispatch(t) == online \/ view[t].party \in Solo

(* captureRollbackSnapshot: a no-op when a snapshot is already held.       *)
Captured(t) == IF preBatchSnapshot[t] = NoSnapshot THEN view[t]
                                                   ELSE preBatchSnapshot[t]

(* The store is replaced; a pull PartyScopeSync has under way is cancelled *)
(* when the party of the store changes.                                    *)
ReplaceView(t, v) ==
  /\ view' = [view EXCEPT ![t] = v]
  /\ pulled' = IF v.party = view[t].party THEN pulled
                                          ELSE [pulled EXCEPT ![t] = NoSnapshot]

Dispatch(t, kind) ==
  /\ kind \in Kinds \ {"void"}
  /\ InParty(t)
  /\ CanDispatch(t)
  /\ issued < MaxDispatches
  /\ issued' = issued + 1
  /\ origin' = [origin EXCEPT ![issued + 1] =
                  [tab |-> t, party |-> view[t].party, kind |-> kind]]
  /\ outcome' = [outcome EXCEPT ![issued + 1] = "pending"]
  /\ preBatchSnapshot' = [preBatchSnapshot EXCEPT ![t] = Captured(t)]
  /\ view' = [view EXCEPT ![t] = Showing(@, {issued + 1})]
  /\ queue' = [queue EXCEPT ![t] = @ \union {issued + 1}]
  /\ timer' = [timer EXCEPT ![t] = TRUE]
  /\ UNCHANGED <<session, online, url, pulled, inflight, drain, sharedVars,
                 serverVars, budgetVars>>

(* A dispatch whose reducer throws captures the snapshot all the same, and *)
(* enqueues nothing; so does a seed-catalog.                               *)
DispatchVoid(t) ==
  /\ "void" \in Kinds
  /\ InParty(t)
  /\ preBatchSnapshot[t] = NoSnapshot
  /\ preBatchSnapshot' = [preBatchSnapshot EXCEPT ![t] = view[t]]
  /\ UNCHANGED <<session, online, url, pulled, view, queue, timer, inflight,
                 drain, sharedVars, dispatchVars, serverVars, budgetVars>>

(* The user opens a party, or goes back to the Hub.                        *)
Navigate(t, p) ==
  /\ session[t] = "authenticated"
  /\ url[t] # p
  /\ url' = [url EXCEPT ![t] = p]
  /\ pulled' = [pulled EXCEPT ![t] = NoSnapshot]
  /\ UNCHANGED <<session, online, view, queue, timer, preBatchSnapshot,
                 inflight, drain, sharedVars, dispatchVars, serverVars, budgetVars>>

(* PartyScopeSync: the URL names a party the store does not hold.          *)
PullState(t) ==
  /\ session[t] = "authenticated"
  /\ url[t] \notin {NoParty, view[t].party}
  /\ pulled[t] = NoSnapshot
  /\ pulled' = [pulled EXCEPT ![t] = ServerState(url[t])]
  /\ UNCHANGED <<session, online, url, view, queue, timer, preBatchSnapshot,
                 inflight, drain, sharedVars, dispatchVars, serverVars, budgetVars>>

HydratePulled(t) ==
  /\ pulled[t] # NoSnapshot
  /\ view' = [view EXCEPT ![t] = pulled[t]]
  /\ pulled' = [pulled EXCEPT ![t] = NoSnapshot]
  /\ UNCHANGED <<session, online, url, queue, timer, preBatchSnapshot, inflight,
                 drain, sharedVars, dispatchVars, serverVars, budgetVars>>

SetOnline(v) ==
  /\ online' = v
  /\ online # v
  /\ UNCHANGED <<session, url, pulled, view, queue, timer, preBatchSnapshot,
                 inflight, drain, sharedVars, dispatchVars, serverVars, budgetVars>>

(* The user signs in again, or sets the display name that was missing.     *)
SignIn(t) ==
  /\ session[t] # "authenticated"
  /\ session' = [session EXCEPT ![t] = "authenticated"]
  /\ UNCHANGED <<online, url, pulled, view, queue, timer, preBatchSnapshot,
                 inflight, drain, sharedVars, dispatchVars, serverVars, budgetVars>>

-----------------------------------------------------------------------------
(***************************************************************************)
(* The queue: flush, lock, answers, retries.                               *)
(***************************************************************************)

(* Mutant: the batch is cut from the tail of the queue.                    *)
LastBatch(q) == {d \in q : Cardinality({e \in q : e >= d}) <= MAX_BATCH}

(* queue.splice(0, MAX_BATCH): the first MAX_BATCH items.                  *)
FirstBatch(q) == {d \in q : Cardinality({e \in q : e <= d}) <= MAX_BATCH}

CanFlush(t) == inflight[t].stage = "idle" /\ queue[t] # {}

(* Mutant: the items that stay in the batch are not spliced from the queue. *)
FlushBodyUnspliced(t) ==
  \E first \in queue[t] :
    LET p == origin[first].party
        ids == {d \in FirstBatch(queue[t]) : origin[d].party = p}
    IN /\ \A d \in queue[t] : first <= d
       /\ inflight' = [inflight EXCEPT ![t] =
             [stage |-> "lock", party |-> p, ids |-> ids,
              snapshot |-> preBatchSnapshot[t], row |-> 0, attempt |-> 0]]
       /\ queue' = queue
       /\ preBatchSnapshot' = [preBatchSnapshot EXCEPT ![t] = NoSnapshot]

(* Mutant: the items of another party are not put back.                    *)
FlushBodyDropsOthers(t) ==
  \E first \in queue[t] :
    LET p == origin[first].party
        ids == {d \in FirstBatch(queue[t]) : origin[d].party = p}
    IN /\ \A d \in queue[t] : first <= d
       /\ inflight' = [inflight EXCEPT ![t] =
             [stage |-> "lock", party |-> p, ids |-> ids,
              snapshot |-> preBatchSnapshot[t], row |-> 0, attempt |-> 0]]
       /\ queue' = [queue EXCEPT ![t] = @ \ FirstBatch(@)]
       /\ preBatchSnapshot' = [preBatchSnapshot EXCEPT ![t] = NoSnapshot]

(* The items that go out together share the party of the first; the others *)
(* are put back at the head, so the queue keeps its order.                 *)
FlushBody(t) ==
  \E first \in queue[t] :
    LET p == origin[first].party
        ids == {d \in FirstBatch(queue[t]) : origin[d].party = p}
    IN /\ \A d \in queue[t] : first <= d
       /\ inflight' = [inflight EXCEPT ![t] =
             [stage |-> "lock", party |-> p, ids |-> ids,
              snapshot |-> preBatchSnapshot[t], row |-> 0, attempt |-> 0]]
       /\ queue' = [queue EXCEPT ![t] = @ \ ids]
       /\ preBatchSnapshot' = [preBatchSnapshot EXCEPT ![t] = NoSnapshot]

(* The debounce timer fires; a flush that finds a batch in flight, or an   *)
(* empty queue, does nothing.                                              *)
TimerFires(t) ==
  /\ timer[t]
  /\ timer' = [timer EXCEPT ![t] = FALSE]
  /\ IF CanFlush(t) THEN FlushBody(t)
                    ELSE UNCHANGED <<inflight, queue, preBatchSnapshot>>
  /\ UNCHANGED <<session, online, url, pulled, view, drain, sharedVars,
                 dispatchVars, serverVars, budgetVars>>

(* flush() called by a screen, or by beforeunload: the timer stays set.    *)
FlushNow(t) ==
  /\ CanFlush(t)
  /\ FlushBody(t)
  /\ UNCHANGED <<session, online, url, pulled, view, timer, drain, sharedVars,
                 dispatchVars, serverVars, budgetVars>>

(* navigator.locks grants the lock; the POST goes out.                     *)
LockGranted(t) ==
  /\ inflight[t].stage = "lock"
  /\ lock = Free
  /\ lock' = t
  /\ inflight' = [inflight EXCEPT ![t] = At(@, "sent", @.row, @.attempt)]
  /\ UNCHANGED <<session, online, url, pulled, view, queue, timer,
                 preBatchSnapshot, drain, outbox, nextRow, dispatchVars,
                 serverVars, budgetVars>>

ServeFlush(t) ==
  /\ inflight[t].stage = "sent"
  /\ \E verdict \in Verdicts(inflight[t].ids) :
       /\ Process(inflight[t].ids, verdict)
       /\ inflight' = [inflight EXCEPT ![t] = At(@, verdict, @.row, @.attempt)]
  /\ UNCHANGED <<session, online, url, pulled, view, queue, timer,
                 preBatchSnapshot, drain, sharedVars, dispatchVars, late, lost,
                 budgetVars>>

(* The connection breaks, before the server read the request or after it   *)
(* answered.                                                               *)
LoseFlush(t) ==
  /\ inflight[t].stage \in AllAnswers \union {"sent"}
  /\ late' = IF inflight[t].stage = "sent" THEN late \union {inflight[t].ids}
                                           ELSE late
  /\ lost' = lost \union inflight[t].ids
  /\ inflight' = [inflight EXCEPT ![t] = At(@, "park", @.row, @.attempt)]
  /\ UNCHANGED <<session, online, url, pulled, view, queue, timer,
                 preBatchSnapshot, drain, sharedVars, dispatchVars, applied,
                 refused, budgetVars>>

(* resolveOutcomes(dispatchIds, ...).                                      *)
Resolve(ids, result) ==
  outcome' = [d \in Dispatches |-> IF d \in ids THEN result ELSE outcome[d]]

(* Mutant: "finally" does not look at the queue again.                     *)
FinishUnscheduled(t) ==
  /\ inflight' = [inflight EXCEPT ![t] = NoFlight]
  /\ lock' = Free
  /\ UNCHANGED <<preBatchSnapshot, timer>>

(* The "finally" of flush: the lock is released; what arrived during the   *)
(* flight, or was put back, is scheduled with a snapshot of the store as   *)
(* it is now.                                                              *)
Finish(t) ==
  /\ inflight' = [inflight EXCEPT ![t] = NoFlight]
  /\ lock' = Free
  /\ IF queue[t] # {}
     THEN /\ preBatchSnapshot' = [preBatchSnapshot EXCEPT ![t] = view'[t]]
          /\ timer' = [timer EXCEPT ![t] = TRUE]
     ELSE UNCHANGED <<preBatchSnapshot, timer>>

(* Mutant: the outbox is cleared, and not just the row.                    *)
WithoutAny(row) == {}

Without(row) == {r \in outbox : r.id # row}

(* if (snapshot !== null) d.restoreSnapshot(snapshot)                      *)
Rollback(t) ==
  IF inflight[t].snapshot = NoSnapshot THEN UNCHANGED <<view, pulled>>
                                       ELSE ReplaceView(t, inflight[t].snapshot)

(* 200: the outbox row goes, the server's entries are appended to the log  *)
(* of whatever party the store holds.                                      *)
ReceiveApplied(t) ==
  /\ inflight[t].stage = "ok"
  /\ outbox' = Without(inflight[t].row)
  /\ view' = [view EXCEPT ![t] = Logging(@, inflight[t].ids)]
  /\ Resolve(inflight[t].ids, "ok")
  /\ Finish(t)
  /\ UNCHANGED <<session, online, url, pulled, queue, drain, nextRow, issued,
                 origin, serverVars, budgetVars>>

(* 422: the store is rolled back before the outbox row is awaited away.    *)
ReceiveRejected(t) ==
  /\ inflight[t].stage = "rejected"
  /\ Rollback(t)
  /\ IF inflight[t].row = 0
     THEN /\ Resolve(inflight[t].ids, "rejected")
          /\ Finish(t)
     ELSE /\ inflight' = [inflight EXCEPT ![t] =
                             At(@, "removeRow", @.row, @.attempt)]
          /\ UNCHANGED <<outcome, lock, preBatchSnapshot, timer>>
  /\ UNCHANGED <<session, online, url, queue, drain, outbox, nextRow, issued,
                 origin, serverVars, budgetVars>>

RejectedRowRemoved(t) ==
  /\ inflight[t].stage = "removeRow"
  /\ outbox' = Without(inflight[t].row)
  /\ UNCHANGED <<view, pulled>>
  /\ Resolve(inflight[t].ids, "rejected")
  /\ Finish(t)
  /\ UNCHANGED <<session, online, url, queue, drain, nextRow, issued, origin,
                 serverVars, budgetVars>>

(* 401: rollback, and sign out; 'inflight' is held until that is done.     *)
ReceiveUnauthenticated(t) ==
  /\ inflight[t].stage = "unauthenticated"
  /\ Rollback(t)
  /\ Resolve(inflight[t].ids, "unauthenticated")
  /\ inflight' = [inflight EXCEPT ![t] = At(NoFlight, "signOut", 0, 0)]
  /\ UNCHANGED <<session, online, url, queue, timer, preBatchSnapshot, drain,
                 sharedVars, issued, origin, serverVars, budgetVars>>

(* ProtectedRoute leaves the party screens with the session.               *)
LeaveScreens(t, status) ==
  /\ session' = [session EXCEPT ![t] = status]
  /\ url' = [url EXCEPT ![t] = NoParty]
  /\ pulled' = [pulled EXCEPT ![t] = NoSnapshot]

SignedOut(t) ==
  /\ inflight[t].stage = "signOut"
  /\ LeaveScreens(t, "anonymous")
  /\ UNCHANGED view
  /\ Finish(t)
  /\ UNCHANGED <<online, queue, drain, outbox, nextRow, dispatchVars, serverVars,
                 budgetVars>>

(* 409: rollback, and the session asks for a display name.                 *)
ReceiveNameRequired(t) ==
  /\ inflight[t].stage = "display_name_required"
  /\ view' = IF inflight[t].snapshot = NoSnapshot THEN view
             ELSE [view EXCEPT ![t] = inflight[t].snapshot]
  /\ LeaveScreens(t, "needsDisplayName")
  /\ Resolve(inflight[t].ids, "display_name_required")
  /\ Finish(t)
  /\ UNCHANGED <<online, queue, drain, outbox, nextRow, issued, origin,
                 serverVars, budgetVars>>

(* Mutant: any API error is taken for a rejection.                         *)
ReceiveErrorRejected(t) ==
  /\ inflight[t].stage = "api_error"
  /\ UNCHANGED <<view, pulled>>
  /\ Resolve(inflight[t].ids, "rejected")
  /\ Finish(t)
  /\ UNCHANGED <<session, online, url, queue, drain, outbox, nextRow, issued,
                 origin, serverVars, budgetVars>>

(* Any other answer, 5xx included: no rollback, no retry, no row.          *)
ReceiveError(t) ==
  /\ inflight[t].stage = "api_error"
  /\ UNCHANGED <<view, pulled>>
  /\ Resolve(inflight[t].ids, "api_error")
  /\ Finish(t)
  /\ UNCHANGED <<session, online, url, queue, drain, outbox, nextRow, issued,
                 origin, serverVars, budgetVars>>

(* A network error: the batch is in the outbox from the first on, and is   *)
(* parked there after MAX_ATTEMPTS.                                        *)
Park(t) ==
  LET f == inflight[t]
      row == IF f.row = 0 THEN nextRow ELSE f.row
  IN /\ f.stage = "park"
     /\ IF f.row = 0
        THEN /\ outbox' = outbox \union
                           {[id |-> row, party |-> f.party, ids |-> f.ids]}
             /\ nextRow' = nextRow + 1
        ELSE UNCHANGED <<outbox, nextRow>>
     /\ UNCHANGED <<view, pulled>>
     /\ IF f.attempt + 1 >= MAX_ATTEMPTS
        THEN /\ Resolve(f.ids, "sync_paused")
             /\ Finish(t)
        ELSE /\ inflight' = [inflight EXCEPT ![t] =
                                At(f, "backoff", row, f.attempt)]
             /\ UNCHANGED <<outcome, lock, preBatchSnapshot, timer>>
     /\ UNCHANGED <<session, online, url, queue, drain, issued, origin,
                    serverVars, budgetVars>>

(* The backoff delay is over: the same batch is sent again.                *)
Retry(t) ==
  /\ inflight[t].stage = "backoff"
  /\ inflight' = [inflight EXCEPT ![t] = At(@, "sent", @.row, @.attempt + 1)]
  /\ UNCHANGED <<session, online, url, pulled, view, queue, timer,
                 preBatchSnapshot, drain, sharedVars, dispatchVars, serverVars,
                 budgetVars>>

-----------------------------------------------------------------------------
(***************************************************************************)
(* The reconnect drain.  It takes no lock, and a flush may be under way.   *)
(***************************************************************************)

(* socket.on('connect'): the drain works for the party the store holds now. *)
(* The model starts it only when the previous drain of the tab is over.    *)
Connect(t) ==
  /\ session[t] = "authenticated"
  /\ view[t].party # NoParty
  /\ drain[t].stage = "idle"
  /\ connects < MaxConnects
  /\ connects' = connects + 1
  /\ drain' = [drain EXCEPT ![t] =
                 Draining("pull", view[t].party, NoSnapshot, {})]
  /\ UNCHANGED <<session, online, url, pulled, view, queue, timer,
                 preBatchSnapshot, inflight, sharedVars, dispatchVars, serverVars,
                 closes>>

(* Mutant: a failed pull is hydrated all the same.                         *)
DrainPullUnchecked(t) ==
  /\ drain[t].stage = "pull"
  /\ \/ drain' = [drain EXCEPT ![t] =
                    Draining("hydrate", @.party, ServerState(@.party), {})]
     \/ drain' = [drain EXCEPT ![t] = Draining("hydrate", @.party, NoSnapshot, {})]
  /\ UNCHANGED <<session, online, url, pulled, view, queue, timer,
                 preBatchSnapshot, inflight, sharedVars, dispatchVars, serverVars,
                 budgetVars>>

(* The missed state is pulled; a failure only skips the hydration.         *)
DrainPull(t) ==
  /\ drain[t].stage = "pull"
  /\ \/ drain' = [drain EXCEPT ![t] =
                    Draining("hydrate", @.party, ServerState(@.party), {})]
     \/ drain' = [drain EXCEPT ![t] = Draining("list", @.party, NoSnapshot, {})]
  /\ UNCHANGED <<session, online, url, pulled, view, queue, timer,
                 preBatchSnapshot, inflight, sharedVars, dispatchVars, serverVars,
                 budgetVars>>

(* The store is hydrated, whatever it holds by now.                        *)
DrainHydrate(t) ==
  /\ drain[t].stage = "hydrate"
  /\ ReplaceView(t, drain[t].pulled)
  /\ drain' = [drain EXCEPT ![t] = Draining("list", @.party, NoSnapshot, {})]
  /\ UNCHANGED <<session, online, url, queue, timer, preBatchSnapshot, inflight,
                 sharedVars, dispatchVars, serverVars, budgetVars>>

(* The oldest of the rows that are listed and not replayed yet.            *)
Oldest(rows) == {r \in rows : \A s \in rows : r.id <= s.id}

ReplayFrom(t, rows) ==
  drain' = [drain EXCEPT ![t] = IF rows = {} THEN NoDrain
                                ELSE Draining("sent", @.party, NoSnapshot, rows)]

(* Mutant: the rows are taken out of the outbox before they are replayed.  *)
DrainListTakes(t) ==
  /\ drain[t].stage = "list"
  /\ ReplayFrom(t, {r \in outbox : r.party = drain[t].party})
  /\ outbox' = {r \in outbox : r.party # drain[t].party}
  /\ UNCHANGED <<session, online, url, pulled, view, queue, timer,
                 preBatchSnapshot, inflight, lock, nextRow, dispatchVars, serverVars,
                 budgetVars>>

DrainList(t) ==
  /\ drain[t].stage = "list"
  /\ ReplayFrom(t, {r \in outbox : r.party = drain[t].party})
  /\ UNCHANGED <<session, online, url, pulled, view, queue, timer,
                 preBatchSnapshot, inflight, sharedVars, dispatchVars, serverVars,
                 budgetVars>>

ServeDrain(t) ==
  /\ drain[t].stage = "sent"
  /\ \E r \in Oldest(drain[t].rows) : \E verdict \in Verdicts(r.ids) :
       /\ Process(r.ids, verdict)
       /\ drain' = [drain EXCEPT ![t] =
                      Draining(verdict, @.party, NoSnapshot, @.rows)]
  /\ UNCHANGED <<session, online, url, pulled, view, queue, timer,
                 preBatchSnapshot, inflight, sharedVars, dispatchVars, late, lost,
                 budgetVars>>

(* Mutant: the row is removed whatever became of the replay.               *)
LoseDrainRemoves(t) ==
  /\ drain[t].stage \in AllAnswers \union {"sent"}
  /\ \E r \in Oldest(drain[t].rows) :
       /\ late' = IF drain[t].stage = "sent" THEN late \union {r.ids} ELSE late
       /\ lost' = lost \union r.ids
       /\ outbox' = Without(r.id)
  /\ drain' = [drain EXCEPT ![t] = NoDrain]
  /\ UNCHANGED <<session, online, url, pulled, view, queue, timer,
                 preBatchSnapshot, inflight, lock, nextRow, dispatchVars, applied,
                 refused, budgetVars>>

(* A network error ends the drain; the row stays.                          *)
LoseDrain(t) ==
  /\ drain[t].stage \in AllAnswers \union {"sent"}
  /\ \E r \in Oldest(drain[t].rows) :
       /\ late' = IF drain[t].stage = "sent" THEN late \union {r.ids} ELSE late
       /\ lost' = lost \union r.ids
  /\ drain' = [drain EXCEPT ![t] = NoDrain]
  /\ UNCHANGED <<session, online, url, pulled, view, queue, timer,
                 preBatchSnapshot, inflight, sharedVars, dispatchVars, applied,
                 refused, budgetVars>>

(* 200: the row goes, its entries are appended, the next row is replayed.  *)
DrainApplied(t) ==
  /\ drain[t].stage = "ok"
  /\ \E r \in Oldest(drain[t].rows) :
       /\ outbox' = Without(r.id)
       /\ view' = [view EXCEPT ![t] = Logging(@, r.ids)]
       /\ ReplayFrom(t, drain[t].rows \ {r})
  /\ UNCHANGED <<session, online, url, pulled, queue, timer, preBatchSnapshot,
                 inflight, lock, nextRow, dispatchVars, serverVars, budgetVars>>

(* 422 removes the row, any other error keeps it; both end the drain, and  *)
(* nothing is rolled back.                                                 *)
DrainFails(t) ==
  /\ drain[t].stage \in AllAnswers \ {"ok"}
  /\ \E r \in Oldest(drain[t].rows) :
       outbox' = IF drain[t].stage = "rejected" THEN Without(r.id) ELSE outbox
  /\ drain' = [drain EXCEPT ![t] = NoDrain]
  /\ UNCHANGED <<session, online, url, pulled, view, queue, timer,
                 preBatchSnapshot, inflight, lock, nextRow, dispatchVars,
                 serverVars, budgetVars>>

-----------------------------------------------------------------------------
(* The tab is closed, or reloaded: its memory goes, the lock is released,  *)
(* and a request that was out may still arrive.                            *)
Close(t) ==
  /\ closes < MaxCloses
  /\ closes' = closes + 1
  /\ url' = [url EXCEPT ![t] = NoParty]
  /\ pulled' = [pulled EXCEPT ![t] = NoSnapshot]
  /\ view' = [view EXCEPT ![t] = EmptyView]
  /\ queue' = [queue EXCEPT ![t] = {}]
  /\ timer' = [timer EXCEPT ![t] = FALSE]
  /\ preBatchSnapshot' = [preBatchSnapshot EXCEPT ![t] = NoSnapshot]
  /\ inflight' = [inflight EXCEPT ![t] = NoFlight]
  /\ drain' = [drain EXCEPT ![t] = NoDrain]
  /\ lock' = IF lock = t THEN Free ELSE lock
  /\ late' = late
       \union (IF inflight[t].stage = "sent" THEN {inflight[t].ids} ELSE {})
       \union (IF drain[t].stage = "sent"
               THEN {r.ids : r \in Oldest(drain[t].rows)} ELSE {})
  /\ Resolve(queue[t] \union inflight[t].ids, "closed")
  /\ UNCHANGED <<session, online, outbox, nextRow, issued, origin, applied,
                 refused, lost, connects>>

-----------------------------------------------------------------------------
TabNext(t) ==
  \/ \E kind \in Kinds : Dispatch(t, kind)
  \/ DispatchVoid(t)
  \/ \E p \in Parties \union {NoParty} : Navigate(t, p)
  \/ PullState(t)
  \/ HydratePulled(t)
  \/ SignIn(t)
  \/ TimerFires(t)
  \/ FlushNow(t)
  \/ LockGranted(t)
  \/ ServeFlush(t)
  \/ LoseFlush(t)
  \/ ReceiveApplied(t)
  \/ ReceiveRejected(t)
  \/ RejectedRowRemoved(t)
  \/ ReceiveUnauthenticated(t)
  \/ SignedOut(t)
  \/ ReceiveNameRequired(t)
  \/ ReceiveError(t)
  \/ Park(t)
  \/ Retry(t)
  \/ Connect(t)
  \/ DrainPull(t)
  \/ DrainHydrate(t)
  \/ DrainList(t)
  \/ ServeDrain(t)
  \/ LoseDrain(t)
  \/ DrainApplied(t)
  \/ DrainFails(t)
  \/ Close(t)

Next ==
  \/ \E t \in Tabs : TabNext(t)
  \/ \E v \in OnlineReports : SetOnline(v)
  \/ \E ids \in late : ServeLate(ids)

Spec == Init /\ [][Next]_vars

(***************************************************************************)
(* What the browser and the server do by themselves: the timers fire, the  *)
(* lock is granted in the order of the requests, and a fetch either gets   *)
(* an answer or fails.  The user, the network's failures and the socket    *)
(* are under no obligation.                                                *)
(***************************************************************************)
Receive(t) ==
  \/ ReceiveApplied(t)      \/ ReceiveRejected(t)     \/ RejectedRowRemoved(t)
  \/ ReceiveUnauthenticated(t)  \/ SignedOut(t)       \/ ReceiveNameRequired(t)
  \/ ReceiveError(t)        \/ Park(t)

Fairness ==
  \A t \in Tabs : /\ WF_vars(TimerFires(t))
                  /\ SF_vars(LockGranted(t))
                  /\ WF_vars(ServeFlush(t) \/ LoseFlush(t))
                  /\ WF_vars(Receive(t))
                  /\ WF_vars(Retry(t))

FairSpec == Spec /\ Fairness

-----------------------------------------------------------------------------
(***************************************************************************)
(* Correctness.                                                            *)
(***************************************************************************)

(* The promise of a dispatch is open exactly while the queue or the batch  *)
(* in flight of the tab that made it carries the action: no awaiter of     *)
(* useDispatch is forgotten by a path of the flush, and none is settled    *)
(* while its action may still go out from there ("every terminal path MUST *)
(* resolve the correlations for the actions it handled").                  *)
PendingIsCarried ==
  \A d \in Dispatches :
    outcome[d] = "pending" <=>
      /\ origin[d].tab \in Tabs
      /\ d \in queue[origin[d].tab] \union inflight[origin[d].tab].ids

(* The actions of one party leave a tab in the order they were dispatched, *)
(* over any mix of parties and any cut at MAX_BATCH: an equip never goes   *)
(* out in an earlier batch than the acquire before it.                     *)
PartyOrderKept ==
  \A t \in Tabs : \A d \in inflight[t].ids : \A e \in queue[t] :
    origin[d].party = origin[e].party => d < e

(* A dispatch that settled "ok" was applied by the server, and one that    *)
(* settled "rejected" was answered 422, over retries, late requests and    *)
(* drains of the same batch.                                               *)
OutcomeIsServers ==
  \A d \in Dispatches : /\ outcome[d] = "ok" => d \in Committed
                        /\ outcome[d] = "rejected" => d \in refused

(* The dispatches the outbox holds.                                        *)
Buffered == UNION {r.ids : r \in outbox}

(* A batch parked after its retries is not dropped: it stays in the outbox *)
(* until the server applied it or answered 422, whichever of the live      *)
(* retry, the drains and the other tabs gets there first.                  *)
ParkedIsKept ==
  \A d \in Dispatches :
    outcome[d] = "sync_paused" =>
      d \in Committed \union refused \union Buffered

(* The client never shows a log entry the server does not have: hydration, *)
(* rollback and the queue are the writers of the log, and none invents an  *)
(* entry (the log authority of the server).                                *)
LogIsServers == \A t \in Tabs : view[t].log \subseteq Committed

(* The server applies a dispatch twice only after a POST of it failed on   *)
(* the network: the queue, the retry loop and the drain never send a batch *)
(* again that was answered.                                                *)
TwiceOnlyAfterLoss ==
  \A d \in Dispatches : applied[d] > 1 => d \in lost

Promise == INSTANCE DispatchPromise WITH buffered <- Buffered

(* The queue, the retries, the outbox and the drains implement what the    *)
(* user is promised (DispatchPromise): an outcome is settled once, by what *)
(* the server said, and nothing leaves the outbox that was not answered.   *)
KeepsPromise == Promise!Spec

(* Every dispatch settles, whatever the network does: the retries are      *)
(* bounded and the lock is always given back.                              *)
EveryDispatchSettles ==
  \A d \in Dispatches : outcome[d] = "pending" ~> outcome[d] # "pending"

-----------------------------------------------------------------------------
(***************************************************************************)
(* What the comments say and the code does not keep (see README, Findings). *)
(***************************************************************************)

(* A 422 "rolls back optimistic state": an action that was rejected and    *)
(* never applied is not shown by the tab that dispatched it.               *)
RejectedIsRolledBack ==
  \A d \in Dispatches :
    outcome[d] = "rejected" =>
      d \in Committed \/ d \notin view[origin[d].tab].effects
=============================================================================
