------------------------------ MODULE Realtime ------------------------------
(***************************************************************************)
(* One party, live: POST /sync/actions (apps/server/src/sync/routes.ts),   *)
(* the Socket.IO room of the party (realtime/io.ts) and what a tab makes   *)
(* of it (apps/web/src/sync/applyBroadcast.ts, socket.ts, the pull of      *)
(* reconnect.ts and PartyScopeSync.tsx, the optimistic dispatch and the    *)
(* rollback of the store).                                                 *)
(*                                                                         *)
(* An action is a number, in the order of dispatch.  The state of the      *)
(* party is the sequence of actions it is the result of, on the server in  *)
(* the order of the commits, in a tab in the order of the reductions.  The *)
(* retries and the outbox of the queue are in SyncQueue: a request here is *)
(* answered once.                                                          *)
(***************************************************************************)
EXTENDS Naturals, Sequences, FiniteSets, Functions

CONSTANTS
  Users,      \* the accounts
  Tabs,       \* the open tabs, on whatever device
  Nobody,     \* no tab
  NoState,    \* "null" where a state or a snapshot may be
  Asked,      \* a pull that the server has not answered
  Kinds,      \* inputs: the kinds of action
  MAX_BATCH,  \* the most actions in one POST (100)
  MaxActions, \* bound: actions dispatched
  MaxTurns    \* bound: connections lost, members who join or leave

(***************************************************************************)
(* "clocked": the reducer calls ctx.now() (create-stash, create-shop,      *)
(* start-game-session, dm-transfer and those on members), which throws     *)
(* when a broadcast is re-run.  "plain": the others.                       *)
(***************************************************************************)
AllKinds == {"plain", "clocked"}

ASSUME NobodyAssumption == Nobody \notin Tabs
ASSUME KindsAssumption == Kinds \subseteq AllKinds
ASSUME BoundsAssumption == /\ MAX_BATCH \in Nat \ {0}
                           /\ MaxActions \in Nat
                           /\ MaxTurns \in Nat

Actions == 1..MaxActions
State == [shown : Seq(Actions), log : Seq(Actions)]
ASSUME NoStateAssumption == NoState \notin State

(***************************************************************************)
(* A request that was not answered with 200: "rejected" if the answer has  *)
(* the queue roll back (422, 401, 409), "failed" if not (400, 403, 404,    *)
(* 410, 500).                                                              *)
(***************************************************************************)
Stages == {"none", "sent", "open", "committed", "emitted", "rejected", "failed"}

VARIABLES
  user,     \* tab -> the account it is signed in to
  author,   \* action -> the tab that dispatched it
  kind,     \* action -> its kind
  issued,   \* actions dispatched so far
  members,  \* the users with an active membership
  server,   \* the actions committed, in order
  request,  \* tab -> the POST it has under way
  queue,    \* tab -> the actions not sent yet
  before,   \* tab -> preBatchSnapshot
  view,     \* tab -> the store: the state it shows and its log
  room,     \* the tabs whose socket is in the room of the party
  live,     \* the tabs with a socket
  wire,     \* tab -> the broadcasts on their way to it
  pull,     \* tab -> the GET /sync/state it has under way
  steady,   \* the tabs that nothing has made miss an action since they hydrated
  turns     \* connections lost, members who joined or left

tabVars == <<queue, before, view>>
netVars == <<room, live, wire>>
facts == <<user, author, kind, issued, members>>
vars == <<facts, server, request, tabVars, netVars, pull, steady, turns>>

NoRequest == [stage |-> "none", batch |-> <<>>, rollback |-> NoState]
Request(stage, r) == [stage |-> stage, batch |-> r.batch, rollback |-> r.rollback]

ServerState == [shown |-> server, log |-> server]
Viewing(t) == view[t] # NoState

-----------------------------------------------------------------------------
(* The store of a tab.                                                     *)

Reduced(v, n) == [shown |-> Append(v.shown, n), log |-> v.log]

\* appendServerLogEntries: the entries are appended one by one, but those that
\* the log has by then.
Logged(v, ns) ==
  LET log[i \in 0..Len(ns)] ==
        IF i = 0 THEN v.log
        ELSE IF ns[i] \in Range(log[i - 1]) THEN log[i - 1]
        ELSE Append(log[i - 1], ns[i])
  IN [shown |-> v.shown, log |-> log[Len(ns)]]

\* dispatch: the snapshot of the window is taken, the reducer runs, the action
\* is queued.
Dispatch(t) ==
  /\ issued < MaxActions /\ Viewing(t)
  /\ \E k \in Kinds : kind' = [kind EXCEPT ![issued + 1] = k]
  /\ issued' = issued + 1
  /\ author' = [author EXCEPT ![issued + 1] = t]
  /\ before' = [before EXCEPT ![t] = IF @ = NoState THEN view[t] ELSE @]
  /\ view' = [view EXCEPT ![t] = Reduced(@, issued + 1)]
  /\ queue' = [queue EXCEPT ![t] = Append(@, issued + 1)]
  /\ UNCHANGED <<user, members, server, request, netVars, pull, steady, turns>>

\* One flush at a time; it takes the snapshot with it.
Send(t) ==
  LET n == IF Len(queue[t]) < MAX_BATCH THEN Len(queue[t]) ELSE MAX_BATCH IN
  /\ request[t] = NoRequest /\ queue[t] # <<>>
  /\ request' = [request EXCEPT ![t] =
       [stage |-> "sent", batch |-> SubSeq(queue[t], 1, n), rollback |-> before[t]]]
  /\ queue' = [queue EXCEPT ![t] = SubSeq(@, n + 1, Len(@))]
  /\ before' = [before EXCEPT ![t] = NoState]
  /\ UNCHANGED <<facts, server, view, netVars, pull, steady, turns>>

\* The flight is over; actions that wait for the next one get a snapshot that
\* shows them already.
Landed(t) ==
  /\ request' = [request EXCEPT ![t] = NoRequest]
  /\ before' = [before EXCEPT ![t] = IF queue[t] = <<>> THEN @ ELSE view'[t]]
  /\ UNCHANGED <<facts, server, queue, netVars, pull, turns>>

\* 200: the entries are appended.
Applied(t) ==
  /\ request[t].stage = "emitted"
  /\ view' = [view EXCEPT ![t] = Logged(@, request[t].batch)]
  /\ Landed(t)
  /\ UNCHANGED steady

\* 422, 401 or 409: the store goes back to the snapshot, whatever came in since,
\* and whether or not the snapshot shows the refused actions.  (After a 401 the
\* tab signs out as well: its socket is dropped.)
RolledBack(t) ==
  LET snapshot == request[t].rollback
      batch == Range(request[t].batch) IN
  /\ request[t].stage = "rejected"
  /\ view' = [view EXCEPT ![t] = snapshot]
  /\ Landed(t)
  /\ steady' = IF /\ Range(view[t].shown) = Range(snapshot.shown) \union batch
                  /\ Range(snapshot.shown) \intersect batch = {}
                  /\ Range(view[t].log) = Range(snapshot.log)
                 THEN steady ELSE steady \ {t}

\* Any other answer that is an error: the optimistic change stays.
Kept(t) ==
  /\ request[t].stage = "failed"
  /\ UNCHANGED view
  /\ Landed(t)
  /\ steady' = steady \ {t}

-----------------------------------------------------------------------------
(* POST /sync/actions.                                                     *)

\* emit to the room of the party.
Sent(batch) == wire' = [u \in Tabs |-> IF u \in room THEN wire[u] \o batch ELSE wire[u]]

(* Mutant: the actions are broadcast in the transaction, as they are       *)
(* processed.                                                              *)
OpenAndEmit(t) ==
  /\ request[t].stage = "sent" /\ user[t] \in members
  /\ request' = [request EXCEPT ![t] = Request("open", @)]
  /\ Sent(request[t].batch)
  /\ UNCHANGED <<facts, server, tabVars, room, live, pull, steady, turns>>

\* The actor is resolved, the transaction opened and the state loaded.  Who has
\* no active membership (any more; nobody has one in an archived party) gets a
\* 403, 404 or 410.
Open(t) ==
  /\ request[t].stage = "sent"
  /\ request' = [request EXCEPT ![t] =
       Request(IF user[t] \in members THEN "open" ELSE "failed", @)]
  /\ UNCHANGED <<facts, server, tabVars, netVars, pull, steady, turns>>

\* No session (401) or no display name (409); or, in the transaction, a guard's
\* verdict or an id that is taken (422): nothing of the batch stays.
Refuse(t) ==
  /\ request[t].stage \in {"sent", "open"}
  /\ request' = [request EXCEPT ![t] = Request("rejected", @)]
  /\ UNCHANGED <<facts, server, tabVars, netVars, pull, steady, turns>>

\* A query or the reducer throws, or the time is over (500): nothing of the
\* batch stays either.
Fail(t) ==
  /\ request[t].stage \in {"sent", "open"}
  /\ request' = [request EXCEPT ![t] = Request("failed", @)]
  /\ UNCHANGED <<facts, server, tabVars, netVars, pull, steady, turns>>

\* checkGuard, reduce, applyDelta and the log entries of every action went
\* through; nobody sees any of it before.
Commit(t) ==
  /\ request[t].stage = "open"
  /\ request' = [request EXCEPT ![t] = Request("committed", @)]
  /\ server' = server \o request[t].batch
  /\ UNCHANGED <<facts, tabVars, netVars, pull, steady, turns>>

\* After the commit, to the room as it is now; two requests do so in any order.
Emit(t) ==
  /\ request[t].stage = "committed"
  /\ request' = [request EXCEPT ![t] = Request("emitted", @)]
  /\ Sent(request[t].batch)
  /\ UNCHANGED <<facts, server, tabVars, room, live, pull, steady, turns>>

-----------------------------------------------------------------------------
(* The socket.                                                             *)

\* io.use joins the room of every party the user is a member of by now; on
\* connect the tab pulls what it missed.
Connect(t) ==
  /\ t \notin live
  /\ live' = live \union {t}
  /\ room' = IF user[t] \in members THEN room \union {t} ELSE room
  /\ pull' = [pull EXCEPT ![t] = IF Viewing(t) THEN Asked ELSE @]
  /\ UNCHANGED <<facts, server, request, tabVars, wire, steady, turns>>

(* Mutant: the room keeps the socket.                                      *)
DropInRoom(t) ==
  /\ t \in live /\ turns < MaxTurns
  /\ turns' = turns + 1
  /\ live' = live \ {t}
  /\ wire' = [wire EXCEPT ![t] = <<>>]
  /\ steady' = steady \ {t}
  /\ UNCHANGED <<facts, server, request, tabVars, room, pull>>

\* What is on the wire is gone.
Drop(t) ==
  /\ t \in live /\ turns < MaxTurns
  /\ turns' = turns + 1
  /\ live' = live \ {t}
  /\ room' = room \ {t}
  /\ wire' = [wire EXCEPT ![t] = <<>>]
  /\ steady' = steady \ {t}
  /\ UNCHANGED <<facts, server, request, tabVars, pull>>

Own(t, n) == user[author[n]] = user[t]

(* Mutant: the broadcast of an own action is re-run like any other.        *)
ReceiveRerunning(t) ==
  LET n == Head(wire[t]) IN
  /\ wire[t] # <<>>
  /\ wire' = [wire EXCEPT ![t] = Tail(@)]
  /\ \/ /\ Viewing(t) => n \in Range(view[t].log)
        /\ UNCHANGED <<view, steady>>
     \/ /\ Viewing(t) /\ n \notin Range(view[t].log)
        /\ kind[n] = "plain"
        /\ view' = [view EXCEPT ![t] = Logged(Reduced(@, n), <<n>>)]
        /\ UNCHANGED steady
     \/ /\ Viewing(t) /\ n \notin Range(view[t].log)
        /\ kind[n] = "clocked"
        /\ steady' = steady \ {t}
        /\ UNCHANGED view
  /\ UNCHANGED <<facts, server, request, queue, before, room, live,
                 pull, turns>>

\* The reducer throws on action n if it needs the time, and it may throw on any
\* state but the one the server reduced n on: the tab's has its own actions in
\* it, or those of others in another order.
MayThrow(v, n) ==
  \/ kind[n] = "clocked"
  \/ \A i \in 1..Len(server) : server[i] = n => v.shown # SubSeq(server, 1, i - 1)

\* applyBroadcast.  An entry the log has is dropped; an action of the same user
\* is logged and not reduced; a peer's is reduced and logged, unless the
\* reducer throws.
Receive(t) ==
  LET n == Head(wire[t])
      novel == n \notin Range(view[t].log) IN
  /\ wire[t] # <<>>
  /\ wire' = [wire EXCEPT ![t] = Tail(@)]
  /\ \/ /\ Viewing(t) => ~novel
        /\ UNCHANGED <<view, steady>>
     \/ /\ Viewing(t) /\ novel /\ Own(t, n)
        /\ view' = [view EXCEPT ![t] = Logged(@, <<n>>)]
        /\ steady' = IF author[n] = t THEN steady ELSE steady \ {t}
     \/ /\ Viewing(t) /\ novel /\ ~Own(t, n) /\ kind[n] = "plain"
        /\ view' = [view EXCEPT ![t] = Logged(Reduced(@, n), <<n>>)]
        /\ UNCHANGED steady
     \/ /\ Viewing(t) /\ novel /\ ~Own(t, n) /\ MayThrow(view[t], n)
        /\ steady' = steady \ {t}
        /\ UNCHANGED view
  /\ UNCHANGED <<facts, server, request, queue, before, room, live,
                 pull, turns>>

-----------------------------------------------------------------------------
(* GET /sync/state.                                                        *)

\* PartyScopeSync: the tab opens the party and has no state of it.
OpenParty(t) ==
  /\ ~Viewing(t) /\ pull[t] = NoState
  /\ pull' = [pull EXCEPT ![t] = Asked]
  /\ UNCHANGED <<facts, server, request, tabVars, netVars, steady, turns>>

Answer(t) ==
  /\ pull[t] = Asked
  /\ pull' = [pull EXCEPT ![t] = IF user[t] \in members THEN ServerState ELSE NoState]
  /\ UNCHANGED <<facts, server, request, tabVars, netVars, steady, turns>>

\* Will a broadcast bring the tab whatever the server has and s does not?
Coming(t, s) ==
  \A n \in Range(server) \ Range(s.shown) :
    /\ ~Own(t, n)
    /\ \/ n \in Range(wire[t]) /\ n \notin Range(s.log)
       \/ \E u \in Tabs : request[u].stage = "committed" /\ n \in Range(request[u].batch)

(* Mutant: the state is replaced, the log is kept.                         *)
HydrateState(t) ==
  /\ pull[t] \notin {NoState, Asked}
  /\ view' = [view EXCEPT ![t] = [shown |-> pull[t].shown,
                                  log |-> IF @ = NoState THEN pull[t].log ELSE @.log]]
  /\ pull' = [pull EXCEPT ![t] = NoState]
  /\ steady' = IF t \in room /\ Coming(t, pull[t]) /\ queue[t] = <<>> /\ request[t] = NoRequest
                 THEN steady \union {t} ELSE steady \ {t}
  /\ UNCHANGED <<facts, server, request, queue, before, netVars, turns>>

\* The store is replaced by the state that was pulled.
Hydrate(t) ==
  /\ pull[t] \notin {NoState, Asked}
  /\ view' = [view EXCEPT ![t] = pull[t]]
  /\ pull' = [pull EXCEPT ![t] = NoState]
  /\ steady' = IF t \in room /\ Coming(t, pull[t]) /\ queue[t] = <<>> /\ request[t] = NoRequest
                 THEN steady \union {t} ELSE steady \ {t}
  /\ UNCHANGED <<facts, server, request, queue, before, netVars, turns>>

-----------------------------------------------------------------------------
\* A user joins with the invite code, leaves or is kicked: by routes of their
\* own, which know nothing of the sockets.
Move(u) ==
  /\ turns < MaxTurns
  /\ turns' = turns + 1
  /\ members' = IF u \in members THEN members \ {u} ELSE members \union {u}
  /\ UNCHANGED <<user, author, kind, issued, server, request, tabVars, netVars, pull, steady>>

Init ==
  /\ user \in [Tabs -> Users]
  /\ author = [n \in Actions |-> Nobody]
  /\ kind = [n \in Actions |-> "plain"]
  /\ issued = 0
  /\ members \in SUBSET Users \ {{}}
  /\ server = <<>>
  /\ request = [t \in Tabs |-> NoRequest]
  /\ queue = [t \in Tabs |-> <<>>]
  /\ before = [t \in Tabs |-> NoState]
  /\ view = [t \in Tabs |-> NoState]
  /\ room = {}
  /\ live = {}
  /\ wire = [t \in Tabs |-> <<>>]
  /\ pull = [t \in Tabs |-> NoState]
  /\ steady = {}
  /\ turns = 0

Client(t) ==
  \/ Dispatch(t) \/ Send(t) \/ Applied(t) \/ RolledBack(t) \/ Kept(t)
  \/ OpenParty(t) \/ Hydrate(t) \/ Connect(t) \/ Receive(t)

Server(t) == Open(t) \/ Refuse(t) \/ Fail(t) \/ Commit(t) \/ Emit(t) \/ Answer(t)

Next ==
  \/ \E t \in Tabs : Client(t) \/ Server(t) \/ Drop(t)
  \/ \E u \in Users : Move(u)

Spec == Init /\ [][Next]_vars

-----------------------------------------------------------------------------
(* Properties.                                                             *)

TypeOK ==
  /\ user \in [Tabs -> Users]
  /\ author \in [Actions -> Tabs \union {Nobody}]
  /\ kind \in [Actions -> AllKinds]
  /\ issued \in 0..MaxActions
  /\ members \subseteq Users
  /\ server \in Seq(Actions)
  /\ request \in [Tabs -> [stage : Stages, batch : Seq(Actions),
                           rollback : State \union {NoState}]]
  /\ queue \in [Tabs -> Seq(Actions)] /\ wire \in [Tabs -> Seq(Actions)]
  /\ before \in [Tabs -> State \union {NoState}]
  /\ view \in [Tabs -> State \union {NoState}]
  /\ pull \in [Tabs -> State \union {NoState, Asked}]
  /\ room \subseteq live /\ live \subseteq Tabs /\ steady \subseteq Tabs

Once(s) == \A i, k \in 1..Len(s) : s[i] = s[k] => i = k

\* However the broadcast of an action, the answer to its dispatch, a pull and a
\* rollback follow each other, no tab reduces an action twice (BUG-007) or
\* holds its entry twice (BUG-009).
NothingTwice ==
  \A t \in Tabs : Viewing(t) => Once(view[t].shown) /\ Once(view[t].log)

AtRest(t) ==
  /\ Viewing(t) /\ pull[t] = NoState
  /\ wire[t] = <<>> /\ queue[t] = <<>> /\ request[t] = NoRequest
  /\ \A u \in Tabs : request[u].stage # "committed"

\* A tab that has read its wire and owes nothing shows every action of the
\* server and no other, and has logged it, unless since it hydrated it lost
\* its connection or was not in the room, kept what was answered with an error
\* other than 422, 401 and 409, was rolled back over something that came in
\* since the snapshot or to a snapshot that shows what was refused, met an
\* action on which the reducer threw (it needs the time, or was run on a state
\* that is not the server's), or took the action of another tab of its user for
\* an echo.  (What is shown is compared as a set: two tabs may have reduced the
\* same actions in another order.)
SteadyTabsFollow ==
  \A t \in steady : AtRest(t) =>
    /\ Range(view[t].shown) = Range(server)
    /\ Range(view[t].log) = Range(server)
=============================================================================
