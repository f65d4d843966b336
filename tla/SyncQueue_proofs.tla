------------------------- MODULE SyncQueue_proofs -------------------------
(***************************************************************************)
(* Theorems about SyncQueue, for any number of tabs, parties, dispatches,  *)
(* attempts and any batch size.  They are about Spec, without fairness.    *)
(***************************************************************************)
EXTENDS SyncQueue, FiniteSetTheorems, TLAPS

-----------------------------------------------------------------------------
(***************************************************************************)
(* Typing of the operators the actions are built from.                     *)
(***************************************************************************)

LEMMA EmptyTypes ==
  /\ NoFlight \in Flight
  /\ NoDrain \in Drain
  /\ EmptyView \in View
BY DEF NoFlight, Flight, FlightStages, NoDrain, Draining, Drain, DrainStages,
       EmptyView, View

LEMMA FlightFields ==
  ASSUME NEW f \in Flight
  PROVE  /\ f.ids \in SUBSET Dispatches
         /\ f.snapshot \in View \union {NoSnapshot}
         /\ f.row \in Nat
         /\ f.attempt \in Nat
         /\ f.party \in Parties \union {NoParty}
BY DEF Flight

LEMMA AtType ==
  ASSUME NEW f \in Flight, NEW s \in FlightStages, NEW r \in Nat, NEW n \in Nat
  PROVE  At(f, s, r, n) \in Flight
BY DEF At, Flight

LEMMA DrainFields ==
  ASSUME NEW d \in Drain
  PROVE  /\ d.party \in Parties \union {NoParty}
         /\ d.pulled \in View \union {NoSnapshot}
         /\ d.rows \in SUBSET Row
         /\ d.stage = "hydrate" => d.pulled \in View
BY DEF Drain

LEMMA DrainingType ==
  ASSUME NEW s \in DrainStages, NEW p \in Parties \union {NoParty},
         NEW v \in View \union {NoSnapshot}, NEW rows \in SUBSET Row,
         s = "hydrate" => v \in View
  PROVE  Draining(s, p, v, rows) \in Drain
BY DEF Draining, Drain

LEMMA ShowingType ==
  ASSUME NEW v \in View, NEW ids \in SUBSET Dispatches
  PROVE  Showing(v, ids) \in View /\ Logging(v, ids) \in View
BY DEF Showing, Logging, View

LEMMA ServerStateType ==
  ASSUME NEW p \in Parties \union {NoParty}
  PROVE  ServerState(p) \in View
BY DEF ServerState, Committed, View

LEMMA ProcessType ==
  ASSUME TypeOK, NEW ids \in SUBSET Dispatches, NEW a, Process(ids, a)
  PROVE  applied' \in [Dispatches -> Nat] /\ refused' \in SUBSET Dispatches
BY DEF TypeOK, Process

LEMMA VerdictsType ==
  ASSUME NEW ids
  PROVE  /\ Verdicts(ids) \subseteq AllAnswers
         /\ AllAnswers \subseteq FlightStages
         /\ AllAnswers \subseteq DrainStages
BY AnswersAssumption DEF Verdicts, AllAnswers, FlightStages, DrainStages

LEMMA ResolveType ==
  ASSUME TypeOK, NEW ids, NEW a \in Settled, Resolve(ids, a)
  PROVE  outcome' \in [Dispatches -> Settled \union {"unissued", "pending"}]
BY DEF TypeOK, Resolve

LEMMA RollbackType ==
  ASSUME TypeOK, NEW t \in Tabs, Rollback(t)
  PROVE  /\ view' \in [Tabs -> View]
         /\ pulled' \in [Tabs -> View \union {NoSnapshot}]
<1>1. inflight[t].snapshot \in View \union {NoSnapshot}
  BY FlightFields DEF TypeOK
<1> QED
  BY <1>1 DEF TypeOK, Rollback, ReplaceView

LEMMA FinishType ==
  ASSUME TypeOK, NEW t \in Tabs, Finish(t), view' \in [Tabs -> View]
  PROVE  /\ inflight' \in [Tabs -> Flight]
         /\ lock' \in Tabs \union {Free}
         /\ preBatchSnapshot' \in [Tabs -> View \union {NoSnapshot}]
         /\ timer' \in [Tabs -> BOOLEAN]
<1>1. inflight' \in [Tabs -> Flight] /\ lock' \in Tabs \union {Free}
  BY EmptyTypes DEF TypeOK, Finish
<1>2. CASE queue[t] # {}
  <2>1. preBatchSnapshot' = [preBatchSnapshot EXCEPT ![t] = view'[t]]
    BY <1>2 DEF Finish
  <2>2. timer' = [timer EXCEPT ![t] = TRUE]
    BY <1>2 DEF Finish
  <2>3. preBatchSnapshot' \in [Tabs -> View \union {NoSnapshot}]
    BY <2>1 DEF TypeOK
  <2>4. timer' \in [Tabs -> BOOLEAN]
    BY <2>2 DEF TypeOK
  <2> QED BY <1>1, <2>3, <2>4
<1>3. CASE queue[t] = {}
  BY <1>1, <1>3 DEF TypeOK, Finish
<1> QED BY <1>2, <1>3

LEMMA FlushBodyType ==
  ASSUME TypeOK, NEW t \in Tabs, FlushBody(t)
  PROVE  /\ inflight' \in [Tabs -> Flight]
         /\ queue' \in [Tabs -> SUBSET Dispatches]
         /\ preBatchSnapshot' \in [Tabs -> View \union {NoSnapshot}]
<1>1. PICK first \in queue[t] :
        LET p == origin[first].party
            ids == {d \in FirstBatch(queue[t]) : origin[d].party = p}
        IN /\ inflight' = [inflight EXCEPT ![t] =
                 [stage |-> "lock", party |-> p, ids |-> ids,
                  snapshot |-> preBatchSnapshot[t], row |-> 0, attempt |-> 0]]
           /\ queue' = [queue EXCEPT ![t] = @ \ ids]
           /\ preBatchSnapshot' = [preBatchSnapshot EXCEPT ![t] = NoSnapshot]
  BY DEF FlushBody
<1> DEFINE p == origin[first].party
           ids == {d \in FirstBatch(queue[t]) : origin[d].party = p}
           f == [stage |-> "lock", party |-> p, ids |-> ids,
                 snapshot |-> preBatchSnapshot[t], row |-> 0, attempt |-> 0]
<1>2. ids \in SUBSET Dispatches /\ p \in Parties \union {NoParty}
  BY DEF TypeOK, Origin, FirstBatch
<1>3. f \in Flight
  BY <1>2 DEF TypeOK, Flight, FlightStages
<1> QED
  BY <1>1, <1>3 DEF TypeOK

-----------------------------------------------------------------------------
(***************************************************************************)
(* Every variable keeps its type.                                          *)
(***************************************************************************)
THEOREM TypeCorrect == Spec => []TypeOK
<1> USE DEF clientVars, sharedVars, dispatchVars, serverVars, budgetVars
<1>1. Init => TypeOK
  BY EmptyTypes, OnlineAssumption, BoundsAssumption
  DEF Init, TypeOK, Origin, NoOrigin, AllKinds, Dispatches
<1>2. TypeOK /\ [Next]_vars => TypeOK'
  <2> SUFFICES ASSUME TypeOK, [Next]_vars PROVE TypeOK'
    OBVIOUS
  <2>1. CASE UNCHANGED vars
    BY <2>1 DEF TypeOK, vars
  <2>2. ASSUME NEW v \in OnlineReports, SetOnline(v) PROVE TypeOK'
    BY <2>2, OnlineAssumption DEF TypeOK, SetOnline
  <2>3. ASSUME NEW ids \in late, ServeLate(ids) PROVE TypeOK'
    <3>1. ids \in SUBSET Dispatches
      BY DEF TypeOK
    <3>2. applied' \in [Dispatches -> Nat] /\ refused' \in SUBSET Dispatches
      BY <2>3, <3>1, ProcessType DEF ServeLate
    <3> QED BY <2>3, <3>2 DEF TypeOK, ServeLate
  <2>4. ASSUME NEW t \in Tabs, TabNext(t) PROVE TypeOK'
    <3>0. /\ inflight[t] \in Flight
          /\ drain[t] \in Drain
          /\ AllAnswers \subseteq FlightStages
          /\ AllAnswers \subseteq DrainStages
      BY VerdictsType DEF TypeOK
    <3>1. ASSUME NEW kind \in Kinds, Dispatch(t, kind) PROVE TypeOK'
      <4>1. issued + 1 \in Dispatches /\ issued' \in 0 .. MaxDispatches
        BY <3>1, BoundsAssumption DEF Dispatch, TypeOK, Dispatches
      <4>2. view' \in [Tabs -> View]
        BY <3>1, <4>1, ShowingType DEF Dispatch, TypeOK
      <4>3. origin' \in [Dispatches -> Origin]
        BY <3>1, <4>1, KindsAssumption DEF Dispatch, TypeOK, View, Origin
      <4>4. preBatchSnapshot' \in [Tabs -> View \union {NoSnapshot}]
        BY <3>1 DEF Dispatch, TypeOK, Captured
      <4> QED BY <3>1, <4>1, <4>2, <4>3, <4>4 DEF TypeOK, Dispatch
    <3>2. CASE DispatchVoid(t)
      BY <3>2 DEF TypeOK, DispatchVoid
    <3>3. ASSUME NEW p \in Parties \union {NoParty}, Navigate(t, p) PROVE TypeOK'
      BY <3>3 DEF TypeOK, Navigate
    <3>4. CASE PullState(t)
      <4>1. ServerState(url[t]) \in View
        BY ServerStateType DEF TypeOK
      <4> QED BY <3>4, <4>1 DEF TypeOK, PullState
    <3>5. CASE HydratePulled(t)
      BY <3>5 DEF TypeOK, HydratePulled
    <3>6. CASE SignIn(t)
      BY <3>6 DEF TypeOK, SignIn
    <3>7. CASE TimerFires(t)
      BY <3>7, FlushBodyType DEF TypeOK, TimerFires
    <3>8. CASE FlushNow(t)
      BY <3>8, FlushBodyType DEF TypeOK, FlushNow
    <3>9. CASE LockGranted(t)
      <4>1. inflight' \in [Tabs -> Flight]
        BY <3>0, <3>9, FlightFields, AtType DEF TypeOK, LockGranted, FlightStages
      <4> QED BY <3>9, <4>1 DEF TypeOK, LockGranted
    <3>10. CASE ServeFlush(t)
      <4>1. PICK a \in Verdicts(inflight[t].ids) :
              /\ Process(inflight[t].ids, a)
              /\ inflight' = [inflight EXCEPT ![t] = At(@, a, @.row, @.attempt)]
        BY <3>10 DEF ServeFlush
      <4>2. applied' \in [Dispatches -> Nat] /\ refused' \in SUBSET Dispatches
        BY <3>0, <4>1, FlightFields, ProcessType
      <4>3. inflight' \in [Tabs -> Flight]
        BY <3>0, <4>1, FlightFields, AtType, VerdictsType DEF TypeOK
      <4> QED BY <3>10, <4>2, <4>3 DEF TypeOK, ServeFlush
    <3>11. CASE LoseFlush(t)
      <4>1. inflight' \in [Tabs -> Flight]
        BY <3>0, <3>11, FlightFields, AtType DEF TypeOK, LoseFlush, FlightStages
      <4>2. inflight[t].ids \in SUBSET Dispatches
        BY <3>0, FlightFields
      <4> QED BY <3>11, <4>1, <4>2 DEF TypeOK, LoseFlush
    <3>12. CASE ReceiveApplied(t)
      <4>1. view' \in [Tabs -> View]
        BY <3>0, <3>12, FlightFields, ShowingType DEF TypeOK, ReceiveApplied
      <4>2. outcome' \in [Dispatches -> Settled \union {"unissued", "pending"}]
        BY <3>12, ResolveType DEF ReceiveApplied, Settled, AllAnswers
      <4>3. outbox' \subseteq Row
        BY <3>12 DEF TypeOK, ReceiveApplied, Without
      <4> QED BY <3>12, <4>1, <4>2, <4>3, FinishType DEF TypeOK, ReceiveApplied
    <3>13. CASE ReceiveRejected(t)
      <4>1. /\ view' \in [Tabs -> View]
            /\ pulled' \in [Tabs -> View \union {NoSnapshot}]
        BY <3>13, RollbackType DEF ReceiveRejected
      <4>2. CASE inflight[t].row = 0
        <5>1. outcome' \in [Dispatches -> Settled \union {"unissued", "pending"}]
          BY <3>13, <4>2, ResolveType DEF ReceiveRejected, Settled, AllAnswers
        <5> QED
          BY <3>13, <4>1, <4>2, <5>1, FinishType DEF TypeOK, ReceiveRejected
      <4>3. CASE inflight[t].row # 0
        <5>1. At(inflight[t], "removeRow", inflight[t].row, inflight[t].attempt)
                \in Flight
          BY <3>0, FlightFields, AtType DEF FlightStages
        <5>2. inflight' \in [Tabs -> Flight]
          BY <3>13, <4>3, <5>1 DEF TypeOK, ReceiveRejected
        <5> QED BY <3>13, <4>1, <4>3, <5>2 DEF TypeOK, ReceiveRejected
      <4> QED BY <4>2, <4>3
    <3>14. CASE RejectedRowRemoved(t)
      <4>1. outcome' \in [Dispatches -> Settled \union {"unissued", "pending"}]
        BY <3>14, ResolveType DEF RejectedRowRemoved, Settled, AllAnswers
      <4>2. outbox' \subseteq Row
        BY <3>14 DEF TypeOK, RejectedRowRemoved, Without
      <4>3. view' \in [Tabs -> View]
        BY <3>14 DEF TypeOK, RejectedRowRemoved
      <4> QED
        BY <3>14, <4>1, <4>2, <4>3, FinishType DEF TypeOK, RejectedRowRemoved
    <3>15. CASE ReceiveUnauthenticated(t)
      <4>1. /\ view' \in [Tabs -> View]
            /\ pulled' \in [Tabs -> View \union {NoSnapshot}]
        BY <3>15, RollbackType DEF ReceiveUnauthenticated
      <4>2. outcome' \in [Dispatches -> Settled \union {"unissued", "pending"}]
        BY <3>15, ResolveType DEF ReceiveUnauthenticated, Settled, AllAnswers
      <4>3. inflight' \in [Tabs -> Flight]
        BY <3>15, EmptyTypes, AtType
        DEF TypeOK, ReceiveUnauthenticated, FlightStages
      <4> QED BY <3>15, <4>1, <4>2, <4>3 DEF TypeOK, ReceiveUnauthenticated
    <3>16. CASE SignedOut(t)
      <4>1. view' \in [Tabs -> View]
        BY <3>16 DEF TypeOK, SignedOut
      <4> QED BY <3>16, <4>1, FinishType DEF TypeOK, SignedOut, LeaveScreens
    <3>17. CASE ReceiveNameRequired(t)
      <4>1. view' \in [Tabs -> View]
        BY <3>0, <3>17, FlightFields DEF TypeOK, ReceiveNameRequired
      <4>2. outcome' \in [Dispatches -> Settled \union {"unissued", "pending"}]
        BY <3>17, ResolveType DEF ReceiveNameRequired, Settled, AllAnswers
      <4> QED
        BY <3>17, <4>1, <4>2, FinishType
        DEF TypeOK, ReceiveNameRequired, LeaveScreens
    <3>18. CASE ReceiveError(t)
      <4>1. view' \in [Tabs -> View]
        BY <3>18 DEF TypeOK, ReceiveError
      <4>2. outcome' \in [Dispatches -> Settled \union {"unissued", "pending"}]
        BY <3>18, ResolveType DEF ReceiveError, Settled, AllAnswers
      <4> QED BY <3>18, <4>1, <4>2, FinishType DEF TypeOK, ReceiveError
    <3>19. CASE Park(t)
      <4> DEFINE f == inflight[t]
                 row == IF f.row = 0 THEN nextRow ELSE f.row
      <4>1. row \in Nat /\ row # 0 /\ nextRow' \in Nat \ {0}
        BY <3>0, <3>19, FlightFields DEF TypeOK, Park
      <4>2. outbox' \subseteq Row
        <5>1. CASE f.row = 0
          <6>1. [id |-> row, party |-> f.party, ids |-> f.ids] \in Row
            BY <3>0, <4>1, FlightFields DEF Row
          <6> QED BY <3>19, <5>1, <6>1 DEF TypeOK, Park
        <5> QED BY <3>19, <5>1 DEF TypeOK, Park
      <4>3. view' \in [Tabs -> View]
        BY <3>19 DEF TypeOK, Park
      <4>4. CASE f.attempt + 1 >= MAX_ATTEMPTS
        <5>1. outcome' \in [Dispatches -> Settled \union {"unissued", "pending"}]
          BY <3>19, <4>4, ResolveType DEF Park, Settled
        <5> QED
          BY <3>19, <4>1, <4>2, <4>3, <4>4, <5>1, FinishType DEF TypeOK, Park
      <4>5. CASE ~(f.attempt + 1 >= MAX_ATTEMPTS)
        <5>1. At(f, "backoff", row, f.attempt) \in Flight
          BY <3>0, <4>1, FlightFields, AtType DEF FlightStages
        <5>2. inflight' \in [Tabs -> Flight]
          BY <3>19, <4>5, <5>1 DEF TypeOK, Park
        <5> QED BY <3>19, <4>1, <4>2, <4>3, <4>5, <5>2 DEF TypeOK, Park
      <4> QED BY <4>4, <4>5
    <3>20. CASE Retry(t)
      <4>1. inflight[t].row \in Nat /\ inflight[t].attempt + 1 \in Nat
        BY <3>0, FlightFields
      <4>2. At(inflight[t], "sent", inflight[t].row, inflight[t].attempt + 1)
              \in Flight
        BY <3>0, <4>1, AtType DEF FlightStages
      <4> QED BY <3>20, <4>2 DEF TypeOK, Retry
    <3>21. CASE Connect(t)
      <4>1. Draining("pull", view[t].party, NoSnapshot, {}) \in Drain
        BY DrainingType DEF TypeOK, DrainStages, View
      <4>2. drain' \in [Tabs -> Drain]
        BY <3>21, <4>1 DEF TypeOK, Connect
      <4>3. connects' \in 0 .. MaxConnects
        BY <3>21, BoundsAssumption DEF TypeOK, Connect
      <4> QED BY <3>21, <4>2, <4>3 DEF TypeOK, Connect
    <3>22. CASE DrainPull(t)
      <4> DEFINE p == drain[t].party
      <4>1. p \in Parties \union {NoParty} /\ ServerState(p) \in View
        BY <3>0, DrainFields, ServerStateType
      <4>2. /\ Draining("hydrate", p, ServerState(p), {}) \in Drain
            /\ Draining("list", p, NoSnapshot, {}) \in Drain
        BY <4>1, DrainingType DEF DrainStages
      <4>3. drain' \in [Tabs -> Drain]
        BY <3>22, <4>2 DEF TypeOK, DrainPull
      <4> QED BY <3>22, <4>3 DEF TypeOK, DrainPull
    <3>23. CASE DrainHydrate(t)
      <4>1. drain' \in [Tabs -> Drain]
        BY <3>0, <3>23, DrainFields, DrainingType
        DEF TypeOK, DrainHydrate, DrainStages
      <4>2. drain[t].pulled \in View
        BY <3>0, <3>23, DrainFields DEF DrainHydrate
      <4> QED BY <3>23, <4>1, <4>2 DEF TypeOK, DrainHydrate, ReplaceView
    <3>24. CASE DrainList(t)
      <4>1. drain' \in [Tabs -> Drain]
        BY <3>0, <3>24, DrainFields, DrainingType, EmptyTypes
        DEF TypeOK, DrainList, ReplayFrom, DrainStages
      <4> QED BY <3>24, <4>1 DEF TypeOK, DrainList
    <3>25. CASE ServeDrain(t)
      <4>0. PICK r \in Oldest(drain[t].rows) : \E a \in Verdicts(r.ids) :
              /\ Process(r.ids, a)
              /\ drain' = [drain EXCEPT ![t] =
                             Draining(a, @.party, NoSnapshot, @.rows)]
        BY <3>25 DEF ServeDrain
      <4>1. PICK a \in Verdicts(r.ids) :
              /\ Process(r.ids, a)
              /\ drain' = [drain EXCEPT ![t] =
                             Draining(a, @.party, NoSnapshot, @.rows)]
        BY <4>0
      <4>2. r.ids \in SUBSET Dispatches
        BY <3>0, DrainFields DEF Oldest, Row
      <4>3. applied' \in [Dispatches -> Nat] /\ refused' \in SUBSET Dispatches
        BY <4>1, <4>2, ProcessType
      <4>4. drain' \in [Tabs -> Drain]
        <5>1. a \in DrainStages /\ a # "hydrate"
          BY VerdictsType DEF AllAnswers
        <5>2. Draining(a, drain[t].party, NoSnapshot, drain[t].rows) \in Drain
          BY <3>0, <5>1, DrainFields, DrainingType
        <5> QED BY <4>1, <5>2 DEF TypeOK
      <4> QED BY <3>25, <4>3, <4>4 DEF TypeOK, ServeDrain
    <3>26. CASE LoseDrain(t)
      <4>1. drain' \in [Tabs -> Drain]
        BY <3>26, EmptyTypes DEF TypeOK, LoseDrain
      <4>2. \A r \in Oldest(drain[t].rows) : r.ids \in SUBSET Dispatches
        BY <3>0, DrainFields DEF Oldest, Row
      <4> QED BY <3>26, <4>1, <4>2 DEF TypeOK, LoseDrain
    <3>27. CASE DrainApplied(t)
      <4>1. PICK r \in Oldest(drain[t].rows) :
              /\ outbox' = Without(r.id)
              /\ view' = [view EXCEPT ![t] = Logging(@, r.ids)]
              /\ ReplayFrom(t, drain[t].rows \ {r})
        BY <3>27 DEF DrainApplied
      <4>2. r.ids \in SUBSET Dispatches
        BY <3>0, DrainFields DEF Oldest, Row
      <4>3. view' \in [Tabs -> View]
        BY <4>1, <4>2, ShowingType DEF TypeOK
      <4>4. drain' \in [Tabs -> Drain]
        BY <3>0, <4>1, DrainFields, DrainingType, EmptyTypes
        DEF TypeOK, ReplayFrom, DrainStages
      <4> QED BY <3>27, <4>1, <4>3, <4>4 DEF TypeOK, DrainApplied, Without
    <3>28. CASE DrainFails(t)
      <4>1. drain' \in [Tabs -> Drain]
        BY <3>28, EmptyTypes DEF TypeOK, DrainFails
      <4> QED BY <3>28, <4>1 DEF TypeOK, DrainFails, Without
    <3>29. CASE Close(t)
      <4>1. /\ drain' \in [Tabs -> Drain]
            /\ inflight' \in [Tabs -> Flight]
            /\ view' \in [Tabs -> View]
        BY <3>29, EmptyTypes DEF TypeOK, Close
      <4>2. outcome' \in [Dispatches -> Settled \union {"unissued", "pending"}]
        BY <3>29, ResolveType DEF Close, Settled
      <4>3. late' \subseteq SUBSET Dispatches
        <5>1. \A r \in Oldest(drain[t].rows) : r.ids \in SUBSET Dispatches
          BY <3>0, DrainFields DEF Oldest, Row
        <5>2. inflight[t].ids \in SUBSET Dispatches
          BY <3>0, FlightFields
        <5> QED BY <3>29, <5>1, <5>2 DEF TypeOK, Close
      <4>4. /\ timer' \in [Tabs -> BOOLEAN]
            /\ closes' \in 0 .. MaxCloses
        BY <3>29, BoundsAssumption DEF TypeOK, Close
      <4> QED BY <3>29, <4>1, <4>2, <4>3, <4>4 DEF TypeOK, Close
    <3> QED
      BY <2>4, <3>1, <3>2, <3>3, <3>4, <3>5, <3>6, <3>7, <3>8, <3>9, <3>10, <3>11,
         <3>12, <3>13, <3>14, <3>15, <3>16, <3>17, <3>18, <3>19, <3>20, <3>21,
         <3>22, <3>23, <3>24, <3>25, <3>26, <3>27, <3>28, <3>29 DEF TabNext
  <2> QED BY <2>1, <2>2, <2>3, <2>4 DEF Next
<1> QED BY <1>1, <1>2, PTL DEF Spec

-----------------------------------------------------------------------------
(***************************************************************************)
(* The queue of a tab.  What a tab carries is pending and its own, what is *)
(* queued is not in flight, and a batch that is over carries nothing; with *)
(* that PendingIsCarried and PartyOrderKept are inductive.                 *)
(***************************************************************************)
Carried(t) == queue[t] \union inflight[t].ids

CarriedIsPending ==
  \A t \in Tabs : \A d \in Carried(t) :
    origin[d].tab = t /\ outcome[d] = "pending" /\ d <= issued

QueuedIsNotInFlight == \A t \in Tabs : queue[t] \cap inflight[t].ids = {}

Over == {"idle", "signOut"}

OverCarriesNothing ==
  \A t \in Tabs : inflight[t].stage \in Over => inflight[t].ids = {}

QueueInv == /\ CarriedIsPending
            /\ PendingIsCarried
            /\ QueuedIsNotInFlight
            /\ OverCarriesNothing
            /\ PartyOrderKept

(* A batch that moves on without settling keeps the invariant.             *)
LEMMA QueueKept ==
  ASSUME QueueInv, UNCHANGED <<queue, issued, origin, outcome>>,
         \A u \in Tabs : /\ inflight'[u].ids = inflight[u].ids
                         /\ inflight'[u].stage \in Over => inflight[u].stage \in Over
  PROVE  QueueInv'
<1>1. \A u \in Tabs : Carried(u)' = Carried(u)
  BY DEF Carried
<1>2. CarriedIsPending'
  BY <1>1 DEF QueueInv, CarriedIsPending
<1>3. PendingIsCarried'
  BY DEF QueueInv, PendingIsCarried
<1>4. QueuedIsNotInFlight' /\ OverCarriesNothing' /\ PartyOrderKept'
  BY DEF QueueInv, QueuedIsNotInFlight, OverCarriesNothing, PartyOrderKept
<1> QED BY <1>2, <1>3, <1>4 DEF QueueInv

(* So does a batch that settles and ends, with or without the queue.       *)
LEMMA QueueSettled ==
  ASSUME TypeOK, QueueInv, NEW t \in Tabs, NEW result \in Settled, NEW g,
         NEW left \in SUBSET queue[t],
         Resolve((queue[t] \ left) \union inflight[t].ids, result),
         inflight' = [inflight EXCEPT ![t] = g], g.ids = {},
         queue' = [queue EXCEPT ![t] = left],
         UNCHANGED <<issued, origin>>
  PROVE  QueueInv'
<1> DEFINE gone == (queue[t] \ left) \union inflight[t].ids
<1>0. inflight[t].ids \subseteq Dispatches /\ queue[t] \subseteq Dispatches
  BY FlightFields DEF TypeOK
<1>1. /\ \A u \in Tabs : u # t => Carried(u)' = Carried(u)
      /\ Carried(t)' = left
      /\ Carried(t) = gone \union left
      /\ gone \cap left = {}
  BY DEF TypeOK, Carried, QueueInv, QueuedIsNotInFlight
<1>2. \A d \in Dispatches : outcome'[d] = IF d \in gone THEN result ELSE outcome[d]
  BY DEF Resolve
<1>3. result # "pending"
  BY DEF Settled, AllAnswers
<1>4. \A u \in Tabs : Carried(u) \subseteq Dispatches
  BY FlightFields DEF TypeOK, Carried
<1>5. \A u \in Tabs : \A d \in Carried(u) : u # t => d \notin gone
  BY <1>1 DEF QueueInv, CarriedIsPending
<1>6. CarriedIsPending'
  <2> SUFFICES ASSUME NEW u \in Tabs, NEW d \in Carried(u)'
               PROVE  origin'[d].tab = u /\ outcome'[d] = "pending" /\ d <= issued'
    BY DEF CarriedIsPending
  <2>1. d \in Carried(u) /\ d \notin gone
    BY <1>1, <1>5
  <2> QED BY <1>2, <1>4, <2>1 DEF QueueInv, CarriedIsPending
<1>7. PendingIsCarried'
  <2> SUFFICES ASSUME NEW d \in Dispatches
               PROVE  outcome'[d] = "pending" <=>
                        /\ origin'[d].tab \in Tabs
                        /\ d \in queue'[origin'[d].tab]
                                 \union inflight'[origin'[d].tab].ids
    BY DEF PendingIsCarried
  <2>1. outcome[d] = "pending" <=>
          origin[d].tab \in Tabs /\ d \in Carried(origin[d].tab)
    BY DEF QueueInv, PendingIsCarried, Carried
  <2>2. outcome'[d] = "pending" <=>
          origin[d].tab \in Tabs /\ d \in Carried(origin[d].tab)'
    BY <1>1, <1>2, <1>3, <1>5, <2>1
  <2> QED BY <2>2 DEF Carried
<1>8. QueuedIsNotInFlight' /\ OverCarriesNothing' /\ PartyOrderKept'
  BY DEF TypeOK, QueueInv, QueuedIsNotInFlight, OverCarriesNothing, PartyOrderKept
<1> QED BY <1>6, <1>7, <1>8 DEF QueueInv

LEMMA FlightSettled ==
  ASSUME TypeOK, QueueInv, NEW t \in Tabs, NEW result \in Settled,
         Resolve(inflight[t].ids, result), Finish(t),
         UNCHANGED <<queue, issued, origin>>
  PROVE  QueueInv'
<1>1. /\ Resolve((queue[t] \ queue[t]) \union inflight[t].ids, result)
      /\ inflight' = [inflight EXCEPT ![t] = NoFlight]
      /\ queue' = [queue EXCEPT ![t] = queue[t]]
  BY DEF TypeOK, Finish
<1>2. NoFlight.ids = {} /\ queue[t] \in SUBSET queue[t]
  BY DEF NoFlight
<1> QED BY <1>1, <1>2, QueueSettled

(* The first batch is a prefix of the queue.                               *)
LEMMA FirstBatchIsPrefix ==
  ASSUME NEW q \in SUBSET Dispatches, NEW d \in FirstBatch(q),
         NEW e \in q, e \notin FirstBatch(q)
  PROVE  d < e
<1> DEFINE UpTo(x) == {y \in q : y <= x}
<1>1. d \in Nat /\ e \in Nat
  BY BoundsAssumption DEF Dispatches, FirstBatch
<1>2. SUFFICES ASSUME e <= d PROVE FALSE
  BY <1>1
<1>3. IsFiniteSet(Dispatches)
  BY FS_Interval, BoundsAssumption DEF Dispatches
<1>4. IsFiniteSet(UpTo(d)) /\ IsFiniteSet(UpTo(e))
  BY <1>3, FS_Subset
<1>5. UpTo(e) \subseteq UpTo(d)
  <2>1. q \subseteq Nat
    BY BoundsAssumption DEF Dispatches
  <2>2. ASSUME NEW y \in q, y <= e PROVE y <= d
    BY <1>1, <1>2, <2>1, <2>2
  <2> QED BY <2>2
<1>6. Cardinality(UpTo(e)) <= Cardinality(UpTo(d))
  BY <1>4, <1>5, FS_Subset
<1>7. Cardinality(UpTo(d)) <= MAX_BATCH /\ ~(Cardinality(UpTo(e)) <= MAX_BATCH)
  BY DEF FirstBatch
<1>8. Cardinality(UpTo(d)) \in Nat /\ Cardinality(UpTo(e)) \in Nat
  BY <1>4, FS_CardinalityType
<1> QED BY <1>6, <1>7, <1>8, BoundsAssumption

(* A flush moves a prefix of one party's items out of the queue.           *)
LEMMA QueueFlushed ==
  ASSUME TypeOK, QueueInv, NEW t \in Tabs, inflight[t].stage = "idle",
         FlushBody(t), UNCHANGED <<issued, origin, outcome>>
  PROVE  QueueInv'
<1>1. PICK first \in queue[t] :
        LET p == origin[first].party
            ids == {d \in FirstBatch(queue[t]) : origin[d].party = p}
        IN /\ inflight' = [inflight EXCEPT ![t] =
                 [stage |-> "lock", party |-> p, ids |-> ids,
                  snapshot |-> preBatchSnapshot[t], row |-> 0, attempt |-> 0]]
           /\ queue' = [queue EXCEPT ![t] = @ \ ids]
  BY DEF FlushBody
<1> DEFINE p == origin[first].party
           ids == {d \in FirstBatch(queue[t]) : origin[d].party = p}
<1>2. queue[t] \in SUBSET Dispatches /\ ids \subseteq queue[t]
  BY DEF TypeOK, FirstBatch
<1>3. inflight[t].ids = {}
  BY DEF QueueInv, OverCarriesNothing, Over
<1>4. /\ queue'[t] = queue[t] \ ids /\ inflight'[t].ids = ids
      /\ inflight'[t].stage = "lock"
      /\ \A u \in Tabs : u # t => queue'[u] = queue[u] /\ inflight'[u] = inflight[u]
  BY <1>1 DEF TypeOK
<1>5. \A u \in Tabs : Carried(u)' = Carried(u)
  BY <1>2, <1>3, <1>4 DEF Carried
<1>6. CarriedIsPending' /\ PendingIsCarried'
  BY <1>5 DEF QueueInv, CarriedIsPending, PendingIsCarried, Carried
<1>7. QueuedIsNotInFlight' /\ OverCarriesNothing'
  BY <1>4 DEF QueueInv, QueuedIsNotInFlight, OverCarriesNothing, Over
<1>8. PartyOrderKept'
  <2> SUFFICES ASSUME NEW u \in Tabs, NEW d \in inflight'[u].ids, NEW e \in queue'[u],
                      origin[d].party = origin[e].party
               PROVE  d < e
    BY DEF PartyOrderKept
  <2>1. CASE u # t
    BY <1>4, <2>1 DEF QueueInv, PartyOrderKept
  <2>2. CASE u = t
    <3>1. d \in FirstBatch(queue[t]) /\ e \in queue[t] /\ e \notin FirstBatch(queue[t])
      BY <1>4, <2>2
    <3> QED BY <1>2, <3>1, FirstBatchIsPrefix
  <2> QED BY <2>1, <2>2
<1> QED BY <1>6, <1>7, <1>8 DEF QueueInv

(* A new dispatch joins the tail of the queue of the tab that made it.     *)
LEMMA QueueDispatched ==
  ASSUME TypeOK, QueueInv, NEW t \in Tabs, NEW kind, Dispatch(t, kind)
  PROVE  QueueInv'
<1> DEFINE n == issued + 1
<1>1. n \in Dispatches /\ issued \in Nat /\ issued' = n
  BY BoundsAssumption DEF Dispatch, TypeOK, Dispatches
<1>2. /\ origin'[n].tab = t /\ outcome'[n] = "pending"
      /\ \A d \in Dispatches : d # n => origin'[d] = origin[d] /\ outcome'[d] = outcome[d]
  BY <1>1 DEF Dispatch, TypeOK
<1>3. /\ queue'[t] = queue[t] \union {n}
      /\ \A u \in Tabs : u # t => queue'[u] = queue[u]
      /\ inflight' = inflight
  BY DEF Dispatch, TypeOK
<1>4. \A u \in Tabs : Carried(u) \subseteq Dispatches /\ n \notin Carried(u)
  BY <1>1, FlightFields DEF TypeOK, Carried, QueueInv, CarriedIsPending
<1>5. /\ Carried(t)' = Carried(t) \union {n}
      /\ \A u \in Tabs : u # t => Carried(u)' = Carried(u)
  BY <1>3 DEF Carried
<1>6. CarriedIsPending'
  <2> SUFFICES ASSUME NEW u \in Tabs, NEW d \in Carried(u)'
               PROVE  origin'[d].tab = u /\ outcome'[d] = "pending" /\ d <= issued'
    BY DEF CarriedIsPending
  <2>1. CASE d = n
    BY <1>1, <1>2, <1>4, <1>5, <2>1
  <2>2. CASE d # n
    <3>1. d \in Carried(u) /\ d \in Dispatches
      BY <1>4, <1>5, <2>2
    <3>2. origin[d].tab = u /\ outcome[d] = "pending" /\ d <= issued /\ d \in Nat
      BY <3>1, BoundsAssumption DEF QueueInv, CarriedIsPending, Dispatches
    <3> QED BY <1>1, <1>2, <2>2, <3>1, <3>2
  <2> QED BY <2>1, <2>2
<1>7. PendingIsCarried'
  <2> SUFFICES ASSUME NEW d \in Dispatches
               PROVE  outcome'[d] = "pending" <=>
                        /\ origin'[d].tab \in Tabs
                        /\ d \in queue'[origin'[d].tab]
                                 \union inflight'[origin'[d].tab].ids
    BY DEF PendingIsCarried
  <2>1. CASE d = n
    BY <1>2, <1>3, <2>1
  <2>2. CASE d # n
    <3>1. outcome[d] = "pending" <=>
            /\ origin[d].tab \in Tabs
            /\ d \in queue[origin[d].tab] \union inflight[origin[d].tab].ids
      BY DEF QueueInv, PendingIsCarried
    <3> QED BY <1>2, <1>3, <2>2, <3>1
  <2> QED BY <2>1, <2>2
<1>8. QueuedIsNotInFlight' /\ OverCarriesNothing'
  BY <1>3, <1>4 DEF QueueInv, QueuedIsNotInFlight, OverCarriesNothing, Carried
<1>9. PartyOrderKept'
  <2> SUFFICES ASSUME NEW u \in Tabs, NEW d \in inflight'[u].ids, NEW e \in queue'[u],
                      origin'[d].party = origin'[e].party
               PROVE  d < e
    BY DEF PartyOrderKept
  <2>1. d \in Carried(u) /\ d \in Dispatches /\ d # n /\ d <= issued /\ d \in Nat
    BY <1>3, <1>4, BoundsAssumption DEF Carried, QueueInv, CarriedIsPending, Dispatches
  <2>2. CASE e = n
    BY <1>1, <2>1, <2>2
  <2>3. CASE e # n
    <3>1. e \in queue[u] /\ e \in Dispatches
      BY <1>3, <2>3 DEF TypeOK
    <3> QED BY <1>2, <1>3, <2>1, <2>3, <3>1 DEF QueueInv, PartyOrderKept
  <2> QED BY <2>2, <2>3
<1> QED BY <1>6, <1>7, <1>8, <1>9 DEF QueueInv

-----------------------------------------------------------------------------
(***************************************************************************)
(* The queue invariant of every reachable state.                           *)
(***************************************************************************)
LEMMA QueueInductive == TypeOK /\ QueueInv /\ [Next]_vars => QueueInv'
<1> USE DEF clientVars, sharedVars, dispatchVars, serverVars, budgetVars
<1> SUFFICES ASSUME TypeOK, QueueInv, [Next]_vars PROVE QueueInv'
  OBVIOUS
<1>1. CASE UNCHANGED vars
  BY <1>1, QueueKept DEF vars
<1>2. ASSUME NEW v \in OnlineReports, SetOnline(v) PROVE QueueInv'
  BY <1>2, QueueKept DEF SetOnline
<1>3. ASSUME NEW ids \in late, ServeLate(ids) PROVE QueueInv'
  BY <1>3, QueueKept DEF ServeLate
<1>4. ASSUME NEW t \in Tabs, TabNext(t) PROVE QueueInv'
  <2>0. /\ inflight[t] \in Flight /\ inflight \in [Tabs -> Flight]
        /\ NoFlight.ids = {} /\ NoFlight.stage = "idle"
    BY DEF TypeOK, NoFlight
  <2>1. ASSUME NEW kind \in Kinds, Dispatch(t, kind) PROVE QueueInv'
    BY <2>1, QueueDispatched
  <2>3. ASSUME NEW p \in Parties \union {NoParty}, Navigate(t, p) PROVE QueueInv'
    BY <2>3, QueueKept DEF Navigate
  <2>4. CASE DispatchVoid(t)
    BY <2>4, QueueKept DEF DispatchVoid
  <2>5. CASE PullState(t)
    BY <2>5, QueueKept DEF PullState
  <2>6. CASE HydratePulled(t)
    BY <2>6, QueueKept DEF HydratePulled
  <2>7. CASE SignIn(t)
    BY <2>7, QueueKept DEF SignIn
  <2>8. CASE Connect(t)
    BY <2>8, QueueKept DEF Connect
  <2>9. CASE DrainPull(t)
    BY <2>9, QueueKept DEF DrainPull
  <2>10. CASE DrainHydrate(t)
    BY <2>10, QueueKept DEF DrainHydrate
  <2>11. CASE DrainList(t)
    BY <2>11, QueueKept DEF DrainList
  <2>12. CASE ServeDrain(t)
    BY <2>12, QueueKept DEF ServeDrain
  <2>13. CASE LoseDrain(t)
    BY <2>13, QueueKept DEF LoseDrain
  <2>14. CASE DrainApplied(t)
    BY <2>14, QueueKept DEF DrainApplied
  <2>15. CASE DrainFails(t)
    BY <2>15, QueueKept DEF DrainFails
  <2>16. CASE TimerFires(t)
    <3>1. CASE CanFlush(t)
      BY <2>16, <3>1, QueueFlushed DEF TimerFires, CanFlush
    <3>2. CASE ~CanFlush(t)
      BY <2>16, <3>2, QueueKept DEF TimerFires
    <3> QED BY <3>1, <3>2
  <2>17. CASE FlushNow(t)
    BY <2>17, QueueFlushed DEF FlushNow, CanFlush
  <2>18. CASE LockGranted(t)
    BY <2>0, <2>18, QueueKept DEF LockGranted, At, Over
  <2>19. CASE LoseFlush(t)
    BY <2>0, <2>19, QueueKept DEF LoseFlush, At, Over
  <2>20. CASE Retry(t)
    BY <2>0, <2>20, QueueKept DEF Retry, At, Over
  <2>21. CASE ServeFlush(t)
    <3>1. PICK a \in Verdicts(inflight[t].ids) :
            inflight' = [inflight EXCEPT ![t] = At(@, a, @.row, @.attempt)]
      BY <2>21 DEF ServeFlush
    <3>2. a \notin Over
      BY VerdictsType DEF AllAnswers, Over
    <3> QED BY <2>0, <2>21, <3>1, <3>2, QueueKept DEF ServeFlush, At
  <2>22. CASE ReceiveApplied(t)
    BY <2>22, FlightSettled DEF ReceiveApplied, Settled, AllAnswers
  <2>23. CASE RejectedRowRemoved(t)
    BY <2>23, FlightSettled DEF RejectedRowRemoved, Settled, AllAnswers
  <2>24. CASE ReceiveNameRequired(t)
    BY <2>24, FlightSettled DEF ReceiveNameRequired, Settled, AllAnswers
  <2>25. CASE ReceiveError(t)
    BY <2>25, FlightSettled DEF ReceiveError, Settled, AllAnswers
  <2>26. CASE ReceiveRejected(t)
    <3>1. CASE inflight[t].row = 0
      BY <2>26, <3>1, FlightSettled DEF ReceiveRejected, Settled, AllAnswers
    <3>2. CASE inflight[t].row # 0
      BY <2>0, <2>26, <3>2, QueueKept DEF ReceiveRejected, At, Over
    <3> QED BY <3>1, <3>2
  <2>27. CASE ReceiveUnauthenticated(t)
    <3> DEFINE g == At(NoFlight, "signOut", 0, 0)
    <3>1. /\ Resolve((queue[t] \ queue[t]) \union inflight[t].ids, "unauthenticated")
          /\ inflight' = [inflight EXCEPT ![t] = g]
          /\ queue' = [queue EXCEPT ![t] = queue[t]]
          /\ UNCHANGED <<issued, origin>>
      BY <2>27 DEF TypeOK, ReceiveUnauthenticated
    <3>2. g.ids = {}
      BY <2>0 DEF At
    <3> HIDE DEF g
    <3> QED BY <3>1, <3>2, QueueSettled DEF Settled, AllAnswers
  <2>28. CASE SignedOut(t)
    <3>1. inflight[t].ids = {} /\ inflight[t].stage \in Over
      BY <2>28 DEF SignedOut, QueueInv, OverCarriesNothing, Over
    <3>2. /\ inflight' = [inflight EXCEPT ![t] = NoFlight]
          /\ UNCHANGED <<queue, issued, origin, outcome>>
      BY <2>28 DEF SignedOut, Finish
    <3> QED BY <2>0, <3>1, <3>2, QueueKept
  <2>29. CASE Park(t)
    <3> DEFINE f == inflight[t]
    <3>1. CASE f.attempt + 1 >= MAX_ATTEMPTS
      BY <2>29, <3>1, FlightSettled DEF Park, Settled
    <3>2. CASE ~(f.attempt + 1 >= MAX_ATTEMPTS)
      <4>1. PICK row : inflight' = [inflight EXCEPT ![t] = At(f, "backoff", row, f.attempt)]
        BY <2>29, <3>2 DEF Park
      <4>2. UNCHANGED <<queue, issued, origin, outcome>>
        BY <2>29, <3>2 DEF Park
      <4> QED BY <2>0, <4>1, <4>2, QueueKept DEF At, Over
    <3> QED BY <3>1, <3>2
  <2>30. CASE Close(t)
    <3>1. /\ Resolve((queue[t] \ {}) \union inflight[t].ids, "closed")
          /\ inflight' = [inflight EXCEPT ![t] = NoFlight]
          /\ queue' = [queue EXCEPT ![t] = {}]
          /\ UNCHANGED <<issued, origin>>
      BY <2>30 DEF TypeOK, Close, Resolve
    <3> QED BY <2>0, <3>1, QueueSettled DEF Settled
  <2> QED
    BY <1>4, <2>1, <2>3, <2>4, <2>5, <2>6, <2>7, <2>8, <2>9, <2>10, <2>11,
       <2>12, <2>13, <2>14, <2>15, <2>16, <2>17, <2>18, <2>19, <2>20, <2>21,
       <2>22, <2>23, <2>24, <2>25, <2>26, <2>27, <2>28, <2>29, <2>30 DEF
       TabNext
<1> QED BY <1>1, <1>2, <1>3, <1>4 DEF Next

(* Over any number of tabs, parties and dispatches, whatever the batch     *)
(* size: the promise of a dispatch is open exactly while its tab carries   *)
(* the action (queue.ts, "every terminal path MUST resolve").              *)
THEOREM PendingCarried == Spec => []PendingIsCarried
<1>1. Init => QueueInv
  BY DEF Init, QueueInv, CarriedIsPending, Carried, PendingIsCarried, NoFlight,
       QueuedIsNotInFlight, OverCarriesNothing, PartyOrderKept
<1>2. QueueInv => PendingIsCarried
  BY DEF QueueInv
<1> QED BY <1>1, <1>2, QueueInductive, TypeCorrect, PTL DEF Spec

(* The actions of one party leave each tab in dispatch order, for every    *)
(* mix of parties in the queue and every MAX_BATCH.                        *)
THEOREM PartyOrder == Spec => []PartyOrderKept
<1>1. Init => QueueInv
  BY DEF Init, QueueInv, CarriedIsPending, Carried, PendingIsCarried, NoFlight,
       QueuedIsNotInFlight, OverCarriesNothing, PartyOrderKept
<1>2. QueueInv => PartyOrderKept
  BY DEF QueueInv
<1> QED BY <1>1, <1>2, QueueInductive, TypeCorrect, PTL DEF Spec

-----------------------------------------------------------------------------
(***************************************************************************)
(* What the tabs believe of the server: the outcomes the dispatch promises *)
(* settle with, the log of the store and the rows of the outbox.           *)
(***************************************************************************)
(***************************************************************************)
(* What the server has applied or refused stays so.                        *)
(***************************************************************************)
ServerGrows == /\ Committed \subseteq Committed'
               /\ refused \subseteq refused'

LEMMA ProcessGrows ==
  ASSUME TypeOK, NEW ids \in SUBSET Dispatches, NEW a, Process(ids, a)
  PROVE  /\ ServerGrows
         /\ a = "ok" => ids \subseteq Committed'
         /\ a = "rejected" => ids \subseteq refused'
<1>1. refused \subseteq refused' /\ (a = "rejected" => ids \subseteq refused')
  BY DEF Process
<1>2. \A d \in Dispatches : /\ applied[d] > 0 => applied'[d] > 0
                            /\ a = "ok" /\ d \in ids => applied'[d] > 0
  BY DEF TypeOK, Process
<1> QED BY <1>1, <1>2 DEF ServerGrows, Committed

LEMMA ServerStep == TypeOK /\ [Next]_vars => ServerGrows
<1> USE DEF clientVars, sharedVars, dispatchVars, serverVars, budgetVars
<1> SUFFICES ASSUME TypeOK, [Next]_vars PROVE ServerGrows
  OBVIOUS
<1>0. ASSUME UNCHANGED <<applied, refused>> PROVE ServerGrows
  BY <1>0 DEF ServerGrows, Committed
<1>1. CASE UNCHANGED vars
  BY <1>0, <1>1 DEF vars
<1>2. ASSUME NEW v \in OnlineReports, SetOnline(v) PROVE ServerGrows
  BY <1>0, <1>2 DEF SetOnline
<1>3. ASSUME NEW ids \in late, ServeLate(ids) PROVE ServerGrows
  BY <1>3, ProcessGrows DEF ServeLate, TypeOK
<1>4. ASSUME NEW t \in Tabs, TabNext(t) PROVE ServerGrows
  <2>1. CASE ServeFlush(t)
    <3>1. inflight[t].ids \in SUBSET Dispatches
      BY FlightFields DEF TypeOK
    <3> QED BY <2>1, <3>1, ProcessGrows DEF ServeFlush
  <2>2. CASE ServeDrain(t)
    <3>1. PICK r \in Oldest(drain[t].rows) : \E a \in Verdicts(r.ids) : Process(r.ids, a)
      BY <2>2 DEF ServeDrain
    <3>2. r.ids \in SUBSET Dispatches
      BY DrainFields DEF TypeOK, Oldest, Row
    <3> QED BY <3>1, <3>2, ProcessGrows
  <2>3. CASE ~ServeFlush(t) /\ ~ServeDrain(t)
    <3>1. UNCHANGED <<applied, refused>>
      BY <1>4, <2>3
      DEF TabNext, Dispatch, DispatchVoid, Navigate, PullState, HydratePulled,
          SignIn, TimerFires, FlushNow, LockGranted, LoseFlush, ReceiveApplied,
          ReceiveRejected, RejectedRowRemoved, ReceiveUnauthenticated, SignedOut,
          ReceiveNameRequired, ReceiveError, Park, Retry, Connect, DrainPull,
          DrainHydrate, DrainList, LoseDrain, DrainApplied, DrainFails, Close
    <3> QED BY <1>0, <3>1
  <2> QED BY <2>1, <2>2, <2>3
<1> QED BY <1>1, <1>2, <1>3, <1>4 DEF Next

-----------------------------------------------------------------------------
(***************************************************************************)
(* A batch whose answer is known, and the outcomes.                        *)
(***************************************************************************)
Believes(stage, ids) ==
  /\ stage = "ok" => ids \subseteq Committed
  /\ stage \in {"rejected", "removeRow"} => ids \subseteq refused

Claims == {"ok", "rejected", "removeRow"}

AnswerInv == /\ \A t \in Tabs : Believes(inflight[t].stage, inflight[t].ids)
             /\ OutcomeIsServers

(* A step that claims nothing new.                                         *)
LEMMA AnswerKept ==
  ASSUME AnswerInv, ServerGrows,
         \A u \in Tabs : \/ inflight'[u].stage \notin Claims
                         \/ /\ inflight'[u].stage = inflight[u].stage
                            /\ inflight'[u].ids = inflight[u].ids,
         \A d \in Dispatches : outcome'[d] \in {"ok", "rejected"} =>
                                 outcome'[d] = outcome[d]
  PROVE  AnswerInv'
BY DEF AnswerInv, ServerGrows, Believes, Claims, OutcomeIsServers

(* A batch that settles with what it believes.                             *)
LEMMA AnswerSettled ==
  ASSUME AnswerInv, ServerGrows, NEW t \in Tabs, NEW result,
         Resolve(inflight[t].ids, result),
         result = "ok" => inflight[t].ids \subseteq Committed,
         result = "rejected" => inflight[t].ids \subseteq refused,
         \A u \in Tabs : \/ inflight'[u].stage \notin Claims
                         \/ inflight'[u] = inflight[u]
  PROVE  AnswerInv'
<1>1. OutcomeIsServers'
  BY DEF Resolve, AnswerInv, ServerGrows, OutcomeIsServers
<1>2. \A u \in Tabs : Believes(inflight[u].stage, inflight[u].ids)'
  BY DEF AnswerInv, ServerGrows, Believes, Claims
<1> QED BY <1>1, <1>2 DEF AnswerInv

LEMMA AnswerInductive == TypeOK /\ AnswerInv /\ [Next]_vars => AnswerInv'
<1> USE DEF clientVars, sharedVars, dispatchVars, serverVars, budgetVars
<1> SUFFICES ASSUME TypeOK, AnswerInv, [Next]_vars PROVE AnswerInv'
  OBVIOUS
<1>0. ServerGrows /\ NoFlight.stage = "idle"
  BY ServerStep DEF NoFlight
<1>1. CASE UNCHANGED <<inflight, outcome>>
  BY <1>0, <1>1, AnswerKept
<1>2. ASSUME NEW t \in Tabs, TabNext(t), ~UNCHANGED <<inflight, outcome>>
      PROVE  AnswerInv'
  <2>0. inflight \in [Tabs -> Flight] /\ inflight[t].ids \in SUBSET Dispatches
    BY FlightFields DEF TypeOK
  <2>1. ASSUME NEW kind \in Kinds, Dispatch(t, kind) PROVE AnswerInv'
    <3>1. \A d \in Dispatches : outcome'[d] \in {"ok", "rejected"} =>
                                  outcome'[d] = outcome[d]
      BY <2>1 DEF Dispatch, TypeOK
    <3> QED BY <1>0, <2>1, <3>1, AnswerKept DEF Dispatch
  <2>2. CASE TimerFires(t) \/ FlushNow(t)
    <3>1. FlushBody(t) /\ outcome' = outcome
      BY <1>2, <2>2 DEF TimerFires, FlushNow
    <3>2. \E p, ids : inflight' = [inflight EXCEPT ![t] =
            [stage |-> "lock", party |-> p, ids |-> ids,
             snapshot |-> preBatchSnapshot[t], row |-> 0, attempt |-> 0]]
      BY <3>1 DEF FlushBody
    <3>3. /\ inflight'[t].stage = "lock"
          /\ \A u \in Tabs : u # t => inflight'[u] = inflight[u]
      BY <2>0, <3>2
    <3> QED BY <1>0, <3>1, <3>3, AnswerKept DEF Claims
  <2>3. CASE LockGranted(t) \/ LoseFlush(t) \/ Retry(t)
    BY <1>0, <2>0, <2>3, AnswerKept DEF LockGranted, LoseFlush, Retry, At, Claims
  <2>4. CASE ServeFlush(t)
    <3>1. PICK a : /\ Process(inflight[t].ids, a)
                   /\ inflight' = [inflight EXCEPT ![t] = At(@, a, @.row, @.attempt)]
                   /\ a \in AllAnswers
      BY <2>4, VerdictsType DEF ServeFlush
    <3>2. /\ a = "ok" => inflight[t].ids \subseteq Committed'
          /\ a = "rejected" => inflight[t].ids \subseteq refused'
          /\ a # "removeRow"
      BY <2>0, <3>1, ProcessGrows DEF AllAnswers
    <3>3. \A u \in Tabs : Believes(inflight[u].stage, inflight[u].ids)'
      BY <1>0, <2>0, <3>1, <3>2 DEF AnswerInv, ServerGrows, Believes, At
    <3>4. OutcomeIsServers'
      BY <1>0, <2>4 DEF ServeFlush, AnswerInv, ServerGrows, OutcomeIsServers
    <3> QED BY <3>3, <3>4 DEF AnswerInv
  <2>5. CASE ReceiveApplied(t)
    BY <1>0, <2>0, <2>5, AnswerSettled
    DEF ReceiveApplied, Finish, AnswerInv, Believes, Claims
  <2>6. CASE ReceiveRejected(t)
    <3>1. inflight[t].ids \subseteq refused
      BY <2>6 DEF ReceiveRejected, AnswerInv, Believes
    <3>2. CASE inflight[t].row = 0
      BY <1>0, <2>0, <2>6, <3>1, <3>2, AnswerSettled DEF ReceiveRejected, Finish, Claims
    <3>3. CASE inflight[t].row # 0
      <4>1. \A u \in Tabs : Believes(inflight[u].stage, inflight[u].ids)'
        BY <1>0, <2>0, <2>6, <3>1, <3>3
        DEF ReceiveRejected, AnswerInv, ServerGrows, Believes, At
      <4>2. OutcomeIsServers'
        BY <1>0, <2>6, <3>3 DEF ReceiveRejected, AnswerInv, ServerGrows, OutcomeIsServers
      <4> QED BY <4>1, <4>2 DEF AnswerInv
    <3> QED BY <3>2, <3>3
  <2>7. CASE RejectedRowRemoved(t)
    BY <1>0, <2>0, <2>7, AnswerSettled
    DEF RejectedRowRemoved, Finish, AnswerInv, Believes, Claims
  <2>8. CASE ReceiveUnauthenticated(t)
    BY <1>0, <2>0, <2>8, AnswerSettled DEF ReceiveUnauthenticated, At, Claims
  <2>9. CASE SignedOut(t)
    BY <1>0, <2>0, <2>9, AnswerKept DEF SignedOut, Finish, Claims
  <2>10. CASE ReceiveNameRequired(t)
    BY <1>0, <2>0, <2>10, AnswerSettled DEF ReceiveNameRequired, Finish, Claims
  <2>11. CASE ReceiveError(t)
    BY <1>0, <2>0, <2>11, AnswerSettled DEF ReceiveError, Finish, Claims
  <2>12. CASE Park(t)
    <3>1. CASE inflight[t].attempt + 1 >= MAX_ATTEMPTS
      BY <1>0, <2>0, <2>12, <3>1, AnswerSettled DEF Park, Finish, Claims
    <3>2. CASE ~(inflight[t].attempt + 1 >= MAX_ATTEMPTS)
      BY <1>0, <2>0, <2>12, <3>2, AnswerKept DEF Park, At, Claims
    <3> QED BY <3>1, <3>2
  <2>13. CASE Close(t)
    <3>1. \A d \in Dispatches : outcome'[d] \in {"ok", "rejected"} =>
                                  outcome'[d] = outcome[d]
      BY <2>13 DEF Close, Resolve
    <3> QED BY <1>0, <2>0, <2>13, <3>1, AnswerKept DEF Close, Claims
  <2> QED
    BY <1>2, <2>1, <2>2, <2>3, <2>4, <2>5, <2>6, <2>7, <2>8, <2>9, <2>10, <2>11,
       <2>12, <2>13
    DEF TabNext, DispatchVoid, Navigate, PullState, HydratePulled, SignIn, Connect,
        DrainPull, DrainHydrate, DrainList, ServeDrain, LoseDrain, DrainApplied,
        DrainFails
<1> QED
  BY <1>1, <1>2 DEF Next, vars, SetOnline, ServeLate

(* A dispatch promise that settles "ok" was applied by the server, one that *)
(* settles "rejected" was answered 422, for every interleaving of retries, *)
(* late requests, drains and tabs.                                         *)
THEOREM OutcomeTrue == Spec => []OutcomeIsServers
<1>1. Init => AnswerInv
  BY DEF Init, AnswerInv, Believes, NoFlight, OutcomeIsServers
<1>2. AnswerInv => OutcomeIsServers
  BY DEF AnswerInv
<1> QED BY <1>1, <1>2, AnswerInductive, TypeCorrect, PTL DEF Spec

-----------------------------------------------------------------------------
(***************************************************************************)
(* The rows of the outbox keep their identity: a row id names one batch,   *)
(* for the flight that parked it as for the drains that listed it.         *)
(***************************************************************************)
RowsInv ==
  /\ \A r \in outbox : /\ r.id # 0 /\ r.id < nextRow
                       /\ \A s \in outbox : s.id = r.id => s = r
  /\ \A t \in Tabs : /\ inflight[t].row < nextRow
                     /\ \A r \in outbox : r.id = inflight[t].row =>
                                            r.ids = inflight[t].ids
  /\ \A t \in Tabs : \A r \in drain[t].rows :
       /\ r.id # 0 /\ r.id < nextRow
       /\ \A s \in outbox \union drain[t].rows : s.id = r.id => s = r

(* A step that adds no row.                                                *)
LEMMA RowsKept ==
  ASSUME TypeOK, RowsInv, outbox' \subseteq outbox, nextRow' = nextRow,
         \A u \in Tabs : \/ inflight'[u].row = 0
                         \/ /\ inflight'[u].row = inflight[u].row
                            /\ inflight'[u].ids = inflight[u].ids,
         \A u \in Tabs : drain'[u].rows \subseteq drain[u].rows \union outbox
  PROVE  RowsInv'
<1>1. 0 < nextRow
  BY DEF TypeOK
<1>2. \A r \in outbox' : /\ r.id # 0 /\ r.id < nextRow'
                         /\ \A s \in outbox' : s.id = r.id => s = r
  BY DEF RowsInv
<1>3. \A t \in Tabs : /\ inflight'[t].row < nextRow'
                      /\ \A r \in outbox' : r.id = inflight'[t].row =>
                                              r.ids = inflight'[t].ids
  BY <1>1 DEF RowsInv
<1>4. \A t \in Tabs : \A r \in drain'[t].rows :
        /\ r.id # 0 /\ r.id < nextRow'
        /\ \A s \in outbox' \union drain'[t].rows : s.id = r.id => s = r
  BY DEF RowsInv
<1> QED BY <1>2, <1>3, <1>4 DEF RowsInv

(* The first network error of a batch adds its row.                        *)
LEMMA RowsParked ==
  ASSUME TypeOK, RowsInv, NEW t \in Tabs, Park(t), inflight[t].row = 0
  PROVE  RowsInv'
<1> DEFINE new == [id |-> nextRow, party |-> inflight[t].party,
                   ids |-> inflight[t].ids]
<1>1. /\ outbox' = outbox \union {new} /\ nextRow' = nextRow + 1
      /\ drain' = drain /\ nextRow \in Nat \ {0}
  BY DEF Park, TypeOK
<1>2. \A r \in outbox : r.id \in Nat
  BY DEF TypeOK, Row
<1>3. /\ \A u \in Tabs : inflight[u].row \in Nat
      /\ \A u \in Tabs : \A r \in drain[u].rows : r.id \in Nat
  BY FlightFields, DrainFields DEF TypeOK, Row
<1>4. /\ \A u \in Tabs : u # t => inflight'[u] = inflight[u]
      /\ \/ inflight'[t].row = 0
         \/ inflight'[t].row = nextRow /\ inflight'[t].ids = inflight[t].ids
  BY DEF TypeOK, Park, Finish, At, NoFlight
<1>5. \A r \in outbox' : /\ r.id # 0 /\ r.id < nextRow'
                         /\ \A s \in outbox' : s.id = r.id => s = r
  BY <1>1, <1>2 DEF RowsInv
<1>6. ASSUME NEW u \in Tabs
      PROVE  /\ inflight'[u].row < nextRow'
             /\ \A r \in outbox' : r.id = inflight'[u].row =>
                                     r.ids = inflight'[u].ids
  <2>1. CASE u = t
    BY <1>1, <1>2, <1>4, <2>1 DEF RowsInv
  <2>2. CASE u # t
    BY <1>1, <1>2, <1>3, <1>4, <2>2 DEF RowsInv
  <2> QED BY <2>1, <2>2
<1>7. \A u \in Tabs : \A r \in drain'[u].rows :
        /\ r.id # 0 /\ r.id < nextRow'
        /\ \A s \in outbox' \union drain'[u].rows : s.id = r.id => s = r
  BY <1>1, <1>2, <1>3 DEF RowsInv
<1> QED BY <1>5, <1>6, <1>7 DEF RowsInv

LEMMA RowsInductive == TypeOK /\ RowsInv /\ [Next]_vars => RowsInv'
<1> USE DEF clientVars, sharedVars, dispatchVars, serverVars, budgetVars
<1> SUFFICES ASSUME TypeOK, RowsInv, [Next]_vars PROVE RowsInv'
  OBVIOUS
<1>0. NoFlight.row = 0 /\ NoDrain.rows = {}
  BY DEF NoFlight, NoDrain, Draining
<1>1. CASE UNCHANGED <<inflight, drain, outbox, nextRow>>
  BY <1>1, RowsKept
<1>2. ASSUME NEW t \in Tabs, TabNext(t), ~UNCHANGED <<inflight, drain, outbox, nextRow>>
      PROVE  RowsInv'
  <2>0. inflight \in [Tabs -> Flight] /\ drain \in [Tabs -> Drain]
    BY DEF TypeOK
  <2>1. CASE TimerFires(t) \/ FlushNow(t)
    <3>1. FlushBody(t) /\ UNCHANGED <<outbox, nextRow, drain>>
      BY <1>2, <2>1 DEF TimerFires, FlushNow
    <3>2. \E p, ids : inflight' = [inflight EXCEPT ![t] =
            [stage |-> "lock", party |-> p, ids |-> ids,
             snapshot |-> preBatchSnapshot[t], row |-> 0, attempt |-> 0]]
      BY <3>1 DEF FlushBody
    <3>3. /\ inflight'[t].row = 0
          /\ \A u \in Tabs : u # t => inflight'[u] = inflight[u]
      BY <2>0, <3>2
    <3> QED BY <3>1, <3>3, RowsKept
  <2>2. CASE LockGranted(t) \/ LoseFlush(t) \/ Retry(t)
    BY <2>0, <2>2, RowsKept DEF LockGranted, LoseFlush, Retry, At
  <2>3. CASE ServeFlush(t)
    BY <2>0, <2>3, RowsKept DEF ServeFlush, At
  <2>4. CASE ReceiveApplied(t) \/ RejectedRowRemoved(t)
    BY <1>0, <2>0, <2>4, RowsKept DEF ReceiveApplied, RejectedRowRemoved, Finish, Without
  <2>5. CASE ReceiveRejected(t)
    <3>1. UNCHANGED <<outbox, nextRow, drain>>
      BY <2>5 DEF ReceiveRejected, Finish
    <3>2. \A u \in Tabs : \/ inflight'[u].row = 0
                          \/ /\ inflight'[u].row = inflight[u].row
                             /\ inflight'[u].ids = inflight[u].ids
      BY <1>0, <2>0, <2>5 DEF ReceiveRejected, Finish, At
    <3> QED BY <3>1, <3>2, RowsKept
  <2>6. CASE ReceiveUnauthenticated(t)
    BY <1>0, <2>0, <2>6, RowsKept DEF ReceiveUnauthenticated, At
  <2>7. CASE SignedOut(t) \/ ReceiveNameRequired(t) \/ ReceiveError(t)
    BY <1>0, <2>0, <2>7, RowsKept
    DEF SignedOut, ReceiveNameRequired, ReceiveError, Finish
  <2>8. CASE Park(t)
    <3>1. CASE inflight[t].row = 0
      BY <2>8, <3>1, RowsParked
    <3>2. CASE inflight[t].row # 0
      <4>1. UNCHANGED <<outbox, nextRow, drain>>
        BY <2>8, <3>2 DEF Park
      <4>2. \A u \in Tabs : \/ inflight'[u].row = 0
                            \/ /\ inflight'[u].row = inflight[u].row
                               /\ inflight'[u].ids = inflight[u].ids
        BY <1>0, <2>0, <2>8, <3>2 DEF Park, Finish, At
      <4> QED BY <4>1, <4>2, RowsKept
    <3> QED BY <3>1, <3>2
  <2>9. CASE Connect(t) \/ DrainPull(t) \/ DrainHydrate(t)
    BY <2>0, <2>9, RowsKept DEF Connect, DrainPull, DrainHydrate, Draining
  <2>10. CASE DrainList(t)
    BY <1>0, <2>0, <2>10, RowsKept DEF DrainList, ReplayFrom, Draining
  <2>11. CASE ServeDrain(t)
    BY <2>0, <2>11, RowsKept DEF ServeDrain, Draining
  <2>12. CASE LoseDrain(t)
    BY <1>0, <2>0, <2>12, RowsKept DEF LoseDrain
  <2>13. CASE DrainApplied(t)
    <3>1. PICK r : ReplayFrom(t, drain[t].rows \ {r}) /\ outbox' = Without(r.id)
      BY <2>13 DEF DrainApplied
    <3>2. \A u \in Tabs : drain'[u].rows \subseteq drain[u].rows
      BY <1>0, <2>0, <3>1 DEF ReplayFrom, Draining
    <3> QED BY <2>13, <3>1, <3>2, RowsKept DEF DrainApplied, Without
  <2>14. CASE DrainFails(t)
    BY <1>0, <2>0, <2>14, RowsKept DEF DrainFails, Without
  <2>15. CASE Close(t)
    BY <1>0, <2>0, <2>15, RowsKept DEF Close
  <2> QED
    BY <1>2, <2>1, <2>2, <2>3, <2>4, <2>5, <2>6, <2>7, <2>8, <2>9, <2>10, <2>11,
       <2>12, <2>13, <2>14, <2>15
    DEF TabNext, Dispatch, DispatchVoid, Navigate, PullState, HydratePulled, SignIn
<1> QED
  BY <1>1, <1>2 DEF Next, vars, SetOnline, ServeLate

-----------------------------------------------------------------------------
(***************************************************************************)
(* What a drain knows of the row it replays.                               *)
(***************************************************************************)
DrainInv ==
  \A t \in Tabs : \A r \in Oldest(drain[t].rows) :
    /\ drain[t].stage = "ok" => r.ids \subseteq Committed
    /\ drain[t].stage = "rejected" => r.ids \subseteq refused

LEMMA DrainInductive == TypeOK /\ RowsInv /\ DrainInv /\ [Next]_vars => DrainInv'
<1> USE DEF clientVars, sharedVars, dispatchVars, serverVars, budgetVars
<1> SUFFICES ASSUME TypeOK, RowsInv, DrainInv, [Next]_vars PROVE DrainInv'
  OBVIOUS
<1>0. ServerGrows /\ NoDrain.stage = "idle" /\ drain \in [Tabs -> Drain]
  BY ServerStep DEF NoDrain, Draining, TypeOK
<1>1. ASSUME \A u \in Tabs : \/ drain'[u].stage \notin {"ok", "rejected"}
                             \/ drain'[u] = drain[u]
      PROVE  DrainInv'
  BY <1>0, <1>1 DEF DrainInv, ServerGrows, Oldest
<1>2. CASE UNCHANGED drain
  BY <1>1, <1>2
<1>3. ASSUME NEW t \in Tabs, TabNext(t), ~UNCHANGED drain PROVE DrainInv'
  <2>1. CASE ServeDrain(t)
    <3>1. PICK r \in Oldest(drain[t].rows) : \E a \in Verdicts(r.ids) :
            /\ Process(r.ids, a)
            /\ drain' = [drain EXCEPT ![t] = Draining(a, @.party, NoSnapshot, @.rows)]
      BY <2>1 DEF ServeDrain
    <3>2. PICK a : /\ Process(r.ids, a)
                   /\ drain' = [drain EXCEPT ![t] =
                                  Draining(a, @.party, NoSnapshot, @.rows)]
      BY <3>1
    <3>3. r \in drain[t].rows /\ r.ids \in SUBSET Dispatches /\ r.id \in Nat
      BY <1>0, DrainFields DEF Oldest, Row
    <3>4. /\ a = "ok" => r.ids \subseteq Committed'
          /\ a = "rejected" => r.ids \subseteq refused'
      BY <3>2, <3>3, ProcessGrows
    <3>5. \A s \in Oldest(drain[t].rows) : s = r
      <4>1. ASSUME NEW s \in Oldest(drain[t].rows) PROVE s.id = r.id
        <5>1. s.id <= r.id /\ r.id <= s.id /\ s.id \in Nat
          BY <1>0, <3>3, DrainFields DEF Oldest, Row
        <5> QED BY <3>3, <5>1
      <4> QED BY <3>3, <4>1 DEF RowsInv, Oldest
    <3>6. /\ drain'[t].stage = a /\ drain'[t].rows = drain[t].rows
          /\ \A u \in Tabs : u # t => drain'[u] = drain[u]
      BY <1>0, <3>2 DEF Draining
    <3>7. ASSUME NEW u \in Tabs, NEW s \in Oldest(drain'[u].rows)
          PROVE  /\ drain'[u].stage = "ok" => s.ids \subseteq Committed'
                 /\ drain'[u].stage = "rejected" => s.ids \subseteq refused'
      <4>1. CASE u = t
        BY <3>4, <3>5, <3>6, <4>1
      <4>2. CASE u # t
        BY <1>0, <3>6, <4>2 DEF DrainInv, ServerGrows
      <4> QED BY <4>1, <4>2
    <3> QED BY <3>7 DEF DrainInv, Oldest
  <2>2. CASE Connect(t) \/ DrainPull(t) \/ DrainHydrate(t)
    BY <1>0, <1>1, <2>2 DEF Connect, DrainPull, DrainHydrate, Draining
  <2>3. CASE DrainList(t)
    BY <1>0, <1>1, <2>3 DEF DrainList, ReplayFrom, Draining
  <2>4. CASE LoseDrain(t)
    BY <1>0, <1>1, <2>4 DEF LoseDrain
  <2>5. CASE DrainApplied(t)
    <3>1. PICK r : ReplayFrom(t, drain[t].rows \ {r})
      BY <2>5 DEF DrainApplied
    <3> QED BY <1>0, <1>1, <3>1 DEF ReplayFrom, Draining
  <2>6. CASE DrainFails(t)
    BY <1>0, <1>1, <2>6 DEF DrainFails
  <2>7. CASE Close(t)
    BY <1>0, <1>1, <2>7 DEF Close
  <2> QED
    BY <1>3, <2>1, <2>2, <2>3, <2>4, <2>5, <2>6, <2>7
    DEF TabNext, Dispatch, DispatchVoid, Navigate, PullState, HydratePulled,
        SignIn, TimerFires, FlushNow, LockGranted, ServeFlush, LoseFlush,
        ReceiveApplied, ReceiveRejected, RejectedRowRemoved,
        ReceiveUnauthenticated, SignedOut, ReceiveNameRequired, ReceiveError,
        Park, Retry
<1> QED
  BY <1>2, <1>3 DEF Next, vars, SetOnline, ServeLate

-----------------------------------------------------------------------------
(***************************************************************************)
(* A parked batch is safe: applied, refused, or still in the outbox.       *)
(***************************************************************************)
Safe == Committed \union refused \union Buffered

ParkInv == /\ \A t \in Tabs : inflight[t].row # 0 => inflight[t].ids \subseteq Safe
           /\ ParkedIsKept

(* A step that takes a row away takes one whose batch was answered.        *)
LEMMA SafeGrows ==
  ASSUME ServerGrows, NEW done \in SUBSET (Committed \union refused),
         NEW row, \A r \in outbox : r.id = row => r.ids \subseteq done,
         Without(row) \subseteq outbox'
  PROVE  Safe \subseteq Safe'
<1>1. ASSUME NEW d \in Buffered PROVE d \in Safe'
  <2>1. PICK r \in outbox : d \in r.ids
    BY DEF Buffered
  <2>2. CASE r.id = row
    BY <2>1, <2>2 DEF ServerGrows, Safe
  <2>3. CASE r.id # row
    BY <2>1, <2>3 DEF Without, Safe, Buffered
  <2> QED BY <2>2, <2>3
<1> QED BY <1>1 DEF ServerGrows, Safe

LEMMA SafeStep ==
  TypeOK /\ RowsInv /\ DrainInv /\ AnswerInv /\ [Next]_vars => Safe \subseteq Safe'
<1> USE DEF clientVars, sharedVars, dispatchVars, serverVars, budgetVars
<1> SUFFICES ASSUME TypeOK, RowsInv, DrainInv, AnswerInv, [Next]_vars
             PROVE  Safe \subseteq Safe'
  OBVIOUS
<1>0. ServerGrows
  BY ServerStep
<1>1. CASE outbox \subseteq outbox'
  BY <1>0, <1>1 DEF Safe, Buffered, ServerGrows
<1>2. ASSUME NEW t \in Tabs, TabNext(t), ~(outbox \subseteq outbox')
      PROVE  Safe \subseteq Safe'
  <2>1. CASE ReceiveApplied(t)
    <3>1. outbox' = Without(inflight[t].row) /\ inflight[t].ids \subseteq Committed
      BY <2>1 DEF ReceiveApplied, AnswerInv, Believes
    <3>2. \A r \in outbox : r.id = inflight[t].row => r.ids \subseteq inflight[t].ids
      BY DEF RowsInv
    <3> QED BY <1>0, <3>1, <3>2, SafeGrows
  <2>2. CASE RejectedRowRemoved(t)
    <3>1. outbox' = Without(inflight[t].row) /\ inflight[t].ids \subseteq refused
      BY <2>2 DEF RejectedRowRemoved, AnswerInv, Believes
    <3> QED BY <1>0, <3>1, SafeGrows DEF RowsInv
  <2>3. CASE DrainApplied(t)
    <3>1. PICK r \in Oldest(drain[t].rows) : outbox' = Without(r.id)
      BY <2>3 DEF DrainApplied
    <3>2. r \in drain[t].rows /\ r.ids \subseteq Committed
      BY <2>3 DEF DrainApplied, DrainInv, Oldest
    <3>3. \A s \in outbox : s.id = r.id => s.ids \subseteq r.ids
      BY <3>2 DEF RowsInv
    <3> QED BY <1>0, <3>1, <3>2, <3>3, SafeGrows
  <2>4. CASE DrainFails(t)
    <3>1. PICK r \in Oldest(drain[t].rows) :
            outbox' = IF drain[t].stage = "rejected" THEN Without(r.id) ELSE outbox
      BY <2>4 DEF DrainFails
    <3>2. drain[t].stage = "rejected" /\ outbox' = Without(r.id)
      BY <1>2, <3>1
    <3>3. r \in drain[t].rows /\ r.ids \subseteq refused
      BY <3>2 DEF DrainInv, Oldest
    <3>4. \A s \in outbox : s.id = r.id => s.ids \subseteq r.ids
      BY <3>3 DEF RowsInv
    <3> QED BY <1>0, <3>2, <3>3, <3>4, SafeGrows
  <2> QED
    BY <1>2, <2>1, <2>2, <2>3, <2>4
    DEF TabNext, Dispatch, DispatchVoid, Navigate, PullState, HydratePulled,
        SignIn, TimerFires, FlushNow, LockGranted, ServeFlush, LoseFlush,
        ReceiveRejected, ReceiveUnauthenticated, SignedOut, ReceiveNameRequired,
        ReceiveError, Park, Retry, Connect, DrainPull, DrainHydrate, DrainList,
        ServeDrain, LoseDrain, Close, Finish
<1> QED
  BY <1>1, <1>2 DEF Next, vars, SetOnline, ServeLate

(* A step that parks nothing.                                              *)
LEMMA ParkKept ==
  ASSUME ParkInv, Safe \subseteq Safe',
         \A u \in Tabs : \/ inflight'[u].row = 0
                         \/ /\ inflight'[u].row = inflight[u].row
                            /\ inflight'[u].ids = inflight[u].ids,
         \A d \in Dispatches : outcome'[d] = "sync_paused" =>
                                 outcome[d] = "sync_paused"
  PROVE  ParkInv'
BY DEF ParkInv, ParkedIsKept, Safe, Buffered

LEMMA ParkInductive ==
  TypeOK /\ RowsInv /\ DrainInv /\ AnswerInv /\ ParkInv /\ [Next]_vars => ParkInv'
<1> USE DEF clientVars, sharedVars, dispatchVars, serverVars, budgetVars
<1> SUFFICES ASSUME TypeOK, RowsInv, DrainInv, AnswerInv, ParkInv, [Next]_vars
             PROVE  ParkInv'
  OBVIOUS
<1>0. Safe \subseteq Safe' /\ NoFlight.row = 0 /\ inflight \in [Tabs -> Flight]
  BY SafeStep DEF NoFlight, TypeOK
<1>1. CASE UNCHANGED <<inflight, outcome>>
  BY <1>0, <1>1, ParkKept
<1>2. ASSUME NEW t \in Tabs, TabNext(t), ~UNCHANGED <<inflight, outcome>>
      PROVE  ParkInv'
  <2>1. ASSUME NEW kind \in Kinds, Dispatch(t, kind) PROVE ParkInv'
    <3>1. \A d \in Dispatches : outcome'[d] = "sync_paused" =>
                                  outcome[d] = "sync_paused"
      BY <2>1 DEF Dispatch, TypeOK
    <3> QED BY <1>0, <2>1, <3>1, ParkKept DEF Dispatch
  <2>2. CASE TimerFires(t) \/ FlushNow(t)
    <3>1. FlushBody(t) /\ outcome' = outcome
      BY <1>2, <2>2 DEF TimerFires, FlushNow
    <3>2. \E p, ids : inflight' = [inflight EXCEPT ![t] =
            [stage |-> "lock", party |-> p, ids |-> ids,
             snapshot |-> preBatchSnapshot[t], row |-> 0, attempt |-> 0]]
      BY <3>1 DEF FlushBody
    <3>3. /\ inflight'[t].row = 0
          /\ \A u \in Tabs : u # t => inflight'[u] = inflight[u]
      BY <1>0, <3>2
    <3> QED BY <1>0, <3>1, <3>3, ParkKept
  <2>3. CASE LockGranted(t) \/ LoseFlush(t) \/ Retry(t)
    BY <1>0, <2>3, ParkKept DEF LockGranted, LoseFlush, Retry, At
  <2>4. CASE ServeFlush(t)
    BY <1>0, <2>4, ParkKept DEF ServeFlush, At
  <2>5. CASE \/ ReceiveApplied(t) \/ RejectedRowRemoved(t) \/ SignedOut(t)
             \/ ReceiveNameRequired(t) \/ ReceiveError(t) \/ Close(t)
    BY <1>0, <2>5, ParkKept
    DEF ReceiveApplied, RejectedRowRemoved, SignedOut, ReceiveNameRequired,
        ReceiveError, Close, Finish, Resolve
  <2>6. CASE ReceiveRejected(t)
    <3>1. \A u \in Tabs : \/ inflight'[u].row = 0
                          \/ /\ inflight'[u].row = inflight[u].row
                             /\ inflight'[u].ids = inflight[u].ids
      BY <1>0, <2>6 DEF ReceiveRejected, Finish, At
    <3>2. \A d \in Dispatches : outcome'[d] = "sync_paused" =>
                                  outcome[d] = "sync_paused"
      BY <2>6 DEF ReceiveRejected, Resolve
    <3> QED BY <1>0, <3>1, <3>2, ParkKept
  <2>7. CASE ReceiveUnauthenticated(t)
    BY <1>0, <2>7, ParkKept DEF ReceiveUnauthenticated, At, Resolve
  <2>8. CASE Park(t)
    <3>1. inflight[t].ids \subseteq Safe'
      <4>1. CASE inflight[t].row = 0
        <5>1. PICK r \in outbox' : r.ids = inflight[t].ids
          BY <2>8, <4>1 DEF Park
        <5> QED BY <5>1 DEF Safe, Buffered
      <4>2. CASE inflight[t].row # 0
        BY <1>0, <4>2 DEF ParkInv
      <4> QED BY <4>1, <4>2
    <3>2. CASE inflight[t].attempt + 1 >= MAX_ATTEMPTS
      <4>1. /\ Resolve(inflight[t].ids, "sync_paused")
            /\ inflight' = [inflight EXCEPT ![t] = NoFlight]
        BY <2>8, <3>2 DEF Park, Finish
      <4>2. ParkedIsKept'
        BY <1>0, <3>1, <4>1 DEF Resolve, ParkInv, ParkedIsKept, Safe, Buffered
      <4>3. \A u \in Tabs : inflight'[u].row # 0 => inflight'[u].ids \subseteq Safe'
        BY <1>0, <4>1 DEF ParkInv
      <4> QED BY <4>2, <4>3 DEF ParkInv
    <3>3. CASE ~(inflight[t].attempt + 1 >= MAX_ATTEMPTS)
      <4>1. /\ inflight'[t].ids = inflight[t].ids
            /\ \A u \in Tabs : u # t => inflight'[u] = inflight[u]
            /\ outcome' = outcome
        BY <1>0, <2>8, <3>3 DEF Park, At
      <4>2. ParkedIsKept'
        BY <1>0, <4>1 DEF ParkInv, ParkedIsKept, Safe, Buffered
      <4>3. \A u \in Tabs : inflight'[u].row # 0 => inflight'[u].ids \subseteq Safe'
        BY <1>0, <3>1, <4>1 DEF ParkInv
      <4> QED BY <4>2, <4>3 DEF ParkInv
    <3> QED BY <3>2, <3>3
  <2> QED
    BY <1>2, <2>1, <2>2, <2>3, <2>4, <2>5, <2>6, <2>7, <2>8
    DEF TabNext, DispatchVoid, Navigate, PullState, HydratePulled, SignIn, Connect,
        DrainPull, DrainHydrate, DrainList, ServeDrain, LoseDrain, DrainApplied,
        DrainFails
<1> QED
  BY <1>1, <1>2 DEF Next, vars, SetOnline, ServeLate

(* A batch parked after MAX_ATTEMPTS is never dropped, whichever of the    *)
(* live retry, the drains and the other tabs removes its row: it was       *)
(* applied or answered 422 before.                                         *)
THEOREM ParkedKept == Spec => []ParkedIsKept
<1>1. Init => RowsInv /\ DrainInv /\ AnswerInv /\ ParkInv
  BY DEF Init, RowsInv, DrainInv, AnswerInv, ParkInv, ParkedIsKept, NoFlight, NoDrain,
         Draining, Oldest, Believes, OutcomeIsServers
<1>2. ParkInv => ParkedIsKept
  BY DEF ParkInv
<1> QED
  BY <1>1, <1>2, RowsInductive, DrainInductive, AnswerInductive, ParkInductive,
     TypeCorrect, PTL DEF Spec

-----------------------------------------------------------------------------
(***************************************************************************)
(* Every state a tab holds, to show or to go back to, has a log the server *)
(* wrote.                                                                  *)
(***************************************************************************)
Held(t) == {view[t], pulled[t], preBatchSnapshot[t], inflight[t].snapshot,
            drain[t].pulled}

LogInv == \A t \in Tabs : \A v \in Held(t) : v # NoSnapshot => v.log \subseteq Committed

LEMMA ViewIsNoSnapshot == TypeOK => \A t \in Tabs : view[t] # NoSnapshot
<1> SUFFICES ASSUME TypeOK, NEW t \in Tabs PROVE view[t] # NoSnapshot
  OBVIOUS
<1>1. Dispatches \subseteq Nat
  BY BoundsAssumption DEF Dispatches
<1>2. View \subseteq [party : Parties \union {NoParty}, effects : SUBSET Nat,
                     log : SUBSET Nat]
  BY <1>1 DEF View
<1> QED BY <1>2, SnapshotAssumption DEF TypeOK

LEMMA LogKept ==
  ASSUME LogInv, ServerGrows,
         \A u \in Tabs :
           \A v \in {view'[u], pulled'[u], inflight'[u].snapshot, drain'[u].pulled} :
             v \in Held(u) \union {NoSnapshot} \/ v.log \subseteq Committed',
         \A u \in Tabs :
           preBatchSnapshot'[u] \in Held(u) \union {NoSnapshot, view'[u]}
  PROVE  LogInv'
<1> SUFFICES ASSUME NEW t \in Tabs, NEW v \in Held(t)', v # NoSnapshot
             PROVE  v.log \subseteq Committed'
  BY DEF LogInv
<1>1. \A w \in Held(t) : w # NoSnapshot => w.log \subseteq Committed'
  BY DEF LogInv, ServerGrows
<1>2. \A w \in {view'[t], pulled'[t], inflight'[t].snapshot, drain'[t].pulled} :
        w # NoSnapshot => w.log \subseteq Committed'
  BY <1>1
<1>3. CASE v = preBatchSnapshot'[t]
  BY <1>1, <1>2, <1>3
<1>4. CASE v # preBatchSnapshot'[t]
  BY <1>2, <1>4 DEF Held
<1> QED BY <1>3, <1>4

LEMMA LogInductive ==
  TypeOK /\ RowsInv /\ DrainInv /\ AnswerInv /\ LogInv /\ [Next]_vars => LogInv'
<1> USE DEF clientVars, sharedVars, dispatchVars, serverVars, budgetVars
<1> SUFFICES ASSUME TypeOK, RowsInv, DrainInv, AnswerInv, LogInv, [Next]_vars
             PROVE  LogInv'
  OBVIOUS
<1>0. ServerGrows
  BY ServerStep
<1>1. CASE UNCHANGED <<view, pulled, preBatchSnapshot, inflight, drain>>
  BY <1>0, <1>1, LogKept DEF Held
<1>2. ASSUME NEW t \in Tabs, TabNext(t) PROVE LogInv'
  <2>0. /\ inflight \in [Tabs -> Flight] /\ drain \in [Tabs -> Drain]
        /\ view \in [Tabs -> View]
        /\ NoFlight.snapshot = NoSnapshot /\ NoDrain.pulled = NoSnapshot
        /\ EmptyView.log = {}
        /\ view[t] # NoSnapshot
        /\ pulled \in [Tabs -> View \union {NoSnapshot}]
        /\ preBatchSnapshot \in [Tabs -> View \union {NoSnapshot}]
    BY ViewIsNoSnapshot DEF TypeOK, NoFlight, NoDrain, Draining, EmptyView
  <2>1. view[t].log \subseteq Committed'
    BY <1>0, <2>0 DEF LogInv, Held, ServerGrows
  <2>2. ASSUME NEW p PROVE ServerState(p).log \subseteq Committed
    BY DEF ServerState
  <2>3. ASSUME NEW kind \in Kinds, Dispatch(t, kind) PROVE LogInv'
    <3>1. view'[t].log \subseteq Committed'
      BY <2>0, <2>1, <2>3 DEF Dispatch, Showing
    <3> QED BY <1>0, <2>0, <2>3, <3>1, LogKept DEF Dispatch, Captured, Held
  <2>4. CASE DispatchVoid(t)
    BY <1>0, <2>0, <2>4, LogKept DEF DispatchVoid, Held
  <2>5. CASE \/ \E p \in Parties \union {NoParty} : Navigate(t, p)
             \/ HydratePulled(t) \/ SignIn(t)
    BY <1>0, <2>0, <2>5, LogKept DEF Navigate, HydratePulled, SignIn, Held
  <2>6. CASE PullState(t)
    BY <1>0, <2>0, <2>2, <2>6, LogKept DEF PullState, Held, ServerGrows
  <2>7. CASE TimerFires(t) \/ FlushNow(t)
    <3>1. CASE FlushBody(t)
      <4>1. \E p, ids : inflight' = [inflight EXCEPT ![t] =
              [stage |-> "lock", party |-> p, ids |-> ids,
               snapshot |-> preBatchSnapshot[t], row |-> 0, attempt |-> 0]]
        BY <3>1 DEF FlushBody
      <4>2. /\ inflight'[t].snapshot = preBatchSnapshot[t]
            /\ \A u \in Tabs : u # t => inflight'[u] = inflight[u]
        BY <2>0, <4>1
      <4>3. /\ UNCHANGED <<view, pulled, drain>>
            /\ preBatchSnapshot' = [preBatchSnapshot EXCEPT ![t] = NoSnapshot]
        BY <2>7, <3>1 DEF TimerFires, FlushNow, FlushBody
      <4> QED BY <1>0, <2>0, <4>2, <4>3, LogKept DEF Held
    <3>2. CASE ~FlushBody(t)
      BY <1>1, <2>7, <3>2 DEF TimerFires, FlushNow
    <3> QED BY <3>1, <3>2
  <2>8. CASE LockGranted(t) \/ LoseFlush(t) \/ Retry(t)
    BY <1>0, <2>0, <2>8, LogKept DEF LockGranted, LoseFlush, Retry, At, Held
  <2>9. CASE ServeFlush(t)
    BY <1>0, <2>0, <2>9, LogKept DEF ServeFlush, At, Held
  <2>10. CASE ReceiveApplied(t)
    <3>1. view'[t].log \subseteq Committed'
      BY <1>0, <2>0, <2>1, <2>10
      DEF ReceiveApplied, Logging, AnswerInv, Believes, ServerGrows
    <3> QED BY <1>0, <2>0, <2>10, <3>1, LogKept DEF ReceiveApplied, Finish, Held
  <2>11. CASE ReceiveRejected(t)
    <3>1. /\ view'[t] \in Held(t) /\ pulled'[t] \in Held(t) \union {NoSnapshot}
          /\ \A u \in Tabs : u # t => view'[u] = view[u] /\ pulled'[u] = pulled[u]
      BY <2>0, <2>11 DEF ReceiveRejected, Rollback, ReplaceView, Held
    <3>2. /\ \A u \in Tabs : \/ inflight'[u].snapshot = NoSnapshot
                            \/ inflight'[u].snapshot = inflight[u].snapshot
          /\ drain' = drain
          /\ \A u \in Tabs : preBatchSnapshot'[u] \in {preBatchSnapshot[u], view'[u]}
      BY <2>0, <2>11 DEF ReceiveRejected, Finish, At
    <3> QED BY <1>0, <3>1, <3>2, LogKept DEF Held
  <2>12. CASE RejectedRowRemoved(t) \/ ReceiveError(t)
    BY <1>0, <2>0, <2>12, LogKept DEF RejectedRowRemoved, ReceiveError, Finish, Held
  <2>13. CASE ReceiveUnauthenticated(t)
    <3>1. /\ view'[t] \in Held(t) /\ pulled'[t] \in Held(t) \union {NoSnapshot}
          /\ \A u \in Tabs : u # t => view'[u] = view[u] /\ pulled'[u] = pulled[u]
      BY <2>0, <2>13 DEF ReceiveUnauthenticated, Rollback, ReplaceView, Held
    <3> QED
      BY <1>0, <2>0, <2>13, <3>1, LogKept DEF ReceiveUnauthenticated, At, Held
  <2>14. CASE SignedOut(t)
    BY <1>0, <2>0, <2>14, LogKept DEF SignedOut, LeaveScreens, Finish, Held
  <2>15. CASE ReceiveNameRequired(t)
    <3>1. /\ view'[t] \in Held(t)
          /\ \A u \in Tabs : u # t => view'[u] = view[u]
      BY <2>0, <2>15 DEF ReceiveNameRequired, Held
    <3> QED
      BY <1>0, <2>0, <2>15, <3>1, LogKept
      DEF ReceiveNameRequired, LeaveScreens, Finish, Held
  <2>16. CASE Park(t)
    <3>1. /\ \A u \in Tabs : \/ inflight'[u].snapshot = NoSnapshot
                            \/ inflight'[u].snapshot = inflight[u].snapshot
          /\ UNCHANGED <<view, pulled, drain>>
          /\ \A u \in Tabs : preBatchSnapshot'[u] \in {preBatchSnapshot[u], view'[u]}
      BY <2>0, <2>16 DEF Park, Finish, At
    <3> QED BY <1>0, <3>1, LogKept DEF Held
  <2>17. CASE Connect(t)
    BY <1>0, <2>0, <2>17, LogKept DEF Connect, Draining, Held
  <2>18. CASE DrainPull(t)
    <3>1. /\ drain'[t].pulled = NoSnapshot \/ drain'[t].pulled.log \subseteq Committed
          /\ \A u \in Tabs : u # t => drain'[u] = drain[u]
      BY <2>0, <2>2, <2>18 DEF DrainPull, Draining
    <3> QED BY <1>0, <2>18, <3>1, LogKept DEF DrainPull, Held, ServerGrows
  <2>19. CASE DrainHydrate(t)
    <3>1. /\ view'[t] \in Held(t) /\ pulled'[t] \in Held(t) \union {NoSnapshot}
          /\ \A u \in Tabs : u # t => view'[u] = view[u] /\ pulled'[u] = pulled[u]
      BY <2>0, <2>19 DEF DrainHydrate, ReplaceView, Held
    <3> QED BY <1>0, <2>0, <2>19, <3>1, LogKept DEF DrainHydrate, Draining, Held
  <2>20. CASE DrainList(t)
    BY <1>0, <2>0, <2>20, LogKept DEF DrainList, ReplayFrom, Draining, Held
  <2>21. CASE ServeDrain(t)
    BY <1>0, <2>0, <2>21, LogKept DEF ServeDrain, Draining, Held
  <2>22. CASE LoseDrain(t) \/ DrainFails(t)
    BY <1>0, <2>0, <2>22, LogKept DEF LoseDrain, DrainFails, Held
  <2>23. CASE DrainApplied(t)
    <3>1. PICK r \in Oldest(drain[t].rows) :
            /\ view' = [view EXCEPT ![t] = Logging(@, r.ids)]
            /\ ReplayFrom(t, drain[t].rows \ {r})
      BY <2>23 DEF DrainApplied
    <3>2. r.ids \subseteq Committed'
      BY <1>0, <2>23 DEF DrainApplied, DrainInv, ServerGrows
    <3>3. view'[t].log \subseteq Committed'
      BY <2>0, <2>1, <3>1, <3>2 DEF Logging
    <3>4. \A u \in Tabs : drain'[u].pulled \in {drain[u].pulled, NoSnapshot}
      BY <2>0, <3>1 DEF ReplayFrom, Draining
    <3> QED BY <1>0, <2>0, <2>23, <3>1, <3>3, <3>4, LogKept DEF DrainApplied, Held
  <2>24. CASE Close(t)
    BY <1>0, <2>0, <2>24, LogKept DEF Close, Held
  <2> QED
    BY <1>2, <2>3, <2>4, <2>5, <2>6, <2>7, <2>8, <2>9, <2>10, <2>11, <2>12, <2>13,
       <2>14, <2>15, <2>16, <2>17, <2>18, <2>19, <2>20, <2>21, <2>22, <2>23, <2>24
    DEF TabNext
<1> QED
  BY <1>1, <1>2 DEF Next, vars, SetOnline, ServeLate

(* The log authority of the server: whatever is hydrated, rolled back or   *)
(* appended, and whichever party the tab shows by then, no tab shows a log *)
(* entry of an action the server has not applied.                          *)
THEOREM LogTrue == Spec => []LogIsServers
<1>1. Init => RowsInv /\ DrainInv /\ AnswerInv /\ LogInv
  BY DEF Init, RowsInv, DrainInv, AnswerInv, LogInv, Held, NoFlight, NoDrain,
         Draining, EmptyView, Oldest, Believes, OutcomeIsServers
<1>2. TypeOK /\ LogInv => LogIsServers
  BY ViewIsNoSnapshot DEF LogInv, Held, LogIsServers
<1> QED
  BY <1>1, <1>2, RowsInductive, DrainInductive, AnswerInductive, LogInductive,
     TypeCorrect, PTL DEF Spec

-----------------------------------------------------------------------------
(***************************************************************************)
(* A dispatch no POST of which was lost is in one place at a time: queued, *)
(* in one batch, or in one late request; once it is applied it is in none  *)
(* from where it could be sent.                                            *)
(***************************************************************************)
Unlost(ids) == ids \ lost

OnceInv ==
  /\ \A d \in Unlost(Dispatches) : applied[d] <= 1 /\ (applied[d] > 0 => d <= issued)
  /\ \A ids \in late : \A d \in Unlost(ids) :
       /\ applied[d] = 0 /\ d <= issued /\ outcome[d] # "pending"
       /\ \A others \in late : d \in others => others = ids
  /\ \A t \in Tabs : \A d \in Unlost(queue[t]) : applied[d] = 0
  /\ \A t \in Tabs : /\ inflight[t].stage \in {"lock", "sent"} =>
                          \A d \in Unlost(inflight[t].ids) : applied[d] = 0
                     /\ inflight[t].stage \in {"park", "backoff"} =>
                          inflight[t].ids \subseteq lost
  /\ \A r \in outbox : r.ids \subseteq lost
  /\ \A t \in Tabs : \A r \in drain[t].rows : r.ids \subseteq lost

(* A step by which nothing is applied, lost or dispatched: a batch only    *)
(* moves towards its answer.                                               *)
LEMMA OnceKept ==
  ASSUME OnceInv, UNCHANGED <<applied, lost, issued>>, late' = late,
         \A d \in Dispatches : outcome'[d] = "pending" => outcome[d] = "pending",
         \A t \in Tabs : queue'[t] \subseteq queue[t],
         \A t \in Tabs :
           /\ inflight'[t].stage \in {"lock", "sent"} =>
                \A d \in inflight'[t].ids :
                  \/ d \in lost \union queue[t]
                  \/ inflight[t].stage \in {"lock", "sent"} /\ d \in inflight[t].ids
           /\ inflight'[t].stage \in {"park", "backoff"} =>
                inflight'[t].ids \subseteq lost,
         \A r \in outbox' : r \in outbox \/ r.ids \subseteq lost,
         \A t \in Tabs : drain'[t].rows \subseteq drain[t].rows \union outbox,
         late \subseteq SUBSET Dispatches
  PROVE  OnceInv'
<1>1. \A d \in Unlost(Dispatches)' :
        applied'[d] <= 1 /\ (applied'[d] > 0 => d <= issued')
  BY DEF OnceInv, Unlost
<1>2. \A ids \in late' : \A d \in Unlost(ids)' :
        /\ applied'[d] = 0 /\ d <= issued' /\ outcome'[d] # "pending"
        /\ \A others \in late' : d \in others => others = ids
  BY DEF OnceInv, Unlost
<1>3. \A t \in Tabs : \A d \in Unlost(queue[t])' : applied'[d] = 0
  BY DEF OnceInv, Unlost
<1>4. \A t \in Tabs :
        /\ inflight'[t].stage \in {"lock", "sent"} =>
             \A d \in Unlost(inflight[t].ids)' : applied'[d] = 0
        /\ inflight'[t].stage \in {"park", "backoff"} =>
             inflight'[t].ids \subseteq lost'
  BY DEF OnceInv, Unlost
<1>5. /\ \A r \in outbox' : r.ids \subseteq lost'
      /\ \A t \in Tabs : \A r \in drain'[t].rows : r.ids \subseteq lost'
  BY DEF OnceInv
<1> QED BY <1>1, <1>2, <1>3, <1>4, <1>5 DEF OnceInv

(* Nothing that is unlost is carried by two tabs, or carried and late.     *)
LEMMA CarriedOnce ==
  ASSUME QueueInv, OnceInv, NEW t \in Tabs, NEW d \in inflight[t].ids
  PROVE  /\ \A u \in Tabs : d \notin queue[u] /\ (d \in inflight[u].ids => u = t)
         /\ d \notin lost => \A ids \in late : d \notin ids
         /\ outcome[d] = "pending" /\ d <= issued
<1>1. origin[d].tab = t /\ outcome[d] = "pending" /\ d <= issued
  BY DEF QueueInv, CarriedIsPending, Carried
<1>2. \A u \in Tabs : d \in Carried(u) => u = t
  BY <1>1 DEF QueueInv, CarriedIsPending
<1>3. d \notin queue[t]
  BY DEF QueueInv, QueuedIsNotInFlight
<1>4. d \notin lost => \A ids \in late : d \notin ids
  BY <1>1 DEF OnceInv, Unlost
<1> QED BY <1>1, <1>2, <1>3, <1>4 DEF Carried

(* A step in which the server reads a batch: what is unlost of it was not  *)
(* applied before and is nowhere else.                                     *)
LEMMA OnceProcessed ==
  ASSUME TypeOK, OnceInv, NEW ids \in SUBSET Dispatches, NEW a, Process(ids, a),
         UNCHANGED <<lost, issued, outcome, queue, outbox>>,
         \A d \in Unlost(ids) : applied[d] = 0 /\ d <= issued,
         late' \subseteq late,
         \A others \in late' : ids \cap others \subseteq lost,
         \A t \in Tabs : ids \cap queue[t] \subseteq lost,
         \A t \in Tabs :
           inflight'[t].stage \in {"lock", "sent", "park", "backoff"} =>
             inflight'[t] = inflight[t],
         \A t \in Tabs :
           inflight'[t].stage \in {"lock", "sent"} =>
             ids \cap inflight[t].ids \subseteq lost,
         \A t \in Tabs : drain'[t].rows = drain[t].rows
  PROVE  OnceInv'
<1>1. \A d \in Dispatches : /\ d \notin ids => applied'[d] = applied[d]
                            /\ applied'[d] \in {applied[d], applied[d] + 1}
  BY DEF Process, TypeOK
<1>2. \A d \in Unlost(Dispatches)' :
        applied'[d] <= 1 /\ (applied'[d] > 0 => d <= issued')
  <2> SUFFICES ASSUME NEW d \in Dispatches, d \notin lost
               PROVE  applied'[d] <= 1 /\ (applied'[d] > 0 => d <= issued)
    BY DEF Unlost
  <2>1. CASE d \in ids
    BY <1>1, <2>1 DEF Unlost
  <2>2. CASE d \notin ids
    BY <1>1, <2>2 DEF OnceInv, Unlost
  <2> QED BY <2>1, <2>2
<1>3. \A others \in late' : \A d \in Unlost(others)' :
        /\ applied'[d] = 0 /\ d <= issued' /\ outcome'[d] # "pending"
        /\ \A more \in late' : d \in more => more = others
  <2> SUFFICES ASSUME NEW others \in late', NEW d \in others, d \notin lost
               PROVE  /\ applied'[d] = 0 /\ d <= issued /\ outcome[d] # "pending"
                      /\ \A more \in late' : d \in more => more = others
    BY DEF Unlost
  <2>1. d \in Dispatches /\ d \notin ids /\ others \in late
    BY DEF TypeOK
  <2> QED BY <1>1, <2>1 DEF OnceInv, Unlost
<1>4. \A t \in Tabs : \A d \in Unlost(queue[t])' : applied'[d] = 0
  <2> SUFFICES ASSUME NEW t \in Tabs, NEW d \in queue[t], d \notin lost
               PROVE  applied'[d] = 0
    BY DEF Unlost
  <2>1. d \in Dispatches /\ d \notin ids
    BY DEF TypeOK
  <2> QED BY <1>1, <2>1 DEF OnceInv, Unlost
<1>5. ASSUME NEW t \in Tabs
      PROVE  /\ inflight'[t].stage \in {"lock", "sent"} =>
                  \A d \in Unlost(inflight[t].ids)' : applied'[d] = 0
             /\ inflight'[t].stage \in {"park", "backoff"} =>
                  inflight'[t].ids \subseteq lost'
  <2>1. ASSUME inflight'[t].stage \in {"lock", "sent"}, NEW d \in inflight'[t].ids,
               d \notin lost
        PROVE  applied'[d] = 0
    <3>1. inflight'[t] = inflight[t] /\ inflight[t].ids \subseteq Dispatches
      BY <2>1, FlightFields DEF TypeOK
    <3>2. d \in Dispatches /\ d \notin ids
      BY <2>1, <3>1
    <3> QED BY <1>1, <2>1, <3>1, <3>2 DEF OnceInv, Unlost
  <2>2. inflight'[t].stage \in {"park", "backoff"} => inflight'[t].ids \subseteq lost'
    BY DEF OnceInv
  <2> QED BY <2>1, <2>2 DEF Unlost
<1>6. /\ \A r \in outbox' : r.ids \subseteq lost'
      /\ \A t \in Tabs : \A r \in drain'[t].rows : r.ids \subseteq lost'
  BY DEF OnceInv
<1> QED BY <1>2, <1>3, <1>4, <1>5, <1>6 DEF OnceInv

(* A step that leaves requests behind on a broken connection: what was      *)
(* unlost of them was out for the first time, and its tab is closed.       *)
LEMMA OnceLate ==
  ASSUME TypeOK, QueueInv, OnceInv, NEW t \in Tabs, NEW new,
         late' = late \union new, lost \subseteq lost',
         UNCHANGED <<applied, issued, outbox>>,
         \A d \in Dispatches : outcome'[d] = "pending" => outcome[d] = "pending",
         \A u \in Tabs : queue'[u] \subseteq queue[u],
         \A u \in Tabs : inflight'[u].stage \in {"lock", "sent"} =>
                           inflight'[u] = inflight[u],
         \A u \in Tabs : inflight'[u].stage \in {"park", "backoff"} =>
                           inflight'[u].ids \subseteq lost',
         \A u \in Tabs : drain'[u].rows \subseteq drain[u].rows,
         \A ids \in new : \/ ids \subseteq lost'
                          \/ /\ ids = inflight[t].ids /\ inflight[t].stage = "sent"
                             /\ \A d \in ids : outcome'[d] # "pending"
  PROVE  OnceInv'
<1>0. /\ inflight[t].ids \in SUBSET Dispatches /\ late \subseteq SUBSET Dispatches
      /\ \A d \in inflight[t].ids : d <= issued /\ (d \notin lost => \A ids \in late : d \notin ids)
  BY FlightFields, CarriedOnce DEF TypeOK
<1>1. \A d \in Unlost(Dispatches)' :
        applied'[d] <= 1 /\ (applied'[d] > 0 => d <= issued')
  BY DEF OnceInv, Unlost
<1>2. \A ids \in late' : \A d \in Unlost(ids)' :
        /\ applied'[d] = 0 /\ d <= issued' /\ outcome'[d] # "pending"
        /\ \A others \in late' : d \in others => others = ids
  <2> SUFFICES ASSUME NEW ids \in late', NEW d \in ids, d \notin lost'
               PROVE  /\ applied[d] = 0 /\ d <= issued /\ outcome'[d] # "pending"
                      /\ \A others \in late' : d \in others => others = ids
    BY DEF Unlost
  <2>1. CASE \E old \in late : d \in old
    <3>1. PICK old \in late : d \in old
      BY <2>1
    <3>2. d \in Dispatches /\ d \notin lost /\ d \notin inflight[t].ids
      BY <1>0, <3>1
    <3> QED BY <3>1, <3>2 DEF OnceInv, Unlost
  <2>2. CASE ~ \E old \in late : d \in old
    <3>1. \A others \in late' : d \in others =>
            /\ others = inflight[t].ids /\ inflight[t].stage = "sent"
            /\ outcome'[d] # "pending"
      BY <2>2
    <3> QED BY <1>0, <3>1 DEF OnceInv, Unlost
  <2> QED BY <2>1, <2>2
<1>3. \A u \in Tabs : \A d \in Unlost(queue[u])' : applied'[d] = 0
  BY DEF OnceInv, Unlost
<1>4. \A u \in Tabs :
        /\ inflight'[u].stage \in {"lock", "sent"} =>
             \A d \in Unlost(inflight[u].ids)' : applied'[d] = 0
        /\ inflight'[u].stage \in {"park", "backoff"} =>
             inflight'[u].ids \subseteq lost'
  BY DEF OnceInv, Unlost
<1>5. /\ \A r \in outbox' : r.ids \subseteq lost'
      /\ \A u \in Tabs : \A r \in drain'[u].rows : r.ids \subseteq lost'
  BY DEF OnceInv
<1> QED BY <1>1, <1>2, <1>3, <1>4, <1>5 DEF OnceInv

LEMMA OnceDispatched ==
  ASSUME TypeOK, QueueInv, OnceInv, NEW t \in Tabs, NEW kind, Dispatch(t, kind)
  PROVE  OnceInv'
<1> DEFINE n == issued + 1
<1>1. n \in Dispatches /\ issued \in Nat /\ issued' = n
  BY BoundsAssumption DEF Dispatch, TypeOK, Dispatches
<1>2. /\ UNCHANGED <<applied, lost, late, inflight, outbox, drain>>
      /\ \A d \in Dispatches : d # n => outcome'[d] = outcome[d]
      /\ \A u \in Tabs : queue'[u] \subseteq queue[u] \union {n}
  BY <1>1 DEF Dispatch, TypeOK, serverVars, sharedVars
<1>3. \A d \in Dispatches : d <= issued => d <= n /\ d # n
  BY <1>1, BoundsAssumption DEF Dispatches
<1>4. \A d \in Unlost(Dispatches)' :
        applied'[d] <= 1 /\ (applied'[d] > 0 => d <= issued')
  BY <1>1, <1>2, <1>3 DEF OnceInv, Unlost
<1>5. \A ids \in late' : \A d \in Unlost(ids)' :
        /\ applied'[d] = 0 /\ d <= issued' /\ outcome'[d] # "pending"
        /\ \A others \in late' : d \in others => others = ids
  <2>1. late \subseteq SUBSET Dispatches
    BY DEF TypeOK
  <2> QED BY <1>1, <1>2, <1>3, <2>1 DEF OnceInv, Unlost
<1>6. \A u \in Tabs : \A d \in Unlost(queue[u])' : applied'[d] = 0
  <2>1. n \notin lost => applied[n] = 0
    <3>1. applied[n] \in Nat /\ ~(n <= issued)
      BY <1>1 DEF TypeOK
    <3> QED BY <1>1, <3>1 DEF OnceInv, Unlost
  <2> QED BY <1>2, <2>1 DEF OnceInv, Unlost
<1>7. /\ \A u \in Tabs :
           /\ inflight'[u].stage \in {"lock", "sent"} =>
                \A d \in Unlost(inflight[u].ids)' : applied'[d] = 0
           /\ inflight'[u].stage \in {"park", "backoff"} =>
                inflight'[u].ids \subseteq lost'
      /\ \A r \in outbox' : r.ids \subseteq lost'
      /\ \A u \in Tabs : \A r \in drain'[u].rows : r.ids \subseteq lost'
  BY <1>2 DEF OnceInv, Unlost
<1> QED BY <1>4, <1>5, <1>6, <1>7 DEF OnceInv

LEMMA OnceInductive == TypeOK /\ QueueInv /\ OnceInv /\ [Next]_vars => OnceInv'
<1> USE DEF clientVars, sharedVars, dispatchVars, serverVars, budgetVars
<1> SUFFICES ASSUME TypeOK, QueueInv, OnceInv, [Next]_vars PROVE OnceInv'
  OBVIOUS
<1>0. late \subseteq SUBSET Dispatches
  BY DEF TypeOK
<1>1. ASSUME UNCHANGED <<applied, lost, late, issued, outcome, queue, inflight,
                         outbox, drain>>
      PROVE  OnceInv'
  BY <1>0, <1>1, OnceKept DEF OnceInv
<1>2. CASE UNCHANGED vars \/ \E v \in OnlineReports : SetOnline(v)
  BY <1>1, <1>2 DEF vars, SetOnline
<1>3. ASSUME NEW ids \in late, ServeLate(ids) PROVE OnceInv'
  <2>1. PICK a : Process(ids, a)
    BY <1>3 DEF ServeLate
  <2>2. /\ UNCHANGED <<lost, issued, outcome, queue, outbox, inflight, drain>>
        /\ late' = late \ {ids}
        /\ ids \in SUBSET Dispatches
    BY <1>0, <1>3 DEF ServeLate
  <2>3. \A d \in Unlost(ids) : applied[d] = 0 /\ d <= issued /\ outcome[d] # "pending"
    BY DEF OnceInv
  <2>4. \A others \in late' : ids \cap others \subseteq lost
    BY <2>2 DEF OnceInv, Unlost
  <2>5. \A t \in Tabs : ids \cap Carried(t) \subseteq lost
    BY <2>3 DEF QueueInv, CarriedIsPending, Unlost
  <2> QED BY <2>1, <2>2, <2>3, <2>4, <2>5, OnceProcessed DEF Carried
<1>4. ASSUME NEW t \in Tabs, TabNext(t) PROVE OnceInv'
  <2>0. /\ inflight \in [Tabs -> Flight] /\ drain \in [Tabs -> Drain]
        /\ queue \in [Tabs -> SUBSET Dispatches]
        /\ inflight[t].ids \in SUBSET Dispatches
        /\ NoFlight.stage = "idle" /\ NoDrain.rows = {}
    BY FlightFields DEF TypeOK, NoFlight, NoDrain, Draining
  <2>1. ASSUME NEW kind \in Kinds, Dispatch(t, kind) PROVE OnceInv'
    BY <2>1, OnceDispatched
  <2>2. CASE TimerFires(t) \/ FlushNow(t)
    <3>1. CASE FlushBody(t)
      <4>1. /\ UNCHANGED <<applied, lost, late, issued, outcome, outbox, drain>>
        BY <2>2 DEF TimerFires, FlushNow
      <4>2. \E p : \E ids \in SUBSET queue[t] :
              /\ inflight' = [inflight EXCEPT ![t] =
                   [stage |-> "lock", party |-> p, ids |-> ids,
                    snapshot |-> preBatchSnapshot[t], row |-> 0, attempt |-> 0]]
              /\ queue' = [queue EXCEPT ![t] = @ \ ids]
        BY <3>1 DEF FlushBody, FirstBatch
      <4>3. /\ queue'[t] \subseteq queue[t]
            /\ inflight'[t].stage = "lock" /\ inflight'[t].ids \subseteq queue[t]
            /\ \A u \in Tabs : u # t => queue'[u] = queue[u] /\ inflight'[u] = inflight[u]
        BY <2>0, <4>2
      <4> QED BY <1>0, <4>1, <4>3, OnceKept DEF OnceInv
    <3>2. CASE ~FlushBody(t)
      BY <1>1, <2>2, <3>2 DEF TimerFires, FlushNow
    <3> QED BY <3>1, <3>2
  <2>3. CASE LockGranted(t) \/ Retry(t)
    BY <1>0, <2>0, <2>3, OnceKept DEF LockGranted, Retry, At, OnceInv
  <2>4. CASE ServeFlush(t)
    <3>1. PICK a \in AllAnswers :
            /\ Process(inflight[t].ids, a)
            /\ inflight' = [inflight EXCEPT ![t] = At(@, a, @.row, @.attempt)]
      BY <2>4, VerdictsType DEF ServeFlush
    <3>2. UNCHANGED <<lost, issued, outcome, queue, outbox, late, drain>>
      BY <2>4 DEF ServeFlush
    <3>3. \A d \in Unlost(inflight[t].ids) : applied[d] = 0 /\ d <= issued
      BY <2>4, CarriedOnce DEF ServeFlush, OnceInv, Unlost
    <3>4. /\ \A others \in late' : inflight[t].ids \cap others \subseteq lost
          /\ \A u \in Tabs : inflight[t].ids \cap queue[u] \subseteq lost
          /\ \A u \in Tabs : u # t => inflight[t].ids \cap inflight[u].ids \subseteq lost
      BY <3>2, CarriedOnce
    <3>5. /\ inflight'[t].stage \notin {"lock", "sent", "park", "backoff"}
          /\ \A u \in Tabs : u # t => inflight'[u] = inflight[u]
      BY <2>0, <3>1 DEF At, AllAnswers
    <3> QED BY <2>0, <3>1, <3>2, <3>3, <3>4, <3>5, OnceProcessed
  <2>5. CASE LoseFlush(t)
    <3>1. \E new \in SUBSET {inflight[t].ids} : late' = late \union new
      <4>1. CASE inflight[t].stage = "sent"
        BY <2>5, <4>1 DEF LoseFlush
      <4>2. CASE inflight[t].stage # "sent"
        <5>1. late' = late \union {} /\ {} \in SUBSET {inflight[t].ids}
          BY <2>5, <4>2 DEF LoseFlush
        <5> QED BY <5>1
      <4> QED BY <4>1, <4>2
    <3>2. /\ lost' = lost \union inflight[t].ids
          /\ UNCHANGED <<applied, issued, outbox, outcome, queue, drain>>
          /\ inflight'[t].ids = inflight[t].ids /\ inflight'[t].stage = "park"
          /\ \A u \in Tabs : u # t => inflight'[u] = inflight[u]
      BY <2>0, <2>5 DEF LoseFlush, At
    <3>3. \A u \in Tabs : inflight'[u].stage \in {"park", "backoff"} =>
                            inflight'[u].ids \subseteq lost'
      BY <3>2 DEF OnceInv
    <3> QED BY <3>1, <3>2, <3>3, OnceLate
  <2>6. CASE \/ ReceiveApplied(t) \/ RejectedRowRemoved(t) \/ ReceiveNameRequired(t)
             \/ ReceiveError(t) \/ SignedOut(t) \/ ReceiveUnauthenticated(t)
             \/ ReceiveRejected(t)
    <3>1. UNCHANGED <<applied, lost, late, issued, queue, drain>>
      BY <2>6
      DEF ReceiveApplied, RejectedRowRemoved, ReceiveNameRequired, ReceiveError,
          SignedOut, ReceiveUnauthenticated, ReceiveRejected
    <3>2. outbox' \subseteq outbox
      BY <2>6
      DEF ReceiveApplied, RejectedRowRemoved, ReceiveNameRequired, ReceiveError,
          SignedOut, ReceiveUnauthenticated, ReceiveRejected, Finish, Without
    <3>3. \A d \in Dispatches : outcome'[d] = "pending" => outcome[d] = "pending"
      BY <2>6
      DEF ReceiveApplied, RejectedRowRemoved, ReceiveNameRequired, ReceiveError,
          SignedOut, ReceiveUnauthenticated, ReceiveRejected, Resolve
    <3>4. /\ \A u \in Tabs : u # t => inflight'[u] = inflight[u]
          /\ inflight'[t].stage \notin {"lock", "sent", "park", "backoff"}
      BY <2>0, <2>6
      DEF ReceiveApplied, RejectedRowRemoved, ReceiveNameRequired, ReceiveError,
          SignedOut, ReceiveUnauthenticated, ReceiveRejected, Finish, At
    <3> QED BY <1>0, <3>1, <3>2, <3>3, <3>4, OnceKept DEF OnceInv
  <2>7. CASE Park(t)
    <3>1. UNCHANGED <<applied, lost, late, issued, queue, drain>>
      BY <2>7 DEF Park
    <3>2. inflight[t].ids \subseteq lost
      BY <2>7 DEF Park, OnceInv
    <3>3. \A r \in outbox' : r \in outbox \/ r.ids \subseteq lost
      BY <2>7, <3>2 DEF Park
    <3>4. \A d \in Dispatches : outcome'[d] = "pending" => outcome[d] = "pending"
      BY <2>7 DEF Park, Resolve
    <3>5. /\ \A u \in Tabs : u # t => inflight'[u] = inflight[u]
          /\ inflight'[t].stage \in {"idle", "backoff"}
          /\ inflight'[t].stage = "backoff" => inflight'[t].ids = inflight[t].ids
      BY <2>0, <2>7 DEF Park, Finish, At
    <3>6. \A u \in Tabs :
            /\ inflight'[u].stage \in {"lock", "sent"} => inflight'[u] = inflight[u]
            /\ inflight'[u].stage \in {"park", "backoff"} => inflight'[u].ids \subseteq lost
      BY <3>2, <3>5 DEF OnceInv
    <3> QED BY <1>0, <3>1, <3>3, <3>4, <3>6, OnceKept
  <2>8. CASE \/ Connect(t) \/ DrainPull(t) \/ DrainHydrate(t) \/ DrainList(t)
             \/ DrainApplied(t) \/ DrainFails(t)
    <3>1. UNCHANGED <<applied, lost, late, issued, outcome, queue, inflight>>
      BY <2>8
      DEF Connect, DrainPull, DrainHydrate, DrainList, DrainApplied, DrainFails
    <3>2. outbox' \subseteq outbox
      BY <2>8
      DEF Connect, DrainPull, DrainHydrate, DrainList, DrainApplied, DrainFails, Without
    <3>3. \A u \in Tabs : drain'[u].rows \subseteq drain[u].rows \union outbox
      <4>1. CASE DrainApplied(t)
        <5>1. PICK r : ReplayFrom(t, drain[t].rows \ {r})
          BY <4>1 DEF DrainApplied
        <5> QED BY <2>0, <5>1 DEF ReplayFrom, Draining
      <4>2. CASE ~DrainApplied(t)
        BY <2>0, <2>8, <4>2
        DEF Connect, DrainPull, DrainHydrate, DrainList, DrainFails, ReplayFrom, Draining
      <4> QED BY <4>1, <4>2
    <3> QED BY <1>0, <3>1, <3>2, <3>3, OnceKept DEF OnceInv
  <2>9. CASE ServeDrain(t)
    <3>1. PICK r \in Oldest(drain[t].rows) : \E a \in Verdicts(r.ids) :
            /\ Process(r.ids, a)
            /\ drain' = [drain EXCEPT ![t] = Draining(a, @.party, NoSnapshot, @.rows)]
      BY <2>9 DEF ServeDrain
    <3>2. PICK a : /\ Process(r.ids, a)
                   /\ drain' = [drain EXCEPT ![t] =
                                  Draining(a, @.party, NoSnapshot, @.rows)]
      BY <3>1
    <3>3. r.ids \in SUBSET Dispatches /\ r.ids \subseteq lost
      BY <2>0, DrainFields DEF Oldest, Row, OnceInv
    <3>4. /\ UNCHANGED <<lost, issued, outcome, queue, outbox, late, inflight>>
          /\ \A u \in Tabs : drain'[u].rows = drain[u].rows
      BY <2>0, <2>9, <3>2 DEF ServeDrain, Draining
    <3> QED BY <3>2, <3>3, <3>4, OnceProcessed DEF Unlost
  <2>10. CASE LoseDrain(t)
    <3>1. PICK r \in Oldest(drain[t].rows) :
            /\ late' = IF drain[t].stage = "sent" THEN late \union {r.ids} ELSE late
            /\ lost' = lost \union r.ids
      BY <2>10 DEF LoseDrain
    <3>2. \E new \in SUBSET {r.ids} : late' = late \union new
      <4>1. CASE drain[t].stage = "sent"
        BY <3>1, <4>1
      <4>2. CASE drain[t].stage # "sent"
        <5>1. late' = late \union {} /\ {} \in SUBSET {r.ids}
          BY <3>1, <4>2
        <5> QED BY <5>1
      <4> QED BY <4>1, <4>2
    <3>3. /\ UNCHANGED <<applied, issued, outbox, outcome, queue, inflight>>
          /\ \A u \in Tabs : drain'[u].rows \subseteq drain[u].rows
      BY <2>0, <2>10 DEF LoseDrain
    <3>4. \A u \in Tabs : inflight'[u].stage \in {"park", "backoff"} =>
                            inflight'[u].ids \subseteq lost'
      BY <3>1, <3>3 DEF OnceInv
    <3> QED BY <3>1, <3>2, <3>3, <3>4, OnceLate
  <2>11. CASE Close(t)
    <3> DEFINE new == (IF inflight[t].stage = "sent" THEN {inflight[t].ids} ELSE {})
                        \union (IF drain[t].stage = "sent"
                                THEN {r.ids : r \in Oldest(drain[t].rows)} ELSE {})
    <3>1. late' = late \union new
      BY <2>11 DEF Close
    <3>2. /\ UNCHANGED <<applied, issued, outbox, lost>>
          /\ \A u \in Tabs : queue'[u] \subseteq queue[u]
          /\ inflight' = [inflight EXCEPT ![t] = NoFlight]
          /\ \A u \in Tabs : drain'[u].rows \subseteq drain[u].rows
      BY <2>0, <2>11 DEF Close
    <3>3. /\ \A d \in Dispatches : outcome'[d] = "pending" => outcome[d] = "pending"
          /\ \A d \in inflight[t].ids : outcome'[d] # "pending"
      BY <2>0, <2>11 DEF Close, Resolve
    <3>4. \A u \in Tabs : inflight'[u].stage \in {"park", "backoff"} =>
                            inflight'[u].ids \subseteq lost'
      BY <2>0, <3>2 DEF OnceInv
    <3>5. \A ids \in new : \/ ids \subseteq lost'
                           \/ /\ ids = inflight[t].ids /\ inflight[t].stage = "sent"
                              /\ \A d \in ids : outcome'[d] # "pending"
      BY <3>2, <3>3 DEF OnceInv, Oldest
    <3>6. \A u \in Tabs : inflight'[u].stage \in {"lock", "sent"} =>
                            inflight'[u] = inflight[u]
      BY <2>0, <3>2
    <3> HIDE DEF new
    <3> QED BY <3>1, <3>2, <3>3, <3>4, <3>5, <3>6, OnceLate
  <2> QED
    BY <1>1, <1>4, <2>1, <2>2, <2>3, <2>4, <2>5, <2>6, <2>7, <2>8, <2>9, <2>10, <2>11
    DEF TabNext, DispatchVoid, Navigate, PullState, HydratePulled, SignIn
<1> QED
  BY <1>2, <1>3, <1>4 DEF Next

(* The server applies a dispatch twice only if a POST of it failed on the  *)
(* network: the queue, the retries, the drains and the closing of tabs     *)
(* never send again what was answered.                                     *)
THEOREM TwiceAfterLoss == Spec => []TwiceOnlyAfterLoss
<1>1. Init => QueueInv /\ OnceInv
  BY DEF Init, QueueInv, CarriedIsPending, Carried, PendingIsCarried, NoFlight,
         QueuedIsNotInFlight, OverCarriesNothing, PartyOrderKept, OnceInv, Unlost,
         NoDrain, Draining
<1>2. OnceInv /\ TypeOK => TwiceOnlyAfterLoss
  <2> SUFFICES ASSUME OnceInv, TypeOK, NEW d \in Dispatches, d \notin lost
               PROVE  ~(applied[d] > 1)
    BY DEF TwiceOnlyAfterLoss
  <2> QED BY DEF OnceInv, Unlost, TypeOK
<1> QED
  BY <1>1, <1>2, QueueInductive, OnceInductive, TypeCorrect, PTL DEF Spec

-----------------------------------------------------------------------------
(***************************************************************************)
(* SyncQueue implements DispatchPromise.                                   *)
(***************************************************************************)
(***************************************************************************)
(* Nothing is sent, buffered or carried that was not dispatched.           *)
(***************************************************************************)
InPlace(d) ==
  \/ \E ids \in late : d \in ids
  \/ \E r \in outbox : d \in r.ids
  \/ \E t \in Tabs : \E r \in drain[t].rows : d \in r.ids
  \/ \E t \in Tabs : d \in Carried(t)

IssuedInv ==
  \A d \in Dispatches : /\ InPlace(d) => d <= issued
                        /\ outcome[d] = "unissued" <=> d > issued

LEMMA IssuedKept ==
  ASSUME TypeOK, IssuedInv, issued' = issued,
         \A d \in Dispatches : InPlace(d)' => InPlace(d),
         \A d \in Dispatches : \/ outcome'[d] = outcome[d]
                               \/ InPlace(d) /\ outcome'[d] # "unissued"
  PROVE  IssuedInv'
<1> SUFFICES ASSUME NEW d \in Dispatches
             PROVE  /\ InPlace(d)' => d <= issued
                    /\ outcome'[d] = "unissued" <=> d > issued
  BY DEF IssuedInv
<1>1. d \in Nat /\ issued \in Nat
  BY BoundsAssumption DEF Dispatches, TypeOK
<1> QED BY <1>1 DEF IssuedInv

LEMMA InPlaceStep ==
  ASSUME TypeOK, NEW t \in Tabs, TabNext(t),
         ~ \E kind \in Kinds : Dispatch(t, kind)
  PROVE  \A d \in Dispatches : InPlace(d)' => InPlace(d)
<1> USE DEF clientVars, sharedVars, dispatchVars, serverVars, budgetVars
<1>0. /\ inflight \in [Tabs -> Flight] /\ drain \in [Tabs -> Drain]
      /\ queue \in [Tabs -> SUBSET Dispatches]
      /\ NoFlight.ids = {} /\ NoDrain.rows = {}
  BY DEF TypeOK, NoFlight, NoDrain, Draining
<1>1. ASSUME /\ \A ids \in late' : \A d \in ids : InPlace(d)
             /\ \A r \in outbox' : \A d \in r.ids : InPlace(d)
             /\ \A u \in Tabs : drain'[u].rows \subseteq drain[u].rows \union outbox
             /\ \A u \in Tabs : Carried(u)' \subseteq Carried(u)
      PROVE  \A d \in Dispatches : InPlace(d)' => InPlace(d)
  BY <1>1 DEF InPlace
<1>2. /\ \A ids \in late : \A d \in ids : InPlace(d)
      /\ \A r \in outbox : \A d \in r.ids : InPlace(d)
      /\ \A d \in Carried(t) : InPlace(d)
      /\ \A r \in drain[t].rows : \A d \in r.ids : InPlace(d)
  BY DEF InPlace
<1>3. CASE UNCHANGED <<late, outbox, drain, queue, inflight>>
  BY <1>3 DEF InPlace, Carried
<1>4. CASE TimerFires(t) \/ FlushNow(t)
  <2>1. CASE FlushBody(t)
    <3>1. \E p : \E ids \in SUBSET queue[t] :
            /\ inflight' = [inflight EXCEPT ![t] =
                 [stage |-> "lock", party |-> p, ids |-> ids,
                  snapshot |-> preBatchSnapshot[t], row |-> 0, attempt |-> 0]]
            /\ queue' = [queue EXCEPT ![t] = @ \ ids]
      BY <2>1 DEF FlushBody, FirstBatch
    <3>2. \A u \in Tabs : Carried(u)' \subseteq Carried(u)
      BY <1>0, <3>1 DEF Carried
    <3> QED BY <1>1, <1>2, <1>4, <3>2 DEF TimerFires, FlushNow
  <2>2. CASE ~FlushBody(t)
    BY <1>3, <1>4, <2>2 DEF TimerFires, FlushNow
  <2> QED BY <2>1, <2>2
<1>5. CASE LockGranted(t) \/ ServeFlush(t) \/ LoseFlush(t) \/ Retry(t)
  <2>1. \A u \in Tabs : Carried(u)' \subseteq Carried(u)
    BY <1>0, <1>5 DEF LockGranted, ServeFlush, LoseFlush, Retry, At, Carried
  <2>2. \A ids \in late' : ids \in late \/ ids \subseteq Carried(t)
    BY <1>5 DEF LockGranted, ServeFlush, LoseFlush, Retry, Carried
  <2>3. UNCHANGED <<outbox, drain>>
    BY <1>5 DEF LockGranted, ServeFlush, LoseFlush, Retry
  <2> QED BY <1>1, <1>2, <2>1, <2>2, <2>3
<1>6. CASE \/ ReceiveApplied(t) \/ RejectedRowRemoved(t) \/ ReceiveNameRequired(t)
           \/ ReceiveError(t) \/ SignedOut(t) \/ ReceiveUnauthenticated(t)
           \/ ReceiveRejected(t)
  <2>1. \A u \in Tabs : inflight'[u].ids \subseteq inflight[u].ids
    BY <1>0, <1>6
    DEF ReceiveApplied, RejectedRowRemoved, ReceiveNameRequired, ReceiveError,
        SignedOut, ReceiveUnauthenticated, ReceiveRejected, Finish, At
  <2>2. UNCHANGED <<late, drain, queue>>
    BY <1>6
    DEF ReceiveApplied, RejectedRowRemoved, ReceiveNameRequired, ReceiveError,
        SignedOut, ReceiveUnauthenticated, ReceiveRejected
  <2>3. outbox' \subseteq outbox
    BY <1>6
    DEF ReceiveApplied, RejectedRowRemoved, ReceiveNameRequired, ReceiveError,
        SignedOut, ReceiveUnauthenticated, ReceiveRejected, Without
  <2> QED BY <1>1, <1>2, <2>1, <2>2, <2>3 DEF Carried
<1>7. CASE Park(t)
  <2>1. \A u \in Tabs : inflight'[u].ids \subseteq inflight[u].ids
    BY <1>0, <1>7 DEF Park, Finish, At
  <2>2. UNCHANGED <<late, drain, queue>>
    BY <1>7 DEF Park
  <2>3. \A r \in outbox' : r \in outbox \/ r.ids \subseteq Carried(t)
    BY <1>7 DEF Park, Carried
  <2> QED BY <1>1, <1>2, <2>1, <2>2, <2>3 DEF Carried
<1>8. CASE \/ Connect(t) \/ DrainPull(t) \/ DrainHydrate(t) \/ DrainList(t)
           \/ DrainApplied(t) \/ DrainFails(t) \/ ServeDrain(t)
  <2>1. UNCHANGED <<late, queue, inflight>>
    BY <1>8
    DEF Connect, DrainPull, DrainHydrate, DrainList, DrainApplied, DrainFails,
        ServeDrain
  <2>2. outbox' \subseteq outbox
    BY <1>8
    DEF Connect, DrainPull, DrainHydrate, DrainList, DrainApplied, DrainFails,
        ServeDrain, Without
  <2>3. \A u \in Tabs : drain'[u].rows \subseteq drain[u].rows \union outbox
    <3>1. CASE DrainApplied(t)
      <4>1. PICK r : ReplayFrom(t, drain[t].rows \ {r})
        BY <3>1 DEF DrainApplied
      <4> QED BY <1>0, <4>1 DEF ReplayFrom, Draining
    <3>2. CASE ~DrainApplied(t)
      BY <1>0, <1>8, <3>2
      DEF Connect, DrainPull, DrainHydrate, DrainList, DrainFails, ServeDrain,
          ReplayFrom, Draining
    <3> QED BY <3>1, <3>2
  <2> QED BY <1>1, <1>2, <2>1, <2>2, <2>3 DEF Carried
<1>9. CASE LoseDrain(t)
  <2>1. UNCHANGED <<outbox, queue, inflight>> /\ \A u \in Tabs : drain'[u].rows \subseteq drain[u].rows
    BY <1>0, <1>9 DEF LoseDrain
  <2>2. \A ids \in late' : ids \in late \/ \E r \in drain[t].rows : ids = r.ids
    BY <1>9 DEF LoseDrain, Oldest
  <2> QED BY <1>1, <1>2, <2>1, <2>2 DEF Carried
<1>10. CASE Close(t)
  <2>1. /\ \A u \in Tabs : drain'[u].rows \subseteq drain[u].rows
        /\ \A u \in Tabs : queue'[u] \subseteq queue[u]
        /\ \A u \in Tabs : inflight'[u].ids \subseteq inflight[u].ids
        /\ outbox' = outbox
    BY <1>0, <1>10 DEF Close
  <2>2. \A ids \in late' : \/ ids \in late \/ ids \subseteq Carried(t)
                           \/ \E r \in drain[t].rows : ids = r.ids
    BY <1>10 DEF Close, Oldest, Carried
  <2> QED BY <1>1, <1>2, <2>1, <2>2 DEF Carried
<1> QED
  BY <1>3, <1>4, <1>5, <1>6, <1>7, <1>8, <1>9, <1>10
  DEF TabNext, DispatchVoid, Navigate, PullState, HydratePulled, SignIn

(* Only what a tab carries settles, and nothing becomes unissued again.    *)
LEMMA OutcomeStep ==
  ASSUME TypeOK, NEW t \in Tabs, TabNext(t),
         ~ \E kind \in Kinds : Dispatch(t, kind)
  PROVE  \A d \in Dispatches : \/ outcome'[d] = outcome[d]
                               \/ d \in Carried(t) /\ outcome'[d] # "unissued"
<1> USE DEF clientVars, sharedVars, dispatchVars, serverVars, budgetVars
<1>1. ASSUME NEW ids \in SUBSET Carried(t), NEW result, result # "unissued",
             Resolve(ids, result)
      PROVE  \A d \in Dispatches : \/ outcome'[d] = outcome[d]
                                   \/ d \in Carried(t) /\ outcome'[d] # "unissued"
  BY <1>1 DEF Resolve
<1>2. inflight[t].ids \in SUBSET Carried(t)
  BY DEF Carried
<1>3. CASE ReceiveApplied(t)
  BY <1>1, <1>2, <1>3 DEF ReceiveApplied
<1>4. CASE ReceiveRejected(t)
  BY <1>1, <1>2, <1>4 DEF ReceiveRejected
<1>5. CASE RejectedRowRemoved(t)
  BY <1>1, <1>2, <1>5 DEF RejectedRowRemoved
<1>6. CASE ReceiveUnauthenticated(t)
  BY <1>1, <1>2, <1>6 DEF ReceiveUnauthenticated
<1>7. CASE ReceiveNameRequired(t)
  BY <1>1, <1>2, <1>7 DEF ReceiveNameRequired
<1>8. CASE ReceiveError(t)
  BY <1>1, <1>2, <1>8 DEF ReceiveError
<1>9. CASE Park(t)
  BY <1>1, <1>2, <1>9 DEF Park
<1>10. CASE Close(t)
  BY <1>1, <1>10 DEF Close, Carried
<1>11. CASE UNCHANGED outcome
  BY <1>11
<1> QED
  BY <1>3, <1>4, <1>5, <1>6, <1>7, <1>8, <1>9, <1>10, <1>11
  DEF TabNext, DispatchVoid, Navigate, PullState, HydratePulled, SignIn, TimerFires,
      FlushNow, LockGranted, ServeFlush, LoseFlush, SignedOut, Retry, Connect,
      DrainPull, DrainHydrate, DrainList, ServeDrain, LoseDrain, DrainApplied,
      DrainFails

LEMMA IssuedInductive == TypeOK /\ IssuedInv /\ [Next]_vars => IssuedInv'
<1> USE DEF clientVars, sharedVars, dispatchVars, serverVars, budgetVars
<1> SUFFICES ASSUME TypeOK, IssuedInv, [Next]_vars PROVE IssuedInv'
  OBVIOUS
<1>1. ASSUME NEW ids \in late, ServeLate(ids) PROVE IssuedInv'
  <2>1. \A d \in Dispatches : InPlace(d)' => InPlace(d)
    BY <1>1 DEF ServeLate, InPlace, Carried
  <2> QED BY <1>1, <2>1, IssuedKept DEF ServeLate
<1>2. CASE UNCHANGED vars \/ \E v \in OnlineReports : SetOnline(v)
  <2>1. \A d \in Dispatches : InPlace(d)' => InPlace(d)
    BY <1>2 DEF vars, SetOnline, InPlace, Carried
  <2> QED BY <1>2, <2>1, IssuedKept DEF vars, SetOnline
<1>3. ASSUME NEW t \in Tabs, TabNext(t) PROVE IssuedInv'
  <2>1. ASSUME NEW kind \in Kinds, Dispatch(t, kind) PROVE IssuedInv'
    <3> DEFINE n == issued + 1
    <3>1. n \in Dispatches /\ issued \in Nat /\ issued' = n
      BY <2>1, BoundsAssumption DEF Dispatch, TypeOK, Dispatches
    <3>2. \A d \in Dispatches : d # n => (InPlace(d)' => InPlace(d))
      BY <2>1 DEF Dispatch, TypeOK, InPlace, Carried
    <3>3. /\ \A d \in Dispatches : d # n => outcome'[d] = outcome[d]
          /\ outcome'[n] = "pending"
      BY <2>1, <3>1 DEF Dispatch, TypeOK
    <3>4. ASSUME NEW d \in Dispatches
          PROVE  /\ InPlace(d)' => d <= n
                 /\ outcome'[d] = "unissued" <=> d > n
      <4>1. d \in Nat
        BY BoundsAssumption DEF Dispatches
      <4>2. CASE d = n
        BY <3>1, <3>3, <4>2
      <4>3. CASE d # n
        BY <3>1, <3>2, <3>3, <4>1, <4>3 DEF IssuedInv
      <4> QED BY <4>2, <4>3
    <3> QED BY <3>1, <3>4 DEF IssuedInv
  <2>2. CASE ~ \E kind \in Kinds : Dispatch(t, kind)
    <3>1. issued' = issued
      BY <1>3, <2>2
      DEF TabNext, DispatchVoid, Navigate, PullState, HydratePulled, SignIn,
          TimerFires, FlushNow, LockGranted, ServeFlush, LoseFlush, ReceiveApplied,
          ReceiveRejected, RejectedRowRemoved, ReceiveUnauthenticated, SignedOut,
          ReceiveNameRequired, ReceiveError, Park, Retry, Connect, DrainPull,
          DrainHydrate, DrainList, ServeDrain, LoseDrain, DrainApplied, DrainFails,
          Close
    <3>2. \A d \in Carried(t) : InPlace(d)
      BY DEF InPlace
    <3> QED BY <1>3, <2>2, <3>1, <3>2, InPlaceStep, OutcomeStep, IssuedKept
  <2> QED BY <2>1, <2>2
<1> QED
  BY <1>1, <1>2, <1>3 DEF Next

-----------------------------------------------------------------------------
(***************************************************************************)
(* The simulation.                                                         *)
(***************************************************************************)
Reachable == /\ TypeOK /\ QueueInv /\ RowsInv /\ DrainInv /\ AnswerInv /\ ParkInv
             /\ IssuedInv

PromiseStep == [Promise!Next]_(Promise!vars)

(* A step that changes nothing the promise speaks of.                      *)
LEMMA Stutters ==
  ASSUME UNCHANGED <<outcome, applied, refused, outbox>>
  PROVE  PromiseStep
BY DEF PromiseStep, Promise!vars, Buffered

(* The server reads a batch.                                               *)
LEMMA Serves ==
  ASSUME Reachable, NEW ids \in SUBSET Dispatches, NEW a, Process(ids, a),
         \A d \in ids : InPlace(d), UNCHANGED <<outcome, outbox>>
  PROVE  PromiseStep
<1>1. \A d \in ids : outcome[d] # "unissued"
  <2> SUFFICES ASSUME NEW d \in ids PROVE outcome[d] # "unissued"
    OBVIOUS
  <2>1. d <= issued /\ d \in Nat /\ issued \in Nat
    BY BoundsAssumption DEF Reachable, IssuedInv, TypeOK, Dispatches
  <2> QED BY <2>1 DEF Reachable, IssuedInv
<1>2. UNCHANGED <<outcome, Buffered>>
  BY DEF Buffered
<1>3. CASE a = "ok"
  <2>1. Promise!Apply(ids)
    BY <1>3 DEF Process, Promise!Apply
  <2> QED
    BY <1>1, <1>2, <2>1 DEF PromiseStep, Promise!Next, Promise!Serve
<1>4. CASE a = "rejected"
  <2>1. Promise!Refuse(ids)
    BY <1>4 DEF Process, Promise!Refuse
  <2> QED
    BY <1>1, <1>2, <2>1 DEF PromiseStep, Promise!Next, Promise!Serve
<1>5. CASE a # "ok" /\ a # "rejected"
  BY <1>5, Stutters DEF Process
<1> QED BY <1>3, <1>4, <1>5

(* A tab settles dispatches it carries.                                    *)
LEMMA Settles ==
  ASSUME Reachable, [Next]_vars, NEW t \in Tabs, NEW ids \in SUBSET Carried(t),
         NEW result \in Settled, Resolve(ids, result),
         UNCHANGED <<applied, refused>>,
         Buffered' \subseteq Buffered \union ids,
         result = "ok" => ids \subseteq Committed,
         result = "rejected" => ids \subseteq refused,
         result = "sync_paused" => ids \subseteq Safe'
  PROVE  PromiseStep
<1>1. Safe \subseteq Safe'
  BY SafeStep DEF Reachable
<1>2. Committed' = Committed
  BY DEF Committed
<1>3. Promise!MovesBuffer(ids)
  <2>1. \A d \in ids : outcome[d] = "pending"
    BY DEF Reachable, QueueInv, CarriedIsPending
  <2>2. Buffered \ Promise!Answered \subseteq Buffered'
    BY <1>1, <1>2 DEF Safe, Promise!Answered, Promise!Applied, Committed
  <2> QED BY <2>1, <2>2 DEF Promise!MovesBuffer
<1>4. Promise!Settle(ids, result)
  BY <1>2, <1>3
  DEF Promise!Settle, Promise!Answered, Promise!Applied, Committed, Safe, Resolve
<1>5. ids \in SUBSET Dispatches
  BY FlightFields DEF Reachable, TypeOK, Carried
<1> QED BY <1>4, <1>5 DEF PromiseStep, Promise!Next

(* Only the outbox moves.                                                  *)
LEMMA Buffers ==
  ASSUME Reachable, [Next]_vars, NEW t \in Tabs, NEW ids \in SUBSET Carried(t),
         Buffered' \subseteq Buffered \union ids,
         UNCHANGED <<outcome, applied, refused>>
  PROVE  PromiseStep
<1>1. Safe \subseteq Safe'
  BY SafeStep DEF Reachable
<1>2. Committed' = Committed
  BY DEF Committed
<1>3. \A d \in ids : outcome[d] = "pending"
  BY DEF Reachable, QueueInv, CarriedIsPending
<1>4. Buffered \ Promise!Answered \subseteq Buffered'
  BY <1>1, <1>2 DEF Safe, Promise!Answered, Promise!Applied, Committed
<1>5. ids \in SUBSET Dispatches
  BY FlightFields DEF Reachable, TypeOK, Carried
<1> QED
  BY <1>3, <1>4, <1>5 DEF PromiseStep, Promise!Next, Promise!Buffer, Promise!MovesBuffer

LEMMA Simulation == Reachable /\ [Next]_vars => PromiseStep
<1> USE DEF clientVars, sharedVars, dispatchVars, serverVars, budgetVars
<1> SUFFICES ASSUME Reachable, [Next]_vars PROVE PromiseStep
  OBVIOUS
<1>0. TypeOK
  BY DEF Reachable
<1>1. CASE UNCHANGED <<outcome, applied, refused, outbox>>
  BY <1>1, Stutters
<1>2. ASSUME NEW ids \in late, ServeLate(ids) PROVE PromiseStep
  <2>1. PICK a : Process(ids, a)
    BY <1>2 DEF ServeLate
  <2>2. ids \in SUBSET Dispatches /\ \A d \in ids : InPlace(d)
    BY <1>0 DEF TypeOK, InPlace
  <2> QED BY <1>2, <2>1, <2>2, Serves DEF ServeLate
<1>3. ASSUME NEW t \in Tabs, TabNext(t), ~UNCHANGED <<outcome, applied, refused, outbox>>
      PROVE  PromiseStep
  <2>0. /\ inflight[t].ids \in SUBSET Carried(t)
        /\ inflight[t].ids \in SUBSET Dispatches
        /\ {} \in SUBSET Carried(t)
        /\ Without(inflight[t].row) \subseteq outbox
    BY <1>0, FlightFields DEF Carried, TypeOK, Without
  <2>1. ASSUME outbox' \subseteq outbox PROVE Buffered' \subseteq Buffered
    BY <2>1 DEF Buffered
  <2>2. ASSUME NEW kind \in Kinds, Dispatch(t, kind) PROVE PromiseStep
    <3> DEFINE n == issued + 1
    <3>1. n \in Dispatches /\ n > issued
      BY <1>0, <2>2, BoundsAssumption DEF Dispatch, TypeOK, Dispatches
    <3>2. outcome[n] = "unissued"
      BY <3>1 DEF Reachable, IssuedInv
    <3>3. UNCHANGED <<applied, refused, Buffered>>
      BY <2>2 DEF Dispatch, Buffered
    <3>4. Promise!Issue(n)
      BY <2>2, <3>2, <3>3 DEF Dispatch, Promise!Issue
    <3> QED BY <3>1, <3>4 DEF PromiseStep, Promise!Next
  <2>3. CASE ServeFlush(t)
    <3>1. PICK a : Process(inflight[t].ids, a)
      BY <2>3 DEF ServeFlush
    <3>2. \A d \in inflight[t].ids : InPlace(d)
      BY DEF InPlace, Carried
    <3> QED BY <2>0, <2>3, <3>1, <3>2, Serves DEF ServeFlush
  <2>4. CASE ServeDrain(t)
    <3>1. PICK r \in Oldest(drain[t].rows) : \E a : Process(r.ids, a)
      BY <2>4 DEF ServeDrain
    <3>2. r.ids \in SUBSET Dispatches /\ \A d \in r.ids : InPlace(d)
      BY <1>0, DrainFields DEF TypeOK, Oldest, Row, InPlace
    <3> QED BY <2>4, <3>1, <3>2, Serves DEF ServeDrain
  <2>5. CASE ReceiveApplied(t)
    <3>1. inflight[t].ids \subseteq Committed
      BY <2>5 DEF ReceiveApplied, Reachable, AnswerInv, Believes
    <3> QED
      BY <2>0, <2>1, <2>5, <3>1, Settles DEF ReceiveApplied, Settled, AllAnswers
  <2>6. CASE ReceiveRejected(t)
    <3>1. inflight[t].ids \subseteq refused
      BY <2>6 DEF ReceiveRejected, Reachable, AnswerInv, Believes
    <3>2. Resolve(inflight[t].ids, "rejected")
      BY <1>3, <2>6 DEF ReceiveRejected
    <3> QED
      BY <2>0, <2>1, <2>6, <3>1, <3>2, Settles DEF ReceiveRejected, Settled, AllAnswers
  <2>7. CASE RejectedRowRemoved(t)
    <3>1. inflight[t].ids \subseteq refused
      BY <2>7 DEF RejectedRowRemoved, Reachable, AnswerInv, Believes
    <3> QED
      BY <2>0, <2>1, <2>7, <3>1, Settles DEF RejectedRowRemoved, Settled, AllAnswers
  <2>8. CASE ReceiveUnauthenticated(t)
    BY <2>0, <2>1, <2>8, Settles DEF ReceiveUnauthenticated, Settled, AllAnswers
  <2>9. CASE ReceiveNameRequired(t)
    BY <2>0, <2>1, <2>9, Settles DEF ReceiveNameRequired, Settled, AllAnswers
  <2>10. CASE ReceiveError(t)
    BY <2>0, <2>1, <2>10, Settles DEF ReceiveError, Settled, AllAnswers
  <2>11. CASE Park(t)
    <3>1. Buffered' \subseteq Buffered \union inflight[t].ids
      BY <2>11 DEF Park, Buffered
    <3>2. inflight[t].ids \subseteq Safe'
      <4>1. CASE inflight[t].row = 0
        <5>1. PICK r \in outbox' : r.ids = inflight[t].ids
          BY <2>11, <4>1 DEF Park
        <5> QED BY <5>1 DEF Safe, Buffered
      <4>2. CASE inflight[t].row # 0
        BY <4>2, SafeStep DEF Reachable, ParkInv
      <4> QED BY <4>1, <4>2
    <3>3. CASE inflight[t].attempt + 1 >= MAX_ATTEMPTS
      <4>1. Resolve(inflight[t].ids, "sync_paused") /\ UNCHANGED <<applied, refused>>
        BY <2>11, <3>3 DEF Park
      <4> QED BY <2>0, <3>1, <3>2, <4>1, Settles DEF Settled
    <3>4. CASE ~(inflight[t].attempt + 1 >= MAX_ATTEMPTS)
      <4>1. UNCHANGED <<outcome, applied, refused>>
        BY <2>11, <3>4 DEF Park
      <4> QED BY <2>0, <3>1, <4>1, Buffers
    <3> QED BY <3>3, <3>4
  <2>12. CASE DrainApplied(t) \/ DrainFails(t)
    <3>1. outbox' \subseteq outbox /\ UNCHANGED <<outcome, applied, refused>>
      BY <2>12 DEF DrainApplied, DrainFails, Without
    <3> QED BY <2>0, <2>1, <3>1, Buffers
  <2>13. CASE Close(t)
    <3>1. /\ Resolve(Carried(t), "closed") /\ outbox' = outbox
          /\ UNCHANGED <<applied, refused>>
      BY <2>13 DEF Close, Carried
    <3> QED BY <2>1, <3>1, Settles DEF Settled
  <2> QED
    BY <1>3, <2>2, <2>3, <2>4, <2>5, <2>6, <2>7, <2>8, <2>9, <2>10, <2>11, <2>12,
       <2>13
    DEF TabNext, DispatchVoid, Navigate, PullState, HydratePulled, SignIn, TimerFires,
        FlushNow, LockGranted, LoseFlush, SignedOut, Retry, Connect, DrainPull,
        DrainHydrate, DrainList, LoseDrain
<1> QED
  BY <1>1, <1>2, <1>3 DEF Next, vars, SetOnline

(* The queue, the retries, the outbox and the drains implement the promise *)
(* of DispatchPromise, for any number of tabs and dispatches: an outcome   *)
(* is settled once and by what the server said, and what leaves the outbox *)
(* was answered.                                                           *)
THEOREM Implements == Spec => KeepsPromise
<1>1. Init => /\ QueueInv /\ RowsInv /\ DrainInv /\ AnswerInv /\ ParkInv /\ IssuedInv
              /\ Promise!Init
  <2> SUFFICES ASSUME Init
               PROVE  /\ QueueInv /\ RowsInv /\ DrainInv /\ AnswerInv /\ ParkInv
                      /\ IssuedInv /\ Promise!Init
    OBVIOUS
  <2>1. QueueInv /\ RowsInv /\ DrainInv /\ AnswerInv /\ ParkInv
    BY DEF Init, QueueInv, CarriedIsPending, Carried, PendingIsCarried, NoFlight,
           QueuedIsNotInFlight, OverCarriesNothing, PartyOrderKept, RowsInv, DrainInv,
           AnswerInv, ParkInv, ParkedIsKept, NoDrain, Draining, Oldest, Believes,
           OutcomeIsServers
  <2>2. IssuedInv
    <3>1. \A d \in Dispatches : ~InPlace(d) /\ outcome[d] = "unissued"
      BY DEF Init, InPlace, Carried, NoFlight, NoDrain, Draining
    <3>2. \A d \in Dispatches : d > issued
      BY BoundsAssumption DEF Init, Dispatches
    <3> QED BY <3>1, <3>2 DEF IssuedInv
  <2>3. Promise!Init
    BY DEF Init, Promise!Init, Buffered
  <2> QED BY <2>1, <2>2, <2>3
<1>2. TypeOK /\ QueueInv /\ RowsInv /\ DrainInv /\ AnswerInv /\ ParkInv /\ IssuedInv
        <=> Reachable
  BY DEF Reachable
<1>3. PromiseStep <=> [Promise!Next]_(Promise!vars)
  BY DEF PromiseStep
<1> QED
  BY <1>1, <1>2, <1>3, QueueInductive, RowsInductive, DrainInductive, AnswerInductive,
     ParkInductive, IssuedInductive, Simulation, TypeCorrect, PTL
  DEF Spec, KeepsPromise, Promise!Spec
=============================================================================
