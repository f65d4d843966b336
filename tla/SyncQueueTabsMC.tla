-------------------------- MODULE SyncQueueTabsMC --------------------------
(***************************************************************************)
(* SyncQueue for TLC: either two tabs on one party, one of which may be    *)
(* closed, or one tab that moves between a shared and a solo party.        *)
(***************************************************************************)
EXTENDS SyncQueue, TLC

CONSTANTS
  solo,                            \* the party the two tabs do not open
  FewAnswers, PlainKinds, Reports  \* what the one tab meets

VARIABLE side  \* "both", or the one tab

P == INSTANCE SyncQueue WITH
       Solo <- {solo}, Answers <- FewAnswers, Kinds <- PlainKinds,
       OnlineReports <- Reports, MAX_BATCH <- 2, MaxConnects <- 0, MaxCloses <- 0

TabSymmetry == Permutations(Tabs)

InitEither ==
  \/ side = "both" /\ Init
  \/ side \in Tabs /\ P!Init

NextEither ==
  \/ /\ side = "both"
     /\ Next
     /\ issued' <= 2  \* bound
     /\ \A t \in Tabs : url'[t] # solo
     /\ UNCHANGED side
  \/ /\ side \in Tabs
     /\ \/ P!TabNext(side)
        \/ \E v \in Reports : P!SetOnline(v)
        \/ \E ids \in late : P!ServeLate(ids)
     /\ issued' > 1 => online'  \* bound
     /\ UNCHANGED side

SpecEither == InitEither /\ [][NextEither]_<<side, vars>>
=============================================================================
