------------------------- MODULE WatchEngineProofs -------------------------
(***************************************************************************)
(* The watch scheduler's safety, for every set of sources, every cadence   *)
(* and every number of events: an inductive invariant, and the refinement  *)
(* of SyncScheduler.                                                       *)
(***************************************************************************)
EXTENDS WatchEngine, TLAPS

-----------------------------------------------------------------------------
(***************************************************************************)
(* The inductive invariant                                                 *)
(***************************************************************************)
\* A dirty source has been marked since it was clean.
CountsOK == \A s \in Registered : src[s].dirty => src[s].count > 0

\* What the running sync was authorised with: a source marked since then has
\* a higher count than the poll has seen.
FlightOK ==
  /\ ~syncing => inFlight = NoFlight
  /\ DOMAIN inFlight \subseteq Registered
  /\ \A s \in DOMAIN inFlight :
       /\ src[s].count >= inFlight[s]
       /\ owed[s] = "news" => src[s].count > inFlight[s]

\* Nothing parks the loop or makes it wait while a sync runs.
RunsUntroubled == syncing => policy.parked = "none" /\ policy.wait = 0

\* A budget that is used up parks.
BudgetsLeft == policy.parked = "none" => policy.auth < AuthBudget /\ policy.panics < PanicBudget

\* A recoverable failure is remembered as long as it counts.
RecoveryRemembered == recoverables >= 1 => policy.recoverAttempted

\* What a failure leaves behind until time passes.
FailureWaits ==
  justFailed => \/ policy.parked # "none"
                \/ policy.wait > 0
                \/ policy.recoverPending /\ recoverables = 1

EngineInv ==
  /\ TypeOK
  /\ CountsOK
  /\ FlightOK
  /\ RunsUntroubled
  /\ BudgetsLeft
  /\ RecoveryRemembered
  /\ FailureWaits
  /\ ToldChangesStayDirty
  /\ RecoversOnceThenParks
  /\ NoHotLoop

-----------------------------------------------------------------------------
(***************************************************************************)
(* The policy                                                              *)
(***************************************************************************)
\* The shift of the code is at most 6.
LEMMA Powers == \A n \in 0..6 : 2 ^ n \in Nat /\ 2 ^ n > 0
<1> DEFINE P(n) == 2 ^ n \in Nat /\ 2 ^ n > 0
<1>1. P(0) /\ P(1) /\ P(2) /\ P(3) /\ P(4) /\ P(5) /\ P(6)
  OBVIOUS
<1>2. \A n \in 0..6 : n = 0 \/ n = 1 \/ n = 2 \/ n = 3 \/ n = 4 \/ n = 5 \/ n = 6
  OBVIOUS
<1> HIDE DEF P
<1>3. \A n \in 0..6 : P(n)
  BY <1>1, <1>2, Zenon
<1> QED
  BY <1>3 DEF P

\* Every delay is a wait, and none is longer than the cap.
LEMMA DelayType == \A n \in 0..BackoffSteps : Delay(n) \in 1..BackoffCap
<1> SUFFICES ASSUME NEW n \in 0..BackoffSteps PROVE Delay(n) \in 1..BackoffCap
  OBVIOUS
<1>1. n \in 0..6 /\ BackoffBase \in Nat \ {0} /\ BackoffCap \in Nat \ {0}
  BY EngineAssumption
<1> DEFINE p == 2 ^ n
<1>2. p \in Nat /\ p > 0
  BY <1>1, Powers
<1> HIDE DEF p
<1>3. BackoffBase * p \in Nat /\ BackoffBase * p > 0
  BY <1>1, <1>2
<1> QED
  BY <1>1, <1>3 DEF Delay, Smaller, p

\* A backoff waits, and touches nothing else.
LEMMA BackoffWaits ==
  ASSUME NEW p \in Policies
  PROVE  /\ Backoff(p) \in Policies
         /\ Backoff(p).wait > 0
         /\ Backoff(p).parked = p.parked
         /\ Backoff(p).recoverAttempted = p.recoverAttempted
         /\ Backoff(p).recoverPending = p.recoverPending
         /\ Backoff(p).auth = p.auth
         /\ Backoff(p).panics = p.panics
<1> DEFINE d == Delay(p.attempts)
           m == Smaller(p.attempts + 1, BackoffSteps)
<1>1. p.attempts \in 0..BackoffSteps
  BY DEF Policies
<1>2. d \in 1..BackoffCap
  BY <1>1, DelayType
<1>3. m \in 0..BackoffSteps
  BY <1>1, EngineAssumption DEF Smaller
<1>4. Backoff(p) = [p EXCEPT !.wait = d, !.attempts = m]
  BY DEF Backoff, Policies
<1> HIDE DEF d, m
<1>5. d \in 0..BackoffCap /\ d > 0
  BY <1>2, EngineAssumption
<1> QED
  BY <1>3, <1>4, <1>5 DEF Policies

\* A fresh policy troubles nobody.
LEMMA UntroubledType == Untroubled \in Policies
BY EngineAssumption DEF Untroubled, Policies, Codes

-----------------------------------------------------------------------------
(***************************************************************************)
(* Sources                                                                 *)
(***************************************************************************)
\* A mark below the bound makes a source dirty, with one more count.
LEMMA MarkedState ==
  ASSUME NEW state \in SourceStates, state.count < MaxCount
  PROVE  /\ Marked(state) \in SourceStates
         /\ Marked(state).dirty
         /\ Marked(state).count = state.count + 1
<1>1. state.count + 1 \in 0..MaxCount /\ 0 \in 0..Window
  BY EngineAssumption DEF SourceStates
<1> DEFINE c == state.count + 1
<1>2. Marked(state) = [state EXCEPT !.dirty = TRUE, !.count = c, !.quiet = 0]
  BY DEF Marked, SourceStates
<1>3. c \in 0..MaxCount
  BY <1>1
<1> HIDE DEF c
<1>4. Marked(state) \in SourceStates /\ Marked(state).dirty /\ Marked(state).count = c
  BY <1>1, <1>2, <1>3 DEF SourceStates
<1> QED
  BY <1>4 DEF c

\* A source that is registered owes a catch-up.
LEMMA NewSourceState ==
  /\ NewSource \in SourceStates /\ NewSource.dirty /\ NewSource.count = 1
  /\ NewSource.count < MaxCount
BY EngineAssumption DEF NewSource, SourceStates

\* The surface is registered and owes everything.
LEMMA InitInv == Init => EngineInv
<1> SUFFICES ASSUME Init PROVE EngineInv
  OBVIOUS
<1> USE DEF Init
<1>1. \A s \in Sources : src[s] \in SourceStates /\ src[s].dirty /\ src[s].count = 2
  BY MarkedState, NewSourceState
<1>2. Registered = Sources
  BY DEF Registered
<1>3. TypeOK
  <2>1. src \in [Registered -> SourceStates]
    BY <1>1, <1>2
  <2>2. DOMAIN inFlight = {}
    BY DEF NoFlight
  <2>5. owed \in [Sources -> {"nothing", "polled", "news"}]
    OBVIOUS
  <2>6. /\ cadence \in Cadences /\ tracked \subseteq TrackedSources
        /\ paused \in BOOLEAN /\ syncing \in BOOLEAN /\ inFlightRecover \in BOOLEAN /\ justFailed \in BOOLEAN
    BY Zenon
  <2>7. recoverables \in 0..3
    OBVIOUS
  <2>3. left \in [EventKinds -> Nat]
    BY EngineAssumption
  <2>4. policy \in Policies
    BY UntroubledType
  <2> QED
    BY <1>2, <2>1, <2>2, <2>3, <2>4, <2>5, <2>6, <2>7, Zenon DEF TypeOK
<1>4. CountsOK /\ FlightOK /\ ToldChangesStayDirty
  BY <1>1, <1>2 DEF CountsOK, FlightOK, ToldChangesStayDirty, NoFlight
<1>5. RunsUntroubled /\ BudgetsLeft /\ RecoveryRemembered /\ FailureWaits /\ RecoversOnceThenParks /\ NoHotLoop
  BY EngineAssumption DEF RunsUntroubled, BudgetsLeft, RecoveryRemembered, FailureWaits,
     RecoversOnceThenParks, NoHotLoop, Untroubled
<1> QED
  BY <1>3, <1>4, <1>5 DEF EngineInv

\* Time passes.
LEMMA ElapseInv ==
  ASSUME EngineInv, Elapse
  PROVE  EngineInv'
<1> USE DEF EngineInv
<1>1. \A s \in Registered : /\ src'[s] \in SourceStates
                            /\ src'[s].dirty = src[s].dirty /\ src'[s].count = src[s].count
  <2> SUFFICES ASSUME NEW s \in Registered
               PROVE  /\ src'[s] \in SourceStates
                      /\ src'[s].dirty = src[s].dirty /\ src'[s].count = src[s].count
    OBVIOUS
  <2> DEFINE q == Smaller(src[s].quiet + 1, Window)
             r == Smaller(src[s].rested + 1, MaxInterval)
  <2>1. src[s] \in SourceStates
    BY DEF TypeOK
  <2>2. src[s].quiet \in 0..Window /\ src[s].rested \in 0..MaxInterval
    BY <2>1 DEF SourceStates
  <2>3. q \in 0..Window /\ r \in 0..MaxInterval
    BY <2>2, EngineAssumption DEF Smaller
  <2>4. src'[s] = [src[s] EXCEPT !.quiet = q, !.rested = r]
    BY <2>1 DEF Elapse, SourceStates
  <2> HIDE DEF q, r
  <2> QED
    BY <2>1, <2>3, <2>4 DEF SourceStates
<1>2. Registered' = Registered
  BY DEF Registered, Elapse
<1>3. policy' \in Policies /\ \A f \in DOMAIN policy \ {"wait"} : policy'[f] = policy[f]
  <2> DEFINE w == IF policy.wait = 0 THEN 0 ELSE policy.wait - 1
  <2>1. policy \in Policies
    BY DEF TypeOK
  <2>2. policy.wait \in 0..BackoffCap
    BY <2>1 DEF Policies
  <2>3. w \in 0..BackoffCap
    BY <2>2, EngineAssumption
  <2>4. policy' = [policy EXCEPT !.wait = w]
    BY DEF Elapse
  <2> HIDE DEF w
  <2> QED
    BY <2>1, <2>3, <2>4 DEF Policies
<1> USE DEF Elapse, flight
<1>4. TypeOK'
  <2>1. src' \in [Registered -> SourceStates]
    BY <1>1 DEF Registered
  <2> QED
    BY <1>2, <1>3, <2>1 DEF TypeOK
<1>5. CountsOK' /\ FlightOK' /\ ToldChangesStayDirty'
  BY <1>1, <1>2 DEF CountsOK, FlightOK, ToldChangesStayDirty
<1>6. RunsUntroubled' /\ BudgetsLeft' /\ RecoveryRemembered' /\ RecoversOnceThenParks'
  BY DEF TypeOK, Policies, RunsUntroubled, BudgetsLeft, RecoveryRemembered, RecoversOnceThenParks
<1>7. FailureWaits' /\ NoHotLoop'
  BY DEF FailureWaits, NoHotLoop
<1> QED
  BY <1>4, <1>5, <1>6, <1>7

\* A mark is news, and raises the count above what the poll has seen.
LEMMA MarkDirtyInv ==
  ASSUME EngineInv, NEW s \in Sources, MarkDirty(s)
  PROVE  EngineInv'
<1> USE DEF EngineInv, MarkDirty, flight
<1>1. s \in Registered /\ src' = [src EXCEPT ![s] = Marked(src[s])]
  OBVIOUS
<1>2. /\ Marked(src[s]) \in SourceStates /\ Marked(src[s]).dirty
      /\ Marked(src[s]).count = src[s].count + 1
  BY MarkedState DEF TypeOK
<1>3. Registered' = Registered
  BY <1>1 DEF Registered
<1>4. TypeOK'
  <2>1. left' \in [EventKinds -> Nat]
    BY DEF Use, TypeOK, EventKinds
  <2>2. src' \in [Registered -> SourceStates]
    BY <1>1, <1>2 DEF TypeOK
  <2> QED
    BY <1>3, <2>1, <2>2 DEF TypeOK
<1>5. \A t \in Registered : src[t].count \in Nat
  BY EngineAssumption DEF TypeOK, SourceStates
<1>6. \A t \in DOMAIN inFlight : inFlight[t] \in Nat
  BY EngineAssumption DEF TypeOK
<1>7. CountsOK' /\ ToldChangesStayDirty'
  BY <1>1, <1>2, <1>3, <1>5 DEF CountsOK, ToldChangesStayDirty, TypeOK
<1>8. FlightOK'
  BY <1>1, <1>2, <1>3, <1>5, <1>6 DEF FlightOK, TypeOK
<1>9. RunsUntroubled' /\ BudgetsLeft' /\ RecoveryRemembered' /\ RecoversOnceThenParks'
      /\ FailureWaits' /\ NoHotLoop'
  BY DEF RunsUntroubled, BudgetsLeft, RecoveryRemembered, RecoversOnceThenParks, FailureWaits, NoHotLoop
<1> QED
  BY <1>4, <1>7, <1>8, <1>9

\* So does every mark of a lost event.
LEMMA MarkAllDirtyInv ==
  ASSUME EngineInv, MarkAllDirty
  PROVE  EngineInv'
<1> USE DEF EngineInv, MarkAllDirty, flight
<1>1. \A s \in Registered : src'[s] \in SourceStates /\ src'[s].dirty /\ src'[s].count = src[s].count + 1
  BY MarkedState DEF TypeOK
<1>2. Registered' = Registered
  BY DEF Registered
<1>3. TypeOK'
  <2>1. left' \in [EventKinds -> Nat]
    BY DEF Use, TypeOK, EventKinds
  <2>2. src' \in [Registered -> SourceStates]
    BY <1>1 DEF Registered
  <2>3. owed' \in [Sources -> {"nothing", "polled", "news"}]
    BY DEF TypeOK
  <2> QED
    BY <1>2, <2>1, <2>2, <2>3 DEF TypeOK
<1>4. \A t \in Registered : src[t].count \in Nat
  BY EngineAssumption DEF TypeOK, SourceStates
<1>5. CountsOK' /\ ToldChangesStayDirty' /\ FlightOK'
  BY <1>1, <1>2, <1>4 DEF CountsOK, ToldChangesStayDirty, FlightOK, NoFlight
<1>6. RunsUntroubled' /\ BudgetsLeft' /\ RecoveryRemembered' /\ RecoversOnceThenParks'
      /\ FailureWaits' /\ NoHotLoop'
  BY DEF RunsUntroubled, BudgetsLeft, RecoveryRemembered, RecoversOnceThenParks, FailureWaits, NoHotLoop
<1> QED
  BY <1>3, <1>5, <1>6

\* The sources that stay keep their state, the others owe nothing any more.
LEMMA SetSourcesInv ==
  ASSUME EngineInv, NEW ids \in SUBSET Sources,
         NEW channel \in SUBSET TrackedSources, SetSources(ids, channel)
  PROVE  EngineInv'
<1> USE DEF EngineInv, SetSources, flight
<1>1. Registered' = ids
  BY DEF Registered
<1>2. \A s \in ids : src'[s] = IF s \in Registered THEN src[s] ELSE NewSource
  OBVIOUS
<1>3. TypeOK'
  <2>1. left' \in [EventKinds -> Nat]
    BY DEF Use, TypeOK, EventKinds
  <2>2. src' \in [ids -> SourceStates]
    BY NewSourceState DEF TypeOK
  <2>3. owed' \in [Sources -> {"nothing", "polled", "news"}]
    BY DEF TypeOK
  <2> QED
    BY <1>1, <2>1, <2>2, <2>3 DEF TypeOK
<1>4. CountsOK' /\ ToldChangesStayDirty' /\ FlightOK'
  BY <1>1, <1>2, NewSourceState DEF CountsOK, ToldChangesStayDirty, FlightOK, NoFlight
<1>5. RunsUntroubled' /\ BudgetsLeft' /\ RecoveryRemembered' /\ RecoversOnceThenParks'
      /\ FailureWaits' /\ NoHotLoop'
  BY DEF RunsUntroubled, BudgetsLeft, RecoveryRemembered, RecoversOnceThenParks, FailureWaits, NoHotLoop
<1> QED
  BY <1>3, <1>4, <1>5


-----------------------------------------------------------------------------
(***************************************************************************)
(* Polls                                                                   *)
(***************************************************************************)
\* A poll takes down what every dirty source counts.
LEMMA BeginInv ==
  ASSUME EngineInv, MayRun, NEW kind, BeginSync(kind),
         UNCHANGED <<schedule, policy, recoverables, justFailed, left>>,
         policy.recoverPending <=> kind = "recover"
  PROVE  EngineInv'
<1> USE DEF EngineInv, schedule, BeginSync
<1>1. Registered' = Registered /\ Dirty \subseteq Registered
  BY DEF Registered, Dirty
<1>2. \A s \in Dirty : src[s].count \in 1..MaxCount
  BY EngineAssumption DEF TypeOK, CountsOK, SourceStates, Dirty
<1>3. DOMAIN inFlight' = Dirty /\ \A s \in Dirty : inFlight'[s] = src[s].count
  OBVIOUS
<1>4. TypeOK'
  <2>1. owed' \in [Sources -> {"nothing", "polled", "news"}]
    BY DEF TypeOK
  <2>2. inFlightRecover' \in BOOLEAN /\ syncing' \in BOOLEAN
    BY Zenon
  <2> QED
    BY <1>1, <1>2, <1>3, <2>1, <2>2 DEF TypeOK
<1>5. FlightOK'
  <2>1. \A s \in Dirty : s \in Sources /\ owed'[s] = "polled"
    BY <1>1 DEF TypeOK
  <2> QED
    BY <1>1, <1>2, <1>3, <2>1 DEF FlightOK
<1>6. ToldChangesStayDirty'
  BY <1>1 DEF ToldChangesStayDirty, Dirty, TypeOK
<1>7. CountsOK' /\ BudgetsLeft' /\ RecoveryRemembered' /\ RecoversOnceThenParks' /\ FailureWaits'
  BY <1>1 DEF CountsOK, BudgetsLeft, RecoveryRemembered, RecoversOnceThenParks, FailureWaits
<1>8. RunsUntroubled' /\ NoHotLoop'
  <2>1. RunsUntroubled'
    BY DEF MayRun, RunsUntroubled
  <2>2. justFailed => policy.recoverPending /\ recoverables = 1
    BY DEF MayRun, FailureWaits
  <2>3. inFlightRecover' = (kind = "recover") /\ recoverables' = recoverables /\ justFailed' = justFailed
    OBVIOUS
  <2>4. CASE ~justFailed
    BY <2>1, <2>3, <2>4 DEF NoHotLoop
  <2>5. CASE justFailed
    <3>1. kind = "recover" /\ recoverables = 1
      BY <2>2, <2>5
    <3> QED
      BY <2>1, <2>3, <3>1 DEF NoHotLoop
  <2> QED
    BY <2>4, <2>5
<1> QED
  BY <1>4, <1>5, <1>6, <1>7, <1>8

LEMMA PollInv ==
  ASSUME EngineInv, PollSync \/ PollRecover
  PROVE  EngineInv'
<1>1. CASE PollSync
  BY <1>1, BeginInv DEF PollSync
<1>2. CASE PollRecover
  BY <1>2, BeginInv DEF PollRecover
<1> QED
  BY <1>1, <1>2

-----------------------------------------------------------------------------
(***************************************************************************)
(* Results                                                                 *)
(***************************************************************************)
\* What the end of a sync without a success leaves alone.
LEMMA EndWithoutSuccess ==
  ASSUME EngineInv, EndFlight, UNCHANGED <<schedule, owed>>,
         policy' \in Policies, recoverables' \in 0..3,
         inFlightRecover' \in BOOLEAN, justFailed' \in BOOLEAN, left' \in [EventKinds -> Nat]
  PROVE  TypeOK' /\ CountsOK' /\ FlightOK' /\ RunsUntroubled' /\ ToldChangesStayDirty' /\ NoHotLoop'
<1> USE DEF EngineInv, schedule, EndFlight
<1>1. Registered' = Registered
  BY DEF Registered
<1>2. DOMAIN inFlight' = {} /\ inFlight' = NoFlight
  BY DEF NoFlight
<1>3. TypeOK'
  BY <1>1, <1>2 DEF TypeOK
<1>4. CountsOK' /\ FlightOK' /\ ToldChangesStayDirty'
  BY <1>1, <1>2 DEF CountsOK, FlightOK, ToldChangesStayDirty
<1>5. RunsUntroubled' /\ NoHotLoop'
  BY DEF RunsUntroubled, NoHotLoop
<1> QED
  BY <1>3, <1>4, <1>5

LEMMA UseType == ASSUME TypeOK, NEW kind \in EventKinds, Use(kind) PROVE left' \in [EventKinds -> Nat]
BY DEF Use, TypeOK

\* A success cleans what was not marked again, and forgets every trouble.
LEMMA RecordOkInv ==
  ASSUME EngineInv, RecordOk
  PROVE  EngineInv'
<1> USE DEF EngineInv
<1> DEFINE covered == DOMAIN inFlight \cap Registered
           unchanged == {s \in covered : src[s].count = inFlight[s]}
<1>1. /\ syncing /\ syncing' = FALSE /\ inFlight' = NoFlight /\ inFlightRecover' = FALSE
      /\ policy' = [Untroubled EXCEPT !.parked = policy.parked]
      /\ owed' = [s \in Sources |-> IF owed[s] = "polled" THEN "nothing" ELSE owed[s]]
      /\ recoverables' = 0 /\ justFailed' = FALSE
      /\ UNCHANGED <<cadence, tracked, paused, left>>
  BY DEF RecordOk, EndFlight
<1>2. src' = [s \in Registered |->
                CASE s \in unchanged -> [src[s] EXCEPT !.rested = 0, !.dirty = FALSE, !.count = 0]
                  [] s \in covered \ unchanged -> [src[s] EXCEPT !.rested = 0]
                  [] OTHER -> src[s]]
  BY DEF RecordOk
<1>3. Registered' = Registered
  BY <1>2 DEF Registered
<1>4. \A s \in Registered \ unchanged : /\ src'[s] \in SourceStates
                                       /\ src'[s].dirty = src[s].dirty /\ src'[s].count = src[s].count
  <2> SUFFICES ASSUME NEW s \in Registered \ unchanged
               PROVE  /\ src'[s] \in SourceStates
                      /\ src'[s].dirty = src[s].dirty /\ src'[s].count = src[s].count
    OBVIOUS
  <2>1. src[s] \in SourceStates
    BY DEF TypeOK
  <2>2. src'[s] = [src[s] EXCEPT !.rested = 0] \/ src'[s] = src[s]
    BY <1>2
  <2>3. 0 \in 0..MaxInterval
    BY EngineAssumption
  <2> QED
    BY <2>1, <2>2, <2>3 DEF SourceStates
<1>5. \A s \in unchanged : /\ src'[s] \in SourceStates
                           /\ ~src'[s].dirty /\ src'[s].count = 0
  <2> SUFFICES ASSUME NEW s \in unchanged
               PROVE  src'[s] \in SourceStates /\ ~src'[s].dirty /\ src'[s].count = 0
    OBVIOUS
  <2>1. src[s] \in SourceStates
    BY DEF TypeOK
  <2>2. src'[s] = [src[s] EXCEPT !.rested = 0, !.dirty = FALSE, !.count = 0]
    BY <1>2
  <2>3. 0 \in 0..MaxInterval /\ 0 \in 0..MaxCount
    BY EngineAssumption
  <2> QED
    BY <2>1, <2>2, <2>3 DEF SourceStates
<1>6. \A s \in unchanged : owed[s] # "news"
  <2>1. \A s \in unchanged : src[s].count \in Nat /\ inFlight[s] \in Nat
    BY EngineAssumption DEF TypeOK, SourceStates
  <2> QED
    BY <2>1 DEF FlightOK
<1>7. policy' = Untroubled
  BY <1>1 DEF RunsUntroubled, Untroubled
<1>8. DOMAIN inFlight' = {}
  BY <1>1 DEF NoFlight
<1>9. TypeOK'
  <2>1. src' \in [Registered -> SourceStates]
    BY <1>2, <1>4, <1>5
  <2>2. owed' \in [Sources -> {"nothing", "polled", "news"}]
    BY <1>1 DEF TypeOK
  <2>3. policy' \in Policies
    BY <1>7, UntroubledType
  <2>4. /\ inFlightRecover' \in BOOLEAN /\ syncing' \in BOOLEAN /\ justFailed' \in BOOLEAN
        /\ recoverables' \in 0..3
    <3>1. recoverables' \in 0..3
      BY <1>1
    <3> QED
      BY <1>1, <3>1, Zenon
  <2> QED
    BY <1>1, <1>3, <1>8, <2>1, <2>2, <2>3, <2>4 DEF TypeOK
<1>10. CountsOK' /\ FlightOK'
  BY <1>1, <1>3, <1>4, <1>5, <1>8 DEF CountsOK, FlightOK
<1>11. ToldChangesStayDirty'
  <2> SUFFICES ASSUME NEW s \in Sources, owed'[s] # "nothing"
               PROVE  s \in Registered /\ src'[s].dirty
    BY <1>3 DEF ToldChangesStayDirty
  <2>1. owed[s] = "news"
    BY <1>1 DEF TypeOK
  <2>2. s \in Registered \ unchanged /\ src[s].dirty
    BY <1>6, <2>1 DEF ToldChangesStayDirty
  <2> QED
    BY <1>4, <2>2
<1>12. RunsUntroubled' /\ BudgetsLeft' /\ RecoveryRemembered' /\ FailureWaits' /\ RecoversOnceThenParks' /\ NoHotLoop'
  BY <1>1, <1>7, EngineAssumption DEF RunsUntroubled, BudgetsLeft, RecoveryRemembered,
     FailureWaits, RecoversOnceThenParks, NoHotLoop, Untroubled
<1> QED
  BY <1>9, <1>10, <1>11, <1>12

\* A failure keeps what the engine owes; its policy must wait, park or have its
\* one recovery pending.
LEMMA FailureInv ==
  ASSUME EngineInv, RecordFailure, policy' \in Policies, recoverables' \in 0..3,
         BudgetsLeft', RecoveryRemembered', FailureWaits', RecoversOnceThenParks'
  PROVE  EngineInv'
<1>1. inFlightRecover' \in BOOLEAN /\ justFailed' \in BOOLEAN
  BY Zenon DEF RecordFailure
<1>2. left' \in [EventKinds -> Nat]
  BY UseType DEF RecordFailure, EventKinds, EngineInv
<1> QED
  BY <1>1, <1>2, EndWithoutSuccess DEF RecordFailure, EngineInv

\* While a sync runs, nothing has parked and the budgets are not used up.
LEMMA InFlightFacts ==
  ASSUME EngineInv, syncing
  PROVE  /\ policy \in Policies /\ policy.parked = "none"
         /\ policy.auth \in 0..(AuthBudget - 1) /\ policy.panics \in 0..(PanicBudget - 1)
         /\ policy.auth + 1 \in 0..AuthBudget /\ policy.panics + 1 \in 0..PanicBudget
         /\ recoverables \in 0..1
         /\ recoverables = 1 => policy.recoverAttempted
         /\ inFlightRecover \in BOOLEAN
<1>1. policy \in Policies /\ policy.parked = "none" /\ inFlightRecover \in BOOLEAN /\ recoverables \in 0..3
  BY DEF EngineInv, TypeOK, RunsUntroubled
<1>2. policy.auth \in 0..AuthBudget /\ policy.panics \in 0..PanicBudget
  BY <1>1 DEF Policies
<1>3. policy.auth < AuthBudget /\ policy.panics < PanicBudget
  BY <1>1 DEF EngineInv, BudgetsLeft
<1>4. recoverables \in 0..1
  BY <1>1 DEF EngineInv, RecoversOnceThenParks
<1>5. recoverables = 1 => policy.recoverAttempted
  BY DEF EngineInv, RecoveryRemembered
<1> QED
  BY <1>1, <1>2, <1>3, <1>4, <1>5, EngineAssumption

\* A network failure waits; a recovery stays one.
LEMMA RecordTransientInv ==
  ASSUME EngineInv, RecordTransient
  PROVE  EngineInv'
<1> DEFINE p == [policy EXCEPT !.recoverPending = inFlightRecover]
<1>1. syncing /\ RecordFailure /\ policy' = Backoff(p) /\ recoverables' = recoverables /\ justFailed' = TRUE
  BY DEF RecordTransient, RecordFailure, EndFlight
<1>2. p \in Policies /\ p.parked = "none" /\ p.auth = policy.auth /\ p.panics = policy.panics
      /\ p.recoverAttempted = policy.recoverAttempted
  BY <1>1, InFlightFacts DEF Policies
<1> HIDE DEF p
<1>3. /\ policy' \in Policies /\ policy'.wait > 0 /\ policy'.parked = "none"
      /\ policy'.auth = policy.auth /\ policy'.panics = policy.panics
      /\ policy'.recoverAttempted = policy.recoverAttempted
  BY <1>1, <1>2, BackoffWaits
<1>4. BudgetsLeft' /\ FailureWaits'
  BY <1>1, <1>3, InFlightFacts, EngineAssumption DEF BudgetsLeft, FailureWaits
<1>5. RecoveryRemembered' /\ RecoversOnceThenParks' /\ recoverables' \in 0..3
  BY <1>1, <1>3, InFlightFacts DEF RecoveryRemembered, RecoversOnceThenParks
<1> QED
  BY <1>1, <1>3, <1>4, <1>5, FailureInv

\* A refused key waits, and parks when its budget is used up.
LEMMA RecordAuthInv ==
  ASSUME EngineInv, RecordAuth
  PROVE  EngineInv'
<1> DEFINE a == policy.auth + 1
           p == [policy EXCEPT !.recoverPending = FALSE, !.auth = a]
<1>1. /\ syncing /\ RecordFailure /\ recoverables' = recoverables /\ justFailed' = TRUE
      /\ policy' = IF p.auth >= AuthBudget THEN Parked(p, ParkCode["Auth"]) ELSE Backoff(p)
  BY DEF RecordAuth, RecordFailure, EndFlight
<1>2. a \in 0..AuthBudget
  BY <1>1, InFlightFacts
<1> HIDE DEF a
<1>3. /\ p \in Policies /\ p.parked = "none" /\ p.auth = a /\ p.panics = policy.panics
      /\ p.recoverAttempted = policy.recoverAttempted
  BY <1>1, <1>2, InFlightFacts DEF Policies
<1> HIDE DEF p
<1>4. CASE p.auth >= AuthBudget
  <2>1. policy' = [p EXCEPT !.parked = "auth_failed"]
    BY <1>1, <1>4 DEF Parked, ParkCode
  <2>2. policy' \in Policies /\ policy'.parked = "auth_failed"
        /\ policy'.recoverAttempted = policy.recoverAttempted
    BY <1>3, <2>1 DEF Policies, Codes
  <2>3. BudgetsLeft' /\ FailureWaits'
    BY <2>2 DEF BudgetsLeft, FailureWaits
  <2>4. RecoveryRemembered' /\ RecoversOnceThenParks' /\ recoverables' \in 0..3
    BY <1>1, <2>2, InFlightFacts DEF RecoveryRemembered, RecoversOnceThenParks
  <2> QED
    BY <1>1, <2>2, <2>3, <2>4, FailureInv
<1>5. CASE ~(p.auth >= AuthBudget)
  <2>1. /\ policy' \in Policies /\ policy'.wait > 0 /\ policy'.parked = "none"
        /\ policy'.auth = a /\ policy'.panics = policy.panics
        /\ policy'.recoverAttempted = policy.recoverAttempted
    BY <1>1, <1>3, <1>5, BackoffWaits
  <2>2. BudgetsLeft' /\ FailureWaits'
    BY <1>1, <1>2, <1>3, <1>5, <2>1, InFlightFacts, EngineAssumption DEF BudgetsLeft, FailureWaits
  <2>3. RecoveryRemembered' /\ RecoversOnceThenParks' /\ recoverables' \in 0..3
    BY <1>1, <2>1, InFlightFacts DEF RecoveryRemembered, RecoversOnceThenParks
  <2> QED
    BY <1>1, <2>1, <2>2, <2>3, FailureInv
<1> QED
  BY <1>4, <1>5

\* So does a panic.
LEMMA RecordPanickedInv ==
  ASSUME EngineInv, RecordPanicked
  PROVE  EngineInv'
<1> DEFINE a == policy.panics + 1
           p == [policy EXCEPT !.recoverPending = FALSE, !.panics = a]
<1>1. /\ syncing /\ RecordFailure /\ recoverables' = recoverables /\ justFailed' = TRUE
      /\ policy' = IF p.panics >= PanicBudget THEN Parked(p, ParkCode["Panicked"]) ELSE Backoff(p)
  BY DEF RecordPanicked, RecordFailure, EndFlight
<1>2. a \in 0..PanicBudget
  BY <1>1, InFlightFacts
<1> HIDE DEF a
<1>3. /\ p \in Policies /\ p.parked = "none" /\ p.panics = a /\ p.auth = policy.auth
      /\ p.recoverAttempted = policy.recoverAttempted
  BY <1>1, <1>2, InFlightFacts DEF Policies
<1> HIDE DEF p
<1>4. CASE p.panics >= PanicBudget
  <2>1. policy' = [p EXCEPT !.parked = "watch_panicked"]
    BY <1>1, <1>4 DEF Parked, ParkCode
  <2>2. policy' \in Policies /\ policy'.parked = "watch_panicked"
        /\ policy'.recoverAttempted = policy.recoverAttempted
    BY <1>3, <2>1 DEF Policies, Codes
  <2>3. BudgetsLeft' /\ FailureWaits'
    BY <2>2 DEF BudgetsLeft, FailureWaits
  <2>4. RecoveryRemembered' /\ RecoversOnceThenParks' /\ recoverables' \in 0..3
    BY <1>1, <2>2, InFlightFacts DEF RecoveryRemembered, RecoversOnceThenParks
  <2> QED
    BY <1>1, <2>2, <2>3, <2>4, FailureInv
<1>5. CASE ~(p.panics >= PanicBudget)
  <2>1. /\ policy' \in Policies /\ policy'.wait > 0 /\ policy'.parked = "none"
        /\ policy'.panics = a /\ policy'.auth = policy.auth
        /\ policy'.recoverAttempted = policy.recoverAttempted
    BY <1>1, <1>3, <1>5, BackoffWaits
  <2>2. BudgetsLeft' /\ FailureWaits'
    BY <1>1, <1>2, <1>3, <1>5, <2>1, InFlightFacts, EngineAssumption DEF BudgetsLeft, FailureWaits
  <2>3. RecoveryRemembered' /\ RecoversOnceThenParks' /\ recoverables' \in 0..3
    BY <1>1, <2>1, InFlightFacts DEF RecoveryRemembered, RecoversOnceThenParks
  <2> QED
    BY <1>1, <2>1, <2>2, <2>3, FailureInv
<1> QED
  BY <1>4, <1>5

\* A park leaves the rest of the policy alone.
LEMMA ParkedPolicy ==
  ASSUME NEW p \in Policies, NEW code \in Codes \ {"none"}
  PROVE  /\ Parked(p, code) \in Policies /\ Parked(p, code).parked # "none"
         /\ Parked(p, code).recoverAttempted = p.recoverAttempted
BY DEF Parked, Policies

\* A terminal failure parks.
LEMMA RecordTerminalInv ==
  ASSUME EngineInv, NEW class \in Terminal, RecordTerminal(class)
  PROVE  EngineInv'
<1> DEFINE p == [policy EXCEPT !.recoverPending = FALSE]
<1>1. /\ syncing /\ RecordFailure /\ recoverables' = recoverables
      /\ policy' = Parked(p, ParkCode[class])
  BY DEF RecordTerminal, RecordFailure, EndFlight
<1>2. p \in Policies /\ p.recoverAttempted = policy.recoverAttempted
  BY <1>1, InFlightFacts DEF Policies
<1>3. ParkCode[class] \in Codes \ {"none"}
  BY DEF ParkCode, Codes, Terminal
<1> HIDE DEF p
<1>4. /\ policy' \in Policies /\ policy'.parked # "none"
      /\ policy'.recoverAttempted = policy.recoverAttempted
  BY <1>1, <1>2, <1>3, ParkedPolicy
<1>5. /\ BudgetsLeft' /\ RecoveryRemembered' /\ FailureWaits' /\ RecoversOnceThenParks'
      /\ recoverables' \in 0..3
  BY <1>1, <1>4, InFlightFacts DEF BudgetsLeft, RecoveryRemembered, FailureWaits, RecoversOnceThenParks
<1> QED
  BY <1>1, <1>4, <1>5, FailureInv

\* A recoverable failure has one recovery, and parks the second time.
LEMMA RecordRecoverableInv ==
  ASSUME EngineInv, NEW class \in Recoverable, RecordRecoverable(class)
  PROVE  EngineInv'
<1>1. /\ syncing /\ RecordFailure /\ recoverables' = recoverables + 1
      /\ policy' = IF policy.recoverAttempted
                   THEN Parked([policy EXCEPT !.recoverPending = FALSE], ParkCode[class])
                   ELSE [policy EXCEPT !.recoverAttempted = TRUE, !.recoverPending = TRUE]
  BY DEF RecordRecoverable, RecordFailure, EndFlight
<1>2. CASE policy.recoverAttempted
  <2> DEFINE p == [policy EXCEPT !.recoverPending = FALSE]
  <2>1. p \in Policies /\ p.recoverAttempted
    BY <1>1, <1>2, InFlightFacts DEF Policies
  <2>2. ParkCode[class] \in Codes \ {"none"}
    BY DEF ParkCode, Codes, Recoverable
  <2>3. policy' = Parked(p, ParkCode[class])
    BY <1>1, <1>2
  <2> HIDE DEF p
  <2>4. policy' \in Policies /\ policy'.parked # "none" /\ policy'.recoverAttempted
    BY <2>1, <2>2, <2>3, ParkedPolicy
  <2>5. /\ BudgetsLeft' /\ RecoveryRemembered' /\ FailureWaits' /\ RecoversOnceThenParks'
        /\ recoverables' \in 0..3
    BY <1>1, <2>4, InFlightFacts DEF BudgetsLeft, RecoveryRemembered, FailureWaits, RecoversOnceThenParks
  <2> QED
    BY <1>1, <2>4, <2>5, FailureInv
<1>3. CASE ~policy.recoverAttempted
  <2>1. policy' = [policy EXCEPT !.recoverAttempted = TRUE, !.recoverPending = TRUE]
    BY <1>1, <1>3
  <2>2. /\ policy' \in Policies /\ policy'.recoverAttempted /\ policy'.recoverPending
        /\ policy'.parked = "none" /\ policy'.auth = policy.auth /\ policy'.panics = policy.panics
    BY <1>1, <2>1, InFlightFacts DEF Policies
  <2>3. recoverables = 0
    BY <1>1, <1>3, InFlightFacts
  <2>4. /\ BudgetsLeft' /\ RecoveryRemembered' /\ FailureWaits' /\ RecoversOnceThenParks'
        /\ recoverables' \in 0..3
    BY <1>1, <2>2, <2>3, InFlightFacts, EngineAssumption
       DEF BudgetsLeft, RecoveryRemembered, FailureWaits, RecoversOnceThenParks
  <2> QED
    BY <1>1, <2>2, <2>4, FailureInv
<1> QED
  BY <1>2, <1>3

\* A sync that never took its locks leaves the policy as the poll found it.
LEMMA AbortInFlightInv ==
  ASSUME EngineInv, AbortInFlight
  PROVE  EngineInv'
<1>1. /\ EndFlight /\ UNCHANGED <<schedule, owed>>
      /\ policy' = policy /\ recoverables' = recoverables
      /\ inFlightRecover' = inFlightRecover /\ justFailed' = justFailed
  BY DEF AbortInFlight, past
<1>2. left' \in [EventKinds -> Nat]
  BY UseType DEF AbortInFlight, EventKinds, EngineInv
<1>3. policy' \in Policies /\ recoverables' \in 0..3
      /\ inFlightRecover' \in BOOLEAN /\ justFailed' \in BOOLEAN
  BY <1>1 DEF EngineInv, TypeOK
<1>4. TypeOK' /\ CountsOK' /\ FlightOK' /\ RunsUntroubled' /\ ToldChangesStayDirty' /\ NoHotLoop'
  BY <1>1, <1>2, <1>3, EndWithoutSuccess
<1>5. BudgetsLeft' /\ RecoveryRemembered' /\ FailureWaits' /\ RecoversOnceThenParks'
  BY <1>1 DEF EngineInv, BudgetsLeft, RecoveryRemembered, FailureWaits, RecoversOnceThenParks
<1> QED
  BY <1>4, <1>5 DEF EngineInv

\* A lock file that cannot be opened parks, whatever else is pending.
LEMMA ParkLockUnavailableInv ==
  ASSUME EngineInv, ParkLockUnavailable
  PROVE  EngineInv'
<1>1. /\ syncing /\ EndFlight /\ UNCHANGED <<schedule, owed>>
      /\ policy' = Parked(policy, "lock_unavailable") /\ recoverables' = recoverables
      /\ inFlightRecover' = inFlightRecover /\ justFailed' = justFailed
  BY DEF ParkLockUnavailable, EndFlight, past
<1>2. left' \in [EventKinds -> Nat]
  BY UseType DEF ParkLockUnavailable, EventKinds, EngineInv
<1>3. recoverables' \in 0..3 /\ inFlightRecover' \in BOOLEAN /\ justFailed' \in BOOLEAN
  BY <1>1 DEF EngineInv, TypeOK
<1>4. /\ policy' \in Policies /\ policy'.parked # "none"
      /\ policy'.recoverAttempted = policy.recoverAttempted
  BY <1>1, InFlightFacts, ParkedPolicy DEF Codes
<1>5. TypeOK' /\ CountsOK' /\ FlightOK' /\ RunsUntroubled' /\ ToldChangesStayDirty' /\ NoHotLoop'
  BY <1>1, <1>2, <1>3, <1>4, EndWithoutSuccess
<1>6. BudgetsLeft' /\ RecoveryRemembered' /\ FailureWaits' /\ RecoversOnceThenParks'
  BY <1>1, <1>4, InFlightFacts
     DEF BudgetsLeft, RecoveryRemembered, FailureWaits, RecoversOnceThenParks
<1> QED
  BY <1>5, <1>6 DEF EngineInv

-----------------------------------------------------------------------------
(***************************************************************************)
(* The operator's gestures                                                 *)
(***************************************************************************)
\* A gesture leaves the sources alone; it changes the policy to one that
\* neither parks nor waits and forgets what failed, or not at all.
LEMMA GestureInv ==
  ASSUME EngineInv, UNCHANGED <<src, flight, owed>>, Use("gesture"),
         cadence' \in Cadences, tracked' = tracked, paused' \in BOOLEAN,
         \/ UNCHANGED <<policy, recoverables, justFailed>>
         \/ /\ policy' \in Policies /\ policy'.parked = "none" /\ policy'.wait = 0
            /\ policy'.auth = 0 /\ policy'.panics = 0
            /\ ForgetTroubles
  PROVE  EngineInv'
<1> USE DEF EngineInv, flight
<1>1. Registered' = Registered
  BY DEF Registered
<1>2. CountsOK' /\ FlightOK' /\ ToldChangesStayDirty'
  BY <1>1 DEF CountsOK, FlightOK, ToldChangesStayDirty
<1>3. left' \in [EventKinds -> Nat]
  BY UseType DEF EventKinds
<1>4. policy' \in Policies /\ recoverables' \in 0..3
  BY DEF TypeOK, ForgetTroubles
<1>5. justFailed' \in BOOLEAN
  BY Zenon DEF TypeOK, ForgetTroubles
<1>6. TypeOK'
  BY <1>1, <1>3, <1>4, <1>5 DEF TypeOK
<1>7. CASE UNCHANGED <<policy, recoverables, justFailed>>
  BY <1>2, <1>6, <1>7 DEF RunsUntroubled, BudgetsLeft, RecoveryRemembered, FailureWaits,
     RecoversOnceThenParks, NoHotLoop
<1>8. CASE /\ policy' \in Policies /\ policy'.parked = "none" /\ policy'.wait = 0
           /\ policy'.auth = 0 /\ policy'.panics = 0
           /\ ForgetTroubles
  BY <1>2, <1>6, <1>8, EngineAssumption DEF RunsUntroubled, BudgetsLeft, RecoveryRemembered,
     FailureWaits, RecoversOnceThenParks, NoHotLoop, ForgetTroubles
<1> QED
  BY <1>7, <1>8

\* Resuming forgets every trouble but a recovery that is still to run.
LEMMA WatchSetInv ==
  ASSUME EngineInv, NEW pause \in BOOLEAN, NEW chosen \in Cadences, WatchSet(pause, chosen)
  PROVE  EngineInv'
<1> DEFINE resumed == [Untroubled EXCEPT !.recoverPending = policy.recoverPending]
           afterConfig == IF paused /\ ~pause THEN resumed ELSE policy
           unparks == ~pause /\ afterConfig.parked # "none"
<1>1. /\ Use("gesture") /\ paused' = pause /\ cadence' = chosen /\ tracked' = tracked
      /\ policy' = IF unparks THEN Untroubled ELSE afterConfig
      /\ IF policy' # policy THEN ForgetTroubles ELSE UNCHANGED <<recoverables, justFailed>>
      /\ UNCHANGED <<src, flight, owed>>
  BY DEF WatchSet
<1>2. policy \in Policies
  BY DEF EngineInv, TypeOK
<1>3. /\ resumed \in Policies /\ resumed.parked = "none" /\ resumed.wait = 0
      /\ resumed.auth = 0 /\ resumed.panics = 0
  BY <1>2, UntroubledType DEF Policies, Untroubled
<1>4. policy' \in {Untroubled, resumed, policy}
  BY <1>1
<1> HIDE DEF resumed, afterConfig, unparks
<1>5. \/ UNCHANGED <<policy, recoverables, justFailed>>
      \/ /\ policy' \in Policies /\ policy'.parked = "none" /\ policy'.wait = 0
         /\ policy'.auth = 0 /\ policy'.panics = 0
         /\ ForgetTroubles
  <2>1. CASE policy' = policy
    BY <1>1, <2>1
  <2>2. CASE policy' # policy
    <3>1. policy' = Untroubled \/ policy' = resumed
      BY <1>4, <2>2
    <3>2. /\ Untroubled \in Policies /\ Untroubled.parked = "none" /\ Untroubled.wait = 0
          /\ Untroubled.auth = 0 /\ Untroubled.panics = 0
      <4>1. /\ Untroubled.parked = "none" /\ Untroubled.wait = 0
            /\ Untroubled.auth = 0 /\ Untroubled.panics = 0
        BY DEF Untroubled
      <4> QED
        BY <4>1, UntroubledType
    <3>3. ForgetTroubles
      BY <1>1, <2>2
    <3>4. CASE policy' = Untroubled
      BY <3>2, <3>3, <3>4
    <3>5. CASE policy' = resumed
      BY <1>3, <3>3, <3>5
    <3> QED
      BY <3>1, <3>4, <3>5
  <2> QED
    BY <2>1, <2>2
<1> QED
  BY <1>1, <1>5, GestureInv

\* A cadence alone changes nothing else.
LEMMA WatchSetCadenceInv ==
  ASSUME EngineInv, NEW chosen \in Cadences, WatchSetCadence(chosen)
  PROVE  EngineInv'
<1>1. /\ UNCHANGED <<src, flight, owed>> /\ UNCHANGED <<policy, recoverables, justFailed>>
      /\ Use("gesture") /\ cadence' = chosen /\ tracked' = tracked /\ paused' = paused
  BY DEF WatchSetCadence, past
<1>2. paused' \in BOOLEAN
  BY <1>1 DEF EngineInv, TypeOK
<1> QED
  BY <1>1, <1>2, GestureInv

\* A manual sync that succeeded clears a park.
LEMMA NoteManualSyncOkInv ==
  ASSUME EngineInv, NoteManualSyncOk
  PROVE  EngineInv'
<1>1. /\ UNCHANGED <<src, flight, owed>> /\ Use("gesture") /\ ForgetTroubles
      /\ policy' = Untroubled /\ cadence' = cadence /\ tracked' = tracked /\ paused' = paused
  BY DEF NoteManualSyncOk, schedule
<1>2. cadence' \in Cadences /\ paused' \in BOOLEAN
  BY <1>1 DEF EngineInv, TypeOK
<1>3. policy' \in Policies
  BY <1>1, UntroubledType
<1>4. policy'.parked = "none" /\ policy'.wait = 0 /\ policy'.auth = 0 /\ policy'.panics = 0
  BY <1>1 DEF Untroubled
<1> QED
  BY <1>1, <1>2, <1>3, <1>4, GestureInv

-----------------------------------------------------------------------------
(***************************************************************************)
(* Safety                                                                  *)
(***************************************************************************)
\* Every step of the engine keeps the inductive invariant.
LEMMA StepInv == EngineInv /\ [Next]_vars => EngineInv'
<1> SUFFICES ASSUME EngineInv, [Next]_vars PROVE EngineInv'
  OBVIOUS
<1>1. CASE Elapse
  BY <1>1, ElapseInv
<1>2. CASE \E s \in Sources : MarkDirty(s)
  BY <1>2, MarkDirtyInv
<1>3. CASE MarkAllDirty
  BY <1>3, MarkAllDirtyInv
<1>4. CASE \E ids \in SUBSET Sources, channel \in SUBSET TrackedSources : SetSources(ids, channel)
  BY <1>4, SetSourcesInv
<1>5. CASE PollSync \/ PollRecover
  BY <1>5, PollInv
<1>6. CASE RecordResult
  BY <1>6, RecordOkInv, RecordTransientInv, RecordAuthInv, RecordPanickedInv,
     RecordTerminalInv, RecordRecoverableInv DEF RecordResult
<1>7. CASE AbortInFlight \/ ParkLockUnavailable
  BY <1>7, AbortInFlightInv, ParkLockUnavailableInv
<1>8. CASE \E pause \in BOOLEAN, chosen \in Cadences : WatchSet(pause, chosen)
  BY <1>8, WatchSetInv
<1>9. CASE \E chosen \in Cadences : WatchSetCadence(chosen)
  BY <1>9, WatchSetCadenceInv
<1>10. CASE NoteManualSyncOk
  BY <1>10, NoteManualSyncOkInv
<1>11. CASE UNCHANGED vars
  BY <1>11 DEF vars, schedule, flight, past, EngineInv, TypeOK, CountsOK, FlightOK, RunsUntroubled,
     BudgetsLeft, RecoveryRemembered, FailureWaits, ToldChangesStayDirty, RecoversOnceThenParks,
     NoHotLoop, Registered
<1> QED
  BY <1>1, <1>2, <1>3, <1>4, <1>5, <1>6, <1>7, <1>8, <1>9, <1>10, <1>11 DEF Next

\* The inductive invariant holds in every behaviour.
THEOREM Invariance == Spec => []EngineInv
BY InitInv, StepInv, PTL DEF Spec

\* The engine's counters never leave their ranges: each budget parks the loop
\* before its counter passes it, and the backoff's shift stays in its range.
THEOREM TypeCorrect == Spec => []TypeOK
<1>1. EngineInv => TypeOK
  BY DEF EngineInv
<1> QED
  BY <1>1, Invariance, PTL

\* Whatever fails or is aborted, and whatever is marked while a sync runs, a
\* change the engine was told of stays with a dirty source.
THEOREM ToldChangesStayDirtyHolds == Spec => []ToldChangesStayDirty
<1>1. EngineInv => ToldChangesStayDirty
  BY DEF EngineInv
<1> QED
  BY <1>1, Invariance, PTL

\* The engine recovers once by itself; a second recoverable failure parks,
\* however many other failures lie between the two.
THEOREM RecoversOnceThenParksHolds == Spec => []RecoversOnceThenParks
<1>1. EngineInv => RecoversOnceThenParks
  BY DEF EngineInv
<1> QED
  BY <1>1, Invariance, PTL

\* No failure but the first recoverable one is retried at once.
THEOREM NoHotLoopHolds == Spec => []NoHotLoop
<1>1. EngineInv => NoHotLoop
  BY DEF EngineInv
<1> QED
  BY <1>1, Invariance, PTL

-----------------------------------------------------------------------------
(***************************************************************************)
(* The engine implements SyncScheduler                                     *)
(***************************************************************************)
\* What the running sync will clean, and whether the loop is held back.
Covered == {s \in DOMAIN inFlight \cap Registered : src[s].count = inFlight[s]}
Halted == paused \/ policy.parked # "none"

\* The scheduler is unchanged when the state it sees is.
LEMMA SameScheduler ==
  ASSUME Registered' = Registered, Dirty' = Dirty, Covered' = Covered,
         syncing' = syncing, Halted' = Halted
  PROVE  UNCHANGED Promises!scheduler
BY DEF Promises!scheduler, Covered, Halted

\* Everything is registered and dirty, and nothing runs.
LEMMA InitRefines == Init => Promises!SchedulerInit
<1> SUFFICES ASSUME Init PROVE Promises!SchedulerInit
  OBVIOUS
<1> USE DEF Init
<1>1. \A s \in Sources : src[s].dirty
  BY MarkedState, NewSourceState
<1>2. Registered = Sources /\ Dirty = Sources
  BY <1>1 DEF Registered, Dirty
<1>3. Covered = {}
  BY DEF Covered, NoFlight
<1>4. Halted = FALSE
  BY DEF Halted, Untroubled
<1> QED
  BY <1>2, <1>3, <1>4 DEF Promises!SchedulerInit, Covered, Halted

\* Time changes no count.
LEMMA ElapseRefines ==
  ASSUME EngineInv, Elapse
  PROVE  UNCHANGED Promises!scheduler
<1>1. Registered' = Registered /\ inFlight' = inFlight /\ syncing' = syncing
  BY DEF Elapse, flight, Registered
<1>2. \A s \in Registered : src'[s].dirty = src[s].dirty /\ src'[s].count = src[s].count
  BY DEF Elapse, EngineInv, TypeOK, SourceStates
<1>3. Dirty' = Dirty /\ Covered' = Covered
  BY <1>1, <1>2 DEF Dirty, Covered
<1>4. policy'.parked = policy.parked /\ paused' = paused
  BY DEF Elapse, EngineInv, TypeOK, Policies
<1>5. Halted' = Halted
  BY <1>4 DEF Halted
<1> QED
  BY <1>1, <1>3, <1>5, SameScheduler

\* A mark takes its source out of what the running sync covers.
LEMMA MarkDirtyRefines ==
  ASSUME EngineInv, NEW s \in Sources, MarkDirty(s)
  PROVE  Promises!Mark({s})
<1>1. s \in Registered /\ src' = [src EXCEPT ![s] = Marked(src[s])]
      /\ inFlight' = inFlight /\ syncing' = syncing /\ policy' = policy /\ paused' = paused
  BY DEF MarkDirty, flight
<1>2. src[s] \in SourceStates /\ src[s].count < MaxCount
  BY <1>1 DEF EngineInv, TypeOK, MarkDirty
<1>3. Marked(src[s]).dirty /\ Marked(src[s]).count = src[s].count + 1
  BY <1>2, MarkedState
<1>4. Registered' = Registered
  BY <1>1 DEF Registered
<1>5. Dirty' = Dirty \cup ({s} \cap Registered)
  BY <1>1, <1>3, <1>4 DEF Dirty, Registered
<1>6. s \in DOMAIN inFlight => Marked(src[s]).count # inFlight[s]
  <2>1. src[s].count \in Nat
    BY <1>2, EngineAssumption DEF SourceStates
  <2>2. ASSUME s \in DOMAIN inFlight PROVE inFlight[s] \in Nat /\ src[s].count >= inFlight[s]
    BY <2>2, EngineAssumption DEF EngineInv, FlightOK, TypeOK
  <2> QED
    BY <1>3, <2>1, <2>2
<1>7. Covered' = Covered \ {s}
  BY <1>1, <1>4, <1>6 DEF Covered, Registered
<1>8. Halted' = Halted
  BY <1>1 DEF Halted
<1> QED
  BY <1>1, <1>4, <1>5, <1>7, <1>8 DEF Promises!Mark, Covered, Halted

\* While nothing runs, nothing is covered.
LEMMA NothingCovered == ASSUME EngineInv, ~syncing PROVE Covered = {} /\ inFlight = NoFlight
BY DEF EngineInv, FlightOK, Covered, NoFlight

\* Lost events mark every registered source.
LEMMA MarkAllDirtyRefines ==
  ASSUME EngineInv, MarkAllDirty, NEW marked \in SUBSET Sources, marked = Registered
  PROVE  Promises!Mark(marked)
<1>1. /\ ~syncing /\ inFlight' = inFlight /\ syncing' = syncing /\ policy' = policy /\ paused' = paused
      /\ src' = [s \in Registered |-> Marked(src[s])]
  BY DEF MarkAllDirty, flight
<1>2. \A s \in Registered : src[s] \in SourceStates /\ src[s].count < MaxCount
  BY DEF EngineInv, TypeOK, MarkAllDirty
<1>3. \A s \in Registered : src'[s].dirty
  BY <1>1, <1>2, MarkedState
<1>4. Registered' = Registered
  BY <1>1 DEF Registered
<1>5. Dirty' = Dirty \cup (marked \cap Registered)
  BY <1>3, <1>4 DEF Dirty
<1>6. Covered = {} /\ inFlight = NoFlight
  BY <1>1, NothingCovered
<1>7. Covered' = Covered \ marked
  BY <1>1, <1>6 DEF Covered, NoFlight
<1>8. Halted' = Halted
  BY <1>1 DEF Halted
<1> QED
  BY <1>1, <1>4, <1>5, <1>7, <1>8 DEF Promises!Mark, Covered, Halted

\* A surface that changed registers its new sources as dirty.
LEMMA SetSourcesRefines ==
  ASSUME EngineInv, NEW ids \in SUBSET Sources,
         NEW channel \in SUBSET TrackedSources, SetSources(ids, channel)
  PROVE  Promises!Register(ids)
<1>1. /\ ~syncing /\ inFlight' = inFlight /\ syncing' = syncing /\ policy' = policy /\ paused' = paused
      /\ src' = [s \in ids |-> IF s \in Registered THEN src[s] ELSE NewSource]
  BY DEF SetSources, flight
<1>2. Registered' = ids
  BY <1>1 DEF Registered
<1>3. Dirty' = (Dirty \cap ids) \cup (ids \ Registered)
  BY <1>1, <1>2, NewSourceState DEF Dirty
<1>4. Covered = {} /\ inFlight = NoFlight
  BY <1>1, NothingCovered
<1>5. Covered' = Covered
  BY <1>1, <1>4 DEF Covered, NoFlight
<1>6. Halted' = Halted
  BY <1>1 DEF Halted
<1> QED
  BY <1>1, <1>2, <1>3, <1>5, <1>6 DEF Promises!Register, Covered, Halted

\* A poll that authorises a sync covers every dirty source.
LEMMA PollRefines ==
  ASSUME EngineInv, PollSync \/ PollRecover
  PROVE  Promises!Begin
<1>1. /\ MayRun /\ syncing' = TRUE /\ inFlight' = [s \in Dirty |-> src[s].count]
      /\ src' = src /\ policy' = policy /\ paused' = paused
  BY DEF PollSync, PollRecover, BeginSync, schedule
<1>2. ~syncing /\ ~Halted
  BY <1>1 DEF MayRun, Halted
<1>3. Registered' = Registered /\ Dirty' = Dirty
  BY <1>1 DEF Registered, Dirty
<1>4. Covered' = Dirty
  BY <1>1, <1>3 DEF Covered, Dirty, Registered
<1>5. Halted' = Halted
  BY <1>1 DEF Halted
<1> QED
  BY <1>1, <1>2, <1>3, <1>4, <1>5 DEF Promises!Begin, Covered, Halted

\* A success cleans exactly what is covered.
LEMMA RecordOkRefines ==
  ASSUME EngineInv, RecordOk
  PROVE  Promises!Succeed
<1>1. /\ syncing /\ syncing' = FALSE /\ inFlight' = NoFlight
      /\ policy' = [Untroubled EXCEPT !.parked = policy.parked] /\ paused' = paused
      /\ src' = [s \in Registered |->
                   CASE s \in Covered -> [src[s] EXCEPT !.rested = 0, !.dirty = FALSE, !.count = 0]
                     [] s \in (DOMAIN inFlight \cap Registered) \ Covered -> [src[s] EXCEPT !.rested = 0]
                     [] OTHER -> src[s]]
  BY DEF RecordOk, EndFlight, Covered
<1>2. Registered' = Registered
  BY <1>1 DEF Registered
<1>3. \A s \in Registered : src[s] \in SourceStates
  BY DEF EngineInv, TypeOK
<1>4. \A s \in Covered : s \in Registered /\ ~src'[s].dirty
  <2>1. \A s \in Covered : s \in Registered
    BY DEF Covered
  <2> QED
    BY <1>1, <1>3, <2>1 DEF SourceStates
<1>5. \A s \in Registered \ Covered : src'[s].dirty = src[s].dirty
  BY <1>1, <1>3 DEF SourceStates
<1>6. Dirty' = Dirty \ Covered
  BY <1>2, <1>4, <1>5 DEF Dirty
<1>7. Covered' = {}
  BY <1>1 DEF Covered, NoFlight
<1>8. Halted' = Halted
  BY <1>1 DEF Halted, Untroubled
<1> QED
  BY <1>1, <1>2, <1>6, <1>7, <1>8 DEF Promises!Succeed, Covered, Halted

\* A park never ends with a sync.
LEMMA GiveUpRefines ==
  ASSUME EngineInv, EndFlight, UNCHANGED schedule, policy'.parked # "none" \/ policy'.parked = policy.parked
  PROVE  Promises!GiveUp
<1>1. /\ syncing /\ syncing' = FALSE /\ inFlight' = NoFlight
      /\ src' = src /\ paused' = paused
  BY DEF EndFlight, schedule
<1>2. Registered' = Registered /\ Dirty' = Dirty
  BY <1>1 DEF Registered, Dirty
<1>3. Covered' = {}
  BY <1>1 DEF Covered, NoFlight
<1>4. Halted' = Halted \/ Halted' = TRUE
  BY <1>1 DEF Halted
<1> QED
  BY <1>1, <1>2, <1>3, <1>4 DEF Promises!GiveUp, Covered, Halted

\* Whatever goes wrong, the sources keep what they owe.
LEMMA FailureRefines ==
  ASSUME EngineInv,
         \/ RecordTransient \/ RecordAuth \/ RecordPanicked
         \/ \E class \in Terminal : RecordTerminal(class)
         \/ \E class \in Recoverable : RecordRecoverable(class)
         \/ AbortInFlight \/ ParkLockUnavailable
  PROVE  Promises!GiveUp
<1>1. EndFlight /\ UNCHANGED schedule
  BY DEF RecordTransient, RecordAuth, RecordPanicked, RecordTerminal, RecordRecoverable,
     RecordFailure, AbortInFlight, ParkLockUnavailable
<1>2. policy \in Policies /\ policy.parked = "none"
  BY <1>1, InFlightFacts DEF EndFlight
<1>3. policy'.parked # "none" \/ policy'.parked = policy.parked
  BY <1>2
<1> QED
  BY <1>1, <1>3, GiveUpRefines

\* A gesture changes at most whether the loop is held back.
LEMMA GestureRefines ==
  ASSUME UNCHANGED <<src, flight>>
  PROVE  Promises!Gesture
<1>1. Registered' = Registered /\ Dirty' = Dirty /\ Covered' = Covered /\ syncing' = syncing
  BY DEF Registered, Dirty, Covered, flight
<1>2. Halted' \in BOOLEAN
  BY DEF Halted
<1> QED
  BY <1>1, <1>2 DEF Promises!Gesture, Covered, Halted

\* Every step of the engine is a step of the abstract scheduler, or none.
LEMMA StepRefines == EngineInv /\ [Next]_vars => [Promises!SchedulerNext]_(Promises!scheduler)
<1> SUFFICES ASSUME EngineInv, [Next]_vars
             PROVE  Promises!SchedulerNext \/ UNCHANGED Promises!scheduler
  OBVIOUS
<1>1. CASE Elapse
  BY <1>1, ElapseRefines
<1>2. CASE \E s \in Sources : MarkDirty(s)
  <2>1. PICK s \in Sources : MarkDirty(s)
    BY <1>2
  <2>2. Promises!Mark({s}) /\ {s} \in SUBSET Sources
    BY <2>1, MarkDirtyRefines
  <2> QED
    BY <2>2, Zenon DEF Promises!SchedulerNext
<1>3. CASE MarkAllDirty
  <2>1. PICK marked \in SUBSET Sources : marked = Registered
    BY DEF EngineInv, TypeOK
  <2>2. Promises!Mark(marked)
    BY <1>3, <2>1, MarkAllDirtyRefines
  <2> QED
    BY <2>2, Zenon DEF Promises!SchedulerNext
<1>4. CASE \E ids \in SUBSET Sources, channel \in SUBSET TrackedSources : SetSources(ids, channel)
  <2>1. PICK ids \in SUBSET Sources, channel \in SUBSET TrackedSources : SetSources(ids, channel)
    BY <1>4
  <2>2. Promises!Register(ids)
    BY <2>1, SetSourcesRefines
  <2> QED
    BY <2>1, <2>2, Zenon DEF Promises!SchedulerNext
<1>5. CASE PollSync \/ PollRecover
  BY <1>5, PollRefines, Zenon DEF Promises!SchedulerNext
<1>6. CASE RecordOk
  BY <1>6, RecordOkRefines, Zenon DEF Promises!SchedulerNext
<1>7. CASE \/ RecordTransient \/ RecordAuth \/ RecordPanicked
           \/ \E class \in Terminal : RecordTerminal(class)
           \/ \E class \in Recoverable : RecordRecoverable(class)
           \/ AbortInFlight \/ ParkLockUnavailable
  BY <1>7, FailureRefines, Zenon DEF Promises!SchedulerNext
<1>8. CASE \/ \E pause \in BOOLEAN, chosen \in Cadences : WatchSet(pause, chosen)
           \/ \E chosen \in Cadences : WatchSetCadence(chosen)
           \/ NoteManualSyncOk
  <2>1. UNCHANGED <<src, flight>>
    BY <1>8 DEF WatchSet, WatchSetCadence, NoteManualSyncOk, schedule
  <2> QED
    BY <2>1, GestureRefines, Zenon DEF Promises!SchedulerNext
<1>9. CASE UNCHANGED vars
  <2>1. /\ Registered' = Registered /\ Dirty' = Dirty /\ Covered' = Covered
        /\ syncing' = syncing /\ Halted' = Halted
    BY <1>9 DEF vars, schedule, flight, past, Registered, Dirty, Covered, Halted
  <2> QED
    BY <2>1, SameScheduler
<1> QED
  BY <1>1, <1>2, <1>3, <1>4, <1>5, <1>6, <1>7, <1>8, <1>9 DEF Next, RecordResult

\* The engine keeps the promises its driver is built on, for every cadence,
\* backoff and budget: one sync at a time, none while parked or paused, and a
\* source is clean only after a sync authorised after its last mark succeeded.
THEOREM SchedulerPromisesHold == Spec => SchedulerPromises
BY InitRefines, StepRefines, Invariance, PTL
   DEF Spec, SchedulerPromises, Promises!SchedulerSpec

=============================================================================
