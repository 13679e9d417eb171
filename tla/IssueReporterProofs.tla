-------------------------- MODULE IssueReporterProofs --------------------------
(***************************************************************************)
(* What holds of IssueReporter for every number of concurrent calls, every *)
(* cap and every window.                                                   *)
(***************************************************************************)
EXTENDS IssueReporter, FiniteSetTheorems, WellFoundedInduction, TLAPS

USE ReporterAssumption

\* The records and the calls that may still add one are finitely many, and
\* together they exceed the cap by less than the number of calls.
Inv ==
    /\ stage \in [Calls -> {"idle", "searching", "creating"}]
    /\ IsFiniteSet(stamps)
    /\ OverrunBounded

\* The calls in flight are finitely many.
LEMMA InFlightFinite ==
    /\ IsFiniteSet(InFlight) /\ Cardinality(InFlight) \in Nat
    /\ Cardinality(Calls) \in Nat /\ Cardinality(InFlight) <= Cardinality(Calls)
BY FS_Subset, FS_CardinalityType DEF InFlight

\* A call that returns is one less in flight.
LEMMA ReturnLeaves ==
    ASSUME Inv, NEW c \in InFlight, Return(c)
    PROVE  Cardinality(InFlight') = Cardinality(InFlight) - 1
<1>1. InFlight' = InFlight \ {c}
  BY DEF Inv, InFlight, Return
<1>. QED
  BY <1>1, InFlightFinite, FS_RemoveElement

\* Pruning leaves finitely many records, no more than there were.
LEMMA RecentFewer ==
    ASSUME Inv
    PROVE  /\ IsFiniteSet(Recent)
           /\ Cardinality(Recent) \in Nat
           /\ Cardinality(stamps) \in Nat
           /\ Cardinality(Recent) <= Cardinality(stamps)
BY FS_Subset, FS_CardinalityType DEF Recent, Inv

LEMMA InvStep == Inv /\ [Next]_vars => Inv'
<1>. SUFFICES ASSUME Inv, [Next]_vars PROVE Inv'
  OBVIOUS
<1>. USE DEF stateVars, callVars
<1>0. /\ Cardinality(stamps) \in Nat
      /\ Cardinality(stamps) + Cardinality(InFlight) <= (Cap - 1) + Cardinality(Calls)
  BY RecentFewer DEF Inv, OverrunBounded
<1>1. ASSUME NEW c \in Calls, NEW f \in Fingerprints, Report(c, f) PROVE Inv'
  <2>1. stage' \in [Calls -> {"idle", "searching", "creating"}]
    BY <1>1 DEF Report, Begin, Inv
  <2>2. stamps' = Recent /\ Cardinality(Recent) < Cap
    BY <1>1 DEF Report
  <2>3. Cardinality(InFlight') \in Nat /\ Cardinality(InFlight') <= Cardinality(Calls)
    BY FS_Subset, FS_CardinalityType DEF InFlight
  <2>4. OverrunBounded'
    BY <2>2, <2>3, RecentFewer, InFlightFinite DEF OverrunBounded
  <2>. QED
    BY <2>1, <2>2, <2>4, RecentFewer DEF Inv
<1>2. ASSUME NEW c \in Calls, NEW f \in Fingerprints, ReportCapped(c, f) PROVE Inv'
  <2>1. stamps' = Recent /\ UNCHANGED stage
    BY <1>2 DEF ReportCapped
  <2>2. InFlight' = InFlight
    BY <2>1 DEF InFlight
  <2>3. OverrunBounded'
    BY <1>0, <2>1, <2>2, RecentFewer, InFlightFinite DEF OverrunBounded
  <2>. QED
    BY <2>1, <2>3, RecentFewer DEF Inv
<1>3. ASSUME NEW c \in Calls, CreateAccepted(c) \/ CreateRefused(c) PROVE Inv'
  <2>1. c \in InFlight /\ Return(c) /\ Record(c)
    BY <1>3 DEF CreateAccepted, CreateRefused, InFlight
  <2>2. /\ IsFiniteSet(stamps') /\ Cardinality(stamps') \in Nat
        /\ Cardinality(stamps') <= Cardinality(stamps) + 1
    <3>1. PICK r : stamps' = stamps \cup {r} \/ stamps' = stamps
      BY <2>1, Zenon DEF Record
    <3>2. IsFiniteSet(stamps)
      BY DEF Inv
    <3>3. /\ IsFiniteSet(stamps')
          /\ \/ Cardinality(stamps') = Cardinality(stamps)
             \/ Cardinality(stamps') = Cardinality(stamps) + 1
      BY <1>0, <3>1, <3>2, FS_AddElement
    <3>. QED
      BY <1>0, <3>3
  <2>3. OverrunBounded'
    BY <1>0, <2>1, <2>2, ReturnLeaves, InFlightFinite DEF OverrunBounded
  <2>4. stage' \in [Calls -> {"idle", "searching", "creating"}]
    BY <2>1 DEF Return, Inv
  <2>. QED
    BY <2>2, <2>3, <2>4 DEF Inv
<1>4. ASSUME NEW c \in Calls, SearchFinds(c) \/ SearchRaises(c) \/ CreateRaises(c) PROVE Inv'
  <2>1. c \in InFlight /\ Return(c) /\ UNCHANGED stamps
    BY <1>4, Zenon DEF SearchFinds, SearchRaises, CreateRaises, InFlight
  <2>2. OverrunBounded'
    BY <1>0, <2>1, ReturnLeaves, InFlightFinite DEF OverrunBounded
  <2>3. stage' \in [Calls -> {"idle", "searching", "creating"}]
    BY <2>1 DEF Return, Inv
  <2>. QED
    BY <2>1, <2>2, <2>3 DEF Inv
<1>5. ASSUME NEW c \in Calls, SearchFindsNone(c) PROVE Inv'
  <2>1. InFlight' = InFlight /\ UNCHANGED stamps
    BY <1>5 DEF SearchFindsNone, InFlight, Inv
  <2>2. stage' \in [Calls -> {"idle", "searching", "creating"}]
    BY <1>5 DEF SearchFindsNone, Inv
  <2>. QED
    BY <2>1, <2>2 DEF Inv, OverrunBounded
<1>6. CASE Tick \/ UNCHANGED vars
  <2>1. UNCHANGED <<stamps, stage>>
    BY <1>6, Zenon DEF Tick, vars
  <2>. QED
    BY <2>1 DEF Inv, OverrunBounded, InFlight
<1>8. CASE Reload
  <2>1. stamps' = {} /\ UNCHANGED stage /\ InFlight' = InFlight
    BY <1>8 DEF Reload, InFlight
  <2>2. Cardinality(stamps') = 0 /\ IsFiniteSet(stamps')
    BY <2>1, FS_EmptySet
  <2>. QED
    BY <2>1, <2>2, InFlightFinite DEF Inv, OverrunBounded
<1>7. ASSUME NEW c \in Calls, NEW f \in Fingerprints, ReportSkipped(c, f) PROVE Inv'
  BY <1>6, <1>7, Zenon DEF ReportSkipped
<1>. QED
  BY <1>1, <1>2, <1>3, <1>4, <1>5, <1>6, <1>7, <1>8, Zenon DEF Next

\* However many reports overlap, the records never exceed the cap by as much as
\* the number of tasks that report; a single one never exceeds it.
THEOREM OverrunIsBounded == Spec => []OverrunBounded
<1>1. Init => Inv
  <2>. SUFFICES ASSUME Init PROVE Inv
    OBVIOUS
  <2>1. stamps = {} /\ InFlight = {} /\ stage \in [Calls -> {"idle", "searching", "creating"}]
    BY DEF Init, InFlight
  <2>2. Cardinality(stamps) = 0 /\ Cardinality(InFlight) = 0 /\ IsFiniteSet(stamps)
    BY <2>1, FS_EmptySet
  <2>. QED
    BY <2>1, <2>2, InFlightFinite DEF Inv, OverrunBounded
<1>2. Inv => OverrunBounded
  BY DEF Inv
<1>. QED
  BY <1>1, <1>2, InvStep, PTL DEF Spec

-------------------------------------------------------------------------------
(* Types                                                                   *)

\* What a call files is an issue.
LEMMA FiledTyped ==
    ASSUME TypeOK, NEW c \in InFlight, NEW told \in BOOLEAN, error[c] \in Fingerprints,
           Filed(c, told)
    PROVE  issues' \in Seq(Issues)
BY DEF Filed, Issues, TypeOK, InFlight

\* The calls under way are about an error.
Named == \A c \in InFlight : error[c] \in Fingerprints

Typed == TypeOK /\ Named

LEMMA ReturnTyped ==
    ASSUME Typed, NEW c \in Calls, Return(c)
    PROVE  /\ stage' \in [Calls -> {"idle", "searching", "creating"}]
           /\ error' \in [Calls -> Fingerprints \cup {"none"}]
           /\ now' \in [Calls -> Nat] /\ by' \in [Calls -> Nat]
           /\ company' \subseteq Calls
           /\ Named'
<1>. USE DEF Typed, TypeOK, Return
<1>1. /\ stage' \in [Calls -> {"idle", "searching", "creating"}]
      /\ error' \in [Calls -> Fingerprints \cup {"none"}]
      /\ now' \in [Calls -> Nat] /\ by' \in [Calls -> Nat]
      /\ company' \subseteq Calls
  OBVIOUS
<1>2. \A d \in InFlight' : d \in InFlight /\ error'[d] = error[d]
  BY DEF InFlight
<1>. QED
  BY <1>1, <1>2 DEF Named

\* Remembering keeps a dictionary of times.
LEMMA RememberTyped ==
    ASSUME Typed, NEW c \in InFlight, Remember(c)
    PROVE  /\ DOMAIN last' \subseteq Fingerprints
           /\ \A f \in DOMAIN last' : last'[f] \in Nat
BY DEF Typed, TypeOK, Named, Remember, InFlight

LEMMA TypeStep == Typed /\ [Next]_vars => Typed'
<1>. SUFFICES ASSUME Typed, [Next]_vars PROVE Typed'
  OBVIOUS
<1>. USE DEF stateVars, callVars
<1>0. IsFiniteSet(Recent) /\ \A r \in Recent : r.at \in Nat
  BY FS_Subset DEF Recent, Typed, TypeOK
<1>1. ASSUME NEW c \in Calls, NEW f \in Fingerprints, Report(c, f) PROVE Typed'
  <2>1. /\ stage' \in [Calls -> {"idle", "searching", "creating"}]
        /\ error' \in [Calls -> Fingerprints \cup {"none"}]
        /\ now' \in [Calls -> Nat] /\ by' \in [Calls -> Nat]
        /\ company' \subseteq Calls
    BY <1>1 DEF Report, Begin, Typed, TypeOK, Others, InFlight
  <2>2. Named'
    BY <1>1 DEF Report, Begin, Typed, TypeOK, Named, InFlight
  <2>3. stamps' = Recent /\ UNCHANGED <<clock, reporter, last, issues>>
    BY <1>1 DEF Report
  <2>. QED
    BY <1>0, <2>1, <2>2, <2>3 DEF Typed, TypeOK
<1>2. ASSUME NEW c \in Calls, NEW f \in Fingerprints, ReportCapped(c, f) PROVE Typed'
  <2>1. stamps' = Recent /\ UNCHANGED <<clock, reporter, last, callVars, issues>>
    BY <1>2 DEF ReportCapped
  <2>. QED
    BY <1>0, <2>1 DEF Typed, TypeOK, Named, InFlight
<1>3. ASSUME NEW c \in Calls, SearchFinds(c) PROVE Typed'
  <2>1. c \in InFlight /\ Return(c) /\ Remember(c) /\ UNCHANGED <<clock, reporter, stamps, issues>>
    BY <1>3 DEF SearchFinds, InFlight
  <2>. QED
    BY <2>1, ReturnTyped, RememberTyped DEF Typed, TypeOK, InFlight
<1>4. ASSUME NEW c \in Calls, CreateAccepted(c) \/ CreateRefused(c) PROVE Typed'
  <2>1. c \in InFlight /\ Return(c) /\ Record(c) /\ Remember(c) /\ UNCHANGED <<clock, reporter>>
    BY <1>4 DEF CreateAccepted, CreateRefused, InFlight, Record
  <2>2. IsFiniteSet(stamps') /\ \A r \in stamps' : r.at \in Nat
    <3>1. PICK r : r.at \in Nat /\ (stamps' = stamps \/ stamps' = stamps \cup {r})
      <4>1. now[c] \in Nat
        BY DEF Typed, TypeOK
      <4>. DEFINE R == [no |-> Cardinality(RecordedAt(now[c])), at |-> now[c]]
      <4>2. R.at \in Nat
        BY <4>1
      <4>3. stamps' = stamps \/ stamps' = stamps \cup {R}
        BY <2>1, Zenon DEF Record
      <4>. QED
        BY <4>2, <4>3, Zenon
    <3>2. IsFiniteSet(stamps) /\ \A q \in stamps : q.at \in Nat
      BY DEF Typed, TypeOK
    <3>3. IsFiniteSet(stamps')
      BY <3>1, <3>2, FS_AddElement, Zenon
    <3>. QED
      BY <3>1, <3>2, <3>3
  <2>3. issues' \in Seq(Issues)
    <3>1. Filed(c, TRUE) \/ UNCHANGED issues
      BY <1>4 DEF CreateAccepted, CreateRefused
    <3>. QED
      BY <2>1, <3>1, FiledTyped DEF Typed, TypeOK, Named
  <2>. QED
    BY <2>1, <2>2, <2>3, ReturnTyped, RememberTyped DEF Typed, TypeOK
<1>5. ASSUME NEW c \in Calls, SearchRaises(c) \/ CreateRaises(c) PROVE Typed'
  <2>1. c \in InFlight /\ Return(c) /\ UNCHANGED <<clock, stateVars>>
    BY <1>5, Zenon DEF SearchRaises, CreateRaises, InFlight
  <2>2. issues' \in Seq(Issues)
    <3>1. Filed(c, FALSE) \/ UNCHANGED issues
      BY <1>5, Zenon DEF SearchRaises, CreateRaises
    <3>. QED
      BY <2>1, <3>1, FiledTyped DEF Typed, TypeOK, Named
  <2>. QED
    BY <2>1, <2>2, ReturnTyped DEF Typed, TypeOK
<1>6. ASSUME NEW c \in Calls, SearchFindsNone(c) PROVE Typed'
  BY <1>6 DEF SearchFindsNone, Typed, TypeOK, Named, InFlight
<1>7. CASE Reload
  <2>1. /\ last' = [f \in {} |-> 0] /\ stamps' = {} /\ reporter' = reporter + 1
        /\ UNCHANGED <<clock, callVars, issues>>
    BY <1>7 DEF Reload
  <2>. QED
    BY <2>1, FS_EmptySet DEF Typed, TypeOK, Named, InFlight
<1>8. CASE Tick
  BY <1>8 DEF Tick, Typed, TypeOK, Named, InFlight
<1>9. CASE UNCHANGED vars
  BY <1>9 DEF vars, Typed, TypeOK, Named, InFlight
<1>10. ASSUME NEW c \in Calls, NEW f \in Fingerprints, ReportSkipped(c, f) PROVE Typed'
  BY <1>9, <1>10, Zenon DEF ReportSkipped
<1>. QED
  BY <1>1, <1>2, <1>3, <1>4, <1>5, <1>6, <1>7, <1>8, <1>9, <1>10, Zenon DEF Next

LEMMA TypeInit == Init => Typed
BY FS_EmptySet DEF Init, Typed, TypeOK, Named, InFlight

\* The state of any number of overlapping calls keeps its types.
THEOREM TypeCorrect == Spec => []TypeOK
<1>1. Typed => TypeOK
  BY DEF Typed
<1>. QED
  BY <1>1, TypeInit, TypeStep, PTL DEF Spec

-------------------------------------------------------------------------------
(* Deduplication                                                           *)

\* Issues that GitHub confirmed to a call that ran alone.
Sole(i) == issues[i].told /\ issues[i].alone

\* The numbers of the reporters are those of the set-ups so far.
Numbered ==
    /\ \A c \in Calls : by[c] <= reporter
    /\ \A i \in DOMAIN issues : issues[i].by <= reporter

\* Calls of a reporter for the same error know that they overlap.
Apart ==
    \A c, d \in InFlight : c # d /\ error[c] = error[d] /\ by[c] = by[d] => c \in company

\* A reporter remembers its sole issues, or later ones for the same error.
Remembered ==
    \A i \in DOMAIN issues :
        Sole(i) /\ issues[i].by = reporter =>
            issues[i].error \in DOMAIN last /\ last[issues[i].error] >= issues[i].since

\* The calls under way have begun after the cooldown of a sole issue.
Later ==
    \A i \in DOMAIN issues, c \in InFlight :
        Sole(i) /\ error[c] = issues[i].error /\ by[c] = issues[i].by =>
            now[c] >= issues[i].since + Cooldown

DedupInv == Typed /\ Numbered /\ Apart /\ Remembered /\ Later /\ DedupUnlessOverlapped

\* The types of the issues and of the calls, one by one.
LEMMA Fields ==
    ASSUME Typed
    PROVE  /\ \A i \in DOMAIN issues : issues[i].since \in Nat /\ issues[i].by \in Nat
           /\ \A c \in Calls : now[c] \in Nat /\ by[c] \in Nat
           /\ reporter \in Nat /\ clock \in Nat /\ Cooldown \in Nat
<1>1. issues \in Seq(Issues)
  BY DEF Typed, TypeOK
<1>2. \A i \in DOMAIN issues : issues[i] \in Issues
  BY <1>1
<1>. QED
  BY <1>2 DEF Typed, TypeOK, Issues

LEMMA DedupInit == Init => DedupInv
<1>. SUFFICES ASSUME Init PROVE DedupInv
  OBVIOUS
<1>1. Typed
  BY TypeInit
<1>2. /\ issues = <<>> /\ InFlight = {} /\ \A c \in Calls : by[c] = 0
      /\ reporter = 0
  BY DEF Init, InFlight
<1>. QED
  BY <1>1, <1>2 DEF DedupInv, Numbered, Apart, Remembered, Later, DedupUnlessOverlapped

\* A call that returns leaves the others as they are.
LEMMA ReturnKeeps ==
    ASSUME DedupInv, NEW c \in InFlight, Return(c)
    PROVE  /\ InFlight' = InFlight \ {c}
           /\ \A d \in Calls : d # c =>
                 error'[d] = error[d] /\ by'[d] = by[d] /\ now'[d] = now[d]
           /\ by'[c] = 0
           /\ Apart'
<1>1. InFlight' = InFlight \ {c}
  BY DEF Return, InFlight, DedupInv, Typed, TypeOK
<1>2. /\ \A d \in Calls : d # c =>
                 error'[d] = error[d] /\ by'[d] = by[d] /\ now'[d] = now[d]
      /\ by'[c] = 0
  BY DEF Return, DedupInv, Typed, TypeOK, InFlight
<1>3. Apart'
  BY <1>1, <1>2 DEF Apart, Return, DedupInv, InFlight
<1>. QED
  BY <1>1, <1>2, <1>3

\* Remembering a call that began after the cooldown of the sole issues for its error.
LEMMA RememberKeeps ==
    ASSUME DedupInv, NEW c \in InFlight, Remember(c), reporter' = reporter,
           NEW i \in DOMAIN issues, Sole(i), issues[i].by = reporter
    PROVE  issues[i].error \in DOMAIN last' /\ last'[issues[i].error] >= issues[i].since
<1>1. /\ issues[i].error \in DOMAIN last /\ last[issues[i].error] >= issues[i].since
      /\ now[c] \in Nat /\ issues[i].since \in Nat
  BY Fields DEF DedupInv, Remembered, InFlight
<1>2. CASE by[c] = reporter /\ error[c] = issues[i].error
  <2>1. now[c] >= issues[i].since + Cooldown
    BY <1>2 DEF DedupInv, Later
  <2>2. issues[i].error \in DOMAIN last' /\ last'[issues[i].error] = now[c]
    BY <1>2 DEF Remember
  <2>. QED
    BY <1>1, <2>1, <2>2
<1>3. CASE ~ (by[c] = reporter /\ error[c] = issues[i].error)
  BY <1>1, <1>3 DEF Remember
<1>. QED
  BY <1>2, <1>3

\* The call c returns and files nothing.
LEMMA ReturnDedup ==
    ASSUME DedupInv, Typed', NEW c \in InFlight, Return(c), UNCHANGED <<reporter, issues>>,
           Remember(c) \/ UNCHANGED last
    PROVE  DedupInv'
<1>1. Numbered'
  BY ReturnKeeps, Fields DEF DedupInv, Numbered
<1>2. Remembered'
  BY RememberKeeps DEF DedupInv, Remembered, Sole
<1>3. Later'
  BY ReturnKeeps DEF DedupInv, Later, Sole, InFlight
<1>4. DedupUnlessOverlapped'
  BY DEF DedupInv, DedupUnlessOverlapped, Same
<1>. QED
  BY <1>1, <1>2, <1>3, <1>4, ReturnKeeps DEF DedupInv

\* The call c returns and GitHub filed its issue; if it says so, c remembers.
LEMMA FiledDedup ==
    ASSUME DedupInv, Typed', NEW c \in InFlight, Return(c), UNCHANGED reporter,
           NEW told \in BOOLEAN, Filed(c, told),
           Remember(c) \/ (UNCHANGED last /\ ~told)
    PROVE  DedupInv'
<1>. DEFINE n == Len(issues) + 1
            new == [error |-> error[c], by |-> by[c], since |-> now[c],
                    told |-> told, alone |-> c \notin company]
<1>1. /\ issues \in Seq(Issues) /\ new \in Issues
      /\ issues' = Append(issues, new)
      /\ now[c] \in Nat /\ by[c] \in Nat /\ reporter \in Nat
  BY DEF DedupInv, Typed, TypeOK, Filed, Issues, Named, InFlight
<1>2. /\ DOMAIN issues' = DOMAIN issues \cup {n}
      /\ \A i \in DOMAIN issues : issues'[i] = issues[i] /\ i \in Nat /\ i < n
      /\ issues'[n] = new
  BY <1>1
<1>3. Numbered'
  <2>1. \A d \in Calls : by'[d] <= reporter
    BY <1>1, ReturnKeeps DEF DedupInv, Numbered
  <2>2. issues'[n].by = by[c] /\ by[c] <= reporter
    BY <1>1, <1>2 DEF DedupInv, Numbered, InFlight
  <2>3. \A i \in DOMAIN issues : issues'[i].by <= reporter
    BY <1>2 DEF DedupInv, Numbered
  <2>. QED
    BY <1>2, <2>1, <2>2, <2>3 DEF Numbered
<1>4. Remembered'
  <2>. SUFFICES ASSUME NEW i \in DOMAIN issues', Sole(i)', issues'[i].by = reporter
                PROVE  /\ issues'[i].error \in DOMAIN last'
                       /\ last'[issues'[i].error] >= issues'[i].since
    BY DEF Remembered
  <2>1. CASE i \in DOMAIN issues
    BY <1>2, <2>1, RememberKeeps DEF Sole, DedupInv, Remembered
  <2>2. CASE i = n
    <3>0. issues'[i] = new
      BY <1>2, <2>2
    <3>1. Remember(c) /\ by[c] = reporter
      BY <3>0 DEF Sole
    <3>2. error[c] \in DOMAIN last' /\ last'[error[c]] = now[c]
      BY <3>1 DEF Remember
    <3>. QED
      BY <1>1, <3>0, <3>2
  <2>. QED
    BY <1>2, <2>1, <2>2
<1>5. Later'
  <2>. SUFFICES ASSUME NEW i \in DOMAIN issues', NEW d \in InFlight', Sole(i)',
                       error'[d] = issues'[i].error, by'[d] = issues'[i].by
                PROVE  now'[d] >= issues'[i].since + Cooldown
    BY DEF Later
  <2>1. /\ d \in InFlight /\ d # c
        /\ error'[d] = error[d] /\ by'[d] = by[d] /\ now'[d] = now[d]
    BY ReturnKeeps DEF InFlight
  <2>2. CASE i \in DOMAIN issues
    BY <1>2, <2>1, <2>2 DEF DedupInv, Later, Sole
  <2>3. CASE i = n
    <3>0. issues'[i] = new
      BY <1>2, <2>3
    <3>1. error[d] = error[c] /\ by[d] = by[c]
      <4>1. new.error = error[c] /\ new.by = by[c]
        OBVIOUS
      <4>. HIDE DEF new
      <4>. QED
        BY <2>1, <3>0, <4>1
    <3>3. issues'[i].alone
      BY DEF Sole
    <3>2. issues'[i].alone = (c \notin company)
      BY <3>0
    <3>. QED
      BY <2>1, <3>1, <3>2, <3>3 DEF DedupInv, Apart
  <2>. QED
    BY <1>2, <2>2, <2>3
<1>6. DedupUnlessOverlapped'
  <2>. SUFFICES ASSUME NEW i \in DOMAIN issues', NEW j \in DOMAIN issues', i < j,
                       issues'[i].error = issues'[j].error, issues'[i].by = issues'[j].by,
                       issues'[i].told, issues'[i].alone
                PROVE  issues'[j].since >= issues'[i].since + Cooldown
    BY DEF DedupUnlessOverlapped, Same
  <2>1. i \in DOMAIN issues
    BY <1>1, <1>2
  <2>2. CASE j \in DOMAIN issues
    BY <1>2, <2>1, <2>2 DEF DedupInv, DedupUnlessOverlapped, Same
  <2>3. CASE j = n
    BY <1>2, <2>1, <2>3 DEF DedupInv, Later, Sole
  <2>. QED
    BY <1>2, <2>2, <2>3
<1>. QED
  BY <1>3, <1>4, <1>5, <1>6, ReturnKeeps DEF DedupInv

LEMMA DedupStep == DedupInv /\ [Next]_vars => DedupInv'
<1>. SUFFICES ASSUME DedupInv, [Next]_vars PROVE DedupInv'
  OBVIOUS
<1>. USE DEF stateVars, callVars
<1>0. Typed /\ Typed'
  BY TypeStep DEF DedupInv
<1>1. ASSUME NEW c \in Calls, NEW f \in Fingerprints, Report(c, f) PROVE DedupInv'
  <2>1. /\ ~CoolingDown(f) /\ Begin(c, f) /\ c \notin InFlight
        /\ UNCHANGED <<clock, reporter, last, issues>>
    BY <1>1 DEF Report, InFlight
  <2>2. /\ InFlight' = InFlight \cup {c}
        /\ error'[c] = f /\ now'[c] = clock /\ by'[c] = reporter
        /\ \A d \in Calls : d # c =>
              error'[d] = error[d] /\ by'[d] = by[d] /\ now'[d] = now[d]
    BY <1>0, <2>1 DEF Begin, InFlight, Typed, TypeOK
  <2>3. Numbered'
    <3>1. \A d \in Calls : by'[d] <= reporter
      BY <1>0, <2>2, Fields DEF DedupInv, Numbered
    <3>. QED
      BY <2>1, <3>1 DEF DedupInv, Numbered
  <2>4. Apart'
    <3>. SUFFICES ASSUME NEW d \in InFlight', NEW e \in InFlight', d # e,
                         error'[d] = error'[e], by'[d] = by'[e]
                  PROVE  d \in company'
      BY DEF Apart
    <3>0. company' = company \cup (IF Others(f) = {} THEN {} ELSE Others(f) \cup {c})
      BY <2>1 DEF Begin
    <3>1. CASE d # c /\ e # c
      BY <2>2, <3>0, <3>1 DEF DedupInv, Apart, InFlight
    <3>2. CASE d = c
      <4>1. e \in Others(f)
        BY <2>2, <3>2 DEF Others, InFlight
      <4>. QED
        BY <3>0, <3>2, <4>1
    <3>3. CASE e = c
      <4>1. d \in Others(f)
        BY <2>2, <3>3 DEF Others, InFlight
      <4>. QED
        BY <3>0, <4>1
    <3>. QED
      BY <3>1, <3>2, <3>3
  <2>5. Remembered'
    BY <2>1 DEF DedupInv, Remembered, Sole
  <2>6. Later'
    <3>. SUFFICES ASSUME NEW i \in DOMAIN issues, NEW d \in InFlight', Sole(i),
                         error'[d] = issues[i].error, by'[d] = issues[i].by
                  PROVE  now'[d] >= issues[i].since + Cooldown
      BY <2>1 DEF Later, Sole
    <3>1. CASE d # c
      BY <2>2, <3>1 DEF DedupInv, Later, InFlight
    <3>2. CASE d = c
      <4>1. f \in DOMAIN last /\ last[f] >= issues[i].since /\ issues[i].error = f
        <5>1. issues[i].by = reporter /\ issues[i].error = f
          BY <2>2, <3>2
        <5>. QED
          BY <5>1 DEF DedupInv, Remembered
      <4>2. last[f] \in Nat /\ clock \in Nat /\ issues[i].since \in Nat
        BY <1>0, <4>1, Fields DEF Typed, TypeOK
      <4>3. clock - last[f] >= Cooldown
        BY <2>1, <4>1, <4>2 DEF CoolingDown
      <4>. QED
        BY <2>2, <3>2, <4>1, <4>2, <4>3
    <3>. QED
      BY <3>1, <3>2
  <2>7. DedupUnlessOverlapped'
    BY <2>1 DEF DedupInv, DedupUnlessOverlapped, Same
  <2>. QED
    BY <1>0, <2>3, <2>4, <2>5, <2>6, <2>7 DEF DedupInv
<1>2. ASSUME NEW c \in Calls, SearchFinds(c) \/ SearchRaises(c) PROVE DedupInv'
  <2>1. /\ c \in InFlight /\ Return(c) /\ UNCHANGED <<reporter, issues>>
        /\ Remember(c) \/ UNCHANGED last
    BY <1>2, Zenon DEF SearchFinds, SearchRaises, InFlight
  <2>. QED
    BY <1>0, <2>1, ReturnDedup
<1>3. ASSUME NEW c \in Calls, CreateAccepted(c) PROVE DedupInv'
  <2>1. c \in InFlight /\ Return(c) /\ Filed(c, TRUE) /\ Remember(c) /\ UNCHANGED reporter
    BY <1>3 DEF CreateAccepted, Record, InFlight
  <2>. QED
    BY <1>0, <2>1, FiledDedup
<1>4. ASSUME NEW c \in Calls, CreateRefused(c) PROVE DedupInv'
  <2>1. c \in InFlight /\ Return(c) /\ Remember(c) /\ UNCHANGED <<reporter, issues>>
    BY <1>4 DEF CreateRefused, Record, InFlight
  <2>. QED
    BY <1>0, <2>1, ReturnDedup
<1>5. ASSUME NEW c \in Calls, CreateRaises(c) PROVE DedupInv'
  <2>1. /\ c \in InFlight /\ Return(c) /\ UNCHANGED <<reporter, last>>
        /\ Filed(c, FALSE) \/ UNCHANGED issues
    BY <1>5, Zenon DEF CreateRaises, InFlight
  <2>. QED
    BY <1>0, <2>1, ReturnDedup, FiledDedup
<1>6. ASSUME NEW c \in Calls, SearchFindsNone(c) PROVE DedupInv'
  <2>1. InFlight' = InFlight /\ UNCHANGED <<stateVars, error, now, by, company, issues>>
    BY <1>0, <1>6 DEF SearchFindsNone, InFlight, Typed, TypeOK
  <2>. QED
    BY <1>0, <2>1 DEF DedupInv, Numbered, Apart, Remembered, Later, Sole,
                      DedupUnlessOverlapped, Same
<1>7. CASE Reload
  <2>1. /\ InFlight' = InFlight /\ reporter' = reporter + 1
        /\ UNCHANGED <<callVars, issues>>
    BY <1>7 DEF Reload, InFlight
  <2>2. \A i \in DOMAIN issues : issues[i].by \in Nat /\ issues[i].by # reporter + 1
    BY <1>0, Fields DEF DedupInv, Numbered
  <2>3. Remembered'
    BY <2>1, <2>2 DEF Remembered
  <2>4. Numbered'
    BY <1>0, <2>1, <2>2 DEF DedupInv, Numbered, Typed, TypeOK
  <2>. QED
    BY <1>0, <2>1, <2>3, <2>4 DEF DedupInv, Apart, Later, Sole, DedupUnlessOverlapped, Same
<1>8. ASSUME UNCHANGED <<reporter, last, callVars, issues>> PROVE DedupInv'
  BY <1>0, <1>8 DEF DedupInv, Numbered, Apart, Remembered, Later, Sole,
                    DedupUnlessOverlapped, Same, InFlight
<1>9. CASE Tick \/ UNCHANGED vars
  BY <1>8, <1>9, Zenon DEF Tick, vars
<1>10. ASSUME NEW c \in Calls, NEW f \in Fingerprints,
              ReportSkipped(c, f) \/ ReportCapped(c, f)
       PROVE  DedupInv'
  BY <1>8, <1>10, Zenon DEF ReportSkipped, ReportCapped, vars
<1>. QED
  BY <1>1, <1>2, <1>3, <1>4, <1>5, <1>6, <1>7, <1>9, <1>10, Zenon DEF Next

\* However many calls overlap and however often the entry is reloaded: after an issue
\* whose call ran alone, its reporter files none for the same error before the
\* cooldown is over.
THEOREM DeduplicatesUnlessOverlapped == Spec => []DedupUnlessOverlapped
<1>1. DedupInv => DedupUnlessOverlapped
  BY DEF DedupInv
<1>. QED
  BY <1>1, DedupInit, DedupStep, PTL DEF Spec

-------------------------------------------------------------------------------
(* The cap in a window                                                     *)

\* The issues for which the reporter b has an answer, from the time s on.
Told(b, s) ==
    {j \in DOMAIN issues : issues[j].told /\ issues[j].by = b /\ issues[j].since >= s}

\* Those in the window from s on, and the calls that may still add one to them.
InWindow(b, s) == {j \in Told(b, s) : issues[j].since < s + Window}
Pending(b, s) == {c \in InFlight : by[c] = b /\ now[c] >= s /\ now[c] < s + Window}

Stamped(s) == {r \in stamps : r.at >= s}

\* Two records are never the same.
Distinct ==
    \A r \in stamps : r.at \in Nat /\ r.no \in Nat /\ r.no < Cardinality(RecordedAt(r.at))

\* Each recent issue of the present reporter is recorded.
Kept ==
    \A s \in Nat : clock - s < Window =>
        Cardinality(Told(reporter, s)) <= Cardinality(Stamped(s))

WindowBound ==
    \A b, s \in Nat :
        Cardinality(InWindow(b, s)) + Cardinality(Pending(b, s)) <= (Cap - 1) + Cardinality(Calls)

CapInv == Typed /\ Distinct /\ Kept /\ WindowBound

LEMMA FiniteParts ==
    ASSUME Typed, NEW b, NEW s
    PROVE  /\ IsFiniteSet(Told(b, s)) /\ Cardinality(Told(b, s)) \in Nat
           /\ IsFiniteSet(InWindow(b, s)) /\ Cardinality(InWindow(b, s)) \in Nat
           /\ Cardinality(InWindow(b, s)) <= Cardinality(Told(b, s))
           /\ IsFiniteSet(Pending(b, s)) /\ Cardinality(Pending(b, s)) \in Nat
           /\ IsFiniteSet(Stamped(s)) /\ Cardinality(Stamped(s)) \in Nat
           /\ IsFiniteSet(Recent) /\ Cardinality(Recent) \in Nat
           /\ IsFiniteSet(RecordedAt(s)) /\ Cardinality(RecordedAt(s)) \in Nat
           /\ Cardinality(Calls) \in Nat
<1>1. IsFiniteSet(DOMAIN issues)
  <2>1. DOMAIN issues = 1..Len(issues) /\ Len(issues) \in Nat
    BY DEF Typed, TypeOK
  <2>. QED
    BY <2>1, FS_Interval
<1>2. IsFiniteSet(Told(b, s)) /\ IsFiniteSet(InWindow(b, s))
      /\ Cardinality(InWindow(b, s)) <= Cardinality(Told(b, s))
  <2>1. Told(b, s) \subseteq DOMAIN issues /\ InWindow(b, s) \subseteq Told(b, s)
    BY DEF Told, InWindow
  <2>2. IsFiniteSet(Told(b, s))
    BY <1>1, <2>1, FS_Subset
  <2>. QED
    BY <2>1, <2>2, FS_Subset
<1>3. IsFiniteSet(Pending(b, s))
  <2>1. Pending(b, s) \subseteq Calls
    BY DEF Pending, InFlight
  <2>. QED
    BY <2>1, FS_Subset
<1>4. IsFiniteSet(Stamped(s)) /\ IsFiniteSet(Recent) /\ IsFiniteSet(RecordedAt(s))
  <2>1. /\ Stamped(s) \subseteq stamps /\ Recent \subseteq stamps
        /\ RecordedAt(s) \subseteq stamps
    BY DEF Stamped, Recent, RecordedAt
  <2>2. IsFiniteSet(stamps)
    BY DEF Typed, TypeOK
  <2>. QED
    BY <2>1, <2>2, FS_Subset
<1>. QED
  BY <1>2, <1>3, <1>4, FS_CardinalityType

\* What pruning leaves has every record of the window.
LEMMA PruneKeeps ==
    ASSUME CapInv, stamps' = Recent, UNCHANGED <<clock, reporter, issues>>
    PROVE  Distinct' /\ Kept'
<1>0. clock \in Nat /\ \A r \in stamps : r.at \in Nat
  BY DEF CapInv, Typed, TypeOK
<1>1. \A r \in Recent : RecordedAt(r.at)' = RecordedAt(r.at)
  BY DEF Recent, RecordedAt
<1>2. Distinct'
  BY <1>1 DEF CapInv, Distinct, Recent
<1>3. ASSUME NEW s \in Nat, clock - s < Window PROVE Stamped(s)' = Stamped(s)
  BY <1>0, <1>3 DEF Stamped, Recent
<1>4. ASSUME NEW s \in Nat PROVE Told(reporter, s)' = Told(reporter, s)
  BY DEF Told
<1>5. Kept'
  BY <1>3, <1>4 DEF CapInv, Kept
<1>. QED
  BY <1>2, <1>5

\* A call that begins below the cap finds few recent issues of its reporter.
LEMMA BeginBounded ==
    ASSUME CapInv, NEW c \in Calls, c \notin InFlight, NEW f, Begin(c, f),
           Cardinality(Recent) < Cap, UNCHANGED issues
    PROVE  WindowBound'
<1>. SUFFICES ASSUME NEW b \in Nat, NEW s \in Nat
              PROVE  Cardinality(InWindow(b, s)') + Cardinality(Pending(b, s)')
                         <= (Cap - 1) + Cardinality(Calls)
  BY DEF WindowBound
<1>0. /\ Typed /\ clock \in Nat /\ \A r \in stamps : r.at \in Nat
  BY DEF CapInv, Typed, TypeOK
<1>1. InWindow(b, s)' = InWindow(b, s)
  BY DEF InWindow, Told
<1>2. CASE b = reporter /\ clock >= s /\ clock < s + Window
  <2>1. Cardinality(Told(b, s)) <= Cardinality(Stamped(s))
    BY <1>0, <1>2 DEF CapInv, Kept
  <2>2. Cardinality(Stamped(s)) <= Cardinality(Recent)
    <3>1. Stamped(s) \subseteq Recent
      BY <1>0, <1>2 DEF Stamped, Recent
    <3>. QED
      BY <1>0, <3>1, FiniteParts, FS_Subset
  <2>3. Cardinality(Pending(b, s)') <= Cardinality(Calls) /\ Cardinality(Pending(b, s)') \in Nat
    <3>1. Pending(b, s)' \subseteq Calls
      BY DEF Pending, InFlight
    <3>. QED
      BY <3>1, FS_Subset, FS_CardinalityType
  <2>4. Cardinality(Recent) \in Nat /\ Cardinality(Calls) \in Nat
    BY <1>0, FiniteParts
  <2>5. /\ Cardinality(Told(b, s)) \in Nat /\ Cardinality(Stamped(s)) \in Nat
        /\ Cardinality(InWindow(b, s)) \in Nat
        /\ Cardinality(InWindow(b, s)) <= Cardinality(Told(b, s))
    BY <1>0, FiniteParts
  <2>. QED
    BY <1>1, <2>1, <2>2, <2>3, <2>4, <2>5
<1>3. CASE ~ (b = reporter /\ clock >= s /\ clock < s + Window)
  <2>1. /\ by'[c] = reporter /\ now'[c] = clock
        /\ \A d \in Calls : d # c =>
              stage'[d] = stage[d] /\ by'[d] = by[d] /\ now'[d] = now[d]
    BY <1>0 DEF Begin, Typed, TypeOK
  <2>2. Pending(b, s)' = Pending(b, s)
    BY <1>3, <2>1 DEF Pending, InFlight
  <2>. QED
    BY <1>1, <2>2 DEF CapInv, WindowBound
<1>. QED
  BY <1>2, <1>3

\* A call that returns is no longer one that may add an issue.
LEMMA ReturnPending ==
    ASSUME Typed, NEW c \in InFlight, Return(c), NEW b \in Nat, NEW s \in Nat
    PROVE  Pending(b, s)' = Pending(b, s) \ {c}
<1>1. \A d \in Calls : d # c =>
          stage'[d] = stage[d] /\ by'[d] = by[d] /\ now'[d] = now[d]
  BY DEF Return, Typed, TypeOK, InFlight
<1>2. c \notin InFlight'
  BY DEF Return, Typed, TypeOK, InFlight
<1>. QED
  BY <1>1, <1>2 DEF Pending, InFlight

\* Recording a report adds one record, of the time of the call.
LEMMA RecordAdds ==
    ASSUME CapInv, NEW c \in InFlight, Record(c)
    PROVE  /\ Distinct'
           /\ \A s \in Nat :
                 Cardinality(Stamped(s)') =
                     IF by[c] = reporter /\ now[c] >= s
                     THEN Cardinality(Stamped(s)) + 1 ELSE Cardinality(Stamped(s))
<1>0. Typed /\ now[c] \in Nat
  BY Fields DEF CapInv, InFlight
<1>1. CASE by[c] # reporter
  <2>1. stamps' = stamps
    BY <1>1 DEF Record
  <2>. QED
    BY <1>1, <2>1 DEF CapInv, Distinct, RecordedAt, Stamped
<1>2. CASE by[c] = reporter
  <2>1. PICK t, k, new :
            /\ t \in Nat /\ k \in Nat
            /\ t = now[c] /\ k = Cardinality(RecordedAt(t))
            /\ new.no = k /\ new.at = t
            /\ stamps' = stamps \cup {new}
    <3>1. Cardinality(RecordedAt(now[c])) \in Nat
      BY <1>0, FiniteParts
    <3>. QED
      BY <1>0, <1>2, <3>1 DEF Record
  <2>2. new \notin stamps
    BY <2>1 DEF CapInv, Distinct
  <2>3. ASSUME NEW u \in Nat, u # t PROVE RecordedAt(u)' = RecordedAt(u)
    BY <2>1, <2>3 DEF RecordedAt
  <2>4. Cardinality(RecordedAt(t)') = k + 1
    <3>1. RecordedAt(t)' = RecordedAt(t) \cup {new} /\ new \notin RecordedAt(t)
      BY <2>1, <2>2 DEF RecordedAt
    <3>. QED
      BY <1>0, <2>1, <3>1, FiniteParts, FS_AddElement, SMTT(30)
  <2>5. Distinct'
    <3>. SUFFICES ASSUME NEW r \in stamps'
                  PROVE  r.at \in Nat /\ r.no \in Nat /\ r.no < Cardinality(RecordedAt(r.at)')
      BY DEF Distinct
    <3>1. CASE r = new
      BY <2>1, <2>4, <3>1
    <3>2. CASE r \in stamps /\ r.at = t
      BY <2>1, <2>4, <3>2 DEF CapInv, Distinct
    <3>3. CASE r \in stamps /\ r.at # t
      BY <2>3, <3>3 DEF CapInv, Distinct
    <3>. QED
      BY <2>1, <3>1, <3>2, <3>3
  <2>6. ASSUME NEW s \in Nat
        PROVE  Cardinality(Stamped(s)') =
                   IF t >= s THEN Cardinality(Stamped(s)) + 1 ELSE Cardinality(Stamped(s))
    <3>1. CASE t >= s
      <4>1. Stamped(s)' = Stamped(s) \cup {new} /\ new \notin Stamped(s)
        BY <2>1, <2>2, <3>1 DEF Stamped
      <4>. QED
        BY <1>0, <3>1, <4>1, FiniteParts, FS_AddElement
    <3>2. CASE ~ t >= s
      <4>1. Stamped(s)' = Stamped(s)
        BY <2>1, <3>2 DEF Stamped
      <4>. QED
        BY <3>2, <4>1
    <3>. QED
      BY <3>1, <3>2
  <2>. QED
    BY <1>2, <2>1, <2>5, <2>6
<1>. QED
  BY <1>1, <1>2

\* An issue that GitHub filed is one more, if its call was told so.
LEMMA FiledAdds ==
    ASSUME Typed, NEW c \in InFlight, NEW told \in BOOLEAN, Filed(c, told),
           NEW b \in Nat, NEW s \in Nat
    PROVE  /\ Cardinality(Told(b, s)') =
                  IF told /\ by[c] = b /\ now[c] >= s
                  THEN Cardinality(Told(b, s)) + 1 ELSE Cardinality(Told(b, s))
           /\ Cardinality(InWindow(b, s)') =
                  IF told /\ by[c] = b /\ now[c] >= s /\ now[c] < s + Window
                  THEN Cardinality(InWindow(b, s)) + 1 ELSE Cardinality(InWindow(b, s))
<1>1. PICK new \in Issues, n \in Nat :
          /\ n = Len(issues) + 1 /\ issues' = Append(issues, new)
          /\ new.by = by[c] /\ new.since = now[c] /\ (new.told <=> told)
  <2>. DEFINE issue == [error |-> error[c], by |-> by[c], since |-> now[c],
                        told |-> told, alone |-> c \notin company]
  <2>1. issues' = Append(issues, issue)
    BY DEF Filed
  <2>2. issue.by = by[c] /\ issue.since = now[c] /\ (issue.told <=> told)
    OBVIOUS
  <2>3. issue \in Issues
    BY DEF Issues, Typed, TypeOK, Named, InFlight
  <2>4. Len(issues) + 1 \in Nat
    BY DEF Typed, TypeOK
  <2>. HIDE DEF issue
  <2>. QED
    BY <2>1, <2>2, <2>3, <2>4
<1>2. /\ DOMAIN issues' = DOMAIN issues \cup {n} /\ n \notin DOMAIN issues
      /\ \A i \in DOMAIN issues : issues'[i] = issues[i]
      /\ issues'[n] = new
  BY <1>1 DEF Typed, TypeOK
<1>3. now[c] \in Nat
  BY Fields DEF InFlight
<1>4. /\ IsFiniteSet(Told(b, s)) /\ IsFiniteSet(InWindow(b, s))
      /\ n \notin Told(b, s) /\ n \notin InWindow(b, s)
  <2>1. n \notin Told(b, s) /\ n \notin InWindow(b, s)
    BY <1>2 DEF Told, InWindow
  <2>. QED
    BY <2>1, FiniteParts
<1>5. CASE told /\ by[c] = b /\ now[c] >= s
  <2>1. Told(b, s)' = Told(b, s) \cup {n}
    BY <1>1, <1>2, <1>5 DEF Told
  <2>2. CASE now[c] < s + Window
    <3>1. InWindow(b, s)' = InWindow(b, s) \cup {n}
      BY <1>1, <1>2, <2>1, <2>2 DEF InWindow, Told
    <3>. QED
      BY <1>4, <1>5, <2>1, <2>2, <3>1, FS_AddElement
  <2>3. CASE ~ now[c] < s + Window
    <3>1. InWindow(b, s)' = InWindow(b, s)
      BY <1>1, <1>2, <2>1, <2>3 DEF InWindow, Told
    <3>. QED
      BY <1>4, <1>5, <2>1, <2>3, <3>1, FS_AddElement
  <2>. QED
    BY <2>2, <2>3
<1>6. CASE ~ (told /\ by[c] = b /\ now[c] >= s)
  <2>1. Told(b, s)' = Told(b, s)
    BY <1>1, <1>2, <1>6 DEF Told
  <2>2. InWindow(b, s)' = InWindow(b, s)
    BY <1>2, <2>1 DEF InWindow, Told
  <2>. QED
    BY <1>6, <2>1, <2>2
<1>. QED
  BY <1>5, <1>6

\* A call that returns makes room for the issue it may have filed.
LEMMA ReturnBound ==
    ASSUME CapInv, NEW c \in InFlight, Return(c),
           UNCHANGED issues \/ \E told \in BOOLEAN : Filed(c, told)
    PROVE  WindowBound'
<1>. SUFFICES ASSUME NEW b \in Nat, NEW s \in Nat
              PROVE  Cardinality(InWindow(b, s)') + Cardinality(Pending(b, s)')
                         <= (Cap - 1) + Cardinality(Calls)
  BY DEF WindowBound
<1>0. Typed
  BY DEF CapInv
<1>1. /\ Cardinality(InWindow(b, s)) \in Nat /\ Cardinality(Pending(b, s)) \in Nat
      /\ Cardinality(Calls) \in Nat
      /\ IsFiniteSet(Pending(b, s))
  BY <1>0, FiniteParts
<1>2. Cardinality(InWindow(b, s)) + Cardinality(Pending(b, s)) <= (Cap - 1) + Cardinality(Calls)
  BY DEF CapInv, WindowBound
<1>3. Cardinality(Pending(b, s)') =
          IF by[c] = b /\ now[c] >= s /\ now[c] < s + Window
          THEN Cardinality(Pending(b, s)) - 1 ELSE Cardinality(Pending(b, s))
  <2>1. Pending(b, s)' = Pending(b, s) \ {c}
    BY <1>0, ReturnPending
  <2>2. c \in Pending(b, s) <=> by[c] = b /\ now[c] >= s /\ now[c] < s + Window
    BY DEF Pending
  <2>3. Cardinality(Pending(b, s) \ {c}) =
            IF c \in Pending(b, s)
            THEN Cardinality(Pending(b, s)) - 1 ELSE Cardinality(Pending(b, s))
    BY <1>1, FS_RemoveElement
  <2>. QED
    BY <2>1, <2>2, <2>3
<1>4. CASE UNCHANGED issues
  <2>1. InWindow(b, s)' = InWindow(b, s)
    BY <1>4 DEF InWindow, Told
  <2>. QED
    BY <1>1, <1>2, <1>3, <2>1
<1>5. ASSUME NEW told \in BOOLEAN, Filed(c, told)
      PROVE  \/ Cardinality(InWindow(b, s)') = Cardinality(InWindow(b, s))
             \/ /\ Cardinality(InWindow(b, s)') = Cardinality(InWindow(b, s)) + 1
                /\ by[c] = b /\ now[c] >= s /\ now[c] < s + Window
  BY <1>0, <1>5, FiledAdds
<1>. QED
  BY <1>1, <1>2, <1>3, <1>4, <1>5

\* What neither begins nor ends a call, and files nothing, keeps the bound.
LEMMA QuietStep ==
    ASSUME CapInv, UNCHANGED <<stage, by, now, issues>>
    PROVE  WindowBound'
<1>1. ASSUME NEW b, NEW s
      PROVE  InWindow(b, s)' = InWindow(b, s) /\ Pending(b, s)' = Pending(b, s)
  BY DEF InWindow, Told, Pending, InFlight
<1>. QED
  BY <1>1 DEF CapInv, WindowBound

LEMMA EarlierInWindow ==
    ASSUME NEW a \in Nat, NEW b \in Nat, a <= b
    PROVE  \A s \in Nat : b - s < Window => a - s < Window
BY SMT

\* Later, fewer records count as recent.
LEMMA KeptLater ==
    ASSUME CapInv, UNCHANGED <<reporter, stamps>>, clock' \in Nat, clock' >= clock,
           \A s \in Nat : Cardinality(Told(reporter, s)') = Cardinality(Told(reporter, s))
    PROVE  Distinct' /\ Kept'
<1>0. clock \in Nat
  BY DEF CapInv, Typed, TypeOK
<1>1. Distinct'
  BY DEF CapInv, Distinct, RecordedAt
<1>2. ASSUME NEW s \in Nat PROVE Stamped(s)' = Stamped(s)
  BY DEF Stamped
<1>3. \A s \in Nat : clock' - s < Window => clock - s < Window
  BY <1>0, EarlierInWindow
<1>. QED
  BY <1>1, <1>2, <1>3 DEF CapInv, Kept

\* A creation that ends records its issue, if there is one.
LEMMA RecordKeeps ==
    ASSUME CapInv, NEW c \in InFlight, Record(c), UNCHANGED clock,
           Filed(c, TRUE) \/ UNCHANGED issues
    PROVE  Distinct' /\ Kept'
<1>. SUFFICES ASSUME NEW s \in Nat, clock - s < Window
              PROVE  Cardinality(Told(reporter, s)') <= Cardinality(Stamped(s)')
  BY RecordAdds DEF Kept
<1>0. Typed /\ reporter \in Nat /\ reporter' = reporter
  BY DEF CapInv, Typed, TypeOK, Record
<1>1. PICK b \in Nat : b = reporter
  BY <1>0
<1>2. Told(reporter, s) = Told(b, s) /\ Told(reporter, s)' = Told(b, s)'
  BY <1>0, <1>1 DEF Told
<1>3. /\ Cardinality(Told(b, s)) \in Nat /\ Cardinality(Stamped(s)) \in Nat
      /\ Cardinality(Told(b, s)) <= Cardinality(Stamped(s))
  BY <1>0, <1>1, <1>2, FiniteParts DEF CapInv, Kept
<1>4. Cardinality(Stamped(s)') =
          IF by[c] = b /\ now[c] >= s
          THEN Cardinality(Stamped(s)) + 1 ELSE Cardinality(Stamped(s))
  BY <1>1, RecordAdds
<1>5. CASE UNCHANGED issues
  <2>1. Told(b, s)' = Told(b, s)
    BY <1>5 DEF Told
  <2>. QED
    BY <1>2, <1>3, <1>4, <2>1
<1>6. CASE Filed(c, TRUE)
  <2>1. Cardinality(Told(b, s)') =
            IF by[c] = b /\ now[c] >= s
            THEN Cardinality(Told(b, s)) + 1 ELSE Cardinality(Told(b, s))
    BY <1>0, <1>6, FiledAdds, ZenonT(90)
  <2>. QED
    BY <1>2, <1>3, <1>4, <2>1
<1>. QED
  BY <1>5, <1>6

LEMMA CapStep == DedupInv /\ CapInv /\ [Next]_vars => CapInv'
<1>. SUFFICES ASSUME DedupInv, CapInv, [Next]_vars PROVE CapInv'
  OBVIOUS
<1>. USE DEF stateVars, callVars
<1>0. Typed /\ Typed' /\ clock \in Nat /\ clock' \in Nat /\ reporter \in Nat
  BY TypeStep DEF CapInv, Typed, TypeOK
<1>1. ASSUME NEW c \in Calls, NEW f \in Fingerprints, Report(c, f) \/ ReportCapped(c, f)
      PROVE  Distinct' /\ Kept' /\ WindowBound'
  <2>1. stamps' = Recent /\ UNCHANGED <<clock, reporter, issues>> /\ c \notin InFlight
    BY <1>1 DEF Report, ReportCapped, InFlight
  <2>2. Distinct' /\ Kept'
    BY <2>1, PruneKeeps
  <2>3. CASE Report(c, f)
    BY <2>1, <2>2, <2>3, BeginBounded DEF Report
  <2>4. CASE ReportCapped(c, f)
    BY <2>2, <2>4, QuietStep DEF ReportCapped
  <2>. QED
    BY <1>1, <2>3, <2>4
<1>2. ASSUME NEW c \in Calls, CreateAccepted(c) \/ CreateRefused(c)
      PROVE  Distinct' /\ Kept' /\ WindowBound'
  <2>1. /\ c \in InFlight /\ Return(c) /\ Record(c) /\ UNCHANGED clock
        /\ Filed(c, TRUE) \/ UNCHANGED issues
    BY <1>2 DEF CreateAccepted, CreateRefused, InFlight
  <2>. QED
    BY <2>1, RecordKeeps, ReturnBound
<1>3. ASSUME NEW c \in Calls, SearchFinds(c) \/ SearchRaises(c) \/ CreateRaises(c)
      PROVE  Distinct' /\ Kept' /\ WindowBound'
  <2>1. /\ c \in InFlight /\ Return(c) /\ UNCHANGED <<clock, reporter, stamps>>
        /\ Filed(c, FALSE) \/ UNCHANGED issues
    BY <1>3, Zenon DEF SearchFinds, SearchRaises, CreateRaises, InFlight
  <2>2. ASSUME NEW s \in Nat
        PROVE  Cardinality(Told(reporter, s)') = Cardinality(Told(reporter, s))
    <3>1. PICK b \in Nat : b = reporter
      BY <1>0
    <3>2. Told(reporter, s) = Told(b, s) /\ Told(reporter, s)' = Told(b, s)'
      BY <2>1, <3>1 DEF Told
    <3>3. CASE UNCHANGED issues
      BY <2>1, <3>3 DEF Told
    <3>4. CASE Filed(c, FALSE)
      <4>1. Cardinality(Told(b, s)') = Cardinality(Told(b, s))
        BY <1>0, <2>1, <3>4, FiledAdds, ZenonT(90)
      <4>. QED
        BY <3>2, <4>1
    <3>. QED
      BY <2>1, <3>3, <3>4
  <2>3. Distinct' /\ Kept'
    BY <1>0, <2>1, <2>2, KeptLater
  <2>4. WindowBound'
    <3>1. FALSE \in BOOLEAN
      OBVIOUS
    <3>. QED
      BY <2>1, <3>1, ReturnBound
  <2>. QED
    BY <2>3, <2>4
<1>4. ASSUME NEW c \in Calls, SearchFindsNone(c)
      PROVE  Distinct' /\ Kept' /\ WindowBound'
  <2>1. InFlight' = InFlight /\ UNCHANGED <<clock, reporter, stamps, by, now, issues>>
    BY <1>0, <1>4 DEF SearchFindsNone, InFlight, Typed, TypeOK
  <2>2. ASSUME NEW b, NEW s
        PROVE  /\ InWindow(b, s)' = InWindow(b, s) /\ Pending(b, s)' = Pending(b, s)
    BY <2>1 DEF InWindow, Told, Pending
  <2>3. \A s \in Nat : Cardinality(Told(reporter, s)') = Cardinality(Told(reporter, s))
    BY <2>1 DEF Told
  <2>4. Distinct' /\ Kept'
    BY <1>0, <2>1, <2>3, KeptLater
  <2>. QED
    BY <2>2, <2>4 DEF CapInv, WindowBound
<1>5. ASSUME Reload PROVE Distinct' /\ Kept' /\ WindowBound'
  <2>1. /\ reporter' = reporter + 1 /\ stamps' = {}
        /\ UNCHANGED <<stage, by, now, issues>>
    BY <1>5 DEF Reload
  <2>2. Distinct'
    BY <2>1 DEF Distinct
  <2>3. ASSUME NEW s \in Nat
        PROVE  Cardinality(Told(reporter, s)') <= Cardinality(Stamped(s)')
    <3>1. \A i \in DOMAIN issues : issues[i].by \in Nat /\ issues[i].by # reporter + 1
      BY <1>0, Fields DEF DedupInv, Numbered
    <3>2. Told(reporter, s)' = {} /\ Stamped(s)' = {}
      BY <2>1, <3>1 DEF Told, Stamped
    <3>. QED
      BY <3>2, FS_EmptySet
  <2>4. Kept'
    BY <2>3 DEF Kept
  <2>. QED
    BY <2>1, <2>2, <2>4, QuietStep
<1>6. ASSUME UNCHANGED <<reporter, stamps, stage, by, now, issues>>, clock' >= clock
      PROVE  Distinct' /\ Kept' /\ WindowBound'
  <2>1. \A s \in Nat : Cardinality(Told(reporter, s)') = Cardinality(Told(reporter, s))
    BY <1>6 DEF Told
  <2>. QED
    BY <1>0, <1>6, <2>1, KeptLater, QuietStep
<1>7. ASSUME Tick \/ UNCHANGED vars PROVE Distinct' /\ Kept' /\ WindowBound'
  <2>1. UNCHANGED <<reporter, stamps, stage, by, now, issues>>
        /\ (clock' = clock + 1 \/ clock' = clock)
    BY <1>7, Zenon DEF Tick, vars
  <2>. QED
    BY <1>0, <1>6, <2>1
<1>8. ASSUME NEW c \in Calls, NEW f \in Fingerprints, ReportSkipped(c, f)
      PROVE  Distinct' /\ Kept' /\ WindowBound'
  BY <1>7, <1>8, Zenon DEF ReportSkipped
<1>9. Distinct' /\ Kept' /\ WindowBound'
  BY <1>1, <1>2, <1>3, <1>4, <1>5, <1>7, <1>8, Zenon DEF Next
<1>. QED
  BY <1>0, <1>9 DEF CapInv

LEMMA CapInit == Init => CapInv
<1>. SUFFICES ASSUME Init PROVE CapInv
  OBVIOUS
<1>1. stamps = {} /\ InFlight = {} /\ issues = <<>> /\ Cardinality({}) = 0
  BY FS_EmptySet DEF Init, InFlight
<1>2. ASSUME NEW b, NEW s
      PROVE  /\ Told(b, s) = {} /\ InWindow(b, s) = {}
             /\ Pending(b, s) = {} /\ Stamped(s) = {}
  BY <1>1 DEF Told, InWindow, Pending, Stamped
<1>3. Distinct
  BY <1>1 DEF Distinct
<1>4. Kept
  <2>1. ASSUME NEW s \in Nat PROVE Cardinality(Told(reporter, s)) <= Cardinality(Stamped(s))
    <3>1. Told(reporter, s) = {} /\ Stamped(s) = {}
      BY <1>2
    <3>. QED
      BY <1>1, <3>1
  <2>. QED
    BY <2>1 DEF Kept
<1>5. WindowBound
  <2>1. Cardinality(Calls) \in Nat
    BY FS_CardinalityType
  <2>2. ASSUME NEW b \in Nat, NEW s \in Nat
        PROVE  Cardinality(InWindow(b, s)) + Cardinality(Pending(b, s))
                   <= (Cap - 1) + Cardinality(Calls)
    <3>1. Cardinality(InWindow(b, s)) = 0 /\ Cardinality(Pending(b, s)) = 0
      BY <1>1, <1>2, Zenon
    <3>. QED
      BY <2>1, <3>1
  <2>. QED
    BY <2>2 DEF WindowBound
<1>. QED
  BY <1>3, <1>4, <1>5, TypeInit DEF CapInv

-------------------------------------------------------------------------------
(* The reporters of a window together                                      *)

\* A non-empty set of natural numbers has a least one.
LEMMA LeastNumber ==
    ASSUME NEW T \in SUBSET Nat, T # {}
    PROVE  \E m \in T : \A n \in T : m <= n
<1>1. IsWellFoundedOn(OpToRel(<, Nat), Nat)
  BY NatLessThanWellFounded
<1>2. PICK m \in T : \A n \in T : ~ (<<n, m>> \in OpToRel(<, Nat))
  BY <1>1, WFMin
<1>3. \A m1, m2 \in Nat : m1 < m2 => <<m1, m2>> \in OpToRel(<, Nat)
  BY DEF OpToRel
<1>4. \A n \in T : ~ (n < m)
  BY <1>2, <1>3
<1>. QED
  BY <1>4

\* If no part has more than K members, the parts together have no more than K times
\* their number.
LEMMA PartsBounded ==
    ASSUME NEW S, IsFiniteSet(S), NEW N \in Nat, NEW K \in Nat,
           NEW part, \A j \in S : part[j] \in Nat /\ part[j] < N,
           \A b \in Nat : Cardinality({j \in S : part[j] = b}) <= K
    PROVE  Cardinality(S) <= Cardinality({part[j] : j \in S}) * K
<1> DEFINE Below(n) == {j \in S : part[j] < n}
           Parts(n) == {part[j] : j \in Below(n)}
           Fits(n) == Cardinality(Below(n)) <= Cardinality(Parts(n)) * K
           Bad == {n \in Nat : ~ Fits(n)}
<1>1. \A n \in Nat : /\ IsFiniteSet(Below(n)) /\ Cardinality(Below(n)) \in Nat
                      /\ IsFiniteSet(Parts(n)) /\ Cardinality(Parts(n)) \in Nat
  <2>. SUFFICES ASSUME NEW n \in Nat
                PROVE  /\ IsFiniteSet(Below(n)) /\ Cardinality(Below(n)) \in Nat
                       /\ IsFiniteSet(Parts(n)) /\ Cardinality(Parts(n)) \in Nat
    OBVIOUS
  <2>1. Below(n) \subseteq S
    OBVIOUS
  <2>2. IsFiniteSet(Below(n))
    BY <2>1, FS_Subset
  <2>3. Parts(n) \subseteq 0..n
    <3>1. \A j \in Below(n) : part[j] \in Nat /\ part[j] < n
      OBVIOUS
    <3>. HIDE DEF Below
    <3>. QED
      BY <3>1
  <2>4. IsFiniteSet(Parts(n))
    <3>1. IsFiniteSet(0..n)
      BY FS_Interval
    <3>. HIDE DEF Parts
    <3>. QED
      BY <2>3, <3>1, FS_Subset
  <2>. QED
    BY <2>2, <2>4, FS_CardinalityType
<1>2. Fits(0)
  <2>1. Below(0) = {} /\ Parts(0) = {}
    OBVIOUS
  <2>. QED
    BY <2>1, FS_EmptySet
<1>3. ASSUME NEW n \in Nat, Fits(n)
      PROVE  Fits(n + 1)
  <2> DEFINE here == {j \in S : part[j] = n}
  <2>1. IsFiniteSet(here) /\ Cardinality(here) \in Nat /\ Cardinality(here) <= K
    <3>1. here \subseteq S
      OBVIOUS
    <3>. QED
      BY <3>1, FS_Subset, FS_CardinalityType
  <2>2. CASE here = {}
    <3>1. Below(n + 1) = Below(n)
      BY <2>2
    <3>. QED
      BY <1>3, <3>1
  <2>3. CASE here # {}
    <3>1. Below(n + 1) = Below(n) \cup here /\ Below(n) \cap here = {}
      OBVIOUS
    <3>2. Cardinality(Below(n + 1)) = Cardinality(Below(n)) + Cardinality(here)
      <4>1. Cardinality(Below(n) \cup here)
                = Cardinality(Below(n)) + Cardinality(here) - Cardinality(Below(n) \cap here)
        BY <1>1, <2>1, FS_Union
      <4>2. IsFiniteSet(Below(n)) /\ Cardinality(Below(n)) \in Nat
        BY <1>1
      <4>. HIDE DEF Below, here
      <4>. QED
        BY <2>1, <3>1, <4>1, <4>2, FS_EmptySet
    <3>3. Parts(n + 1) = Parts(n) \cup {n} /\ n \notin Parts(n)
      BY <2>3, <3>1
    <3>4. Cardinality(Parts(n + 1)) = Cardinality(Parts(n)) + 1
      BY <1>1, <3>3, FS_AddElement
    <3>. HIDE DEF Below, Parts, here
    <3>5. \A a \in Nat : (a + 1) * K = a * K + K
      OBVIOUS
    <3>6. PICK a \in Nat : a = Cardinality(Parts(n)) /\ Cardinality(Below(n)) <= a * K
      BY <1>1, <1>3
    <3>7. Cardinality(Below(n + 1)) <= (a + 1) * K
      <4>1. PICK x \in Nat, y \in Nat, z \in Nat :
               x = Cardinality(Below(n)) /\ y = Cardinality(here) /\ z = a * K
        BY <1>1, <2>1
      <4>2. Cardinality(Below(n + 1)) = x + y /\ x <= z /\ y <= K /\ (a + 1) * K = z + K
        BY <2>1, <3>2, <3>5, <3>6, <4>1
      <4>. QED
        BY <4>2
    <3>. QED
      BY <3>4, <3>6, <3>7
  <2>. QED
    BY <2>2, <2>3
<1>4. ASSUME Bad # {}
      PROVE  FALSE
  <2>1. PICK n \in Bad : \A k \in Bad : n <= k
    <3>1. Bad \in SUBSET Nat
      OBVIOUS
    <3>. HIDE DEF Bad
    <3>. QED
      BY <1>4, <3>1, LeastNumber
  <2>2. n \in Nat /\ ~ Fits(n) /\ n # 0
    BY <1>2, <2>1
  <2>. HIDE DEF Fits
  <2>3. n - 1 \in Nat /\ n - 1 \notin Bad /\ (n - 1) + 1 = n
    BY <2>1, <2>2
  <2>4. Fits(n - 1)
    BY <2>3
  <2>. QED
    BY <1>3, <2>2, <2>3, <2>4
<1>5. Below(N) = S /\ Parts(N) = {part[j] : j \in S}
  OBVIOUS
<1>6. Fits(N)
  <2>1. N \notin Bad
    BY <1>4
  <2>. QED
    BY <2>1
<1>. QED
  BY <1>5, <1>6

\* In no window of time are there more issues than each reporter of the window may have
\* answered, whichever reload or overlap of calls falls into it, and those it lost.
THEOREM IssuesAreBounded == Spec => []IssuesBounded
<1> DEFINE K == (Cap - 1) + Cardinality(Calls)
<1>1. ASSUME CapInv, DedupInv, NEW i \in DOMAIN issues
      PROVE  Cardinality(InWindowOf(i)) <=
                 Cardinality(Reporters(InWindowOf(i))) * K + Cardinality(InWindowOf(i) \cap Lost)
  <2> DEFINE filed == InWindowOf(i)
             told == {j \in filed : issues[j].told}
             toldBy == {issues[j].by : j \in told}
  <2>1. /\ Typed /\ reporter \in Nat
        /\ \A j \in DOMAIN issues : issues[j].since \in Nat /\ issues[j].by \in Nat
    BY <1>1, Fields DEF CapInv
  <2>2. PICK s \in Nat : s = issues[i].since
    BY <2>1
  <2>3. \A b \in Nat : {j \in told : issues[j].by = b} = InWindow(b, s)
    BY <2>1, <2>2 DEF InWindowOf, InWindow, Told
  <2>4. filed = told \cup (filed \cap Lost) /\ told \cap (filed \cap Lost) = {}
    BY DEF InWindowOf, Lost
  <2>5. IsFiniteSet(filed) /\ IsFiniteSet(told) /\ IsFiniteSet(filed \cap Lost)
    <3>1. DOMAIN issues = 1..Len(issues) /\ Len(issues) \in Nat
      BY <2>1 DEF Typed, TypeOK
    <3>2. filed \subseteq DOMAIN issues /\ told \subseteq filed /\ filed \cap Lost \subseteq filed
      BY DEF InWindowOf
    <3>3. IsFiniteSet(DOMAIN issues)
      BY <3>1, FS_Interval
    <3>4. IsFiniteSet(filed)
      BY <3>2, <3>3, FS_Subset
    <3>. QED
      BY <3>2, <3>4, FS_Subset
  <2>6. K \in Nat
    BY FS_CardinalityType
  <2>7. \A b \in Nat : Cardinality({j \in told : issues[j].by = b}) <= K
    <3>. SUFFICES ASSUME NEW b \in Nat
                  PROVE  Cardinality({j \in told : issues[j].by = b}) <= K
      OBVIOUS
    <3>1. Cardinality(InWindow(b, s)) + Cardinality(Pending(b, s)) <= K
      BY <1>1 DEF CapInv, WindowBound
    <3>2. Cardinality(InWindow(b, s)) \in Nat /\ Cardinality(Pending(b, s)) \in Nat
      BY <2>1, FiniteParts
    <3>. HIDE DEF K
    <3>3. Cardinality(InWindow(b, s)) <= K
      BY <2>6, <3>1, <3>2
    <3>. QED
      BY <2>3, <3>3
  <2>8. told \subseteq DOMAIN issues
    BY DEF InWindowOf
  <2>. HIDE DEF filed, told, toldBy, K
  <2>9. Cardinality(told) <= Cardinality(toldBy) * K
    <3> DEFINE part == [j \in told |-> issues[j].by]
    <3>1. \A j \in told : part[j] = issues[j].by /\ part[j] \in Nat /\ part[j] < reporter + 1
      BY <1>1, <2>1, <2>8 DEF DedupInv, Numbered
    <3>2. {part[j] : j \in told} = toldBy
      BY <3>1 DEF toldBy
    <3>3. \A b \in Nat : {j \in told : part[j] = b} = {j \in told : issues[j].by = b}
      BY <3>1
    <3>. HIDE DEF part
    <3>4. Cardinality(told) <= Cardinality({part[j] : j \in told}) * K
      <4>1. PICK N \in Nat : N = reporter + 1
        BY <2>1
      <4>2. \A j \in told : part[j] \in Nat /\ part[j] < N
        BY <3>1, <4>1
      <4>3. \A b \in Nat : Cardinality({j \in told : part[j] = b}) <= K
        BY <2>7, <3>3
      <4>. QED
        BY <2>5, <2>6, <4>2, <4>3, PartsBounded
    <3>. QED
      BY <3>2, <3>4
  <2>10. /\ Cardinality(toldBy) \in Nat /\ Cardinality(Reporters(filed)) \in Nat
         /\ Cardinality(toldBy) <= Cardinality(Reporters(filed))
    <3>1. toldBy \subseteq Reporters(filed)
      BY DEF Reporters, told, toldBy
    <3>2. Reporters(filed) \subseteq 0..reporter
      <4>1. filed \subseteq DOMAIN issues
        BY DEF InWindowOf, filed
      <4>. QED
        BY <1>1, <2>1, <4>1 DEF Reporters, DedupInv, Numbered
    <3>3. IsFiniteSet(Reporters(filed))
      <4>1. IsFiniteSet(0..reporter)
        BY <2>1, FS_Interval
      <4>. QED
        BY <3>2, <4>1, FS_Subset
    <3>. QED
      BY <3>1, <3>3, FS_Subset, FS_CardinalityType
  <2>11. Cardinality(filed) = Cardinality(told) + Cardinality(filed \cap Lost)
    <3>1. Cardinality(told \cup (filed \cap Lost))
              = Cardinality(told) + Cardinality(filed \cap Lost)
                    - Cardinality(told \cap (filed \cap Lost))
      BY <2>5, FS_Union
    <3>2. /\ Cardinality(told) \in Nat /\ Cardinality(filed \cap Lost) \in Nat
          /\ Cardinality(told \cap (filed \cap Lost)) = 0
      BY <2>4, <2>5, FS_EmptySet, FS_CardinalityType
    <3>3. Cardinality(filed) = Cardinality(told \cup (filed \cap Lost))
      BY <2>4
    <3>. QED
      BY <3>1, <3>2, <3>3
  <2>12. Cardinality(toldBy) * K <= Cardinality(Reporters(filed)) * K
    <3>1. \A a, b \in Nat : a <= b => a * K <= b * K
      BY <2>6
    <3>. QED
      BY <2>10, <3>1
  <2>13. PICK t \in Nat, l \in Nat, f \in Nat, a \in Int, b \in Int :
            /\ t = Cardinality(told) /\ l = Cardinality(filed \cap Lost)
            /\ f = Cardinality(filed)
            /\ a = Cardinality(toldBy) * K /\ b = Cardinality(Reporters(filed)) * K
    BY <2>5, <2>6, <2>10, FS_CardinalityType
  <2>14. f <= b + l
    BY <2>9, <2>11, <2>12, <2>13
  <2>. QED
    BY <2>13, <2>14 DEF filed, K
<1>2. CapInv /\ DedupInv => IssuesBounded
  BY <1>1 DEF IssuesBounded
<1>. QED
  BY <1>2, CapInit, CapStep, DedupInit, DedupStep, PTL DEF Spec
===============================================================================
