---------------------------- MODULE IssueReporter -----------------------------
(***************************************************************************)
(* The optional filer of GitHub issues                                     *)
(* (src/custom_components/jackery/github_reporter.py).                     *)
(*                                                                         *)
(* async_report decides from its in-memory state whether an error is worth *)
(* a report, then suspends twice, to search the issues and to create one,  *)
(* and only then records the report.  A poll, an entity write and a raw    *)
(* command can each be inside it at the same time.  A reload of the entry  *)
(* builds a new reporter, without the state of the old one, whose calls    *)
(* go on and record what they do where nobody looks any more.              *)
(***************************************************************************)
EXTENDS Naturals, Sequences, FiniteSets

CONSTANTS
    Calls,          \* the tasks that may be inside async_report at once
    Fingerprints,   \* the fingerprints of the errors they report
    Cap,            \* _MAX_REPORTS_PER_DAY
    Cooldown,       \* _FINGERPRINT_COOLDOWN_SECONDS
    Window,         \* _ROLLING_WINDOW_SECONDS
    Latency,        \* longest time the two requests take: twice _TIMEOUT
    MaxLost,        \* bound: answers to a creation that get lost
    Horizon,        \* bound: last value of the clock
    MaxReloads,     \* bound: reloads of the entry
    MaxIssues       \* bound: issues filed

ASSUME ReporterAssumption ==
    /\ IsFiniteSet(Calls)
    /\ Cap \in Nat \ {0}
    /\ Cooldown \in Nat
    /\ Window \in Nat
    /\ Latency \in Nat
    /\ MaxLost \in Nat
    /\ Horizon \in Nat
    /\ MaxReloads \in Nat
    /\ MaxIssues \in Nat

VARIABLES
    clock,      \* time.monotonic()
    reporter,   \* number of the GitHubIssueReporter of the latest set-up
    last,       \* fingerprint_last_reported, a dict
    stamps,     \* report_timestamps: a set of [no, at], of which no tells apart
                \* reports of the same moment
    stage,      \* the request each call is waiting for
    error,      \* the local fingerprint of each call
    now,        \* the local now of each call
    by,         \* the reporter of each call
    company,    \* history: the calls during which another for the same error ran
    issues      \* the issues GitHub filed: by which reporter, when async_report was
                \* called, whether it was told, whether it had company

stateVars == <<reporter, last, stamps>>
callVars == <<stage, error, now, by, company>>
vars == <<clock, stateVars, callVars, issues>>

Issues == [error : Fingerprints, by : Nat, since : Nat, told : BOOLEAN, alone : BOOLEAN]

TypeOK ==
    /\ clock \in Nat
    /\ reporter \in Nat
    /\ DOMAIN last \subseteq Fingerprints
    /\ \A f \in DOMAIN last : last[f] \in Nat
    /\ IsFiniteSet(stamps)
    /\ \A r \in stamps : r.at \in Nat
    /\ stage \in [Calls -> {"idle", "searching", "creating"}]
    /\ error \in [Calls -> Fingerprints \cup {"none"}]
    /\ now \in [Calls -> Nat]
    /\ by \in [Calls -> Nat]
    /\ company \subseteq Calls
    /\ issues \in Seq(Issues)

Init ==
    /\ clock = 0
    /\ reporter = 0
    /\ last = [f \in {} |-> 0]
    /\ stamps = {}
    /\ stage = [c \in Calls |-> "idle"]
    /\ error = [c \in Calls |-> "none"]
    /\ now = [c \in Calls |-> 0]
    /\ by = [c \in Calls |-> 0]
    /\ company = {}
    /\ issues = <<>>

InFlight == {c \in Calls : stage[c] # "idle"}

CoolingDown(f) == f \in DOMAIN last /\ clock - last[f] < Cooldown

\* report_timestamps without the entries that left the rolling window.
Recent == {r \in stamps : clock - r.at < Window}

\* The calls of the same reporter that are under way for f.
Others(f) == {c \in InFlight : error[c] = f /\ by[c] = reporter}

\* Mutant: the fingerprint is not kept across the requests.
BeginUnnamed(c, f) ==
    /\ stage' = [stage EXCEPT ![c] = "searching"]
    /\ now' = [now EXCEPT ![c] = clock]
    /\ UNCHANGED <<error, by, company>>

\* The locals of the call.
Begin(c, f) ==
    /\ stage' = [stage EXCEPT ![c] = "searching"]
    /\ error' = [error EXCEPT ![c] = f]
    /\ now' = [now EXCEPT ![c] = clock]
    /\ by' = [by EXCEPT ![c] = reporter]
    /\ company' = company \cup (IF Others(f) = {} THEN {} ELSE Others(f) \cup {c})

\* Its end.
Return(c) ==
    /\ stage' = [stage EXCEPT ![c] = "idle"]
    /\ error' = [error EXCEPT ![c] = "none"]
    /\ now' = [now EXCEPT ![c] = 0]
    /\ by' = [by EXCEPT ![c] = 0]
    /\ company' = company \ {c}

\* Mutant: one report too many passes the cap.
ReportOverCap(c, f) ==
    /\ stage[c] = "idle"
    /\ ~CoolingDown(f)
    /\ stamps' = Recent
    /\ Cardinality(Recent) <= Cap
    /\ Begin(c, f)
    /\ UNCHANGED <<clock, reporter, last, issues>>

\* async_report up to the search.
Report(c, f) ==
    /\ stage[c] = "idle"
    /\ ~CoolingDown(f)
    /\ stamps' = Recent
    /\ Cardinality(Recent) < Cap
    /\ Begin(c, f)
    /\ UNCHANGED <<clock, reporter, last, issues>>

\* The fingerprint was reported less than the cooldown ago.
ReportSkipped(c, f) ==
    /\ stage[c] = "idle"
    /\ CoolingDown(f)
    /\ UNCHANGED vars

\* The cap is reached: nothing is reported, but the list was pruned.
ReportCapped(c, f) ==
    /\ stage[c] = "idle"
    /\ ~CoolingDown(f)
    /\ stamps' = Recent
    /\ Cardinality(Recent) >= Cap
    /\ UNCHANGED <<clock, reporter, last, callVars, issues>>

\* Mutant: what a call finds is remembered only if nothing was.
RememberFirst(c) ==
    last' = IF by[c] = reporter /\ error[c] \notin DOMAIN last
            THEN [f \in DOMAIN last \cup {error[c]} |->
                     IF f = error[c] THEN now[c] ELSE last[f]]
            ELSE last

\* fingerprint_last_reported is that of the reporter of the call.
Remember(c) ==
    last' = IF by[c] = reporter
            THEN [f \in DOMAIN last \cup {error[c]} |->
                     IF f = error[c] THEN now[c] ELSE last[f]]
            ELSE last

\* Mutant: the fingerprint is recorded, the time of the report is not.
RecordOnlyFingerprint(c) ==
    /\ Remember(c)
    /\ UNCHANGED <<reporter, stamps>>

RecordedAt(t) == {r \in stamps : r.at = t}

\* The report is recorded with the time at which the call began.
Record(c) ==
    /\ Remember(c)
    /\ IF by[c] = reporter
       THEN stamps' = stamps \cup {[no |-> Cardinality(RecordedAt(now[c])), at |-> now[c]]}
       ELSE UNCHANGED stamps
    /\ UNCHANGED reporter

\* An issue with the fingerprint exists; it does not count against the cap.
SearchFinds(c) ==
    /\ stage[c] = "searching"
    /\ Remember(c)
    /\ Return(c)
    /\ UNCHANGED <<clock, reporter, stamps, issues>>

\* No issue is found, because there is none, because the search index lags
\* behind, or because the search was refused and counts as empty.
SearchFindsNone(c) ==
    /\ stage[c] = "searching"
    /\ stage' = [stage EXCEPT ![c] = "creating"]
    /\ UNCHANGED <<clock, stateVars, error, now, by, company, issues>>

\* The search raises, or the task is cancelled: nothing is recorded.
SearchRaises(c) ==
    /\ stage[c] = "searching"
    /\ Return(c)
    /\ UNCHANGED <<clock, stateVars, issues>>

Filed(c, told) ==
    /\ Len(issues) < MaxIssues
    /\ issues' = Append(issues, [error |-> error[c], by |-> by[c], since |-> now[c],
                                 told |-> told, alone |-> c \notin company])

CreateAccepted(c) ==
    /\ stage[c] = "creating"
    /\ Filed(c, TRUE)
    /\ Record(c)
    /\ Return(c)
    /\ UNCHANGED clock

\* GitHub refuses; _async_create_issue only logs that, and a report is recorded.
CreateRefused(c) ==
    /\ stage[c] = "creating"
    /\ Record(c)
    /\ Return(c)
    /\ UNCHANGED <<clock, issues>>

Lost == {i \in DOMAIN issues : ~issues[i].told}

\* The request raises or is cancelled, maybe after GitHub filed the issue.
CreateRaises(c) ==
    /\ stage[c] = "creating"
    /\ \/ UNCHANGED issues
       \/ Filed(c, FALSE) /\ Cardinality(Lost) < MaxLost
    /\ Return(c)
    /\ UNCHANGED <<clock, stateVars>>

\* The entry is set up again: a new reporter, whose state is empty.
Reload ==
    /\ reporter < MaxReloads
    /\ reporter' = reporter + 1
    /\ last' = [f \in {} |-> 0]
    /\ stamps' = {}
    /\ UNCHANGED <<clock, callVars, issues>>

\* Time passes; the client timeout of the requests bounds what a call sees of it.
Tick ==
    /\ clock < Horizon
    /\ \A c \in InFlight : clock - now[c] < Latency
    /\ clock' = clock + 1
    /\ UNCHANGED <<stateVars, callVars, issues>>

Next ==
    \/ \E c \in Calls, f \in Fingerprints :
          Report(c, f) \/ ReportSkipped(c, f) \/ ReportCapped(c, f)
    \/ \E c \in Calls :
          \/ SearchFinds(c) \/ SearchFindsNone(c) \/ SearchRaises(c)
          \/ CreateAccepted(c) \/ CreateRefused(c) \/ CreateRaises(c)
    \/ Reload
    \/ Tick

Spec == Init /\ [][Next]_vars

-------------------------------------------------------------------------------
(* Properties                                                              *)

\* Calls that passed the cap check together overrun the cap by no more than
\* their number less one, counting those that are still waiting for GitHub.
OverrunBounded ==
    Cardinality(stamps) + Cardinality(InFlight) <= (Cap - 1) + Cardinality(Calls)

\* "capped at 5 reports/24h", as far as it holds of the issues themselves: to any
\* window each reporter that filed in it contributes no more than the cap and the calls
\* that passed its check together, beside the issues of which it was never told.  Every
\* reload starts a new count, and a lost answer is not counted at all.
InWindowOf(i) ==
    {j \in DOMAIN issues : issues[j].since \in issues[i].since..(issues[i].since + Window - 1)}
Reporters(filed) == {issues[j].by : j \in filed}
IssuesBounded ==
    \A i \in DOMAIN issues :
        Cardinality(InWindowOf(i)) <=
            Cardinality(Reporters(InWindowOf(i))) * ((Cap - 1) + Cardinality(Calls))
                + Cardinality(InWindowOf(i) \cap Lost)

Same(i, j) == issues[i].error = issues[j].error /\ issues[i].by = issues[j].by

\* "deduplicated by a fingerprint of the exception type and origin": two issues
\* for one fingerprint come from errors at least the cooldown apart.
DedupWithinCooldown ==
    \A i, j \in DOMAIN issues :
        i < j /\ Same(i, j) =>
            \/ issues[j].since >= issues[i].since + Cooldown
            \/ issues[i].since >= issues[j].since + Cooldown

\* What remains of it when calls overlap: if GitHub's answer arrived and no other call
\* for the same error ran meanwhile, the reporter files no other issue for errors
\* within the cooldown, whatever late calls write over the time of the report.
DedupUnlessOverlapped ==
    \A i, j \in DOMAIN issues :
        i < j /\ Same(i, j) /\ issues[i].told /\ issues[i].alone =>
            issues[j].since >= issues[i].since + Cooldown
===============================================================================
