# Verification of the Jackery integration

TLA+ models of the Home Assistant integration in `src/custom_components/jackery`, TLC
configurations that check them on small instances, and TLAPS proofs about them. The
integration talks to Jackery power stations over Bluetooth LE: it polls each unit, shows
what the unit reports as entities, switches its outputs, and can file GitHub issues about
its own defects. File names below are relative to `src/custom_components/jackery`.

Everything runs in one asyncio event loop, so a step of a model is what runs between two
`await`s, and the interesting behaviour is what happens in between.

## Inventory

| Part | State | Operations | Modelled by |
|---|---|---|---|
| BLE client, `ble_client.py` | `_lock`; per session the connection, the collected frames, `frame_event` | `async_run_session` and its helpers, `_on_notify` | `BleSession`, `SerialSessions` |
| Coordinator, `coordinator.py` | telemetry, `connected`, `_consecutive_failures`, and the timers and `last_update_success` of its base class | `_async_update_data`, `async_write_field`, `async_send_raw_command`, `_report` | `Coordinator` |
| GitHub reporter, `github_reporter.py` | last report per fingerprint, times of the reports | `async_report` | `IssueReporter` |
| Frame protocol, `protocol.py` | `_buffer` | `feed`, `reset`, `_try_extract_one` | `FrameAssembler` |
| Entry lifecycle, services, `__init__.py` | `hass.data`, registered services, update listener | set-up, unload, reload, removal, three services | `Lifecycle` |
| Config and options flow, `config_flow.py` | the form each flow shows, the unit it is for | the steps of the two flows | `ConfigFlow` |
| Discovery, `discovery.py` | none | filters of what the Bluetooth stack lists | `ConfigFlow`, in part |
| Telemetry model, `models.py` | the flattened fields, model, serial, firmware | `merge`, `flatten`, `classify_field` | `Telemetry`, `EntityDiscovery` |
| Platforms, `sensor.py`, `binary_sensor.py`, `switch.py`, `entity.py` | `known_keys` of each platform | set-up, listener, turning on and off | `EntityDiscovery` |
| Constants, `const.py` | none | names, limits, hints | constants of the models, in part |
| Redaction, diagnostics, `redact.py`, `diagnostics.py` | none | rewriting strings | not modelled |

How they interact: a service or a switch calls the coordinator, whose polls, writes and raw
commands share one BLE client; the client feeds notifications to its frame assembler and
returns frames, which the coordinator merges before it calls its listeners, the platforms.
Unexpected errors go to the reporter. A flow creates an entry, which is then set up; a
change of the options reloads it, which builds a new coordinator, a new client and a new
reporter.

What is hard, and what makes each part correct:

- *client*: polls, writes and raw commands overlap; any await may fail, time out or be
  cancelled; answers carry no number and may be late. Correct: sessions exclude each other,
  every way out closes the connection and releases the lock, no wake-up is lost, a session
  that returns normally was answered, callers are served in turn and none waits for ever.
- *coordinator*: results and failures of overlapping calls update the same telemetry, flags
  and timers. Correct: polling never stops, a stale read never overwrites a write, flags
  agree, an optimistic write is corrected later.
- *reporter*: it checks its limits, awaits twice, then records. Correct: duplicates and the
  cap, as documented; what remains true when calls overlap, answers get lost and a reload
  forgets what was reported.
- *assembler*: notifications are cut anywhere, even inside a character; the buffer has a
  limit. Correct: messages come out whole, in order and once, as soon as they are complete.
- *lifecycle*: set-ups and unloads fail at any point, options change meanwhile. Correct: the
  services find the coordinator of the last set-up, but none that has not polled; it runs with
  the options it was told of.
- *flows*: a form stays open while advertisements arrive, other forms are sent and entries
  are removed, and a confirmation is not checked again. Correct: a unit is prompted for once,
  no entry is replaced, an entry reports if and only if its user asked for it.
- *telemetry*: payloads nest, name a key twice, shrink, and change the type of a field.
  Correct: each field has its latest value, a known unit stays known.
- *platforms*: they start one after the other while fields appear and change their type, and
  a listener may raise. Correct: each field gets exactly one entity on its platform.

## Plan

Ordered by how much depends on the part.

1. `SerialSessions`, `BleSession`: the client and the service it implements. Done.
2. `IssueReporter`. Done.
3. `Coordinator`, over `SerialSessions`. Done.
4. `FrameAssembler`. Done.
5. `Lifecycle`. Done.
6. `EntityDiscovery`. Done.
7. `Telemetry`: `flatten` and `merge` against a reference definition, with the choice of
   model, serial and firmware version, over `EntityDiscovery`. Done.
8. `ConfigFlow`, over `Lifecycle`, with creation and removal of entries. Done.
9. The reload of a reporter, and what deduplication means when calls overlap. Done.
10. The types of `IssueReporter`, `Coordinator`, `Lifecycle`, `EntityDiscovery` and
    `ConfigFlow`, the deduplication, and that the flows implement `Lifecycle`, as theorems.
    Done.
11. `AnswersMatch` and `IssuesBounded` as theorems. Done.
12. `FrameAssembler` as theorems, for any messages, cuts and limit. Done.
13. `Telemetry` as theorems, for any payloads: that it implements `EntityDiscovery`, and that
    `flatten` and `merge` agree with the reference. Done.
14. Objects that begin at a brace inside a string (`Strays`), and what is held back by a cut
    inside a character. Done.
15. `PolledBeforeUse`, and lost answers and reloads in `IssuesBounded`. Done.
16. What an opening brace between the messages costs, which `NoiseAssumption` excludes. Open.

With these, every invariant and every action property that a passing run checks is a theorem.

Two compositions were weighed and left out. Client and frame assembler meet only in how many
frames there are when: `BleSession` allows any number at any time of a session, so bytes would
remove behaviours and add none. Coordinator and reporter meet only in how long a report takes:
`Coordinator` allows any time, and the two count nothing together.

## The modules

**SerialSessions** is the promise of the client: callers are served one at a time, in the
order in which they had to wait, with the frames of their own session only, and a call
returns normally only with enough frames.

**BleSession** models `async_run_session`, `_connect`, `_disconnect`, `_send_commands` and
`_on_notify`. `pc` is the await a call is suspended at: `queued` on the lock, `connecting`,
`subscribing`, `writing`, `waiting` for `frame_event`, `unsubscribing`, `disconnecting`.
Each await has an action for its return and one for each way to fail or be cancelled. The
locals of `_send_commands` are `collected`, `target`, `index` and `event`. The unit and the
radio are external: frames that answer a command, frames sent unasked, lost connections.
A write is acknowledged after the unit has received it, which is what a GATT write with a
response means.

**Coordinator** takes the sessions from `SerialSessions` through `INSTANCE`, so what it
assumes of the client is what `BleSession` is proved to provide. The telemetry is one field,
with the device time its value stands for, which tells stale values from fresh ones. Timers
and debouncer are those of Home Assistant's `DataUpdateCoordinator`, marked external.

**IssueReporter** splits `async_report` at its two awaits, the search and the creation. Its
clock is `time.monotonic`; the timeout of the requests bounds how long a call takes. A reload
builds a new reporter; the calls of the old one go on and record what nobody reads. `company`
and the fields of `issues` are history: which calls overlapped another for the same error.

**FrameAssembler** models bytes by what the assembler tells apart: braces (`open`, `close`), a
brace in a string, the two bytes of one character, and others. `Extracted` is the loop of
`feed`, a recursive function of how many bytes are left. The session around it resets the
assembler and then awaits `stop_notify`. `Closing` says where `raw_decode` finds an object: from a
brace that opens one, where it closes; from a brace inside a string, which the assembler cannot
tell from the other, where one of the constant `Strays` ends. Such an object is nothing that the unit sent:
when the bytes before the inner brace of `{"a":"{",":":1}` are lost and `{"}":2}` follows, it is
`{",":":1}{"}`. The run has this one, and reaches it. `later` is history: how many bytes were
sent after each message.

**Lifecycle** numbers the coordinators built for an entry and the versions of its options.
Calls belong to their callers and outlive an unload, as in the code. That Home Assistant
handles one set-up, unload or reload of an entry at a time is assumed.

**ConfigFlow** extends it with the forms that are open, the unit of each entry, and what its
options say of the reporter. `Discover`, `SendConfirm`, `OpenUser`, `SendUser` and
`SendOptions` are the steps of `config_flow.py`; `Finish` is `_async_create` with what the
flow manager of Home Assistant does after it: it ends the other flows for the unit, and would
replace an entry of the same unit. What is typed into the options form is reduced to what
`strip`, the checks of the form and the test in `async_setup_entry` tell apart. An address that
is typed names its unit: two ways to write one address are not told apart. Seen from the
entries, a flow that ends is `Create`, so that what holds of `Lifecycle` holds here; this is
proved (`FlowsImplementLifecycle`).

**EntityDiscovery** has the type of each field, the platforms that are set up, and what each
knows and added. The listeners run right after a merge, without an await in between, in the
order in which they were added; a sensor that was made for a number raises when its value is a
text, and those behind it (`behind`) are not called.

**Telemetry** extends it with the values. A key is a sequence of pieces (names, dots, indexes),
so that two paths can have the same key, as they can in the code. `flatten` and `Merged` follow
`models.py`, `flatten` as a recursive function over `Data`, the payloads and what nests in them,
whose `Height` says that the nesting ends. The reference is `LastOf`: it looks at the paths of a
payload instead, with `Place` for what stands at a path and under which key, and takes the leaf
on the path that comes last. `LatestShown` compares the two. `Spec` of `EntityDiscovery` is a
property of it.

The modules named `MC...` give the constants that a configuration cannot write.

## The runs

| Run | Checks | Bounds |
|---|---|---|
| BleSessions | `TypeOK`, `OneSession`, `LinkClosed`, `NoLostWakeup`, `OkMeansAnswered`, `CommandsInOrder`, and `ServesSessions`, the refinement | a poll of two commands, a write, a raw command; two frames awaited per command, up to three sent, four a session |
| BleLive | `AnswersMatch`, `EveryCallReturns` | a poll of three commands, a write, a raw command; a unit that only answers |
| ReporterTogether | `TypeOK`, `OverrunBounded`, `IssuesBounded`, `DedupUnlessOverlapped` | two tasks, two errors, cap 2, a lost answer, a reload, clock to 2 |
| CoordPolls | `TypeOK`, `RefreshPlanned`, `ConnectedIsConfirmed`, `NeverGoesBack`, `Corrected` | a poll, a writer, a raw command, two changes |
| Frames | `TypeOK`, `InOrder`, `NothingHeldBack`, `WithinOneMessage` | three messages out of four (nested, with a brace in a string that opens or closes, and empty), chunks to four bytes, a buffer of ten |
| LifecycleReloads | `TypeOK`, `FlowTypeOK`, `LoadedIsStored`, `PolledBeforeUse`, `HeardIsUsed`, `OnePrompt`, `ReporterAsAsked`, `EntriesKept` | two entries, two forms, two devices of which one has a fitting name, two set-ups, one change of options, one call |
| EntitiesFound | `TypeOK`, `EveryFieldShown`, `AddedOnce`, `NoTwin`, `LatestShown`, `IdentityKept`, and `FieldsDiscovered`, the refinement | seven payloads, up to two in a poll, seven fields of which one is ignored and one hinted |

They reach between 25 thousand (EntitiesFound) and 3.3 million states (ReporterTogether).

Why the bounds are enough. Three tasks give a holder and two waiters of the lock, which is
what order needs; a poll of two commands has a command that is not the last. More frames
than are awaited gives early and late answers. Two calls of the reporter with a cap of two
reach the cap and overrun it, and four issues are what one reporter may file with the overrun
and a lost answer, which is the bound of `IssuesBounded` for one reporter; two reporters in one
window stay below theirs in this run, and for them the bound is proved only. Windows and
cooldowns of two or three ticks put every event at, before and after their ends. Chunks of up to four bytes against messages of two, five and ten
give chunks that hold several messages and messages over several chunks, cut at each byte of
a character; a buffer just as long as the longest message holds it when it ends with a chunk,
and overflows when the chunk goes on with the next message. Two entries and two forms let a
prompt and a list be open for one unit, let one entry be removed while the other exists, and
let both forms come back in either order; two set-ups, shared by the entries, allow a failed
one followed by another or by a reload, and one change of the options may fall into each of
their awaits. The run was also tried with three set-ups and three entries, and `Lifecycle`
alone with four set-ups, three changes and two calls; both hold, but say nothing new for the
time they take. The payloads have an object in an object, objects in lists, dotted names that
collide with nested ones in either order, an empty name, names that begin with a dot, a list
that shrinks and one that is empty, and each type where another stood. An entity that is added twice is counted up to two,
since more tells nothing new.

Deadlock is checked except in `FrameAssembler`, where a session ends, and in `Lifecycle` and
`ConfigFlow`, where entries, set-ups and options are used up at the bounds.

Every property of these runs was tried against a mutated definition. The mutants stand in
the modules before the definition they change, with a comment that begins with "Mutant".

### Disagreements with the text

Five runs end in a counterexample to something a doc, a comment or a test says:

- CoordReports: bleak's own errors from `start_notify` or `write_gatt_char` are not wrapped
  into a `JackeryBLEError`, are therefore treated as defects and given to the reporter,
  though "routine BLE/Bluetooth failures must never reach" it.
- ReporterDuplicates: two overlapping calls file two issues for one error, because both look
  for the fingerprint before either records it. The cap is checked in the same way; by how
  much it can be overrun is `OverrunBounded`.
- FramesTopLevel: the assembler is reset before `stop_notify` is awaited; the rest of a cut
  message then yields a nested object as a frame, which is not "the first complete top-level
  JSON object".
- LifecycleOverlap: the client of a reloaded entry has a lock of its own, so its first poll
  may overlap a write that the old client has not finished, though the two "never share
  overlapping GATT sessions".
- EntitiesSkipped: a field that was a number becomes a text; the sensor made for it raises
  whenever the listeners are called, those behind it are skipped, and a platform among them
  does not add "new fields discovered on a later poll" while the text stays.

`NothingHeldBack` is weaker than the docstring of `feed`, which says that it returns "any complete
JSON objects it completes" (`protocol.py:64`): a notification that is cut inside a character of the
next message does not decode (`protocol.py:108`), and holds back every whole message in the buffer until the
character is complete (`CutInCharacter`). `IssuesBounded` is weaker than "capped at 5
reports/24h": each reload adds a reporter with a cap of its own, overlapping calls overrun it, and
an issue whose answer is lost is not counted at all.

The models follow the code where the text is imprecise: options that change during a set-up,
before the listener is added, are not in use when the entry is loaded (`HeardIsUsed` speaks
only of what the listener heard); hints are compared with the last segment of a key; the
limit of the buffer is compared before anything is parsed; an address can be typed only when
no device without an entry is visible (`SendUser`), though `config_flow.py:106` calls manual
entry "still always available"; a repository or token is checked stripped and stored as it was
typed (`Stored`); an entry that is removed after a failed set-up, or whose unload fails, leaves
its coordinator in `hass.data`, where the services find it (`Removed`), also while the entry is
set up again; `PolledBeforeUse` says that it is at least one that has polled.

## Fairness

`BleSession!Fairness`: the event loop resumes a task that can go on, and the awaits of bleak
return or raise in the end. Connecting and waiting are under a time limit in the code;
`start_notify`, `write_gatt_char`, `stop_notify` and `disconnect` are not, so for them this is
an assumption about bleak. Nothing is assumed of the unit.

`Coordinator!Fairness`: timers fire, sessions are granted and end, which is what
`EveryCallReturns` shows, and reports return, since their requests have a time limit. Strong
fairness stands for a unit that is visible, answers and lets a poll succeed often enough;
without it nothing could correct the telemetry. A poll that succeeds brings the one field of the model;
of a field that the unit leaves out of its answers `Corrected` says nothing.

The other modules claim no liveness.

## The proofs

All theorems are for any value of the constants that satisfies the named assumptions of the
module. They use nothing else, save that `AnswersAreMatched` is about a unit that answers each
command once at most and sends nothing by itself, as the run for `AnswersMatch` has it. Most
assumptions only give the constants their types. Those that say more:

- `MessageAssumption`: each message is one JSON object in whole characters, which closes at its
  end and not before: "UTF-8 JSON objects with no framing
  beyond JSON's own `{...}` structure" (`docs/PROTOCOL.md:15`). `NoiseAssumption`: what stands between two messages is whole
  characters, too, none of them an opening brace. It is needed: the assembler looks for the next
  brace, and one that opens no object would block it until the limit (a hazard in
  `PROJECT.json`).
- `ByteAssumption` and `StrayAssumption`: the other bytes are none of those with a meaning, and no object
  that begins at a brace inside a string goes on as another, since `raw_decode` stops where the
  first one ends. Which texts are such objects is left open.
- `DataAssumption`: a payload is finite. `Height` decreases from data to what nests in them, as
  it does in what a JSON parser returns; `MaxDepth` and `MaxMembers` may be any number.
- `KeysAssumption`: a field has a name, for `flatten` leaves out a leaf without a prefix, and
  the keys of model, serial and firmware (`models.py:123-125`) hold none of the hints of a switch
  (`const.py:53`), which are the only ones that the platforms pass on.

| Module | Theorem | Property |
|---|---|---|
| BleSessionProofs | `TypeCorrect` | `TypeOK` |
| | `SessionsExclude` | `OneSession` |
| | `WakeupsAreKept` | `NoLostWakeup` |
| | `OkIsAnswered`, `CommandsAreOrdered` | `OkMeansAnswered`, `CommandsInOrder` |
| | `AnswersAreMatched` | `AnswersMatch` |
| | `LinksAreClosed` | `LinkClosed` |
| | `ClientServesSessions` | `ServesSessions` |
| IssueReporterProofs | `TypeCorrect` | `TypeOK` |
| | `OverrunIsBounded`, `IssuesAreBounded` | `OverrunBounded`, `IssuesBounded` |
| | `DeduplicatesUnlessOverlapped` | `DedupUnlessOverlapped` |
| CoordinatorProofs | `TypeCorrect` | `TypeOK` |
| | `PollingGoesOn` | `RefreshPlanned` |
| | `ConnectionIsConfirmed` | `ConnectedIsConfirmed` |
| | `TelemetryAdvances` | `NeverGoesBack` |
| FrameAssemblerProofs | `TypeCorrect` | `TypeOK` |
| | `FramesInOrder`, `NoneHeldBack` | `InOrder`, `NothingHeldBack` |
| | `WithinOne` | `WithinOneMessage` |
| LifecycleProofs | `TypeCorrect` | `TypeOK` |
| | `LoadedEntriesAreStored`, `HeardChangesAreUsed` | `LoadedIsStored`, `HeardIsUsed` |
| | `UnitsArePolledFirst` | `PolledBeforeUse` |
| ConfigFlowProofs | `FlowTypeCorrect`, `UnitsArePromptedOnce` | `FlowTypeOK`, `OnePrompt` |
| | `FlowsImplementLifecycle` | `Spec` of `Lifecycle` |
| | `EntriesAreKept` | `EntriesKept` |
| | `ReportsAreSentAsAsked` | `ReporterAsAsked` |
| EntityDiscoveryProofs | `TypeCorrect` | `TypeOK` |
| | `FieldsAreShown`, `AddedAtMostOnce`, `NoReadOnlyTwin` | `EveryFieldShown`, `AddedOnce`, `NoTwin` |
| TelemetryProofs | `PayloadsAreDiscovered` | `FieldsDiscovered` |
| | `EntitiesOfPayloads` | the four invariants of `EntityDiscovery`, of payloads |
| | `IdentitiesAreKept` | `IdentityKept` |
| | `LatestIsShown` | `LatestShown` |

The arguments:

- *Exclusion*. `OneSession` is inductive with the types: a task becomes an owner only when
  the lock is free, and each way out of a session frees the lock with it. Every later fact
  about a session uses that its owner is alone, for the locals stand once in the model.
- *Answers and order*. `Position` says where the command loop is: the target counts the
  answers to all commands so far and exceeds the collected frames by at most the answers of
  one command, and the unit has heard the present command or the one before it. Frames are
  only added during a session, so the end of the loop has as many as all commands need.
  If the unit only answers, it sends no more frames than it heard commands (`Matching`), so
  a command goes out only when none is missing or on its way.
- *Refinement*. An await of the session maps to `active`, the lock queue to the queue of
  `SerialSessions`, a notification to `Collect` and the release to `Finish`; other steps
  stutter. `Finish` needs the count that `Position` provides, and that an owner's verdict is
  decided only when it leaves the loop.
- *Reporter*. Recorded reports and calls under way together never exceed the cap by as many
  as there are calls: a call begins only below the cap and turns into at most one report.
  For the issues of a window, those filed and the calls under way that began in it are
  counted together (`WindowBound`). When a call begins in the window, each issue filed for
  it so far is still among the records (`Kept`), which are distinct (`Distinct`) and, as the
  check just passed, fewer than the cap. That bounds the answered issues of each reporter; all
  answered ones are bounded by adding up over the reporters, one number after the other
  (`PartsBounded`), and the lost ones are added.
  For the deduplication, an issue whose call ran alone leaves its time, or a later one, in
  `last`. A call that would record an earlier time over it began before the issue was
  recorded, hence ran at the same time as its call, which was then not alone.
- *Coordinator*. `RefreshPlanned` is inductive as it stands. `Place` ties the refresh to
  the session of the poll, which the flags need: a poll that fails or succeeds is the one
  that runs. For `NeverGoesBack`, `Alone` and `Ages` say that sessions exclude each other
  and that what the running session would merge is no older than the telemetry.
- *Frames*. The frames returned so far say nothing of what comes next, so `FrameInv` adds
  where each message stands in the bytes of the buffer and the air (`Stream`): in order, with
  no opening brace outside of them, and partly or wholly gone if it begins before the bytes do.
  Until bytes are dropped, those that were returned are gone and the others are whole
  (`Progress`). The buffer holds nothing that can be extracted. A brace found in the buffer is then one
  of a message, what it opens, if it is not inside a string, closes within that message (`ClosesWithin`), and the
  first brace of a message opens the whole of it (`ObjectCloses`); a message that is all there can
  be extracted, whatever follows it, unless the buffer ends inside a character
  (`WholeIsExtractable`). What is left is a stream again, also behind a stray object
  (`ExtractionKeeps`).
- *Lifecycle*. While the platforms are set up, and until the unload, what is stored is the
  coordinator built last. For `PolledBeforeUse`, what is stored and what the calls have was built
  no later than the coordinator built last, and earlier while that one has not polled (`Behind`).
  A change the listener heard of is in use or a reload is under way
  or waiting. The types need that no more reloads wait than the options were changed.
- *Flows*. `OnePrompt` has two halves that need each other: a prompt is open for units
  without an entry only, so a flow that ends finds no entry to replace, so that its step is
  `Create` and gives an entry to no unit but its own, whose other prompts it ends. `Busy`,
  that only an entry that exists is set up or unloaded, keeps a removed one from coming back.
  From the refinement follows what Lifecycle's theorems say, without a new proof
  (`ManagedEntriesAreStored`). For the reporter, `Asked` adds that the options in use are
  those of the last set-up, and `AcceptedOptions` that what passes the form is usable.
- *Telemetry*. The fields that the platforms see are the types of the values, and the values
  are leaves (`Held`), however deep they stood in a payload (`FlattenedToLeaves`); so each step
  is one of `EntityDiscovery`, whose theorems then hold of payloads too. For `IdentityKept`,
  `Identified` says that a known unit has a text among its keys. It is inductive only because a
  switch never writes to one: what it writes is a boolean, and what `EntityDiscovery` proves
  of the keys a platform knows says that the key holds a hint.
  For `LatestShown`: the last payload that brings a field gives its value (`MergeKeepsLatest`),
  and what a payload brings is the leaf on the last of the paths with that key
  (`FieldsAreLast`). The second is shown for what stands at any path (`FlattenShowsLast`): the
  leaves under an object or a list are those under its members (`LeavesOfMembers`), of which
  the last member that has the key wins in `update`, and all paths through an earlier member
  come before.
- *Entities*. A platform has counted one entity for each key it knows, has looked at every
  field that is there, and knows only its own kind: switches hinted keys, binary sensors
  the others. Looking preserves this also for the platforms that do not look, when they have
  nothing to find. Of a platform behind a sensor that raises nothing is claimed.

Three recursive functions (the loop of `feed`, `flatten`, the merging of several frames) and one
of the reference (`Place`) are proved about without a rule of induction, which the provers
cannot apply: a set of natural numbers that is not empty has a least one, so that a fact which
fails somewhere fails at a least length, height or number, where the equation of the function
leads to a smaller one. That the equation has a solution at all is shown in the same way
(`ExtractedEquation`, `FlatEquation`, `MergeEquation`, `PlaceEquation`).

Only model-checked: the liveness properties `EveryCallReturns` and `Corrected`, which are out
of the prover's reach.

## Not modelled

- Contents: titles and bodies of issues, names, units and device classes of entities,
  wording of logs. No property depends on them.
- `redact.py` and `diagnostics.py` rewrite strings by regular expressions and keep no state.
- The summaries of devices of `discovery.py`, in logs and in the answer of the scan service.
- `encode` and `build_set_command` of `protocol.py` are pure and are left out.
- The options other than those of the reporter: the polling interval and the time limits are
  passed on as they are. Two options forms for one entry that are open at the same time.
- Answers that a unit gives over the next connection: a notification in `BleSession` ends with
  its link (`Release`), and what arrives later without being asked for is a frame of its own.
- The frames in `BleSession` are whole; how bytes become frames is `FrameAssembler`.
- Home Assistant, bleak and GitHub, except as the code uses them.
