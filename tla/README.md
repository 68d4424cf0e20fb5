# VillageOS services: a TLA+ verification project

VillageOS-API is a set of microservices around a broker, Mycelium, whose code is not in this
repository: services register with it, are called through it, read and write its graph of Things, and
follow its stream of changes. This directory models the parts of the services where order, failure and
time decide whether they are right, checks the models with TLC, and proves what matters most with
TLAPS. Three parts of the repository hold most of what is hard: Phloem, the orchestrator that runs a
user's pipeline of services, holds it while it waits for days, and must not call a service twice;
Trellis, the web client, whose pages keep a copy of the model, follow it over streams that break, and
write to it in requests of which each may fail; and Metabolism, which lets resources flow in loops that
requests start and cancel and a stream restarts, with no lock around them.

- [The system](#the-system)
- [The modules](#the-modules)
- [The runs](#the-runs)
- [Bounds](#bounds) and [fairness](#fairness)
- [What is proved](#what-is-proved)
- [What the code does not do as it says](#what-the-code-does-not-do-as-it-says)
- [What is not modelled](#what-is-not-modelled)
- [Plan](#plan)

## The system

The state each part keeps, what it does, whom it meets, what is hard, and what makes it right. Line
numbers are those of the sources; `PROJECT.json` maps each definition of a module to its lines and lists
the hazards at theirs.

### Phloem (`src/vos.Service.Phloem`)

| part | state | operations | meets | hard | right when |
|---|---|---|---|---|---|
| turns (`Execution/RunTurns.cs`) | a dictionary of run → (gate, takers) | `TakeAsync`, `Turn.Dispose`, `Leave` | every operation on a run | entries dropped and made anew under takers; cancellation | one holder per run, nothing left behind, nobody waits for nothing |
| sweep (`Execution/PipelineExecutor.cs`, `SweepUntilSettledAsync`) | results, deliveries, waiting and held nodes, tasks under way, `_stops` | start, call, take an answer, hold, end | gate of a few places, broker's record, platform's vigils, stops, the caller's token | answers in any order, writes that fail unheard, a stop or a departure at any moment | joins run once and in order, the record tells how the run went, the run ends |
| resume (`ResumeAsync`, `ProgressFrom`) | none: all is read from the record | take a vigil's answer, carry on | turns, record, other vigils | record written best effort; several vigils; finished runs | nothing is called twice, every wait is held |
| stop (`StopAsync`, `EndStoppedRunAsync`) | `_stops` | ask, wait for the turn, end | sweep, vigils | the run finishes, waits or is resumed meanwhile | a stop is not lost and a finished run stays |
| recovery (`RecoverWaitsAsync`, `RecoverUnfinishedAsync`, `CarryOnAsync`, `StartAgainAsync`) | none: what it listed | on start, and on request | record, turns, vigils, answers that come meanwhile | a crash between any two writes; what was read under one turn is used under another | no call is made again that may not be, no answer is lost, a run is taken up or fails and says so |
| answers (`TakesAsAVigilAnswerAsync`, `_earlyAnswers`) | answers whose vigil nobody holds yet | look up, keep, look up again, claim | platform, the placing of vigils | an answer overtakes the record of its vigil | an answer resumes its run once |
| cadence (`Execution/CadenceKeeper.cs`, `Model/CadenceSchedule.cs`, `HeldCadences.cs`) | last look, held schedules and their last due | look, start, mark | clock, stream, starter | restarts, clock jumps, late stream changes | one run per due time |
| drawing (`Model/PipelineDagBuilder.cs`, `Execution/DagValidator.cs`) | none | build, validate | snapshot of the model | cycles, ends nothing reaches, choices left unwired | what the executor takes for granted holds |
| gateway (`Services/MyceliumGateway.cs`) | none | read and write runs, node runs, vigils; call | broker | each call may fail alone | — |

The parts meet at a run: a start, a resume, a recovery and the ending half of a stop each take the run's
turn first, so that what one of them reads stays true while it works. What they share beyond that is
`_stops` in memory and the run's Things at the broker: the run with its status, one node run per node,
and the vigils the platform keeps for nodes that wait for a state.

### Trellis (`src/vos.Trellis/src`)

A page runs in one thread: a step is what it does between two awaits, timers or events. What makes it
concurrent is that its requests are in flight together, answer in any order, and outlive what asked them.

| part | state | operations | meets | hard | right when |
|---|---|---|---|---|---|
| live streams (`hooks/useSse.ts`, `hooks/streamSilence.ts`) | readers, declarations of the pages, opens under way, two streams, the position reached, three timers | acquire, release, declare, open, attach, reconnect | platform's subscriptions and streams | opens that overtake each other across three awaits; a stream that falls silent; a page that goes while the next comes | no subscription is abandoned, no change is missed, the page on screen is covered |
| model data (`hooks/useModelData.ts`, `stores/modelStore.ts`) | things, states, what they are of, a buffer of changes | load, read, arrive, go, change, flush | live streams, `/Model` | a load replaces what is held under what is buffered; a read crosses the stream | what is held is what the broker holds of what the page asks for |
| pipeline editor (`pages/PipelinePage.tsx`, `pipeline/serialize.ts`, `history.ts`, `model.ts`) | canvas, history, baseline, what is edited, a save in flight | edit, undo, open, save, run | the model, one request per write | saves that fail half way, edits and other pipelines opened during a save, a model heard late | what is saved reads back as drawn; nothing else changes; what runs is what is shown |
| explore page (`explore/ExplorePage.tsx`, `exploreState.ts`) | land, dials, address and code, ticket, posts and reads in flight, report | mark land, ask for a code, submit, dial, read | intake and findings services | answers, re-posts and reads in any order; tickets that age | the model comes to hold the page, the report to tell of the model |
| intake wizard (`intake/IntakeWizard.tsx`, `submissionDraft.ts`) | a draft kept in the browser, a code | steps, submit, start another | intake service, `localStorage` | a page reloaded between a submission and its answer | a draft becomes one site |
| session (`api/client.ts`, `hooks/useAuthentication.ts`) | token, refresh timer, user, model | log in, refresh, switch model, log out | Auth | a refresh in flight while the person logs out or switches | the token is the user's, of the model shown |
| dashboards and the other pages | layouts, views | read, draw | model data | — | data |

The pages meet in the stores: `useSse` attaches a subscription for what the pages declare and hands its
snapshot and its events to `useModelData`, which fills the store the pages draw. The pipeline editor and
the intake and explore pages write to the services and see their own writes come back on the streams.

### Metabolism (`src/vos.Service.Metabolism`)

| part | state | operations | meets | hard | right when |
|---|---|---|---|---|---|
| engine (`Services/Metabolism.cs`) | a dictionary of relationship → simulation, each with a loop and its cancellation | register, update a property, cancel, stop all | requests, the stream, the host | a start is two steps on the dictionary and no lock spans them; an edit restarts what a request replaces or cancels; the stop looks twice | a loop that ticks can be found; one goes by what is stated; the stop ends |
| subscription (`Services/MetabolismSubscriptionService.cs`) | the subscription's id | subscribe, catch up, add and remove members, stream, give up | engine, platform | what was registered before, during and after the subscription; membership requests nobody waits for, in any order; subjects that several simulations share | what has a simulation is covered |

### The other services

| service | state | hard behaviour | right when |
|---|---|---|---|
| Shared: `IdempotentExecution` | claims and answers by key | repeated calls, claims that lapse under a running effect, release by key | one effect per key (no service uses it yet) |
| Shared: `ModelFollower`, `SubscriptionClient` | watched things, subscription id, last sequence | reconnects, replays, adds and removes without order, membership read outside its lock | every change to a watched thing is handled |
| Shared: `ApiKeyTokenSource`; Tributary: `TokenExchangeCache` | a token and its expiry | many callers at once, refusal, short lives | one exchange per renewal |
| Xylem `IngestJobStore` | jobs and their tasks | stop beside start and end | every job ends once |
| Forage `SlicedWindowFetcher` | slices of a time window | slices that fail and are retried | no gap, no overlap |
| Delta | a saga's steps | a failure half way, compensation as best it can | all of it or none |
| Intake | a submission | composed, then applied by the broker whole | composed consistently |
| Feedback, EnergyBalance, WaterReserve, ModelBridge, Quadrat | nothing between requests | — | data |
| Taproot | a command line | views of the broker | — |

`PROJECT.json` lists every component with its status.

## The modules

| module | what it is |
|---|---|
| `TurnPerRun` | what the turns promise: one holder per run, a task may ask, hold, give up and hand over |
| `RunTurns` | `RunTurns.cs` as it does it: entries, counts, gate objects, permits; implements `TurnPerRun` |
| `PipelineSweep` | a run under its turn: sweep, tasks, waits, resumes, stops, record and vigils |
| `MCPipelineSweep` | the drawings TLC sweeps |
| `RunLifecycle`, `MCRunLifecycle` | a run over crashes and restarts: recovery, early answers, carrying on, starting again, stops; the drawings for TLC |
| `RunLifecycle_proof` | of the turns, their invariants and the refinement; of the runs, that an end stays one, a run started again is over, no node is left half called and a wait is held; proved |
| `PipelineSweep_proof` | its invariants and an action property, proved for every drawing |
| `CadenceSchedule` | the instants a cadence is due at, as pure operators, with what they are to compute |
| `CadenceKeeper` | the keeper that starts runs by the model's clock, the cadences its gateway holds, the stream, the clock |
| `MCCadenceKeeper` | what cadences state, for TLC |
| `CadenceKeeper_proof` | the two ways to say what is due are one; what looks take up, what is held and what is started, proved for any troubles |
| `LiveStream`, `MCLiveStream` | the client's subscription and its two streams; what its pages ask for, for TLC |
| `LiveStream_proof` | that no subscription is abandoned, the page is followed and nothing skipped, proved |
| `ModelData`, `MCModelData` | what the pages hold of the model: loads, reads, the stream and its buffer; what is alike |
| `ModelData_proof` | that the store holds what is covered and is drawn with its states, proved |
| `PipelineDrawing` | a pipeline as Things and relationships: what a save writes and a load reads, as operators |
| `PipelineEditor`, `MCPipelineEditor` | the page a pipeline is drawn on, its saves a request at a time; the model TLC starts it on |
| `PipelineEditor_proof` | that a save touches no other pipeline, reads back as drawn, and what may run is what is shown, proved |
| `ExploreReport`, `MCExploreReport` | the page that reports on land, with its posts, reads and tickets; what is alike |
| `Metabolism`, `MCMetabolism` | the simulations of Metabolism, the requests that start and cancel them, the subscription that covers them and the stream that restarts them; relationships of one Thing, for TLC |
| `Metabolism_proof` | that a loop that ticks can be found, and that the subscription covers what has a simulation, proved |
| `ExploreReport_proof` | that the land is that under the pin, the model comes to hold the page and the report to tell of the model |

An action that has a variant before it (`LeaveDroppingAlways` before `Leave`) is written once with what
the two differ in as a parameter. The variant is a bug one could plausibly write there, used by no
specification: the property that catches it is named in `PROJECT.json` ("mutants").

### RunTurns

A task is `idle`, `asking` (between the lock of `TakeAsync` and its wait), `queued` at a gate, `holding`
or `leaving`. A step is one critical section of `lock (_turns)`, one operation of the semaphore, or one
cancellation. `gateOf` and `takers` are the two halves of an entry of `_turns`; `gate` is the object a
task keeps in its closure, so a gate that lost its entry is told from the one made after it. The
semaphore is the framework's and hands a released permit straight to a waiting task.

### PipelineSweep

One run, from the moment it is recorded. `pc` is where `SweepUntilSettledAsync` stands; each started node
has a task of its own (`task`), because the executor starts each in a task and takes the answers one at a
time.

| variable | in the code |
|---|---|
| `dag` | `PipelineDag`: wires with the outcomes they are taken on, the Output node, and marks on nodes (boundary, acting, waiting, once per item, retried, rehearsing, with choices) |
| `result`, `holding` | `progress.Results` with `progress.Waiting`, `progress.Holding` |
| `halted`, `unhandled`, `stopped` | the sweep's locals of the same names |
| `task`, `answer`, `calls` | `calling`, the answers in it, and how often the service was called |
| `stopAsked`, `stopping` | the run's entry in `_stops`; a stop waiting for the run's turn |
| `caller` | the request whose token the sweep runs with: here, left, none for a detached run |
| `record`, `runStatus`, `vigil` | the node runs, the run and the vigils at the broker |
| `created` | the gateway's `_createdNodeRuns`: the nodes whose first write was begun |
| `lost` | how many best-effort steps on the record failed so far |
| `revived` | history: a late answer took up a run that had ended |

| action | code |
|---|---|
| `SeeStop`, `Look`, `StopLooking` | the top of the loop: a stop, the ready nodes, those no wire carried into |
| `EnterGate`, `LoseTheGate` | `RunNodeGuardedAsync`: a place at the gate, or the caller's token cancelled there |
| `StartAttempt`, `PauseAttempts`, `Answer` | `AttemptAsync` and `CallOnceAsync`; the answer of a tell, a follow-on, a wait, a fan-out or a rehearsal |
| `Take`, `TakeThrown`, `Throw`, `DrainEnds` | the next answer, the catch block, the end of the drain |
| `WriteRecordAgain`, `Place`, `HoldEnds`, `FailUnheld` | `HoldAsync`: the record made whole, each vigil placed, the run waits or fails |
| `Close` | what was not reached, the judgement of `OutputVerdict`, the run's status |
| `VigilIsAnswered`, `Resume` | the platform answers; `ResumeAsync` reads the record and carries on |
| `AskStop`, `EndStopped` | `StopAsync` and its half behind the turn |
| `CallerLeaves` | `HttpContext.RequestAborted` |

A write to the broker is `Persist`: one attempt for each node and one for the run, each of which may fail
without anybody hearing (`BestEffort`), and none at all once the caller's token is cancelled. The gateway
relates a node run to its run only in the write it takes for the first, so where that one failed the later
ones leave the record without the node (`Unrelated`). What a wire
carries is left out; which outcomes a wire is taken on decides where a run goes, and stays.

### RunLifecycle

One run again, with the crash of the process that executes it as an action, and what the next process does
about the run. The sweep is that of `PipelineSweep` with what a restart does not turn on left out (wires carry
a success and nothing else, no caller waits, the gate has room). `pc` is who has the run's turn, and `tasks` who waits
for it; a task that keeps what it read before it waited has it in its record.

| variable | in the code |
|---|---|
| `record`, `runStatus`, `attempts` | the node runs and the run at the broker, and the attempts they hold |
| `awaited`, `vigil` | the Thing a node run is related to while it waits, and its vigil: placed, then held by the node run |
| `repeated` | another run is recorded as repeating this one |
| `pc`, `sweep`, `placing`, `tasks` | who has the turn, the sweep's locals, a vigil placed and not related yet, what waits for the turn |
| `answering`, `early` | where the answer to a vigil has come to; `_earlyAnswers` |
| `recovery`, `todo` | where the recovery at start stands, what it listed |
| `calls`, `granted`, `overtaken`, `revived` | history: calls begun, how often a person said they may be made again, whether a task went by what another had changed, whether an answer took up a run that had failed |

| action | code |
|---|---|
| `SeeStop`, `Look`, `Begin`, `StartAttempt`, `Answers`, `Unreached`, `Take`, `Close` | the sweep and the tasks it starts |
| `WriteRecordAgain`, `Place`, `Hold`, `HoldEnds`, `FailUnheld` | `HoldAsync`; `PlaceAsync` in two steps, before and after the node run holds its vigil |
| `VigilIsAnswered`, `LookUp`, `KeepEarly`, `LookUpAgain` | the answer of a vigil in `TakesAsAVigilAnswerAsync`, around the one that is being placed |
| `Resume`, `CarryOnInTheBackground`, `AskStop`, `EndStopped` | what takes the turn |
| `Crash` | all memory goes; vigils answered meanwhile are retired by the platform with nothing resumed |
| `ListWaits`, `SkipWait`, `RecoverWait`, `RecoverWaitEnds` | `RecoverWaitsAsync` |
| `ListUnfinished`, `RecoverUnfinished` | `RecoverUnfinishedAsync` |
| `CarryOn`, `StartAgain` | `CarryOnAsync`, `StartAgainAsync` |

`ProgressFrom` and `CannotGoOn` are the code's judgement of a record: what is settled, what may be called
again, and when a run is failed instead.

### CadenceSchedule and CadenceKeeper

A look reads the clock, the held cadences and what each is due at; of each due cadence it first writes the
last due instant to the broker (`SetLastDueAsync`), then marks what is held (`MarkDue`), then resolves the
pipeline and starts a run for each instant. The held cadences come from a snapshot when the gateway
subscribes and follow a stream of changes, which runs beside the looks. The clock is anchored to the
broker's every few seconds and runs on by itself in between.

| variable | in the code |
|---|---|
| `real`, `model`, `speed` | the seconds, and the broker's clock: its instant and how many instants a second it runs |
| `clock`, `rate`, `askAt` | `ModelClock` and its `_anchor.Rate`; when `ModelClockFollower` reads the broker's clock next |
| `kind`, `stored` | the broker: which Things are cadences and what each states |
| `following`, `snapshot`, `stream` | `FollowCadencesAsync`: its subscription, the snapshot on its way, the changes on theirs |
| `held`, `failed` | `HeldCadences`: `_held` and `_failure` |
| `phase`, `lastLook`, `coveredFrom`, `todo`, `at`, `due` | `CadenceKeeper.LookAsync` and its locals |
| `failuresInARow`, `lookAt` | `WaitBeforeLook` |
| `runs`, `twice`, `edited`, `unheard`, `ran` | history: what was started, what was started again, whose instant last due was edited, what was marked before all that the broker had sent was held, what the broker's clock ran through |

| action | code |
|---|---|
| `Tick`, `FollowOnce`, `ChangeSpeed`, `JumpAhead` | time passes; the clock is anchored; the broker's clock is given another speed or moved |
| `EditInterval`, `EditLastDue`, `EnterKind`, `LeaveKind` | the broker's Things are edited by others |
| `Ask`, `Subscribe`, `NoteFailure`, `Replace`, `Apply`, `StreamEnds` | the stream loop of `MyceliumGateway` |
| `Look`, `ReadHeld`, `Handle` | a look up to its first wait, the first snapshot it waited for, the next cadence of its list |
| `LandMark`, `MarkDue`, `MarkFails` | the broker takes the write; its answer arrives and changes what is held; it fails, before or after |
| `Start`, `Refuse`, `LookBreaks` | the runs start; the model has nothing to start; resolving throws, or a call is cancelled by its timeout |
| `LookEnds`, `LookFails`, `KeeperEnds` | the end of a look, the wait after a failure, the end of `ExecuteAsync` |
| `Crash` | the process stops anywhere and starts anew with nothing in memory |

`Troubles` names what may go wrong in a run and `MaxTroubles` how often; `Prompt` says whether the clock is read
when that is due. The stream is never prompt: snapshots, changes and marks cross as they like. What the code does
with a clock read late or slowed down is said under [what the code does not do](#what-the-code-does-not-do-as-it-says).

### LiveStream

| variable | in the code (`useSse.ts`) |
|---|---|
| `referenceCount`, `declared`, `defaultSelector` | the components that use the streams, the pages' declarations, the shell's |
| `openedFor`, `following`, `settling`, `reconnectTimer` | what the streams were opened for, the microtask that follows the declarations, the 300 ms in which the next page may declare, the timer of a reconnect |
| `opening`, `stale` | the opens the generation still allows, and those it overtook, each with the await it is at and the watermark its subscription was answered with |
| `streams`, `watched`, `openSubscriptionId` | the two `EventSource`s, the watches for silence, the subscription attached |
| `consumedWatermark`, `from`, `cursor` | the position, and the object stream's address and last event |
| `subscriptions`, `head` | the platform: subscriptions not asked back, the last change |
| `coverage`, `anchor`, `delivered` | history: what the position was started for, the watermark it was started at, what was handed on |

| action | code |
|---|---|
| `acquire`, `release`, `Declare`, `TakeBack`, `DeclareDefault`, `resubscribe` | what components and pages do |
| `TurnEnds`, `Settles`, `ReconnectFires` | the microtask and the two timers |
| `TokenGiven`, `Subscribed`, `Attach`, `OpenFails`, `StaleEnds`, `StaleThrows` | `openStreams` between its awaits, in time or overtaken |
| `StreamOpens`, `StreamErrors`, `StreamDies`, `Silent`, `Event`, `Commit` | the two streams, and the model behind them |

### ModelData

| variable | in the code |
|---|---|
| `held`, `states`, `loaded`, `holdsWholeModel` | `modelStore`: things, their states, whether loaded, and whether that is all |
| `upserts`, `removals`, `changes`, `stateUpdates` | the buffer of `useModelData.ts`, applied together by `flush` |
| `covers`, `opening`, `snapshot`, `attached` | what `LiveStream` opens, as its parts matter here: read at the platform, answered, attached |
| `reads` | the reads of `/Model` under way, with what they were answered with once made |
| `model`, `mood`, `head`, `unheard`, `moods`, `start`, `heard` | the broker, its two streams, where the position started and stands |
| `spoiled`, `oldest`, `flushed` | history: what crossed, so that a property can say where it holds |

`spoiled` names the crossings the code lets stand: a Thing that comes back in the window in which it changed
(`window`), a load under a buffer older than it (`buffer`), a read that what was applied since, or a new
position, overtook (`read`), a read that failed (`failed`), a state that moved between a snapshot and its
streams (`gap`) or while its Thing was told of on the other stream (`crossed`). Actions: `Arrives`, `Goes`,
`Changes`, `StateMoves` (the broker); `leaveANarrowedSet`, `ModelChanged`, `ModelCleared`, `Reconnects`,
`Resolved`, `loadWhatOpened` (opens); `reloadModelData`, `ReadIsMade`, `ReadAnswers`, `ReadFails` (reads);
`thingArrived`, `thingGone`, `onThingProperty`, `onStatesChanged`, `flush` (the buffer).

### PipelineDrawing and PipelineEditor

`PipelineDrawing` is `serialize.ts` as operators on a model of Things and relationships: `loadPipeline`
reads a drawing from it, `Writes` lists the requests a save will send, worked out from the model as the page
has heard of it, `Applied` is what a request does. The editor sends them one at a time (`Writing`), and any of
them may fail, done or not (`SaveFails`), while the person goes on: `place`, `onConnect`, `setEdgeTakenOn`,
`onEdgesDelete`, `onNodesDelete`, `onNodeDragStart`, `onUndo`, `onLoad`, `onNew`, `onSave`. `Saved` is what
the page does when the last has been answered; `Hears` is `ModelData` at work.

`canvas`, `past`, `baseline`, `canUndo` and `dirty` are the page's drawing and `history.ts`; `savedId`,
`editingPipelineId` and `thingIdByCanvasId` what it believes is stored; `save` what the closure of `onSave`
captured; `model` and `heard` the model and what the page knows of it. `touched`, `crossed`, `mingled`, `left`,
`confirmed` and `written` are history: edits during a save, another pipeline opened during one, a save sent of
what was opened so, the pipelines whose first save failed, a canvas that is what the model was heard to hold, and
what the last sound save wrote. `Held` is what earlier saves have left: `HeldAssumption` says what any of them
may have: half a wire, a wire nobody holds, a pipeline without nodes, ports of no node; but no Thing of two pipelines.

### ExploreReport

`position`, `boundary`, `fetches` and `locating` are the land, the register's answers and that of the device on their way; `dials`, `posted`,
`timer` what the dials say, what they stood at and the 800 ms re-post; `email`, `awaitingCode`, `code`,
`act` the address and what the page is busy with; `ticket`, `posts`, `reads`, `findings` the report; `mailed`
and `held` the service. `missed` and `stale` are history: what the code lets stand between page and model,
and between report and model.

| action | code |
|---|---|
| `pick`, `ParcelAnswers`, `Draw` | the pin, the register, the drawing by hand |
| `useMyLocation`, `DeviceAnswers`, `DeviceRefuses` | the device is asked where it is, and answers when it answers, also over an open report |
| `DialEffect` in `OptionsAnswer` and `Turn`, `SwitchLanguage`, `TimerFires` | the effect that re-posts a dial that settled, and its clean-up |
| `EditEmail`, `TypeCode`, `askForCode`, `submit`, `resume` | the form and its buttons |
| `CodeIsSent`, `AskFails`, `ExchangeForSubmit`, `ExchangeForResume`, `ExchangeFails`, `SubmissionIsTaken`, `SubmissionAnswered`, `SubmissionFails` | what the buttons await; the service takes the submission before the page hears so |
| `PostTaken`, `PostAnswered`, `PostRefused`, `PostFails`, `TicketAges` | a re-post as the service takes it and as the page hears of it, and the age of the ticket it carries |
| `poll`, `onRefresh`, `ReadServed`, `ReadAnswered`, `ReadFails` | reads of the findings, served and answered in any order |

### Metabolism

A thread is a request that is under way or the one that reads the stream. A start is two steps of the
dictionary (`TakeOut`, `PutIn`), because nothing holds it in between; a request announces itself after that
and a restart does not. Two properties stand for all that may be edited: the quantity, of which everything
that converts is taken, and the frequency, which may be refused. A value may also convert to nothing
(`Unreadable`) or be a number that no decimal holds (`Huge`).

| variable | in the code |
|---|---|
| `simulations` | `_simulations`, by relationship |
| `entry`, `state`, `cancelled` | `SimulationEntry`: its `Config`, where its `RunningTask` is, its `Cts` |
| `doing` | what each request and the stream have in hand between two steps |
| `subscription`, `toCover` | `_subscriptionId` and how far `RunAsync` is; the rest of its catch-up |
| `requests`, `members` | `AddObjectsAsync` and `RemoveObjectsAsync` on their way; what the platform's subscription covers |
| `stop`, `awaited` | `StopAllAsync`: where it is and the tasks it waits for |
| `stated`, `changes` | the broker: what relationships state, and the changes the stream has yet to hand over |
| `astray`, `missed`, `overlapped`, `late` | history: whose membership requests crossed or failed, what the service cannot know of, what two threads started at once, the loops put in after the stop had cancelled |

| action | code |
|---|---|
| `Handle`, `Refused`, `TakeOut`, `PutIn`, `Announce` | `/handle` to its end: `ExtractConfig`, the refusals, `RegisterCore` in two steps, `RelationshipRegistered` |
| `Cancel`, `RemoveMembership` | `DELETE /simulations`: `Cancel` and `RelationshipCancelled` |
| `Subscribe`, `CatchUp`, `CatchUpWith`, `Follow` | `RunAsync` up to its stream |
| `Hear`, then `TakeOut`, `PutIn` | a change handed over: `UpdateProperty`, which restarts the simulation |
| `Ends` | a loop that was cancelled, or whose end came |
| `StopAll`, `StopWaits`, `StopEnds`, `StopAsync` | `/shutdown`: `StopAllAsync` in its three steps, and the host that stops after it |
| `Edit`, `Arrives`, `Fails` | the broker: an edit committed, a membership request that arrives or fails |

## The runs

| run | asks | expected |
|---|---|---|
| `RunTurns` | do turns exclude each other, come, and leave nothing behind; is that one turn per run? | holds |
| `Sweep` | does a drawing that branches, meets, retries and fans out, or waits and is resumed, stopped or left while writes fail, run in order, call nothing twice, keep a vigil for each wait, hear the stop, and end in what is recorded? | holds |
| `RunLifecycle` | over two crashes and a lost write: is no call made again that may not be, no answer lost, nothing left half called, and does an end stay one? | holds |
| `StopOverrun` | does a run recorded stopped call nothing any more? | [violated](#what-the-code-does-not-do-as-it-says) |
| `CadenceStarts` | over crashes, lost answers, failed marks, late and broken streams, edits and jumps: is each instant started once, is every instant the clock ran through taken up, also at speeds that rise, is what is taken up as said, and does what is held follow the broker? | holds |
| `CadenceEnds` | does a look that waits for the first snapshot come to its end, so that there is a next one? | [violated](#what-the-code-does-not-do-as-it-says) |
| `LiveAttached` | over opens that overtake each other, fail, fall silent and reconnect: is every subscription handed back, is nothing missed, does the client come to cover what the page asks for? | holds |
| `ModelData` | when all is answered, heard and applied, do the pages hold what the broker holds of what they asked for? | holds |
| `PipelineEditor` | is what was saved what was drawn, what runs what is shown, and everything else as it was? | holds |
| `ExploreReport` | over land the person, the register and the device move, and posts taken before they are answered: does the model come to hold the page, and the report to tell of the model? | holds |
| `Metabolism` | over registrations, edits, cancels, a stop and a subscription that comes when it comes: can each loop be found, is what has a simulation covered, does it go by what is stated, does the stop end? | holds |
| `MetabolismTwice` | does a relationship that is registered again have one loop? | [violated](#what-the-code-does-not-do-as-it-says) |

The properties and what they mean stand before each of them in the modules. Those that took thought:

- `CalledInOrder` is what makes a join run once, from the paths that carried, whichever order answers and
  stops come in.
- `CallsWithinPolicy` counts calls over every wait and resume of a run, through a record that may have
  lost writes, in a run that was not `revived`.
- `WaitIsRecorded` and `WaitsHaveVigils` are what a waiting run lives by: its record is all that is left
  of it, and a wait without a vigil is never answered.
- `EndIsRecorded`, `SuccessIsEarned` say a run's record can be believed, where no write failed.
- `CallsAreSpared` is what `interrupted` is for: over crashes a service is called again only where its policy,
  its mark or a person allows it.
- `WaitsAreHeld` follows an answer that comes before its vigil is related through both looks at the vigil, the claim,
  and the placing of it anew by the next process. Its premises name where the code does lose one.
- `NothingLeftUnderWay` is the recovery's reason to be; `EndStays` relates every way to take a run up to a run that
  ended before.
- `StartedOnce` rests on the order write, mark, start, and on what is held being changed before the stream
  says so: a crash loses runs and repeats none. It leaves out the cadences whose instant last due was edited, and
  those marked while a snapshot or a change was still on its way (`unheard`), which the code does start twice.
- `RanThroughIsDue` is what the window of a look is for: the instants a fast clock ran through are told from
  those it was moved over. It speaks of what ran since the last time it could not hold, where a mark or a look failed, the
  clock was moved, or something the keeper did not itself write was heard (`ChangeHeard`): a mark
  that failed and landed is heard after all, and brings a cadence back to an instant that later looks have passed.
- `HeldIsStored` relates two writers of what is held, the stream and the marks, to what the broker keeps. It leaves out
  the instant last due of a cadence where someone edited that (`Alike`).
- `LooksEnd` is what the comments of `HeldCadences` and `CadenceKeeper` say of a failed look: it backs off, and looks again.
- `StopIsHeard` follows a stop through a sweep, a wait, a resume and an ended run.
- `NoneAbandoned` ties what the platform keeps for the client to the opens under way and the one attached:
  the platform expires no subscription, so one that is forgotten stays.
- `NoGap` follows the position from the watermark a subscription is answered with, over the await that follows
  before the streams are attached, through reconnects, refusals and the browser's own retries. A position that goes over to
  another coverage starts anew (`coverage`).
- `StoreIsExact` is the one thing the pages rest on, and says under which crossings it may fail.
- `SavedReadsAsDrawn` compares what a save leaves in the model, request by request, with the drawing it was
  asked to save, through what earlier saves left half written.
- `ModelHoldsThePage` and `ReportIsOfTheModel` relate a page to a model that takes documents in any order, and a round
  trip before the page hears that it did: the second speaks of a page that has heard of every post taken.
- `LoopsAreFound` looks for the loop nobody could stop any more, over every order of the two halves of a start with
  cancels, restarts and the stop. It speaks of the time after the stop as well, and leaves out just the loops of two threads that
  start one relationship at once (`overlapped`) and, once the stop is over, those put in after it had cancelled (`late`).
- `Watched` relates three pieces of state that no lock ties: the dictionary, what the platform covers, and
  the requests between them. It says which crossings it does not survive (`astray`).
- `ConfigFollows` follows an edit from the broker through the subscription, the catch-up, the stream and a
  restart, beside registrations that were composed before or after it.

No run checks a type invariant that is proved: `TypeCorrect` of `PipelineSweep`, `RunLifecycle`, `CadenceKeeper`,
`LiveStream`, `Metabolism`, `ModelData` and `PipelineEditor`, and `TurnsTypeCorrect`, hold for every value of the constants. The type invariants of the other modules are there to
be read, and for TLC where a module is changed.

## Bounds

- `RunTurns`: two runs and three tasks are enough for an entry to be dropped and made anew while one task
  leaves it and another asks for it, and for two runs' gates to be confused; four gate objects let each
  of them be told from the one before.
- `MCPipelineSweep` has drawings of at most four nodes. `Decides`, `Meets` and `SideBySide` hold a choice,
  a fail wire, a join with a path that carried nothing, a rule on the Output node, a retried node, and
  more ready nodes than the gate has places; `WaitsTwice`, `WaitsBeside`, `RetriesBesideAWait` and
  `DecidesBesideAWait` hold a wait behind a wait, two waits that meet, two with a retried service behind one of
  them, and a wait beside a node that decides.
- `MaxConcurrency = 2` with three nodes ready: one waits at the gate. `MaxAttempts = 2`: one retry.
- `MaxLost` bounds the best-effort steps that fail: two in `Sweep`, so that a write and the one that
  makes it good may both be lost.
- `RunLifecycle`: two crashes, so that a recovery is itself cut off; one lost write; one thing a person asks; two
  attempts. `Marked` has a retried service behind a wait, beside one that may be called again; `Waits` has two waits beside
  each other and a service behind one of them, so that a crash catches a wait, a call, or both. `StopOverrun` needs one crash and
  loses nothing.
- Nothing else of a sweep is bounded: a run ends or waits, and calls are bounded by the policy that is checked.
- `CadenceKeeper`: `MaxReal` is four seconds, which hold three looks and two readings of the clock; speeds of up to
  three instants a second against intervals of two and three make a look take up several instants. One cadence shows all
  but what cadences do to each other. `MaxTroubles = 2` lets one thing go wrong in the wake of another (a crash after a lost
  answer), of eleven kinds, from cadences never due, due already, and without an interval. Jumps are five instants, further than
  a look covers at the lower speed. A clock that is slowed down ("slower") is left out: with it `StartedOnce` and
  `RanThroughIsDue` do not hold. `CadenceEnds` needs one call that runs out of its time.
- `LiveStream`: one component and one page, which comes, goes and is taken back while the shell's declaration
  changes; one open overtaken while another is under way (the end of a turn may make it two); two changes;
  two failures, of opens, streams or heartbeats. Two components show nothing more, as only the first and the
  last count.
- `ModelData`: two Things, one of them in the page's set; two changes of the model, two further opens or
  reads and one change of state let a load cross the buffer, a read and a reconnect; three changes and one open
  hold as well. Values, and states, are alike.
- `PipelineEditor`: a model of a pipeline of two nodes and a wire beside one of a single node; two nodes placed,
  two edits, two opens and two saves, one of which may fail at any of its requests; two steps of undo. A retry of a
  save that failed, saved again, takes a third save: three were looked at before the proofs, which have no bound.
- `ExploreReport`: two pins and two addresses, alike; one split and one population, each of which may be set or
  left; one turn of a dial beside the seed's; two posts and two reads in flight, three requests of any kind together and one code out (`FewInFlight`), one failure. A read that a
  post sets off waits for room. Once the pin can move no more (the report is open and the device is not asked), the register's
  answers for other pins are dropped: the page does nothing with them.
- `Metabolism`: two relationships of one Thing, so that a cancel of one must leave the subject to the other; one
  request at a time beside the stream's own thread, three calls of which the stop is the last, two edits, one
  failure, four loops. The relationship states a quantity that converts to nothing at first; it may be set to
  one that does, to one no decimal holds, and the frequency to one that is refused. `MetabolismTwice` has two
  requests at a time and no edit. The invariants the proofs rest on were checked with two requests at a time too.
- Readings of the clock are two seconds apart (`ModelClockInterval`) where the code has five: the window grows
  with both.

## Fairness

A sweep and its tasks go on by themselves: the gateway gives each call of a service a time, so it answers
or times out; the semaphores let their waiters in in the order they came. A stop that waits for the turn
has it once the sweep gave it back, which is what `AskedTurnComes` says of the turns, and `SweepEnds` of
the sweep. Nobody promises that a vigil is answered, that a stop is asked or that a caller leaves, so those
actions have no fairness, and a run may wait for ever. The loop that follows the cadences goes on by itself, and so
does a look that began: each call it makes answers or times out (`FollowStep`, `LookStep`). Looks themselves,
time and troubles have no fairness; `LooksEnd`, which asks for the end of a look that began, is refuted under it. In `LiveStream` microtasks and timers run, calls are answered, and the platform answers a stream it was
asked for and sends what it has; pages are free to do nothing and nothing has to fail. `ComesLive` is what
follows once pages stop changing their minds: failures are few by their bound. In `Metabolism` a loop that was
cancelled ends, as each of its waits takes the token and a tick's calls time out, and the stop goes on when what it
waits for has ended. In `RunTurns` the hand over to one waiting task is
strongly fair, because `SemaphoreSlim` serves asynchronous waiters first in, first out.

## What is proved

For every value of the constants that the assumptions allow: finitely many tasks (`RunTurnsAssumption`),
finitely many nodes, well-formed drawings without a cycle, at least one place and attempt (`SweepAssumption`,
`LifecycleAssumption`), a model that earlier saves may have left (`HeldAssumption`).
The executor runs no drawing the validator finds a cycle in (`DagValidator.cs:39, 135-158`,
`PipelineExecutor.cs:373`). `Acyclic` says so without counting: among any nodes there is one that no wire from
another of them enters. Only `EndsAreRecorded`, `SuccessesAreEarned`, `NothingIsLeft`, `EveryWaitIsHeld` and
`CallsStaySpared` rest on it; ends that cannot be reached are not assumed away.

`RunLifecycle_proof`, of the turns: `TurnsTypeCorrect`, `TurnsExclude` (`MutualExclusion`), `EntriesAreShared`,
`TurnsAreNotLost` (`NoLostTurn`) and `TurnsImplement` (`ImplementsTurnPerRun`).
The properties are not inductive as they stand: that two holders of one run have the same gate says
nothing if two gates could be open. `TurnsIInv` adds what ties a gate to its run: the gates of two runs differ
(`GatesApart`), a gate in an entry has its one permit or the one task that holds it (`PermitOrHolder`,
`SoleHolder`), nobody is queued at a gate with a permit left, and an idle task keeps no gate. That entries
are dropped at the right moment is a fact about the cardinality of the set of takers, which the lemmas on
adding and removing one taker give. The refinement maps each step: taking a permit to `Take`, a hand over
to `HandOver`, the two lock sections of leaving to stutters.

`PipelineSweep_proof`: `TypeCorrect`, `StartsInOrder` (`CalledInOrder`), `CallsKeepPlaces`,
`WaitsOnItsRecord` (`WaitIsRecorded`), `WaitsAreAnswered` (`WaitsHaveVigils`), `FinishedStaysFinal`
(`FinishedIsFinal`), `CallsArePaced` (`CallsWithinPolicy`), `SuccessesAreEarned` (`SuccessIsEarned`) and
`EndsAreRecorded` (`EndIsRecorded`). `IInv` is the conjunction of

- `OrderInv`: a started node has no result yet, and past the drain no task is left. Without it a resume
  could start a node that still runs, and `CalledInOrder` would break;
- `WholeInv`: from the moment the record was checked until the run waits, each settled node is on it;
- `AnswersInv`: what a task has answered says something;
- `FinalInv`: where nothing was lost, the record follows the results (`RecordFollowsAll`) save for the
  moment a refused vigil has failed its node and the node runs their run does not have, of which there
  are none in a run nothing disturbed (`AllRelated`); the run's status follows the sweep (`RunGoesOn`,
  `EndIsFinished`); and a run that is over has nothing a late answer could take it up from, or a record
  that refuses it (`NothingToResume`). That is why a finished run stays finished: `ResumeAsync` never
  looks at the status of the run, so the reason is in the nodes. `HeldHaveVigils` and `WaitsAreHeld`
  carry the vigils over a resume that leaves other waits.

Two more invariants stand on that one. `CallsInv` counts calls: a node without a result was called no more
than its policy allows, and not at all unless its task is at it (`OfCalls`), so over a resume the record must
miss no node that was called. It does not, whatever writes fail: there is a vigil only after the record was
made whole (`NoVigilYet`), and from then on the record has each node that was called (`HasItsCalls`). `EarnedInv` is about
runs nothing disturbed. A failure halts the sweep or is carried on (`FailuresCarried`), a sweep halts for
a failure or for what cannot be rehearsed (`HaltedFor`), and drains only with nothing ready (`Drained`). A
resume reads back what was settled before, so that a node it finds nothing of has to be behind a wait
(`WaitCanResume`): of the nodes without a record outside the downstream of what is under way, an acyclic
drawing has one whose sources all are settled, and that one was ready or not taken when the sweep drained.

`RunLifecycle_proof`: `TypeCorrect`, `EndsStay` (`EndStays`), `StartedAgainStaysOver` (`StartedAgainIsOver`, where no
write is lost), `NothingIsLeft` (`NothingLeftUnderWay`), `EveryWaitIsHeld` (`WaitsAreHeld`) and `CallsStaySpared`
(`CallsAreSpared`). What takes a run up looks at its nodes more than at its status, so `IInv` says why the nodes
give nothing to take up: an ended run has no wait left (`EndedAtRest`), because a sweep knows each wait on the record or
has failed it (`WaitsAreKnown`) and its end writes them all; a sweep left to a task of its own is for a run that went on
when it was left (`TasksGoOn`), so that at the end of another it is `overtaken`; and a run started again that keeps a
caught node has a record no answer can go on from (`RepeatedAtRest`).

Two more invariants stand on it, each about runs of which nothing was lost. `RecordInv` ties the record to
who goes on from it: the record has what the sweep settled (`SweepFollows`), what is begun on it stands behind
nodes that are over (`InOrder`), and a node recorded in the middle of a call has a sweep, a task or a recovery
that will see to it (`LeftToSome`). The step that needs the others is a sweep that ends in a wait: nothing is
begun then, and the record can be gone on from (`HeldCanGoOn`), because among the nodes without a record and
behind no wait an acyclic drawing has one that was ready. So the node a recovery has listed is under way still, or its
run was seen to meanwhile (`ListedIsUnderWay`): the recovery interrupts no node that is over. `HeldInv` follows each
wait: a vigil whose answer is on its way or was kept early, a task, a recovery that has it listed, or the
sweep that is to place its vigil (`SeenTo`); `EarlyIsKept` says that no answer to a vigil still being placed is past
both looks without being kept, and `PlacedFor` that a vigil a crash left unheld is not taken for one that is held.

`CallsAreSpared` allows one lost write, which those two do not, so `SparedInv` is about both. What a node may be called
(`Allowed`) is spent when its call begins, and given back by a crash where it may be called again or is retried, and by a
person. `Sparing` says that some is left wherever a sweep could call: of each node a sweep has yet to call
(`OpenMayBeCalled`), of each the record of a sweep left to a task of its own has to call (`TaskMayCall`), and at rest
of each a crash gives back, unless the record or the run's status keeps it from being called (`RestMayBeCalled`). That a
record says enough for this is `Traces`. A lost write leaves one node at most of which the sweep and the record tell
otherwise (`OneDeviates`). Where it was the first write of a node, the node is called and the record has no trace of
it (`Traceless`), and it would be called anew. But the record then misses it, and nothing behind it was begun
(`TracelessIsMissed`), so what takes a run up fails it for the node run that is missing, or the run is stopped and
nothing waits (`Dead`). `ListedOneLost` says that a node the recovery marks interrupted, late, was not called since. `Plain`
is what holds whatever is lost: that a retried node was called once for each attempt, crash and word of a person at most
(`AttemptsTell`), and that no sweep has yet to call what the record has as over (`OpenIsNotOver`).

`LiveStream_proof`: `TypeCorrect`, `NoneIsAbandoned` (`NoneAbandoned`), `PageIsFollowed` (`FollowsThePage`) and
`NothingIsSkipped` (`NoGap`). `IInv` adds to the first that one open at a time is the current one and starts with nothing
attached (`OneOpen`), and that no two opens wait for the same subscription, nor one for the attached (`OpensApart`):
without it the open that hands its own back could take another's away. It adds to the last that the object stream is
never ahead of the position and has one (`PositionHeld`), so that the next change is past it by one at most, and that the
position is no further than what any open under way was answered with (`Ahead`), so that an open that attaches late leaves out
nothing past its snapshot. `anchor` is the watermark of the answer, not the head when the streams are attached: what is
committed between the two is in the claim.
`FollowsThePage` is inductive as it stands.

`CadenceKeeper_proof`, of `CadenceSchedule`: `TakesUpWhatWasMissed`, that counting steps from the last due instant (`DueAt`, with
its two rounded divisions) gives the instants missed that are covered, and the latest (`TakenUp`). It holds of
integers of every size; the lemmas turn a bound on an instant into one on its number of steps.

`CadenceKeeper_proof`, of the keeper: `TypeCorrect`, `LooksAsSaid` (`DueAsSaid`), `HeldFollowsBroker` (`HeldIsStored`). `LookInv` keeps what a look has at hand (`AtHand`), across the steps of
everything else. `HeldIsStored` speaks of an empty stream only, so `HeldInv` says what a stream on its way
tells (`Known`): of each cadence and each part of it (whether it is one, its interval, its last due instant where
nobody edited that),
the last change on the stream that tells of it tells what the broker keeps, and where none does, the list
says so itself: the snapshot until it arrived, what is held from then on. A change at the end, one applied at
the head, a snapshot and a mark each keep that; the mark because the broker kept its instant before its
answer came. The assumptions on constants say that model values are no functions or records.

`StartsOnce` (`StartedOnce`) is about a keeper that is `Timely`: the broker's clock is read when it is due, and it is never
slowed down, as in `CadenceStarts`; without either the code does start an instant twice (below). The stream may be as late as it
likes: what is left out is a cadence whose last due instant an edit, or a snapshot or change that a mark overtook, may
bring back (`Doubtful`). Every other trouble may come as often as it likes. `StartInv` says that no copy of any other cadence
is behind its runs: whichever states that it was last due at d, the broker, what is held or the list of a look, no
run of the cadence is later than d (`Past`), and d is an instant that every look to come has passed (`Reached`), so
that `DueAt` neither takes up an instant up to d nor starts one at once for a d still to come. For that, the keeper's clock
is never ahead of the broker's (`ClockBehind`), but where it was just started and is read before its first look
(`Unanchored`); and what is on its way tells what the broker keeps (`ToldIsStored`, `SnapshotIsStored`), since a
mark that landed before the last was heard makes its cadence `unheard`, so that nothing takes another's mark back.

`TakesUpWhatRan` (`RanThroughIsDue`) is about a `Timely` keeper, too. `ClocksInv` is the arithmetic: what ran since a reading of the
clock, and since a look, is less than the speed times the time since (`InTheWindow`), through readings and speeds that
rise, so that twice that reaches back to all a look has not passed (`WindowReachesBack`). `RanInv` follows an instant that a
look did pass: no cadence that is held misses it, but those this look still takes up (`PassedIsTaken`,
`SeenTo`), whose list has it in the covered time (`MissedIsCovered`); and where it is marked, what is held is brought
to the last instant it was due at, past which it misses none (`PastTheLast`), as its interval is the one the look read
(`ListIsHeld`). TLC checked `ClocksInv` and `RanInv` with three troubles of any kind before they were proved.

`ExploreReport_proof`: `LandIsUnderThePin` (`FetchedIsHere`), `ThePageIsHeld` (`ModelHoldsThePage`) and
`TheReportIsOfTheModel` (`ReportIsOfTheModel`). The two say what holds once nothing is in flight, so `IInv`
says what holds while something is: of the re-posts the service has yet to take the last carries what the page states, while
nothing is missed and no re-post is due (`LastPost`), and of the reads the last tells of the model as it
will be, while nothing is stale and the page has heard of each post taken (`LastRead`), as an answer sets off a read of its own. `PostsInv` and `PostsAreSound` keep the documents in flight those of this
page, whose model holds a field once a document stated it; `ActInv` keeps what a button captured true
through its awaits; `LandInv` ties the land to the pin. Removing an answer from the middle of a sequence of
any length is a lemma of its own.

`Metabolism_proof`: `TypeCorrect`, `LoopsCanBeFound` (`LoopsAreFound`), `WatchedAlways` (`Watched`) and
`ConfigFollowsAlways` (`ConfigFollows`). A loop is lost
where the dictionary forgets it without cancelling it, so `FoundInv` says that between the two halves of a start
there is none to forget (`OutToStart`), unless another thread is between them as well (`TwoStarting`): then the
relationship is `overlapped`, which is what `MetabolismTwice` shows the code to let happen. For the time after a stop it says
that from its cancels on only what was put in later runs (`StoppedRuns`): the Clear forgets no other loop that ticks. `Watched` needs more than
what has a simulation: a restart takes its own out of the dictionary and announces nothing when it puts it in
again. `Needed` adds what the stream has in hand, `StreamIsOpen` says that it has nothing before the
catch-up, `RemovalsAreSpare` that what a removal on its way leaves out is not needed, and `ClosedAsksNothing` that
nothing is asked of a subscription that is not there. `ConfigFollows` is about an empty stream, so `FollowInv` says what
holds while changes are on it: the last change of a property carries what its relationship states (`LastIsStated`), and of
a property without a change, the configuration the stream has in hand (`HandFollows`) or else that of the simulation
(`EntryFollows`) has it. A restart takes the other property from the simulation it replaces, so the two
are needed together; and that every simulation may tick (`EntriesMayTick`, `StartsMayTick`) keeps an edit of a quantity from
being refused for a frequency that was never accepted.

`ModelData_proof`: `TypeCorrect`, `TheStoreIsExact` (`StoreIsExact`) and `TheStatesAreExact` (`StatesAreExact`). Both
speak of a client with nothing on its way to it, so `DataInv` says what holds while something is. `Follows(h, q, m, n)`: of a Thing the
changes of q past n say nothing more of, h has what m has; and h has a Thing m has, and no other, as long as none of them
is an arrival or a departure. This is kept of three things laid under the buffer (`Buffering`): the store
(`StoreFollows`), each read that nothing overtook (`ReadFollows`, which also follows by itself until the first change after it is
heard: it may be answered to an empty buffer), and what is covered itself (`BufferFollows`: the buffer takes nothing back), for
which no change of before the position's start may be in it and none may have arrived after a change of the one removed
before it (`Clean`, the histories `buffer` and `window`). The last is what lets a load be laid under a buffer (`LoadFollows`). That a change heard
leaves all this true is one lemma (`HearFollows`), from what a stream of any length tells: the last change of a Thing what it
is, the last arrival or departure whether it is there (`Told`). `StatesInv` is the same for the states, over two streams that come in
any order: an arrival tells the state its Thing still has (`ArrivalsTell`), which is where `crossed` is needed, and a state is
of a Thing that is held (`StatesOfHeld`).

`PipelineEditor_proof`: `TypeCorrect`, `OtherPipelinesAreKept` (`OthersKept`), `WhatIsShownIsEdited` (`ShownIsEdited`),
`WhatIsSavedReadsAsDrawn` (`SavedReadsAsDrawn`) and `WhatRunsIsShown` (`RunsWhatIsShown`), for any number of nodes, wires,
pipelines, saves and failures. A plan is treated as the set of its requests (`Requested`), in whatever order they go and
however the new wires are numbered (`Numbering`); that `Writes` has those and no others is a lemma about folds, for which
the induction over the length is on a set of lengths (`Induct`). The invariant has four layers.

- `KindedInv`: there is an account of which archetype each Thing is of, that the model, what was heard of it, each
  drawing and each request left to send keep to (`Kinded`). It gives the types.
- `PipelineInv`: there is an account of which pipeline each Thing is of (`Owned`). A relationship stays within one
  pipeline, a request writes to and removes of the one that is saved, and the Things on the canvas, in its past
  and in its baseline are of the one that is edited. It lasts until a save is sent of what was opened during
  another (`mingled`). Ports are the exception: those of a first save that failed may be taken over by its retry, so
  that the pipelines in `left` own none for certain.
- `WireInv` and `SavedInv`: a wire has one target, one port at each end and one node that holds it, counting what is
  still to be written; and while a sound save is on its way, the model with all the requests left made (`After`)
  reads as the drawing, and none of them undoes another (`NoClash`), so that making one leaves both true. That a
  sound plan establishes this is the greater part of the proof: each wire of the drawing is a new one, or one of the
  model with its marks put right, and no other is read (`PlanReads`).
- `RunInv`: a canvas no edit has touched since the save began is what is saved, and what was heard to be so is
  what would run.

TLC was given three saves before these were proved. `OthersKept` and `SavedReadsAsDrawn` did not hold of all
saves, nor the invariants they need: those that `left`, `mingled` and `Sound` leave out are among those listed below.

Left to TLC: the liveness properties (`AskedTurnComes`, `SweepEnds`, `StopIsHeard`, `ComesLive`, `StopComes`),
which need fairness and `ENABLED`; and the three properties that the code refutes.

## What the code does not do as it says

Three are runs that TLC refutes; the trace is the shortest, but for the last, a liveness property.

1. `StopOverrun`: what takes up an unfinished run reads the record and its status under one turn
   (`PipelineExecutor.cs:253-257`) and sweeps by them under another (line 275; `CarryOnAsync` likewise, 288-302). A stop
   that has the turn in between records the run cancelled; the sweep then calls its nodes and records it anew.
   docs/SERVICES.md:1429-1430 has a run under way stop at its next node. This is `overtaken` in `RunLifecycle`.
2. `MetabolismTwice`: a start takes the earlier simulation out of the dictionary and puts the new one in
   (`Metabolism.cs:44, 62`) with no lock around the two, so that two calls of `/handle` for one relationship that overlap, or
   one that overlaps a restart, each find nothing to cancel. The loop of the one that is put in first ticks on beside
   the other, and neither `/simulations` nor a cancel or a stop knows of it. docs/METABOLISM.md:113 has
   the previous simulation cancelled and replaced. This is `overlapped`.
3. `CadenceEnds`: a subscription that runs out of its time is a `TaskCanceledException`, which the look that waits for the
   first snapshot is handed (`MyceliumGateway.cs:725-728`, `HeldCadences.cs:34`). `LookReportingFailuresAsync` lets it pass
   (`CadenceKeeper.cs:57`) and `ExecuteAsync` takes it for its own stop (line 45): the keeper ends, without a word, and no cadence
   starts a run until the process is started again. So does a mark or a resolving of a pipeline that runs out of its time (line 92). The
   comments at `HeldCadences.cs:7-8` and `CadenceKeeper.cs:64-65` have a look that fails so back off and be made again.

The rest were met while modelling. The models reach them, and the properties say where they hold in spite of
them; they have no run of their own.

Phloem:

- The write that makes the record whole before a wait leaves a node's decision out
  (`PipelineExecutor.cs:734`), so after the wait its answer takes another wire than before.
- The gateway takes a node run for created before its first write has arrived (`MyceliumGateway.cs:197`). Where
  that write fails, the write that makes the record whole before a wait cannot make the run have the node, and a
  run that could have waited fails.
- A resumed node's answer is settled without asking whether a wire carries it on (`PipelineExecutor.cs:165`);
  the run ends succeeded, short of its Output node.
- The run of a caller that went away stays recorded running (lines 622, 845).
- A failed node that no wire carries on from is read back as settled and halts nothing (line 458): a run that is
  taken up beside it may end succeeded.
- A crash between settling a node and starting the next leaves nothing recorded under way (line 250): no recovery
  lists the run, and it stays running for ever.
- The recovery of waits does not ask whether the node still waits, or the run still goes on (lines 223-238).
- A node run is related to what it waits for when its vigil is placed, after the other nodes came to their
  end: a crash before that fails a run that could have waited (lines 227-231).
- A run that a restart failed is taken up by the answer of its other wait, as `ResumeAsync` never looks at the
  run's status. Where that answer finds the record not to be gone on from, it is used up
  (lines 156-160), and a person who then carries the run on has it wait for ever. With three waits no person
  is needed: one fails the run, one is answered over a crash while it stands failed, and the answer of the third takes it
  up; the second then waits for ever (the premise `~revived` of `WaitsAreHeld`; TLC finds it on a drawing of three
  waits).
- One read that fails ends the recovery of every run (`Program.cs:66-82`).
- A run started again may be called further beside the run that repeats it: where each node left interrupted is one whose
  service may be called again, as it may be after a person carried the run on once and it crashed again, the answer
  to another of its waits takes it up, since `ResumeAsync` asks neither for the status nor for what
  repeats the run (hence the premise of `StartedAgainIsOver`).
- Two writes lost in one run may leave a node that was called without a trace on the record, and it is called again
  (the premise of `CallsAreSpared`).
- Where the process crashes after a fresh run was recorded by `StartAgainAsync` and before it is swept, the
  fresh run stays running and this one cannot be started again.
- A second attempt of a retried node is recorded as trying (line 1262), so a crash in its midst has it called again though
  its service does not say that it may be.
- A recovery that fails a run marks the first node it listed as interrupted, not the one that it cannot go on from; a
  platform that retires a vigil once it was acknowledged may do so before the answer's second look (line 142).
- A stop is acknowledged once its flag is in memory (line 92): a crash before a sweep sees it forgets it.
- A node that waits for its place at the gate is called after the sweep has seen the stop
  (`PipelineExecutor.cs:845`); docs/SERVICES.md:1429 has the run stop at its next node. A node once per item
  does look again (line 1174).
- A stop that a sweep hears leaves the vigils of earlier sweeps with the platform (lines 646-653).
- A resume takes each wait on the record for one that has a vigil (line 450), also where its sweep was thrown
  out of before it placed one.
- A resume does not ask whether the run is over (line 140). Where the last writes of an ended run were lost, that
  of a retried node and that of a node still waiting, the answer to the wait takes the run up and the retried node is
  called beyond its policy; the comment at line 137 has nothing called a second time. This is `revived`.
- A snapshot taken before a mark and arriving after it takes the mark back out of what is held
  (`MyceliumGateway.cs:718`), and the next look starts the same instant again. So does a change the broker sent before the mark
  (`unheard`).
- A clock slowed down between two looks makes the window of the next too small for what it ran through
  (`CadenceKeeper.cs:77`), and when it is anchored again it may step back behind an instant last due, for which
  `DueAt` starts a run at once (`CadenceSchedule.cs:12`). `CadenceStarts` leaves "slower" out.
- A look that one cadence breaks off was noted already (`CadenceKeeper.cs:79`): what another was due at in the
  covered time counts as jumped over by the next, as does what a cadence was due at whose mark failed.
- A keeper that looks before its clock was anchored goes by this machine's (`CadenceKeeper.cs:74`).
- An edit of an instant last due that arrives between a mark and its answer is undone in what is held
  (`HeldCadences.cs:51`), and is not told again; hence what `Alike` leaves out of `HeldIsStored`.

Trellis, live streams (`useSse.ts`):

- A reconnect that fires while the declarations of the pages settle opens the streams for another selector and goes on
  at the position taken under the one before (line 182); the comments at lines 36-37 and 67-70 say
  that a reconnect covers what it covered before. What came before the new snapshot is then sent again; nothing past it
  is left out, which is what `NoGap` says of it.
- An open that was overtaken and whose call throws schedules a reconnect all the same (`StaleThrows`), which
  closes streams that are well.
- `openStreams` leaves the timer of a reconnect running: streams that came live are opened again when it
  fires, and an error in between leaves the page saying "live", as a timer is already set.
- A `ModelChanged` sent while the client is not attached is lost, and the position of the model before is used.
- Where the answer to a subscription is lost after the platform granted it, the subscription stays.

Trellis, model data:

- Within one window of the buffer a Thing that arrives after a change of the one removed before it gets that
  change (`useModelData.ts:245-252`, `modelStore.ts:137-141`); the comment at `useModelData.ts:159-160` has the
  last word win. This is `window` in `spoiled`.
- A read of the model that crosses a reconnect to another coverage draws the one for the other (`read`).

Trellis, pipeline editor:

- A first save that fails goes back to the baseline the history was made with, an empty canvas, which the
  person's work goes with; the comments have a never-saved canvas keep it.
- After a failed save the button for undo is off while the history is kept, and `savedId` is set over a pipeline
  that is half written.
- A pipeline opened during a save: when the save ends the page takes the saved one for the one it edits
  (`crossed`). Edits during a save stay, but count as saved, and cannot be undone.
- A node placed since a pipeline was opened gets another Thing at each save (`serialize.ts:143`), as the canvas keeps
  the id it was placed with; `serialize.ts:87-89` says that Things keep their ids.
- A new wire whose writes stopped before its mark is read as carrying success; one that stopped earlier lingers,
  held by its node and read by nobody.
- A retry of a first save that failed makes a second pipeline, as the page never learnt of the first.
- Deleting a node that has wires is two steps of undo.
- The second save of a start node placed since the pipeline was opened relates its port to the new Thing and then
  removes it with the old one (`Sound` leaves these saves out).
- The retry of a first save shares the ports of its start nodes with the half-written pipeline, so that a later save of
  either may remove a port the other has (`left`; `Sound` leaves a save of such a node out).
- A pipeline opened during a save and then saved itself is written into the one that was being saved, its nodes
  with it: from then on the two share Things, and a save of one may change the other (`mingled`).
- Two wires with the same ends may come of a save planned before the page heard of the one before, or sent again
  after it failed; the next save tells them apart by their ends alone (`serialize.ts:222-225`), and keeps both.

Trellis, explore page (each sets `missed` or `stale`, where it leaves page, model or report apart):

- Re-posts may overtake each other, so that the model is left with the earlier; one that fails or is refused is
  not sent again, and proving the address again reads the findings but does not send it either.
- A switch of language within the 800 ms of a dial drops its re-post.
- An answer of the register that comes late takes the place of land drawn by hand, and may do so after the
  report was opened.
- The device's answer to where it is may come after the report was opened (`ExplorePage.tsx:140-145`): the pin moves, the
  land is taken off, and the model is told of neither until a dial is turned.
- An address edited while its code is being asked for leaves the page waiting for the code of the one before;
  one edited during the submission leaves a report whose ticket is another's.
- An exchange that succeeds and a submission that then fails leave the person with a code that is spent.
- What a dial was set to and is then cleared stays in the model: a field left out is a field kept.

Metabolism:

- A restart takes the simulation out of the dictionary for a moment. A cancel of another of the same subject that looks
  meanwhile (`MetabolismSubscriptionService.cs:132-134`) leaves the subject out of the subscription, and a restart
  announces nothing (`Metabolism.cs:201`, "membership already covers this relationship"): later edits are not
  heard (`astray`).
- Membership requests are sent and not waited for (lines 94, 99): a removal may arrive after the addition of a
  simulation registered since, and one that fails is not sent again (`astray`).
- A cancel between the lookup of `UpdateProperty` and its restart is answered with success, and the restart brings the
  simulation back (`Metabolism.cs:165-201`).
- What is registered or restarted while `StopAllAsync` is between its cancels and its wait is waited for until its
  own end, by default in 2099 (`Metabolism.cs:220-225`): this is `late`.
- What is put in between that wait's list and the Clear that follows it (`Metabolism.cs:223-227`) is neither cancelled nor
  waited for, and forgotten: its loop ticks on and nothing can find it, where docs/METABOLISM.md:285-291 has the stop
  cancel and await all that is active. This is `late`, too, and what `LoopsAreFound` leaves out once the stop is over.
- A start further ahead than a delay can last makes `Task.Delay` throw (`Metabolism.cs:94, 103`). The loop is broken and says
  "waiting"; the stop is thrown out of by it, and `/shutdown` does not stop the application.
- A number no decimal holds is thrown by the unwrapping, which stands before the `try` (`Metabolism.cs:168`), out of the loop
  that reads the stream: no edit is heard until the service is started again (`subscription = "broken"`).
- A `/handle` that was composed before an edit and arrives after the edit was applied undoes it, until the next
  (`missed`).

Read, and not modelled:

- Session: a refresh in flight while the person logs out puts the token back and shows the person signed in
  again (`client.ts:131-158`, `useAuthentication.ts:66-68`); the comment at `client.ts:132-134` has the
  session's cookie cleared so that the person is not signed back in. A refresh that fails may forget the token of a login made meanwhile, a late refusal the
  token that replaced the one refused (`client.ts:330-336`), and a refresh that crosses a switch of the model
  brings back the token of the one before.
- Intake wizard: as on the explore page, a code is shown for an address edited meanwhile, and a code is spent by
  a submission that then fails; edits made during a submission go with the draft it clears.

## What is not modelled

- In `RunLifecycle`: what a sweep is in `PipelineSweep` beyond wires that carry success; reads that fail;
  attempts that are not recorded; an early answer that lapses before it is claimed; a drawing that is
  edited while its run stands still; the run that repeats this one once it is recorded; the retiring of vigils by a
  stop, which always succeeds. A release of a vigil and the status written with it are one step, and an answer
  on its way is looked up before its wait is placed anew. The vigil is found as long as its answer is being
  taken.
- Several stops of one run at once.
- Items of a node that stream along item wires into the next: drawings have no such wires, and the items of
  a node are its one answer. No retry policy stands on such a node.
- The writes of the several nodes one pass of the loop settles are one step.
- `LoadAsync` is taken to succeed when a run is resumed, and to read the drawing the run began with.
- Of the keeper: which pipeline a cadence starts, and with what; logging; a stream that falls silent without
  ending; a Thing that is deleted (as one that leaves its kind); a write that reaches the broker after the
  process that sent it has crashed; the moment between reading the clock and reading its speed.
- Payloads, transforms, wording, times. A rule on the Output node may say anything.
- The broker, the platform's vigils and the services, which are not in this repository, appear as the
  executor uses them: they take a write or do not, answer once, and may refuse.
- Of the live streams: which events are on which stream, how long a reconnect waits, and `addToSubscription`.
  Of model data: relationships, held as Things are, and `useWiderList`. A model that is cleared is taken to have nothing
  of before it told any more, and to be heard of at once (`ModelCleared`). Of the pipeline editor: ports a service
  declares, parameter bindings, choices, what a node stands for, the states of a run that is shown. Of the
  explore page: the map, the options of the form beyond the split they bring, the text of the report.
- Of Metabolism: what a tick writes and its delays, the renewal of tokens, edits of the unit, the path and the start delay, which
  restart as an edit of the quantity does, the second `StopAllAsync` of a host that stops by itself, and a
  stream that is opened again, which the subscription client does.
- Most lines of Trellis are markup, styles, translations and charts, which are functions of the stores: there is
  no order in them to check. Its session, intake wizard, dashboards and other pages are in the plan or are data.
- The other services of the repository: see the plan.

## Plan

In order of what is at stake.

1. **RunStart**: a start, a rehearsal, a follow-on and a spawn resolved into a recorded run, and the run that
   repeats another from the moment it is recorded. An abstract run (begun, each node called as its policy says, ended
   once), with `PipelineSweep` and `RunLifecycle` to implement it.
2. **ItemFanOut**: items of a node called side by side and streamed, stopped and failed one by one.
3. The keeper, next: two cadences in one look.
4. **IdempotentExecution** is used by no service here yet; it comes when one does.
5. **ModelFollower** and **SubscriptionClient**: membership and sequence over reconnects against an
   abstract "every change of what is watched is handled".
6. **IngestJobStore**, the token sources, Forage's slices and Delta's saga, each small.
7. **DagValidator** as operators: what the executor takes for granted (`Acyclic` among it) follows from what it
   lets through.

Theorems to come: the refinement of the abstract run, and the lemmas on slices.
