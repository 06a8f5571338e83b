# TLA+ models of the Linkjiru speaker recognition plugin

This directory holds TLA+ specifications of the program in `src/`, the TLC
configurations that check them on small instances, and TLAPS proofs of what
they promise for every instance. `PROJECT.json` lists the components, runs,
hazards and theorems, and says for each definition which lines it models.

    tlc -workers 2 -config Ring.cfg MCSharedRingBuffer     # one run
    tlapm SharedRingBuffer_proofs.tla                      # one module's proofs

## 1. The system

`src/cpp_impl` is **Linkjiru**, a JUCE audio plugin. Audio from the host goes
through a ring buffer to an analysis thread, which resamples it, runs a neural
network on its last window, and publishes to VTube Studio (VTS), over a
WebSocket, which of two speakers (0 baji, 1 ru) was heard last. `src/python`
holds the packages that train the network (`nn_model`), augment its data
(`data_augment`), and two older recognisers (`pitch_math`,
`baji_recognition`). The plugin is where threads, callbacks and failures meet
and is what is modelled here, with the training loop of the Python packages.

| Component | State | Operations | What is hard | What makes it correct |
|---|---|---|---|---|
| `SharedRingBuffer` | slots, write count; a reader's cursor | `write`, `readLastN`, `read` | readers copy while the writer stores, no lock | a window is right except where a write in progress overtook it; `false` means lapped; a cursor is handed the right samples within a ring of the writer; a drained ring is caught up with |
| `OnnxRunner` | three atomic flags, buffers ONNX Runtime points to, per-class scores | `prepare`, `kick`, `tryHarvest`, `onComplete`, destructor | completion on a foreign thread, failure, destruction under a run | one run at a time on stable buffers; whole results, once; nothing after a failure; no use after free; a run ends |
| `CadenceGate` | `nextAt` | `poll` | boundaries, backlog | no padded window, one window a hop |
| `AnalysisThread`, `GatingLogic` | sound, filter, hysteresis, latch, last send | prepare, the tick, Register, shutdown | results in silence, a dead model, refused sends, a wall clock set back | silence changes nothing; VTS comes to show a value that stays |
| `VTubeStudioClient` | connection state, pending operations, value cell, register flags; the token file | `connect`, `pump`, `requestRegister`, `setDetectValue`, `disconnect`, handlers, saving and loading the token | handlers in any order, drops, timeouts, late and malformed answers, exceptions, kills | one read and one write on a stream, none when it goes; a value marked clean only by being handed to a write; a read always armed; initial link retried; a register settled; "registered" true; the token never torn |
| `LinkjiruProcessor` | parameter, pending update and restart, running flag, session | parameter changes on any thread, reconcile, restart, prepare, release, destroy | changes during a handler or between the destructor's steps, failure half way | no change or restart lost; flag and session agree; nothing after the destructor |
| Test samples (`processBlock`, `streamTestSample`) | command, current sample, position | play, block | command against end of sample | position inside the sample; a sample ends |
| Editor, `PipelineStatus` | none of its own | buttons, 20 Hz repaint | - | its buttons are actions of the modules they act on |
| `Resampler`, `PolyphaseFir` | stages; history, phase, positions of each | `prepare`, `process` | phase at block edges, buffers sized by formula | an output meets the right samples however the stream is cut; no drift; nothing dropped; the rate is kept |
| `PageLock`, `SampleData`, `Constants` | - | - | - | not modelled: no behaviour |
| Training (`nn_model/trainer.py`, `train.py`) | epoch, weights, learning rate, checkpoint lists; the files | start, restore, epoch, save, prune, save best, save resume | killed between any two writes, restored or started afresh over old files | a checkpoint holds the epochs of its name, none skipped; a resume file can be resumed from; best weights survive; old files go; the schedule is followed |
| `VoiceListener` (`pitch_math`) | flag, thread, queue | start, stop, callback | restart after a timed-out join | not modelled |
| Dataset, augmentation, pitch | indices, chains | pure functions | edges | not modelled |
| `baji_recognition`, scripts, installer, CI | - | sequential | - | not modelled |

How they meet: the audio thread (`processBlock`) writes the host ring and reads
`analysisRunning` and `samplePlaying`; the analysis thread drains the host ring
into the model ring, calls the runner and pumps the client; ONNX Runtime calls
`onComplete` on a thread of its own; the message thread starts and stops the
analysis thread and paints; host threads set the parameter.

## 2. The modules

    SharedRingBuffer ---- MCSharedRingBuffer      PolyphaseFir --- Resampler
    CadenceGate --------- OnnxRunner ==> InferenceSlot
    TokenFile ----------- VTubeStudioClient ==> ValueCell --- AnalysisThread
    LinkjiruProcessor --+                         Training ------- MCTraining
    TestSamplePlayback -+- PluginProcessor ------ MCPluginProcessor
    ==>  implements (a PROPERTY of a run, and a theorem)
    *_proofs: the theorems of the module they are named after; those of
    TestSamplePlayback are in PluginProcessor_proofs

**SharedRingBuffer** models `SharedRingBuffer.h`. One writer (`BeginWrite`,
`StoreSample`, `Publish`), one caller of `readLastN` (`CallReadLastN`,
`LoadBefore`, `CopySnapshotSample`, `VerifyCount`, `FinishReadLastN`) and one
reader with a cursor (`AttachCursor`, `CallRead`, `CopyReadSample`,
`ReturnRead`, `FinishRead`), every load and store a step. A sample is the
number of its write, so "the right sample" can be said. Memory is sequentially
consistent. The data race between the plain stores of a block and a copy is
read as: a copied sample is the old one or the new one.
`MCSharedRingBuffer` runs either reader against the writer.

**OnnxRunner** models `OnnxRunner.hpp` with the calls in `AnalysisThread.h`
lines 132-164, one step per atomic access: the loop's `isReady() && !inFlight()`
is two (`Cadence`, `TestFree`). In `kick()` the guard's two loads and the copy of
the window are one: with `running` down nobody else touches what they read. The
analysis thread's place is `pc`; ONNX Runtime's, in each run, is `job[r]`; `late`
is a history variable, a result raised since the last `tryHarvest()`. `After` is the order in which
`onComplete` publishes. It implements **InferenceSlot**, which has neither
threads nor flags: `Start`, `Complete`, `Fail`, `Harvest`, `Discard`. **CadenceGate** decides
when a window is due, against the write count of the model ring.

**AnalysisThread** models `AnalysisThread.h` with `GatingLogic.hpp`: `Prepare`,
then the tick, `Service` (`pump()` and the Register button), `GateAndHarvest`,
`Cadence`, `Publish`, `Sleep`, and the shutdown, `LeaveZero`, `Flush`, `Close`.
The runner is the slot that OnnxRunner was shown to implement; the client is
the **ValueCell** that VTubeStudioClient was shown to implement, its steps
taken through `Cell == INSTANCE ValueCell`, with one write in flight, which may
be the request that creates the parameter. Loudness is `quiet`, `between` or
`loud` relative to the noise floor's two thresholds, the smoothed confidence
`low`, `mid` or `high` relative to the hysteresis, so every sequence the
arithmetic can produce is allowed, and more. Times are ages in ticks, capped
where nothing distinguishes them further; they come from the wall clock and
are negative for a while when it is set back (`ClockSetBack`). Sleeping takes
any time up to `MaxSleep`, so late ticks are covered.

**Resampler** models `Resampler.hpp`, the cascade, over **PolyphaseFir**, one
stage: `Prepare`, `DesignHalving`, `DesignLast` are the loop of `prepare()`;
`Process`, `StageStep` (a sample pushed or an output pulled), `NextStage`,
`Deliver` take a block through. A sample is its position in the stream; what is
checked is which samples each output is made of, not the products.

**VTubeStudioClient** models `VTubeStudioClient.cpp`: `Connect`,
`RequestRegister`, `SetDetectValue`, `Disconnect`, `pump` as `PumpConnect`,
`PumpRegister`, `PumpInject`, `PumpOnly` up to its `poll()`, the completion
handlers that `poll()` runs in any order, `EndPoll`, and `Recycle` of a dropped
stream. `op` is the pending step of the set-up and `ask` the request it is
about, `rd` and `wr` count pending steady operations, `wire` and `replies` is
the traffic. VTS and the network are external: VTS answers in order, may refuse
the parameter, and may go away and come back without it. `unheard` and
`afterDrop` are history: VTS garbled the answer that is waited for, a flag was set by an answer
read after a drop. With `Faults` it also
sends messages that cannot be parsed, or that make the json library throw: no
code catches that, the process ends (`pc = "threw"`). A process that ended or
is killed, anywhere, starts again with what its files say (`Relaunch`). After
`disconnect()` the module goes on when `Reuse` is set, as the class allows; the
plugin calls it last.

**TokenFile** is the part of it that outlives the process: `loadToken()`, and
`saveToken()` as `BeginSave`, `WriteTmp`, `CloseTmp`, `RenameTmp`, each of
which may fail, and may throw where the code calls an overload of
`std::filesystem` that does.

**LinkjiruProcessor** models the session's life in `PluginProcessor.cpp`: a
parameter change on a host thread takes two steps (the value, then the
listener), the reconciling handler one step per access of the shared flags, the
destructor three (`RemoveListener`, `CancelPendingUpdate`, `DestroySession`).
**TestSamplePlayback** is lines 190-315. **PluginProcessor** puts the two
together: the host does not prepare, release or destroy during a block, and the
buttons run between two handlers.

**Training** models `nn_model/trainer.py` as `scripts/train.py` runs it: the
process starts (`StartFresh`, `Restore`, `RestoreFails`), trains an epoch
(`BeginEpoch`, `TrainBatch`, `Evaluate`), saves and prunes (`BeginSave`,
`EndSave`, `Prune`), keeps the best (`BeginBest`, `NotBest`, `EndBest`,
`DropWorst`), saves what it needs to resume (`BeginResume`, `EndResume`), and is
killed anywhere (`Exit`). Weights are the number of epochs they were trained;
files outlive the process, and one being written is partial. Learning rates are
exact fractions.

## 3. What the runs check

| Run | Shows | Bounds |
|---|---|---|
| `ring` | the five properties of the ring; blocks longer than the ring, windows up to and beyond it | capacity 4, 10 samples, blocks to 5, windows 2, 3, 6, two attempts: the writer laps every reader twice |
| `runner` | stable buffers, pacing, no use after free, no busy flag without a run, only late results lost, runs end, implements `InferenceSlot` | 2 classes, 3 runs, window 3, hop 2, 2 waits: a failure between two loads, a discarded result and a lapsed wait all happen |
| `vts_safety` | seven invariants of the client, used any way, with malformed messages, exceptions and kills; implements `ValueCell` | 2 values, 2 connects, 2 requests on the wire: two writes, a second session over the first, an answer behind another, the error of an inject ending a register request's wait (`AnswerComing`) |
| `vts_live` | the initial link is retried until it is up, register requests are settled | 1 value, 1 connect, 1 request: ten strong fairness conditions leave no room for more. With two on the wire `AnswerComing` checks that the answer is on its way |
| `plugin` | seven properties of the processor under its host | 2 rates, samples of 3 and 5 frames, blocks to 2 |
| `analysis` | silence holds; what is published is sent; VTS shows a value that stays | hold and keepalive of 2 ticks, a sleep of 1: both are over and not yet over at some tick; the clock goes back by 1, once; one press of Register |
| `resampler` | which samples an output is made of, drift, room, rate | 3 taps, target 3, hosts from 2 to 16 (up, bypass, no, one and two halvings), blocks to 4, 16 samples: history and phases go round several times |
| `training` | four properties of checkpoints over kills and restarts | 4 epochs, 2 last and 2 best kept, 3 scores, 3 starts: lists overflow, a restored run is killed and restored again |

The other four runs end in a counterexample to a statement of the repository
(section 6).

Bounds are constants with a comment in the module; counters are capped in the
guards (`MaxCount`, `MaxRuns`, `MaxConnects`, `MaxWire`, `MaxStarts`,
`MaxPresses`, `MaxBack`). Presses of Register are bounded for more than the
state space: a request is written before the value, so one that is pressed at
every tick would keep the value from VTS for ever. They are small enough
to finish and large enough for every interleaving of two operations: each
counter passes its boundary at least twice. The mutants in `PROJECT.json` break
every property with a plausible bug in the code, each within its run's bounds.
The type invariants (`TypeOK`) are theorems for all constants, so no run is spent
on them.

Fairness, and why the code has it:

- `ring`: a block once begun is finished, and the drain loop is called again
  (`AnalysisThread.h:94`). Nobody has to begin a block or take a snapshot.
- `runner`: ONNX Runtime gets on with a run it accepted. The loop owes nothing.
- `vts_live`: the loop pumps (`AnalysisThread.h:97`), `poll()` ends, a save of
  the token goes on, time passes; and, as the antecedent of each property, what
  it needs of VTS: set-up steps that can succeed again and again do so in the
  end, the end of a save while the link is up among them, or answers arrive.
  `Faults` is off: a VTS that garbles the answer to a register request leaves
  the client waiting (section 6).
- `plugin`: handlers finish, a pending update gets its turn, the host processes
  blocks while active, and blocks do consume frames.
- `analysis`: the thread is scheduled and a write completes. Nothing is asked of
  inferences, links or owners.

Deadlock is checked for the ring and the resampler. Elsewhere it is off since the system stops:
after destruction, after `disconnect()`, with a run ORT never finishes, or with
a training that nobody starts again.

## 4. What is proved

By TLAPS, for all values of the constants under the modules' named assumptions.

**SharedRingBuffer_proofs**: types, `SnapshotTornOnlyByOverlap`,
`GaveUpOnlyWhenLapped`, `CursorRunIntact`, and the action property
`OnlyLostSkipped`. The invariant `IInv` adds what makes them inductive: which
sample each slot holds up to the frontier, the block in progress included; that each copied sample was right when copied unless the
frontier had passed it; that each failed attempt cost the writer
`Capacity - n + 1` samples. `SlotDistinct` (two indices less than a ring apart
have different slots) carries the argument, one lemma per thread the steps.
`SlotAgain` (an index a ring further on has the same slot) is why what a lapped
cursor jumps over is gone: a newer sample is in each of its slots.

**LinkjiruProcessor_proofs**: types and the four safety properties. They speak of
quiet states; `Reconciling` says what every step of a handler knows of the
parameter when no update is on its way, and `RestartOnItsWay` where an owed
restart stands.

**Resampler_proofs**: `TapsAligned`, `NoDrift`, `NothingDropped`, for all rates
(not below half the target), taps, and blocks of at least two samples. A stage's
invariant `StageInv` says what the mirrored history holds, and bounds the
outputs of a block twice: by the samples it has taken (`Progress`), which
carries the induction, and by the largest block (`Yield`), which fits the
buffer. `CascadeInv` has each stage get at most what the one before can give.
`RateKept`, for host rates that the halvings divide (an odd one loses half a
hertz): `Flow` says that a stage has taken what the one before it gave, `Chain`
that there is a rate before each stage; where a stage ends a block, `Telescope`
carries the ratio from its input to its output, so no induction over the stages
is needed.

**Training_proofs**: types, `EpochLineage`, `ResumeLoadable`, `BestSurvives`
and `LastBounded`, for any schedule and scores, at least two checkpoints of each
kind kept, and any number of kills. `IInv` ties the weights to the place in
`train()`, says that the list of checkpoints is strictly falling (`ListInv`), so
what is pruned is two epochs old or more, and that the one `resume.pt` names is
whole (`ResumeInv`). `HeapInv` says what the heaps of best checkpoints in memory
and in `resume.pt` are; `SurvivalInv` what a kill leaves of them on the disk: a
checkpoint is only dropped for a better one that is whole. That of any of a
heap's checkpoints one is the worst is carried along as an invariant (`Ranked`),
where one would like induction over finite sets. `BoundInv` says that a last checkpoint on
the disk is in the list or of the epoch under way; `RestInv` the other types.

**OnnxRunner_proofs**: every safety property of the runner, and that it
implements `InferenceSlot`. `RunInv` says that runs follow one another and that
`running` is up just while one is under way (`SlotNeverStuck`, that it is not
up without one); `KickInv` what the loop
and `kick()` have looked at and may rely on until the buffers are handed over:
once `running` was seen down it stays down, so `kick()` refuses for a failure
only, one that came in between the loop's two loads (`KickMeetsNoRun`, a theorem
without a run); and a result still there after the harvest is late
(`OnlyLateResultLost`); `DataInv` whose numbers the
buffers hold from input to scores; `PaceInv` counts the samples behind the
windows, those due and not yet kicked included. The refinement is a simulation
step by step: each step is a step of the slot or leaves it alone.

**VTubeStudioClient_proofs**: every safety property of the client, any use of
it and all faults allowed, and that it implements `ValueCell`. `SetupInv` ties
the state to what is pending on the stream (`WaitsForSomething` is what it says
between two polls), `SteadyInv` reads, writes and the
write flag, `ResolveInv` the resolves a `disconnect()` left behind;
`CreatedInv` follows an answer from VTS to the flag it sets, `AnswerComing`,
inductive with the others, the request the other way; `FilesInv` the two
files through a save.

**AnalysisThread_proofs**: types, `PublishedIsSent`, and `SilenceHolds`, an
action property. `PublishedIsSent` follows from what the loop believes it sent
being what it published (`SentInv`). `SilenceHolds` needs that a tick under way
knows of the sound it found (`SoundInv`), and that outside such a tick there is nothing left to latch or to publish (`LatchInv`),
also when a result or a failure comes in; `ClockInv` allows for the clock.

**PluginProcessor_proofs**: the playback's types and `PositionInSample`, for all
lengths and blocks; and the whole implements each half, so their theorems hold
of the whole (`PluginCorrect`).

## 5. Only model-checked, and not modelled

Liveness is out of the prover's reach and stays with TLC: `DrainCatchesUp`,
`RunEnds`, `InitialLinkRetried`, `RegisterSettles`, `RestartHappens`,
`SampleEnds`, `VtsShowsValue`. Of four of them the part that is safety is
proved: `SlotNeverStuck` for `RunEnds` (a run is there to end),
`WaitsForSomething` for `InitialLinkRetried` and `AnswerComing` for
`RegisterSettles` (what is waited for is pending), `PublishedIsSent` for
`VtsShowsValue` (the value is on its way); what stays with TLC is that fair
steps then come. Every safety property that a passing run checks is
also a theorem, and so is every type invariant.

Not modelled:

- `SampleData.cpp`, two constant arrays, is by far the largest file of the
  program, more than nine tenths of its lines. Of the other C++ sources about
  half the lines are translated; the rest is building and painting the editor,
  JUCE's descriptive getters, building JSON and ONNX Runtime sessions, and the
  arithmetic named below.
- What a thread killed by `stopThread()` leaves behind; weak memory; two
  instances of the plugin that share a token file.
- The arithmetic of the filters, noise floor and model, an odd host rate, of
  which a halving loses half a hertz, included. Host rates are whole numbers:
  the rounding of others (`Resampler.hpp:52`), and the one-to-one stage that a rate
  just off the target gets instead of the bypass (46), are left out.
- The status word, rebuilt every tick and only shown, and what the editor
  paints from it.
- Python other than the training loop: `VoiceListener`, which keeps state and
  would be the next module, pure functions over arrays (augmentation, features,
  Viterbi), and sequential scripts.

## 6. Where code and text disagree

With a run each:

- `vts_reconnect`: `src/cpp_impl/README.md:112` says the plugin reconnects when VTS
  restarts. Nothing connects after a drop in Ready.
- `processor_release`: after `releaseResources()` and `prepareToPlay()` the
  parameter says active and nothing runs (`PluginProcessor.h:50`); the program
  reconciles on changes (88-89), and there is none.
- `processor_rate`: a session started before `prepareToPlay()` keeps the old rate.
- `training_lr`: the loop that looks up the learning rate never runs
  (`trainer.py:101`), so no epoch before the last two pairs has its rate
  (`trainer.py:84`, `train.py:54`).

Seen while modelling, without a run:

The client:
- `registerFailed`, "last register attempt failed" (`VTubeStudioClient.h:41`), is
  raised by the error answer to an inject sent before the register request.
- An answer handled after a failed write marks a disconnected client registered
  (`VTubeStudioClient.cpp:491`), and the editor then keeps its Register button
  disabled (`PluginEditor.cpp:204-206`). `afterDrop` in `RegistrationTruthful`
  is this case.
- An answer to a register request that cannot be parsed leaves `registering`
  set until the link drops (`unheard` in `AnswerComing`).
- `valueDirty` is cleared when a value is handed to a write
  (`VTubeStudioClient.cpp:538`) and a write that fails does not set it again
  (562-564): the cell is clean and VTS has not had the value. `ImplementsCell`
  promises the hand-over and no more. "Also covers a dropped fire-and-forget send"
  (`GatingLogic.hpp:79-80`) is the loop's keepalive, which sets the value again; but
  the drop that comes with the failure is one that is not retried.
- `disconnect()` leaves a pending resolve and `writeInFlight` behind, so
  `StreamDiscipline` speaks of resolves, and `WriteFlagHasWrite`, up to it.
- "Atomic write-then-rename" (`VTubeStudioClient.cpp:41`): `good()` is asked
  before the file is closed (165, 173), so a close that fails unnoticed renames
  a short file over a good token (`"short"` in TokenFile).
- `loadToken()` removes the file it has open (122), which Windows refuses, and
  the overload that it calls throws: out of the handler, `pump()` and the thread.

The rest:
- The end of a test sample overwrites a command given during its last block
  (`PluginProcessor.cpp:310`; lines 202-203 say that a new command resets the
  position).
- With a dead model `detect` is forced off, but the value sent is the latched
  speaker and stays: "detectValue says whether they're currently talking"
  (`PipelineStatus.h:26`) is not what it does. `AnalysisThread.h:166-167` and
  178-180 disagree about what is wanted.
- A result that completes between `tryHarvest()` and `kick()` of one tick is
  discarded (`Discard` in InferenceSlot, `OnlyLateResultLost`).
- A window that is due may be neither inferred nor counted in `droppedWindows`:
  when the run in flight fails between the loads of `isReady()` and `inFlight()`
  `kick()` refuses it (`AnalysisThread.h:155`, `OnnxRunner.hpp:112`), and when a run
  ends between the two reads of `inFlight()` it is not counted (159).
- "On silence, neither" run the model nor push (`GatingLogic.hpp:7-8`): the loop
  asks `shouldSend()` on every tick (`AnalysisThread.h:187`), so keepalives go out
  during silence as well.
- "Coherent under concurrent writes" (`SharedRingBuffer.h:36-40`) holds only for
  published samples, a block in progress can be in an accepted window, as
  `SnapshotTornOnlyByOverlap` says (the plugin's model ring has one thread and
  is not exposed); `read()` checks for an overrun before the copy only, so
  samples overwritten during it are handed out with `overrun` false.
- A training killed while it writes `resume.pt` cannot be restored, though its
  checkpoints are there; with one last checkpoint to keep, the code's minimum,
  it prunes the one `resume.pt` names; a best file written after the last
  `resume.pt` is never removed when the training is killed.

## 7. Plan

The plugin's threads, callbacks and failures, and the training's kills and
restarts, are modelled, and every safety property that holds in a run is proved.
What is left, in order:

1. *VoiceListener*: start and stop, time-outs, callbacks.
2. *Training*: the batch sizes of `TrainDataLoader`.
3. *Algorithms*: augmentation chains, lengths, Viterbi, against references.
