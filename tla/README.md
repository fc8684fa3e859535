# TLA+ models and proofs of the SEN66 air-quality firmware

This directory specifies the firmware's own code: the driver and the frame
parser of a Sensirion SEN66 on I2C, the measurement service that polls it, the
policy object that decides about retries and notifications, the shell commands,
the Matter endpoint that publishes what was measured, the node's startup and its
generated data model. TLC checks small instances; TLAPS proves the safety
properties for every configuration.

Source abbreviations used below: `policy` is
`src/measurement_service/measurement_policy.{h,cpp}`, `service` is
`src/measurement_service/measurement_service.{h,cpp}`, `driver`, `protocol`,
`crc` and `shell` are the files of `src/sen66/`, `adapter` and `aq policy` are
those of `src/air_quality_endpoint/`, and `zap` is the directory
`src/default_zap/zap-generated/`.

## 1. Inventory

| Component | State it keeps | Operations | Modelled in |
|---|---|---|---|
| Policy object (`policy`) | last frame and its time, last announced frame and its time, pending announcement and its mask, failure counter, backoff flag, step index | `OnReadResult`, `GetLatest`, `ShouldNotify`, `ChangedMask`, `MarkNotified`, `NeedsRestart`, `NextDelayMs` | `MeasurementPolicy`, abstract promise in `FaultLadder` |
| Measurement service (`service`) | the policy object, the snapshot behind a mutex, the update callback, the delayable work item on its own queue | `Init`, `PollWorkHandler`, `GetLatest`, `RegisterUpdateCallback` | `MeasurementService` |
| Driver and sensor (`driver`) | the bus mutex; the part's own mode, data-ready flag and pending response | `StartMeasurement`, `ReadMeasurement`, `StopMeasurement`, `IsDataReady`, `ReadSerialNumber` | `Sen66Driver`, abstract promise in `Sen66Exchanges`; `Sen66Sensor` inside the service |
| Frame parser and CRC (`protocol`, `crc`) | none | `ParseMeasurement`, `ParseSerialNumber`, `CheckWordsCrc`, `Crc` | `Sen66Protocol` |
| Shell (`shell`) | the loop counter of `sen66 read` | `sen66 read`, `sen66 serial`, `sen66 latest` | `Sen66Shell`; what they print, `Sen66Printing`; `latest` is a reader of `SnapshotMutex` |
| Snapshot (`service`) | the three members of `sSnapshot`, its mutex | `PublishSnapshot`, `GetLatest` | `SnapshotMutex`, abstract promise in `AtomicSnapshot` |
| Air-quality policy (`aq policy`) | none | `ClassifyChannel`, `EvaluateAirQuality`, four conversions | `AirQualityPolicy` |
| Matter adapter (`adapter`) | the attributes (held by the SDK's clusters) | `ClusterInit`, `OnMeasurementUpdated`, `ApplyLatestMeasurement` | `AirQualityEndpoint` |
| Startup (`src/app_task.cpp`, `src/main.cpp`) | positions of the main and the CHIP thread, the cluster instances initialised | `AppTask::Init`, `StartApp`, `ClusterInit` | `AppStartup`, composed in `Node` |
| Data model (`zap`) | the attribute store, the clusters that run in code, the request being served | the generated tables; `MatterClusterServerInitCallback`, `DispatchSingleClusterCommand` | `DataModel`, `AttributeStore`, `InteractionModel`, composed in `Node` |

### How they interact

Four threads touch this state.

- The **main thread** runs `AppTask::Init`: `Sen66::Init`, then
  `MeasurementService::Init` (first start of the sensor, a failure fed into the
  policy, first poll scheduled), then `StartServer`, from inside which
  `ClusterInit` registers the callback and applies the snapshot once itself.
- The **service's work queue** runs `PollWorkHandler`: restart if in backoff,
  read, `OnReadResult`, publish the snapshot, announce, reschedule.
- The **CHIP thread** runs `ApplyLatestMeasurement` for every work item that
  `OnMeasurementUpdated` queued. The item carries nothing: the snapshot is
  read again when the item runs.
  It also runs `Server::Init`, which lays out the attribute store and starts the
  clusters, and serves the clients' requests.
- The **shell thread** calls the driver directly and reads the snapshot.

Shared state: the bus (mutex), the snapshot (mutex), the callback pointer (no
lock), the policy object (no lock; used by `Init` before the work queue uses it),
the event queue, and the sensor itself, which every driver call may change.

### What is hard here

- *Failure and recovery.* Reads and starts fail for reasons the firmware cannot
  tell apart (NACK, CRC, unplugged, power lost, a start refused because the
  part already measures); recovery depends on reads being tried again.
- *Ordering across threads.* Announcements are recorded before they are
  delivered, delivered by a queue that may be full, and answered by re-reading a
  snapshot that may have moved on; registration happens after polling started.
- *Sharing.* An exchange with the part is a write, a delay and a read; a snapshot is
  copied member by member; other threads want both at any moment.
- *Startup.* Three threads start each other, every step can fail, and a cluster
  initialised before the endpoint tables are there asserts.
- *Tables that must agree.* Sizes, counts, indexes, access rules, enabled commands
  and cluster instances live in separate generated tables that nothing compares.
- *Staleness.* Snapshot and attributes outlive the readings they show.
- *Time.* Heartbeat and age arithmetic over failed polls and long backoffs.
- *Boundaries.* The end of the delay table, the wrap of the failure counter, a
  delta equal to the threshold, a reading equal to a bound.

### What correctness means, per component

- Policy: the failure variables climb one rung at a time, stay at the top and
  reset on one success; nothing is announced that `GetLatest` would refuse.
- Service: when it rests, the last announcement is within the thresholds of the
  last reading and younger than a heartbeat; the snapshot is the policy's state;
  polling never stops; a sensor that stays up is recovered.
- Endpoint: when nothing is on its way, the attributes show a frame that needs
  no announcement against the last announced one.
- Air-quality policy: a reading's level counts the bounds it exceeds; no channel
  masks a worse one.
- Driver: exchanges are atomic, every response read is the reader's own, every call
  returns.
- Parser: no small error and no stuck line passes for a frame; a rejected response
  leaves the caller's data alone; each channel has the value, the signedness and
  the sentinel of its word.
- Shell: every command ends; a frame it prints holds a sample; it gives up only for
  a reason; its numbers are those the attributes show.
- Startup: no cluster asserts, nothing is written before it is ready, no sensor
  keeps the node from serving.
- Data model: a write changes its own attribute only; every request is answered
  once; what is advertised is served, and what configures the node is guarded.

The hazards these properties are aimed at are listed, each with its line, in
`PROJECT.json`.

## 2. Modules and how they correspond to the code

    FaultLadder            abstract: one level that climbs and falls to zero
       ^ refined by
    MeasurementPolicy      the policy object, alone under any caller
       |        Sen66Sensor   the part and its link: mode, glitches, outcomes
       v        v
    MeasurementService     work item, snapshot, callback, clock, shell
       |        AirQualityPolicy   classification and conversions (pure)
       v        v
    AirQualityEndpoint     main thread, event queue, CHIP thread, attributes

    Sen66Exchanges         abstract: exchanges with the part in one instant
       ^ refined by
    Sen66Driver            lock, write, delay, read, unlock; any callers
       v
    Sen66Shell             serial and read, beside the polls and the first start

    AtomicSnapshot  <-- refined by --  SnapshotMutex   member-by-member copies

    Sen66Protocol          CRC, frames, decoding (pure)
    Sen66Printing          the shell's numbers (pure)

    AppStartup      DataModel          the generated tables (pure)
       |             |        |
       |     AttributeStore  InteractionModel
       v             v        v
    Node                   from power-up to the clients' requests

`MCMeasurementPolicy`, `MCMeasurementService` and `MCAirQualityEndpoint` give the
small instances; `MCThreads` puts the bus and the snapshot side by side,
`MCReadings` the pure modules with the inputs of `MCSen66Protocol`,
`MCSen66Printing` and `MCAirQualityPolicy`, and `MCNode` instantiates `Node`.

**MeasurementPolicy.** One variable per member of the class, with its name. A
frame maps each channel to a reading or to `Unavailable`; the bit mask `valid` is
the set of channels with a reading, `changedMask_` a set of channels. The
failure counter wraps at `CounterModulus` (2^32 in the code). `OnReadFailure` and
`OnReadSuccess(measurement, t)` are the two branches of `OnReadResult`; the
comparison with the last announced frame (`EvaluateNotify`) is part of the
latter. `PolicySpec` is the object under any caller whose clock does not run
backwards. `GetLatest` has no action of its own: it changes nothing; its refusal
before the first valid frame is what `NotifyNeverRefused` is about.

**Sen66Sensor.** External: the part is not in the repository. `sensorMode` is off,
idle or measuring; `glitching` allows any exchange to fail, and a start to be
executed although its acknowledge was lost. `part` holds what the repository does
not settle, chosen at the start and never changed: whether the part NACKs a start
while it measures (the shell's comment says so), and whether an idle part answers
reads. One exchange is one step, which `Sen66Driver` justifies.

**Sen66Exchanges, Sen66Driver.** The driver's five entry points for any set of
callers. A call (`Invoke`) takes the bus mutex or waits for it; `Send` and
`SendFails` are `SendCommand`; a write-only command is then complete, the others
`Receive` the response after the delay or `ReceiveFails`; `Return` runs the
destructor of `BusLock`. `pending` is the command whose response the part would
send next: it is what a second caller's command in between would overwrite. A
transfer may fail before or after the part took it, and the part may lose power at
any time. In `Sen66Exchanges` the same call is answered in one step, and the
driver implements it (`Atomic`).

**Sen66Shell.** The commands `serial` and `read`: `CmdRead` starts the part and
ignores the result, `CmdReadPolls` asks for the data-ready flag up to `ReadyPolls`
times, then `CmdReadGivesUp` or `CmdReadFetches`. `FirstStart` is
`MeasurementService::Init` on the main thread; the service polls (`PollCalls`) once
that call has returned. Three history variables are for the properties: `lowered` is why
the data-ready flag is down, `excuse` what each poll of `CmdRead` and its fetch met, and
`held` the samples the part held since `CmdRead` saw the flag.

**AtomicSnapshot, SnapshotMutex.** `PublishSnapshot` and `GetLatest` member by
member, in any order, between lock and unlock; `NeverTorn` says they implement a
snapshot that is published and copied in one step.

**Sen66Protocol, Sen66Printing.** A byte is the set of the positions of its set bits:
`^` is the symmetric difference and a shift moves every position. `Crc` folds eight
shifts over each byte, and `ByteValue` is the number a byte stands for where the parser
computes with it. A response is a sequence of words of three bytes; parsers
return what the code returns and what they leave in the caller's output. Printing
keeps the value a line shows: sign, whole part and fraction as the code computes
them, for every channel.

**DataModel, AttributeStore, InteractionModel.** The tables of `endpoint_config.h`
row by row, the attributes in one named block per cluster: ids, sizes, the writable
and nullable bits, null defaults; commands; clusters with index, count and size;
endpoints. `AttributeStore` is the one array of `ATTRIBUTE_MAX_SIZE` bytes: the SDK
finds an attribute by adding up sizes from three tables. A sum of sizes is the number
of the bytes themselves (`BytesOfRows`), and each byte of the array remembers for which
attribute it was written. `InteractionModel`
serves one request at a time: path, privilege (the parallel arrays of `access.h`),
then the cluster in code, the SDK's network commissioning instance, or the generated
dispatcher. How the SDK walks the tables is external.

**AppStartup, Node.** `AppStartup` has one action per step of `AppTask::Init`, with its
failure, `ClusterInit`'s inits in their order with their assertions, and the CHIP and
poll threads meanwhile. `ClusterInit` may fail half-way; whether the main thread then
ends is the SDK's choice, so both happen. `Node` puts the data model under it:
`Server::Init` loads the store and starts the clusters step by step, then come writes
and requests.

**MeasurementService.** `PollWorkHandler` is cut where somebody else can act:
`PollBegin`, `PollRestart`, `PollRead`, `PollPublish` (`OnReadResult` and
`PublishSnapshot`, the clock read once), `PollNotify` (`GetLatest`,
`MarkNotified` and the callback) and `PollReschedule`. The locals that live across
a cut are variables (`pollOk`, `frame`, `handlerMs`). A copy of the snapshot is
one step, which `SnapshotMutex` justifies. `ServiceInit`,
`RegisterUpdateCallback`, `ShellStartsSensor`, `Tick` and `SensorStep` are the
other threads, the clock and the part. `delivered` is a history variable: the
frame the callback was last called with.

**AirQualityPolicy.** Operators only. Particulate readings stay in tenths of
ug/m3: every bound has at most one decimal and the float division by ten is
correctly rounded, so comparing floats is comparing integers.

**AirQualityEndpoint.** Extends the service with `AppTask::Init` and `ClusterInit`
on the main thread (`mainPc`), the event queue as a counter (its items carry
nothing), a flag for the last announcement having been dropped (`ScheduleWork`'s
result is ignored), the CHIP thread (`chipPc`), and the attributes.
`ApplyLatestMeasurement` is cut between `GetLatest` and the writes, on both threads
it runs on. Whether the CHIP thread dispatches work while `ClusterInit` runs is for the
SDK's `StartServer` to decide, which is not in the repository, so it may. If the two
applies overlap, each attribute keeps the value of either (`Interleaved`), and the
history variable `overlapped` says so until the next item is taken, as `dropped` does
for an announcement the queue had no room for.

Operators marked *Faulty variant* are never used by a specification. They are the
plausible bugs each property was tried against; `PROJECT.json` pairs them.

## 3. Runs

| Run | Question | Bounds | Result |
|---|---|---|---|
| `policy` | Does the object implement the fault ladder under every caller? | 2 channels, 3 readings, 3 delays, threshold 2, counter modulo 6, uptime 3 | holds |
| `service_safety` | Does the handler keep snapshot, announcements and policy in step whatever fails? | 1 channel, 3 readings, 2 delays, uptime 4, every kind of part | holds |
| `service_liveness` | Does polling go on, what can block recovery, and for which part does it always come? | 1 channel, 1 reading, 2 delays, uptime 3, every kind of part | holds |
| `service_no_recovery` | Does it "recover automatically once the sensor answers again"? | as `service_liveness`, the part of the shell's comment | **violated** |
| `service_backoff_validity` | Are validity bits clear during backoff? | 1 channel, 1 reading, uptime 4 | **violated** |
| `service_age` | Does the age reflect elapsed time during backoff? | 1 channel, 1 reading, uptime 5 | **violated** |
| `service_heartbeat` | Does a heartbeat always follow within the interval? | 1 channel, 1 reading, uptime 4 | **violated** |
| `endpoint_safety` | Does every announcement reach the attributes? | 1 channel, 3 readings 40 apart with the default threshold 50, queue of 2, uptime 2 | holds |
| `endpoint_direct_apply` | Are attributes only written by queued work? | 1 channel, 2 readings | **violated** |
| `threads` | Are the driver and the snapshot safe between the threads, and do calls and commands end? | main, poll and shell on the bus, 2 samples, 2 data-ready polls; 2 readers and 3 members of 2 values | holds |
| `readings` | Is a reading checked, decoded, printed, converted and classified truly? | one word: every error of up to 3 bits and every burst of up to 8; frames and serial numbers: 5 boundary words in one place, 3 bits of every word; all 16-bit readings; 3 channels on both sides of all 5 bounds | holds |
| `node` | Does startup end with everything ready, and do the generated tables agree? | queue of 2; 2 readings and null; every cluster and one more, 18 ids, 4 privileges, all kinds of request | holds |

### What the properties say

- `BackoffLadder`, `ImplementsFaultLadder`: counter, flag and step index never
  disagree and together behave as one level. A counter modulus just above the
  ladder lets the wrap happen, which the code's 2^32 makes unobservable in a test.
- `QuietImpliesClose`: no slow drift and no lost validity flip. It takes several
  polls, each below the threshold, to violate; readings 0..2 with a threshold of
  2 are the smallest that can drift.
- `HeartbeatFresh`: bounds the age of the announcement, measured at the reading's
  arrival. It is restricted to frames with a valid channel, because the code is
  silent otherwise; `HeartbeatAlways` is the documentation's unrestricted wording.
- `SnapshotConsistent`: any reader at any time sees the policy's state as of the
  handler's last clock reading, before the callback and after failed polls too.
- `DeliveryKeepsUp`: `MarkNotified()` and the callback stay together.
- `ImplementsPolicy`: `Init` and the handler drive the policy object, which has no
  lock, only through its operations and with a clock that does not run backwards.
- `PollsForever`, `Recovery`, `RecoveryIfStartAcked`, `BlockedOnlyByRunningSensor`,
  `RestartedAfterPowerLoss`: liveness; see section 4.
- `AttributesCurrent`: end to end, from announcement to attribute, over boot
  order, late registration, coalescing and re-reading, and over `ClusterInit`'s own
  apply beside the CHIP thread's. Two things excuse an older view until the next
  item is taken: the queue had no room, or the two applies overlapped.
- `CountsExceededBounds`, `WorstValidDecides`: the level of a channel and its
  aggregation, whichever channels are valid.
- `MutexExact`, `OwnResponse`, `Atomic`, `CallsReturn`: the mutex is held over the
  whole exchange and released on every path; without it a data-ready poll of the
  shell between the service's command and its read would give the service the
  answer to another question, with a correct CRC.
- `PrintedIsASample`, `GivesUpForAReason`, `CommandsEnd`: the service takes samples
  behind the shell's back, so the flag the shell sees is about a moment that has
  passed. What is printed may be newer than the sample announced, or none after a
  loss of power, but not older; "no data ready" takes a reason for every single poll.
- `NeverTorn`: no reader mixes two polls, and none goes back in time.
- `CorruptionNoticed`, `StuckLineNoticed`, `CorruptionRejected`, `DecodedExactly`,
  `SerialExact`: the wire. The start value 0xFF is what makes a line stuck at zero
  fail its CRC.
- `PrintedTruly`, `AttributesAgree`: between -1 and 0 the whole part has no sign of
  its own, and shell and adapter round halves by separate expressions.
- `NoAssertFires`, `OnlyReadyIsWritten`, `SensorNeverBlocksMatter`: startup; they
  hold because `StartServer` waits for the CHIP thread and `ClusterInit` registers
  last.
- `EachHoldsItsValue`: no sum of sizes is wrong by a byte: each written attribute
  still holds its value after any other write, and only nullable ones become null.
- `RepliedOnce`, `AcceptedIsServed`, `Protected`: four tables agree on each command,
  and no row of the access arrays has slipped.

### Disagreements between code and text

1. *No recovery from a running sensor* (`service_no_recovery`). In backoff the
   handler reads only after an accepted start. If the part NACKs a start while it
   measures, as the shell's comment says, then after `failureThreshold`
   transient errors it never reads again. `BlockedOnlyByRunningSensor` shows that
   this is the only way to stay in backoff, and `RecoveryIfStartAcked` that there is
   none if the part acknowledges.
2. *Validity during backoff* (`service_backoff_validity`). The documents say that a
   channel's bit is clear while the sensor is gone. The code keeps the last frame.
3. *Frozen age* (`service_age`). The comment says the age reflects elapsed time
   during backoff. It is computed at publication and stands still in between.
4. *Missing heartbeat* (`service_heartbeat`). Once an all-invalid frame was
   announced, successful polls go on without any notification; the comment on the
   early return says "Nothing has ever been valid".
5. *Direct apply* (`endpoint_direct_apply`). `ClusterInit` calls
   `ApplyLatestMeasurement` itself, which two comments exclude. If the CHIP thread
   runs work items meanwhile, this has a consequence: the main thread copies the
   snapshot, a poll announces a newer one, the CHIP thread applies that, and the
   main thread then overwrites it. The attributes stay behind until the next work
   item is taken. `AttributesCurrent` excuses exactly this overlap (`overlapped`);
   whether it can happen depends on the SDK.

Smaller ones, without a run:

- The documents say a channel counts as changed when it moves by "more than" its
  threshold; the code's comparison is `>=`.
- `sen66 read` waits "to cover the first warm-up" and then says "still warming up?". It
  also gives up beside a sensor that measures, when each of its polls came after a poll
  of the service had taken the sample: `GivesUpForAReason` has to list that excuse.
- `docs/measurement-service.md` says that all driver calls happen on the service's
  thread. The main thread makes the first start and the shell makes its own calls; the
  bus mutex is what makes that safe.
- The humidity conversion is called a pass-through. A negative reading wraps: -1 becomes
  65535, the null of the attribute, and lower ones more than 100 %. `AttributesAgree`
  says just that below zero, and the same humidity on both sides from 0 upwards.

### Why the bounds are enough

Delays, thresholds and readings matter only through comparisons; the instances
place values below, at and above each. One failure threshold above one and two or
three delays give an entry, a middle and a last rung. The uptime horizon covers a
valid read, its announcement, a full backoff and a heartbeat. At the horizon the
clock stops and deadlines are capped, so the work item still expires: liveness is
about steps, not about distances in time. The service treats channels alike and
combines them only in `ChangeMask`; the `policy` run has two channels with different
thresholds, the larger compositions have one. A queue of two allows coalescing;
that it is full does not need larger ones, because other work may take its slots
at any time. The theorems of section 5 do not depend on any bound.

On the bus at most two threads ever compete, because polling starts after the main
thread's call; the second sample is what tells "taken" from "not there yet", and the
second data-ready poll what can follow it. Errors of more than three bits in a word
are beyond what an 8-bit CRC promises. Words of a frame are decoded independently,
so one varied word at a time in every place is enough; which bit is flipped in a
long response does not matter after every bit was flipped in a short one. Printing
and conversion are checked for all readings. The tables are finite and complete;
above id 15, TriggerEffect is the only command and
ClusterRevision stands for the global attributes. Requests come to a node without
a sensor, and writes after the first measurement: requests and stored values do not
affect each other, so both together would only multiply the states. The bus and the
snapshot are side by side for the same reason.

## 4. Fairness

`Fairness` is weak fairness of `ServiceInit`, of each cut of the handler and of
`Tick`. The work-queue thread is alone at the lowest preemptible priority and the
other threads block when idle, so it runs; every driver call is a write, a sleep of
fixed length and a read, so it returns; time passes. Weak fairness suffices since
none of these steps is disabled by another thread. No fairness is assumed of the
sensor, the shell or the registration: what a sensor must do for recovery is a
hypothesis of the property (`SensorStaysUp`: from some time on it has power, its
link is clean and it does not lose power again). `Recovery` holds only if a running
part acknowledges a start, `RestartedAfterPowerLoss` only if an idle part refuses
reads: one that answers them with sentinels looks healthy to the handler, and TLC
shows it is then never started again.

In `threads`, each caller's next step inside the driver is weakly fair (it sleeps only
in `k_msleep()` and in the mutex, and `k_mutex_unlock()` hands the mutex to a waiter),
and so is what the shell does after a call of its command returned. Nobody has to call
or to type. `CallsReturn` needs that at most two threads compete: with three,
the wait queue's order would decide. In `node`, the main thread and `Server::Init` on
the CHIP thread are weakly fair; polls, work items and clients are not.

## 5. Proofs

Eight modules are checked by tlapm to the last leaf. Their assumptions are the named
`ASSUME`s:

- `ChannelsAssumption`, `ThresholdAssumption`: readings are integers, `Unavailable`
  is none, thresholds are positive (a zero threshold would call an unchanged
  reading changed, and the defaults are all positive);
- `TimingAssumption`, `BackoffAssumption`: intervals and delays are natural numbers,
  there is a delay, and the counter can count past the ladder;
- `SensorAssumption`, `EndpointAssumption`: the part is of one of the four kinds, the
  queue size a natural number. Nothing is assumed of what the sensor does.
- `LevelAssumption`: the readings of the three classified channels are 16-bit words.
- `ExchangesAssumption`, `DriverAssumption`, `ShellAssumption`, `SnapshotAssumption`:
  threads are told apart from "nobody", the shell, poll and main threads are the
  callers, and the shell is a thread of its own;
- `LinkAssumption`: payloads are words of 16 bits, a frame has a number of words,
  and no more errors happen than the checksum promises to find (up to three single
  flips in a word, or one burst; one flip in a longer response);
- `StartupAssumption`: the event queue has room for an item;
- `StoreAssumption`: null is neither a reading nor the default of an attribute that
  has another one (the code writes it with `SetNull` only).

**The policy.** `PolicyInv` is the type invariant, `BackoffLadder`,
`NotifyNeverRefused`, and `ValidImpliesEverValid`, which makes the third inductive:
an announcement is due only if the current or the announced frame has a valid
channel, and `everValid_` remembers that one was seen. `FailureEffect` splits a
failure by rung: below the last rung the counter is far from wrapping, so it
counts; at the last rung only the rung matters, so the wrap is harmless. From it
follow `PolicyBackoffLadder` and the refinement `PolicyRefinesLadder`.

**The service.** `ServiceInv` adds to it the types, `ClockInv` (times recorded by the
policy never exceed the handler's clock reading, nor that the clock),
`SnapshotConsistent`, `AnnounceInv` and `DeliveryInv`. `AnnounceInv` is the heart:
either an announcement is decided and not yet made, or the announced frame and the
last reading agree. `PollPublish` re-establishes it by deciding, `PollNotify` by
announcing, and failures leave it alone. `StepUsesPolicy` shows that every step of
the service is a step of the object or leaves it alone, so `PolicyInv` carries over
(`ServiceImplementsPolicy`).

**The endpoint.** `EndpointStepIsService` shows that the composition adds nothing to
the service (`EndpointImplementsService`), so `ServiceInv` carries over. `BootInv`
says what cannot have happened before registration. `ViewInv` is the argument for
`AttributesCurrent`: with no announcement decided, queued or dropped and no overlap,
whichever copy is about to be applied, or else the attributes, needs no announcement
against the last announced frame. A queued item needs no clause: taking it copies the
snapshot of that moment, which agrees by `AnnounceInv`, and ends `dropped` and
`overlapped` unless the main thread is applying. Two applies at once are an overlap,
which is the part of `BootInv` that makes a single copy enough.

**The driver** (`Sen66DriverProofs`), for any number of callers. `OwnResponse` is not
inductive alone: `IInv` adds that exactly the mutex's owner is in an exchange
(`MutexExact`) and what a caller's place says of its call (`CallState`). Every step then
maps to an exchange, a refusal or a stutter (`StepRefines`), which gives
`DriverImplementsExchanges`. `ShellImplementsDriver` shows that the firmware's three
threads are such callers.

**The shell** (in the same module). Why `CmdRead` prints a sample, or else has a reason
to give up, spans several calls and what the other threads and the part do meanwhile.
`ShellInv` carries it: the flag is up or the reason for its being down is known
(`FlagKnown`); every poll of the command has its excuse, but for the last one while it
is under way or when it saw the flag, and so has a fetch that failed (`PollsExcused`);
from the moment the flag was seen the part's sample is among those held since, and so
is the one fetched (`SampleHeld`). `CommandCalls` ties the call in progress and its
answer to the command. From it follow `ShellGivesUpForAReason` and
`ShellPrintsASample`, for any number of data-ready polls and any samples.

**The wire** (`Sen66ProtocolProofs`). Eight rounds of the CRC are linear in the
bits (`ByteLinear`), so whether an error is noticed depends on the error alone, not
on the payload (`ErrorAlone`). Then it is a matter of errors: a byte cannot vanish in
the rounds (`NoKernel`), the polynomial keeps parity, so one or three flips are noticed
(`OddIsNoticed`), two flips leave different traces (`OneBitSpreads`), and a burst of up
to eight bits touches at most two neighbouring bytes (`BurstAcross`). `LinkInvariant`
says what errors a run can reach, and `WrongBitsAreNoticed`, `WrongFramesAreRejected` and
`StuckLinesAreNoticed` hold for frames of any length and all payloads: TLC flips bits in
one varied word at a time. `FramesAreDecoded` and `SerialNumbersArrive` add that two
bytes put together are the word they were cut from (`ByteRoundTrip`).

**The snapshot** (`SnapshotMutexProofs`). `IInv` says that while a thread copies, what it
has copied equals its source. A publication and a copy take effect when their thread
takes the mutex; every other step is a stutter.

**Air quality** (`AirQualityPolicyProofs`). `CategoryIsBoundsExceeded` for all 16-bit
readings, where the run takes those around the bounds; `LevelIsTheWorst` for these and
every combination of valid channels; and `SignedFixedIsExact`: a printed decimal shows
its number for every number and resolution.
`LinesShowTheReading` and `ShellAgreesWithAttributes` apply it to every line of the shell's
output and compare it with the attribute of the same channel, temperature's truncation
towards zero (`TemperatureCut`) and the cast of a negative humidity included.

**The node** (`NodeProofs`). `Ordered` is the strengthening: the CHIP thread serves only
with the store laid out, `ClusterInit` runs only while it serves, and a callback is
registered, hence work queued, only with every instance initialised.
`NodeImplementsStartup` carries `StartupNeverAsserts` and `StartupWritesReadyOnly` over
to the whole node. `RequestInv` follows a request through the CHIP thread: every code
cluster the server has come past runs (`Started`), and each stage stands for what was
checked before it (`Asked`). Beneath are facts about the generated tables, read row by
row: every cluster with commands has a case in the dispatcher or an instance
(`AcceptingClusters`), each code cluster's endpoints fit the array of its instances
(`RoomForEach`), `RulePrivileges` reads the parallel arrays of `access.h`, and every writable
row has a rule there (`WritesRuled`). From it follow `NodeRepliesOnce`, `NodeServesWhatItAccepts`
and `NodeIsProtected`, for any set of paths, ids and values.

**The attribute store** (in the same module). The tables are proved block by block: each
cluster's rows on their own (`ClusterRows`), where its block starts (`RowsLaidOut`), and
what the cluster table says of it (`ClusterTable`). `StoreInv` strengthens
`EachHoldsItsValue`: a written attribute has bytes, each names it and holds its last
value, and null is the value of nullable ones only. A write preserves this if no two
attributes share a byte, and that is what the generated numbers have to give: the
sizes of the rows add up to each cluster's (`ClusterSizes`), those of the clusters to each
endpoint's (`EndpointSizes`), those of the endpoints to `ATTRIBUTE_MAX_SIZE`
(`StoreSize`). So the place of an attribute lies inside its cluster's, that inside its
endpoint's and that inside the array (`InStore`), two attributes are apart at the first
of the three levels where they differ (`Apart`), and a name is found at one place
(`NamedOnce`). `NodeHoldsItsValues` follows for any readings in any order, together with
the defaults that `Server::Init` loads.

**Only model-checked.** Every safety invariant and every action property a passing run
checks is stated by a theorem. Liveness is beyond the prover, which knows neither
fairness nor `ENABLED`, so `PollsForever`, `Recovery`, `RecoveryIfStartAcked`,
`BlockedOnlyByRunningSensor`, `RestartedAfterPowerLoss`, `CallsReturn`, `CommandsEnd` and
`SensorNeverBlocksMatter` rest on TLC. The composition that the theorems do not state
either is that `MeasurementService` uses the sensor only as `Sen66Exchanges` allows: the
two describe the part differently, one by kinds of part and a link that may glitch, the
other by the samples it has to give, and each theorem needs only its own.

## 6. Not modelled

- Attribute values other than null or not null, the event lists, the functions called
  at a cluster's shutdown (nothing in the repository shuts the server down), the empty
  stubs of `callback-stub.cpp`, and the declarations of the generated headers.
- Reports to Matter subscribers and what the SDK's clusters do with a command they
  accept. How the SDK walks the tables is modelled as far as the tables need it.
- The SDKs, Kconfig, devicetree and boot images, the tests and the CI scripts.
- Logging, and the wording of what the shell prints.

## 7. Open ends

Liveness of the endpoint: once readings are calm and nothing is dropped, the
attributes stay at the last announcement; with the time a heartbeat needs to repair
a dropped one.
