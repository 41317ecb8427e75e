# FaceGateway: TLA+ models and proofs

FaceGateway is an access-control system: a Raspberry Pi (the *edge*, C++)
recognises faces and drives a turnstile, a Rust *backend* stores employees, face
embeddings and access events in PostgreSQL, an Angular *panel* administers them,
and a mosquitto broker carries messages between edge and backend. This directory
holds TLA+ modules that model the parts of it where order, failure and
concurrency matter, TLC configurations that check them on small instances, and
proofs that TLAPS checks for every value of the constants.

`tlc -config X.cfg M` runs a model (`PROJECT.json` lists which module goes with
which configuration), `tlapm M_proofs.tla` checks the proofs.

## The system

| Component | State | Operations | Interacts with | What is hard | What makes it correct |
|---|---|---|---|---|---|
| `Pipeline::main_loop` (edge) | dedup state, streak, `block_until` | one iteration per frame | Matcher, Turnstile, RgbLed, Buzzer, publisher, Storage | several clocks and windows interact | one event per meaningful change; no second decision inside a window |
| `Pipeline::auxiliary_loop` | heartbeat clock, fetched batch | heartbeat, drain | publisher, Storage | publish may fail at any row, delete may throw | rows leave oldest first, only once handed over; the backlog empties |
| `MqttPublisher` | `connected_`, libmosquitto queue | `publish`, callbacks | broker | `true` does not mean delivered | nothing lost on network failure |
| `MqttSubscriber` + `Storage` embeddings + `Matcher` | SQLite rows, cache | `on_message`, `load_all_embeddings`, `upsert`, `remove` | broker, main_loop | two stores written one after the other; clean session | matcher = SQLite = PostgreSQL once quiet |
| `Storage` pending queue | `pending_events` | enqueue, fetch, delete | both pipeline threads | exceptions | FIFO by id |
| Backend `run_loop` / `handle_publish` | `access_events` | insert per message | PostgreSQL, broker | ack before insert, foreign key | every event stored |
| Backend handlers (`embeddings.rs`, `employees.rs`) | `employees`, `embeddings` | create, delete, update | rumqttc client, PostgreSQL | awaits interleave; channel of 32 | the broker's retained topics mirror the rows; no lost update |
| `Turnstile`, `RgbLed`, `Buzzer` | `open_until_`, `stop_`, line level | `grant_access`, `arm`, worker loops, destructors | main_loop, GPIO | condition variables, time windows | every grant opens, the window is never shortened, the LED shows the last decision, the stop takes effect within a pulse |
| `Camera` | latest frame, stop flag | capture thread, `capture`, destructor | main_loop, enrolment program | `cv::Mat` shares pixels between the slot and the next read | `capture` returns the frame published last or parts of the one being read, nothing older; the destructor returns unless a read hangs |
| `FaceDetector`, `FaceEmbedder`, `OnnxSession` | outputs of the last inference | `detect_best`, `extract`, `run` | main_loop, both CLIs | views into the session's memory, failing inferences, degenerate eyes | the embedding is of the face of this frame, upright |
| `Matcher` search | cache, mutex | `find_match`, `best_distance`, `upsert`, `remove` | main_loop, subscriber thread | entries come and go, NaN and infinity | the nearest below the threshold; an id once |
| `StageProfiler` | windows, counters, CSV file | `record`, destructor | main_loop | percentiles at small samples, the last window | every cycle in one summary |
| `load_config` | none | parse, defaults, validate | all programs | boundaries, ten pairs of pins | what loads is safe to construct from |
| `facegate` main | locals in order, `g_stop_requested` | construct, signal, stop, destroy | everything on the edge | constructors that throw half-way, early signals | no thread outlives what it refers to |
| Enrolment CLI | captured count | delete, insert rows | camera, vision, SQLite beside a running facegate | two writers of one table, two sources of ids | the writers diverge only where ids meet |
| Evaluation CLI | gallery, queue of probes | two modes | vision, Matcher | images that fail, caps, identities with one image | every probe accounted for, genuine exactly if enrolled |
| Analytics (`analytics.rs`) | none | SQL queries | PostgreSQL | delay across midnight | a delay is relative to the shift's start |
| Auth (`auth.rs`, `users.rs`), panel session | JWT, `localStorage` | login, logout, 401 interceptor | backend | a late 401 | a fresh session survives |
| Panel enrolment wizard | captured vectors | sequential POSTs, retry | backend | one of several requests fails | no vector stored twice |
| Panel dashboard page (`dashboard/dashboard.page.ts`) | employee list, form, export | create + wizard (undo on cancel), remove, paged export, reload | backend | late answers; offsets into a list that grows at its head | the list shown is the newest; no event exported twice or skipped |

How they interact.  `main_loop` is the only decision maker: it reads a frame from
`Camera`, asks the vision stages and `Matcher`, calls `Turnstile::grant_access`,
`RgbLed::show_*` and `Buzzer::beep_denied` directly, and hands a serialized event
to `try_publish_or_enqueue`.  `auxiliary_loop` shares the publisher and `Storage`
with it.  Two MQTT clients of libmosquitto have a network thread each, whose
callbacks set `connected_` (publisher) or write `Storage` and `Matcher`
(subscriber).  The backend has one task that polls rumqttc and stores events, and
one task per HTTP request; requests write PostgreSQL and publish retained messages
through the same rumqttc client.  The panel knows the backend only through HTTP.

`PROJECT.json` lists every component, what is left out and why, and every hazard
with the line where it bites and the properties that watch it.

## Modules

Every component is one module, and `<module>_proofs` has its theorems.
`MCEventDelivery`, `MCEmbeddingSync`, `MCTurnstile` and `MCRecognition` give their
module its bounds.  `MCEdgeParts` and `MCAdministration` do so for several parts that
share no state: the variable `part` chooses one for a behaviour and the others rest
in their initial state, so the states add up and do not multiply.  In these two a
property of a module is the conjunction of its named parts (`SummariesAddUp`,
`ReportIsSound`, ...), each of which has a comment of its own.  Definitions named `<Action>_<What>` are the
plausible bugs each property was tried against: with the action replaced by its
variant TLC finds the property violated.  Next to them `PROJECT.json` ("map") gives
the source lines of every definition.

| Module | Models | State | Abstracted |
|---|---|---|---|
| `EventDelivery` | `try_publish_or_enqueue`, both loops of `Pipeline` as sources and drainer, `MqttPublisher`, `pending_events`, the broker's session for the backend, `run_loop` / `handle_publish`, `DELETE /employees/:id` | program counters of the two threads, `pending_events`, libmosquitto's queue, the broker's queue, `access_events` | a payload is a number and whom it is about; what the recognition decides |
| `EmbeddingSync` | `POST .../embeddings`, `DELETE /employees/:id`, rumqttc, retained topics, `MqttSubscriber`, `Storage` embeddings, the cache of `Matcher` | `employees`, `embeddings`, the handler in each request slot, client queue, retained payloads, the device's session, SQLite, the matcher | a vector is its owner |
| `Turnstile` | `grant_access`, `pwm_loop`, destructor | `open_until_`, `stop_`, the worker's and the caller's position, time left of every deadline | pulse shapes; the duty cycle is "open" or "closed" |
| `Recognition` | one iteration of `main_loop` | the loop's locals (last decision, streak, clocks, `block_until`) as ages | the frame is who stands there, plus glitches of each stage |
| `Door` | what the gate promises | position, power, grant, retirement | threads, pulses, durations |
| `RgbLed` | `show_*`, `arm`, `worker_loop`, destructor | target colour, `off_at_`, `dirty_`, `stop_`, the worker's locals | a colour is a name |
| `Camera` | `capture_loop`, `capture`, destructor | buffers of pixels, `latest_frame_`, the local frame, both threads | a frame is a few rows, each the number of its read |
| `StageProfiler` | `record`, `summarize`, `emit_summary`, CSV, destructor | windows, counters, last summary, file | a duration is a number, the mean is left out |
| `Matcher` | `find_match`, `best_distance`, `upsert`, `remove` | cache, the position and the best of a search | distances are a constant function of two vectors |
| `FaceVision` | `detect_best`, `extract`, `OnnxSession::run` | outputs of both sessions, detection, transform, embedding | what the networks see is any choice; eyes and transform are integers |
| `Configuration` | `parse_*`, `validate`, `load_config` | none: operators on a file | strings are empty or not |
| `Facegate` | `main` of facegate | phase, locals constructed, threads, handlers | what a component does while it runs |
| `Evaluation` | both modes of the evaluation program | gallery, queue of probes, rows | distances in the rows |
| `Enrollment` | the enrolment program beside facegate | the table of embeddings, the matcher, the program's counters | how embeddings reach the device (`EmbeddingSync`) |
| `Analytics` | `events`, `avg_delay`, the panel's export | stored events, position of the export | time of day in eighths of a day |
| `Employees` | PATCH and DELETE of an employee | the row, each request's copy and answer | two fields of the row |
| `EnrollmentWizard` | capture, remove, submit, retry, cancel | captures, the upload's copy and progress, rows stored | camera stream and face model of the browser |

Correspondence in short:

* **EventDelivery.** `MainLoop`, `MainNoEvent`, `MainEmit` are one iteration of
  `main_loop`; `TryPublish(t)` and `TryEnqueue(t)` the two halves of
  `try_publish_or_enqueue` for either thread, two steps because the network thread
  may run in between.  `AuxWake`, `AuxHeartbeat`, `AuxCheck`, `AuxFetch`,
  `AuxDrain`, `AuxDelete` are the statements of `auxiliary_loop`; `AuxDrain` stops
  the batch at the first refused publish, `AuxDelete` may throw and ends the
  iteration.  `OnConnect`, `OnDisconnect`, `BrokerReceive`, `PubAck` are the client
  and the broker (QoS 1: what was sent and not acknowledged is sent again).
  `BackendReceive` acknowledges, `BackendHandle` inserts, `BackendFail` is an `Err`
  that `run_loop` logs.  `RequestStop`, `ProcessExit`, `ProcessCrash`,
  `ProcessStart` are the life of the process; SQLite survives, memory does not.
* **EmbeddingSync.** A request takes a step per `.await`: `CreateInsert`,
  `CreatePublish` (which waits while rumqttc is full); `DeleteSelect`, `DeleteRow`
  (cascade), `DeleteTombstone` for one id at a time.  On the device `ApplyStorage`
  and `ApplyMatcher` are the two calls of `on_message`; `OnConnect` subscribes and
  receives the retained payloads in any order; `EdgeStart` loads the matcher from
  SQLite.
* **Turnstile and RgbLed.** The mutex is not a variable: the steps in which the
  worker holds it while it goes to sleep ("blocking", "idle_block", "hold_block",
  "held") are steps of their own and `grant_access` / `arm` need it free.  The
  destructor's store and notification are two steps without the mutex, as in the
  code.  A pulse takes the worker of the gate three steps, the load of `stop_`
  (`ClosingTest`, `OpenTest`), the clock (`ClosingClock`, `OpenClock`) and the line
  (`ClosingEdge`, `OpenEdge`): the stop may come between any two of them.  A
  `time_point` is kept as the time left until it: all the code does with
  it is to compare it with `now()`, so the clock needs no bound.
* **Recognition.** Each way through an iteration is an action: `Blocked`,
  `NoDetection`, `Stabilizing`, `EmbedFailure`, `Grant`, `SameEmployee`, `Deny`,
  `StillUnknown`; `Tick` is time while the loop sleeps or beeps; `Move` is the
  environment.  A `time_point` is kept as its age, cut off where no comparison
  tells the difference.  `settings` is the configuration, chosen at the start.
* **Door, implemented by Turnstile.** `Turnstile!ImplementsDoor` is `DoorSpec` with the
  mapping: closed is "the closed angle was commanded for all of `kCloseHoldMs` since
  the last open pulse", powered is "the worker neither sleeps nor has ended",
  granted is "the window lasts", retired is "no" until `stop_` is stored, then "asked",
  and "yes" once a pulse has begun after it.  The worker's locals, its pulses and its
  position between them disappear.  The door of a program that ends may stay open.
* **Camera.** `ReadBegins` and `WriteRow` are `cap.read` into the buffer that the local
  `frame` names, which after `Publish` is also `latest_frame_`'s: the assignment of a
  `cv::Mat` copies no pixels.  `CloneBegins`, `CopyRow`, `CloneEnds` are `capture()`,
  under the mutex that `Publish` takes and `WriteRow` does not.  `ReadHangs` is a
  source that falls silent: `cap.read` has no timeout.
* **Matcher.** A search is a step per entry (`Compare`); `Upsert` and `RemoveId` need the
  mutex, so they wait for its end.  `IsLess` is `<` of floats: false if a side is NaN.
* **FaceVision.** One iteration goes through `Detect`, `Align`, `Embed`; each may end
  in one of the code's returns or throws, and the session keeps its last outputs.
  `Similarity` is the code's transform, multiplied by the divisor.
* **StageProfiler.** `Record` is `record` with all it calls (`append_csv_row`, `push`,
  `emit_summary`); `DestroyProfiler` adds the last summary; `Construct` opens the CSV
  file again, with a header only if it is new.  The sorted window is given by the place
  each timing takes (`Position`, `Ascending`), the total by its five terms (`Total`).
* **Configuration and Facegate.** `Load` takes any of the files, `Construct1` and
  `ConstructorThrows` go through the declarations of `main` in their order,
  `AskToStop`, `ThreadEnds`, `Destroyed` through the destructors in reverse.
* **Evaluation.** `BeginScale`, `Enroll`, `QueueImpostors`, `Probe`, `EndScale` and
  `BeginPairs`, `EmbedImage`, `WritePair`, `EndPairs` are the loops of the two modes;
  `EvaluationFails` is an exception, or an output that cannot be opened, in any of them.
* **Enrollment.** `EnrollStarts` deletes the old rows first unless `--append`;
  `NextId` is SQLite's rowid; `SyncUpsert` and `SyncRemove` are the first call of
  `on_message`, on the table, for an embedding under the id PostgreSQL gave it
  (`Assign`), and `SyncMatcher` the second; the enrolment program writes between them.
* **Analytics.** `Page` and `LastPage` are one request of `fetchGrantedEvents` and its
  answer, any order of the rows that `ORDER BY timestamp_ms DESC` allows; `Delay` is the
  SQL expression, with SQL's `MOD` written out (`SqlMod`).  The panel's sort is stable:
  equal rows keep their order (`Place`).
* **Employees.** `Read` is everything before the UPDATE, `Save` the UPDATE and its
  `RETURNING`; between them other requests run.
* **EnrollmentWizard.** `Capture` / `Captured` and the uploads are the two sides of an
  `await`; `UploadFails` may have stored the capture.

libmosquitto, mosquitto, rumqttc, `std::condition_variable` and the clock are not
part of the repository; their actions are modelled from how the code uses them
and marked external in the map.

## What the runs show

| Run | Question | Result |
|---|---|---|
| `event_delivery` | two messages, any two faults | no loss by network failure, no double insert without a cause, drain in order |
| `event_delivery_live` | fairness, one fault of the device | the backlog drains; every event is stored unless the code gave it up |
| `event_delivery_stop` | "Nenhum evento é perdido" (`docs/Entrega.md:58`) | violated: a clean stop drops what `publish()` accepted |
| `embedding_sync` | two employees, two embeddings, two overlapping requests, any fault | matcher = SQLite; enrolments are retained and arrive; revocations arrive unless a listed fault happened |
| `embedding_sync_live` | fairness, a client that accepts one message at a time | requests are answered, enrolments and revocations take effect |
| `embedding_sync_race` | the comment of `DELETE` (`employees.rs:257`) | violated without any fault: an embedding created meanwhile is never tombstoned |
| `turnstile` | prompt threads | every grant opens for the time it asks for, less what was left of the closing phase it fell on; the worker sleeps only after a whole closing phase; at most one pulse begins after the stop; all of it implements `Door`: it opens in a window only |
| `turnstile_stop` | the destructor unblocks the wait (`DESIGN.md:198`) | violated: the notification can be missed, `join()` hangs |
| `recognition` | times in the order of the defaults with every glitch, and `idle_reset` above window + stabilization | decisions only on steady faces, Unknown is throttled; an employee who stays is let in (`ServedInTime`, first setting) and gives one event (`OneGrantIfIdleIsLong`, second setting) |
| `recognition_stay` | the same at the default order (`DESIGN.md:527`) | violated: she is granted again after every window |
| `edge_parts` | seven parts of the edge programs, each alone | LED: the last command is shown, then it goes off, none is slept on. Camera: a clone is never older than the frame published last, the destructor returns unless a read hangs. Profiler: every cycle in one summary, right percentiles. Matcher: the nearest below the threshold, an id once. Vision: the embedding of this frame's face, eyes where the model wants them. facegate: no dangling reference, SIGINT and SIGTERM skip no destructor once the pipeline runs (an ordinary stop may still leave the gate open, see below), pins distinct, defaults valid. Evaluation: sound and complete rows |
| `administration` | four parts around the gate, each alone | two writers of the embeddings table diverge only where ids meet, and the matcher from the table in the row in hand; the export misses no event; a delay is from the nearest start of the shift (half a day from two, either); an update is lost only to one that overlaps; the wizard's uploads add up |

The two orders of `idle_reset` and `servo_open_ms` are a choice between two defects.
With the window longer (the defaults, 5 s against 3 s) the branch "same employee" of
the code is never reached and an employee who stays is granted again and again.
With the idle reset longer, an employee who leaves and comes back before it has
passed is taken for the same stay and not let in: `ServedInTime` is claimed of
settings with `hold >= idle` only, `OneGrantIfIdleIsLong` of the others.  The second
setting leaves out misread employees, which are another decision to the code and end
the stay.

Further disagreements seen in these models, on which no run is spent:

* a backend that dies between the acknowledgement and the INSERT loses the event,
  and an event of a deleted employee is refused by the foreign key: both are in
  `LossFaults` of `EventDelivery`, and either alone breaks `NoEventLost`;
* a tombstone published while the device is disconnected never reaches it, since
  the session is clean (`mqtt_subscriber.cpp:76`; the header says the opposite):
  `NoGhost` excludes the fault `link` for this reason, and `link` alone breaks
  `MirrorsCatalog`; so does a backend that dies between INSERT and publish;
* with delays (`Prompt = FALSE`) a grant between the last read of `open_until_` and
  the end of the copied window is followed by a closing phase in mid-window;
  with `servo_open_ms` at or below 500 a grant in the closing phase never opens;
* the streak of `main_loop` belongs to any face: who replaces another person
  within 300 ms is decided upon at once;
* a stop in an open window leaves the gate open: `~Turnstile` stores `stop_` before it
  joins the worker (`turnstile.cpp:87`), so the closing phase is skipped (line 141) and
  "the servo just stays where the last open pulse left it" (line 193).  The destructor
  switches the servo off, which is all that `DESIGN.md:198` promises; no property says
  that the gate is closed when the program ends, and `Door` lets it end open;
* SIGHUP ends the program at any time without its destructors, though `DESIGN.md:650`
  says it is treated like SIGTERM: `main` installs handlers for SIGINT and SIGTERM;
* `RgbLed` has the lost wakeup of `Turnstile` at shutdown (`rgb_led.cpp:89`);
* a frame may be torn: `latest_frame_ = frame` shares its pixels with the next
  `cap.read`, which writes them without the mutex while `capture()` clones them
  (`docs/CODE_GUIDE.md:247-250` has one slot "protegido por `frame_mutex_`").  That is
  why `FrameIsCurrent` allows parts of two frames, and no more;
* while the camera fails `capture()` goes on returning the last frame, of any age
  (`has_frame_` is never reset); and when a source on the network falls silent inside
  `cap.read`, `~Camera` waits in `join()` until somebody kills the process, a cost that
  `DESIGN.md:199` accepts: `DestructorReturns` excludes that case and no other;
* `vision.threshold = nan` passes the validation (`config.cpp:152`, "must be between 0.0
  and 2.0") and then rejects nobody: `dist >= threshold_` is false;
* with GPIO off `servo_open_ms` may be 0 or negative, although the pipeline uses it as
  its window; a value of the wrong type is silently replaced by the default;
* with the CSV on and no summary interval the profiler's windows grow for ever;
* enrolment without `--append` deletes the old embeddings before it knows that the
  camera opens; a running facegate sees nothing of it until it restarts, and ids of
  PostgreSQL may replace the rows written; `README.md:204` says facegate publishes them
  at its next start, and nothing does;
* the evaluation's `--max-impostors -1` takes every candidate, and its header
  (`eval/main.cpp:13-17`) has every remaining image as a probe where a cap of 5 applies;
* two overlapping PATCH requests of one employee lose one's fields, also those the
  second did not send (`employees.rs:193`);
* an export may hold an event twice when others arrive between its pages, and events
  of one millisecond may be missed; `analytics.rs:186` (in the API's own description)
  and `:213` give the delay's range as (-12 h, +12 h] where it is [-12 h, +12 h): at
  half a day from two starts `DelayFromNearestStart` leaves the sign open;
* a retry of the wizard stores again what the first attempt had stored; a capture
  still being processed at the click on submit is left behind; closing the wizard
  ("without uploading anything", `enrollment-wizard.component.ts:238`) leaves what an
  earlier attempt stored.

## Bounds

* `EventDelivery`: `MaxEmit` 2 with `BatchSize` 2.  Two messages are what an order
  can go wrong with, and a batch of two is one that can fail in its middle.  Two
  faults let a fault hit the recovery from another; the safety run leaves out
  `send` and `stop`, which act like `link` and `crash` there, and the liveness run
  has both.
* `EmbeddingSync`: two request slots are two requests that overlap; two ids and
  two employees tell "the wrong embedding" from "the wrong owner"; `ClientCap` 2
  (safety) and 1 (liveness) make `publish().await` wait.  Employees and slots are
  interchangeable, so the safety run uses their symmetry; the liveness runs use none.
* `Turnstile`: Hold 6 > Close 3 + Pulse 2, as 5000 ms are far above 500 ms.
  `RgbLed`: 3 and 2 ticks for the two colours.  There is no bound on the number of
  calls or on time.
* `Recognition`: the times keep the order of the defaults with one or two ticks
  between neighbours.  `Patience` 25 is the sum of the longest things that can
  keep the loop from an employee (window, stabilization, cooldown, beep) plus 4;
  24 fails.  Two employees and a stranger, since the loop remembers one decision;
  a glitch never happens in two consecutive iterations.  The second setting has the
  idle reset one tick above window + stabilization + grace.
* `edge_parts`: two rows and three reads are one frame published, one being read and
  one after it.  Four cycles in windows of 0, 1 and 3 leave an unfinished window; two
  processes append to one CSV file.  Two ids and two owners, with vectors at distance
  0, below and at the threshold, infinite and NaN, are every outcome of a comparison.
  The files set each field to a value outside each end of its range, at it and inside,
  and leave out each section.  Four identities with one to three images, of which any
  may fail, with caps of one probe.
* `administration`: four ids, two photos, two embeddings from the backend: enough for an
  id to be taken from either side.  Six events with pages of two and limits of one and
  three, two of one time; a day of eight units with shifts that start near its end and
  its beginning.  The two employees of the enrolment are interchangeable, and the run
  uses their symmetry.  Two PATCH requests and a DELETE; three captures and two attempts.

## Fairness

* The threads of the device, the network client and the backend task run:
  weak fairness on each step.  The two branches of a step that may fail
  (`BackendHandle \/ BackendFail`) are one fair action: nothing says which is taken.
* `OnConnect` is weakly fair: both MQTT clients reconnect by themselves
  (`reconnect_delay_set`, `loop_start`; rumqttc's `poll`).
* No fairness for faults, for requests, for people, or for `main_loop` having
  something to report.
* `Arm` and `ArmWindow` are strongly fair: the worker holds the mutex for moments
  only, and a mutex that is free again and again is given to who waits for it.
* `Tick` is weakly fair: time passes.
* `Camera`: a `cap.read` that does not hang returns, and both threads run; whether one
  hangs (`ReadHangs`) is left open, and nobody has to capture or to destroy.
* `Door` promises no more than `Settles`: once there are no more grants it is closed for
  good (unless the program ends) and its servo off again and again.

## What is proved

Each theorem holds for every value of the constants that satisfies the named
assumptions of its module (TLC evaluates them in every run) and, where one is given,
the hypothesis in the theorem.

| Theorem | States | Argument |
|---|---|---|
| `TypeCorrect`, `SyncTypeCorrect`, `TurnstileTypeCorrect`, `RecognitionTypeCorrect`, `LedTypeCorrect`, `MatcherTypeCorrect` | `[]TypeOK` | inductive, action by action (`EventDelivery` with the type of its history) |
| `EdgeIsTyped`, `AdministrationIsTyped` | the types of all parts of the two composed models | a behaviour of the parts together is a behaviour of each (`EdgePartsImplemented`, `PartsImplemented`), whose type is inductive |
| `NoLoss_OnNetworkFailure` | no event lost by network failures | `DeliveryInv`: a thread holds its message until it is published or stored (`MessageInHand`), a row is only deleted by its own id (`RowInHand`), and what was sent or is being deleted is safe downstream (`LastCopyKept`); without the last two an acknowledgement or a delete could remove the only copy |
| `EventsStoredOnce` | no event stored twice, unless a connection or an acknowledgement was lost, a delete of the drainer failed or the process crashed | `OneCopyInv`: a message is in one place of six (thread, row, client, inbox, handler, table) and once in it, until a fault copies it; a new message is new to all of them |
| `RowsLeaveInOrder` | a drain publishes the oldest row first | `BatchInv`: the batch in hand is still in the table, sorted, and older than every other row, since the ids of rows inserted meanwhile are larger |
| `MatcherFollowsStorage` | matcher and SQLite differ at most in the embedding in hand | `MatcherInv`: without a subscription nothing is on the wire, without a process nothing is applied |
| `EnrollmentStaysRetained` | every row is retained, in rumqttc or with its handler | `SyncInv`: ids are never reused, so a tombstone in the queue can only be for a row that is gone (`ClientConsistent`, `HandlersConsistent`), and what was sent has been retained |
| `DeviceAgreesWhenQuiet` | the device and PostgreSQL agree when nothing is under way | `CatchUpInv`: an embedding the device lacks is on its way to it (`UpsertUnderway`); a deleted one it may hold has its tombstone behind every upsert in the one queue that leads to it (`RevocationUnderway`), which only an overlap (`OverlapIsRecorded`) or a second session (`FirstSession`) could turn round |
| `GrantIsNotLost` | no wakeup of a grant is lost | `WindowInv`: the worker that found no window still holds the mutex, and its copy of the window is never later than the window |
| `StopEndsThePulses` | at most one pulse begins after the stop | `StopInv`: a pulse after it is the one the worker had been cleared for (`Cleared`) when `stop_` was stored, and the next load of `stop_` ends the loops |
| `GateRestsClosed`, `GrantOpensLongEnough` (if `Prompt`) | the worker sleeps only after a whole closing phase (nothing is said of one that ends); a grant opens for `Hold` less what was left of the closing phase it fell on | `RestInv`: time closed plus time left of the closing phase is `Close`; `OpeningInv`: time open, what is left of the window and what that grant was owed make up `Hold` |
| `TurnstileImplementsDoor` (if `Prompt`) | `Gate!DoorSafety`: initial state and every step, the stop included | from `WindowInv` and `RestInv`, one step of `Door` or a stutter for each action |
| `DecidesAfterStabilization` | decisions only on steady faces | `StreakInv`: the streak of the code is never older than the history of faces in view |
| `UnknownsAreThrottled` (if `IdleOutlastsDenial`) | one Unknown per throttle and stay | `ThrottleInv`: while the throttle runs the loop remembers the denial, because the next match is due (`MatchDue`) before `idle_reset_` |
| `OneGrantWhenIdleIsLong` (if `Grace >= 2`) | one grant per stay | `GrantInv`: after the grant the face is seen again before `idle_reset_` forgets the employee |
| `EmployeesAreServed` (if `StaysLongEnough`) | who stays is let in within `Patience` | `ServiceInv`: the stay so far plus what may still keep the loop away stays below `Patience` (`GrantDue`), whoever the loop remembers (`ForgotBeforeMatch`) |
| `CommandsAreFollowed` (`CommandIsNotLost` and `LightIsRight`) | no command slept on; the LED shows the last command | `LightInv`: the last command is in the shared variables until taken, then in the worker's locals; the worker waits for the next one only with the LED off and the time over |
| `SearchReturnsTheNearest` | `find_match` returns the nearest below the threshold, or none is | `SearchInv`: `best` is the least distance of the entries done and belongs to one of them; a search holds the mutex, so the entries it has compared are still there when it returns |
| `CacheHoldsAnIdOnce` | an id is in the cache once | inductive with the type: an upsert replaces or appends a new id, a remove keeps the order of the others |
| `FramesAreCurrent` | a captured frame is no older than the one published last | `CameraInv`: the loop is at most one read ahead, and the rows it has not written yet in this read are of the frame published last |
| `EmbeddingsAreSound` | the embedding handed on is of this frame, its eyes in place | `VisionInv`: each local holds the output of its stage for this iteration; that the transform puts the eyes where the model expects them is a polynomial identity (`EyesInPlace`) |
| `ProfilesAddUp` | every cycle in one summary, its percentiles right | `ProfilerInv`: the windows hold as many timings of each kind as there were cycles since the last summary; the timing at a sorted place is a quantile (`PickIsQuantile`) |
| `ProgramStartsAndEndsSafely` | nothing is used after its destructor; SIGINT and SIGTERM run the destructors once there is a pipeline | `ProgramInv`: what is alive is a prefix of the declarations, and its threads run only with it |
| `ReportsAreSound` | rows labelled right, no image probed twice, a share of probes per identity | `EvaluationInv`: of an enrolled identity exactly its share of images is queued, written or skipped (`SharesAreKept`) |
| `WritersDivergeNoFurther` | matcher cache and table differ only in rows the enrolment touched and in the row in hand | `EnrollmentInv`: the row in hand is in the table as `on_message` holds it unless the enrolment has touched it since; each write of the enrolment adds its row to what it touched |
| `ExportsKeepTheNewest` | an export misses no row it should have | `ExportInv`: a row there at the beginning has come, or its rank is behind what has come |
| `DelaysAreFromNearestStart` | the delay is the distance from the nearest start | arithmetic: the delay differs from the time by whole days, and is within half a day |
| `UpdatesAreKept` | an update is lost only to one that overlaps it | `UpdateInv`: a handler's copy is the row with the fields of its body, until another saves in between |
| `WizardUploadsAddUp` | the wizard reports only stored captures | `WizardInv`: the uploads are of the captures the wizard still holds, in their order (`ShotsKept`), and what the progress counts is stored (`ProgressIsStored`) |

No theorem bounds the number of faults, messages, requests, sessions, embeddings,
colours, vectors or distances.  The hypotheses, each true of its run's constants and of
the code's defaults:

* `Prompt`: a thread that can run does so before time passes.  What a delay does to
  the gate is under "Further disagreements"; the theorems without it hold of any delay.
* `Grace >= 2`: `kStreakGapGrace` (300 ms) bridges one failed frame.  `IdleOutlastsDenial`:
  `idle_reset_` (3 s) is longer than the cooldown (1 s) and a stabilization (0.7 s).
* `StaysLongEnough`: the same relations of throttle, idle and window, and a `Patience`
  above the sum of the longest waits.  `Patience` is no constant of the code.
* `AnalyticsAssumption`: the pages suffice for a limit (`MaxPages * PageSize`); the
  panel has 50 pages of 200 rows for a limit of at most 1000.

`CatchUpInv`, the largest of the invariants, was checked by TLC with the bounds of the
run `embedding_sync` before it was proved; it found the condition on the first session.

So every invariant and every safety property that a run checks has a theorem.  Only
model-checked: liveness, which is outside the prover's reach, and with it the liveness
half of `ImplementsDoor`.

## Not modelled

* The neural networks and the pixels: what they put out is the environment of
  `FaceVision` and `Recognition`.
* Serialization, topics, logging and layout: text, checked by unit tests.
* Buzzer: a GPIO line; that it blocks its caller is in `Recognition` (`Beep`).
* Authentication, users, the panel's session: a token that a stateless server checks,
  one statement per route.  That a late 401 ends a newer session is listed as a hazard:
  nothing in the code prevents it, so no property holds of it.
* Creating and listing employees, the counting reports, system status: one statement.
* The pages of the panel but for the export and the wizard: they call the services and
  reload their list, whose answers nothing orders.
* Start of the backend, connection pool, migrations and deployment files.

`PROJECT.json` gives the reason for each component.

## Plan

1. `Gate`: `Recognition`, `Turnstile` and `RgbLed` composed: what a person in front of
   the gate sees.  A grant comes as the previous window ends, so it meets the closing
   phase.
2. Abstract specifications: `ReliableLog` (an event is produced, then stored, or given
   up) implemented by `EventDelivery`; `Mirror` (a set and a copy that catches up)
   implemented by `EmbeddingSync` under its conditions.
3. Proofs: with 1 and 2, that the compositions are behaviours of their parts, and the
   safety half of each refinement, step by step, as for `Door`.
