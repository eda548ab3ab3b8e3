# FaceRecogAttendance in TLA+

The service watches one camera, recognises employees who raise a hand, publishes a
punch to RabbitMQ, and a consumer writes the punches into the attendance table of
an ERP system. These modules specify all of it that has state or a decision in it: the
consumer with its broker and tables, the recognition pipeline and its tracker, the camera
loop, the enrolment of employees and its cache, the reporter, the process from boot to
shutdown, the sockets that show the camera, the downloader of the models, and the
algorithms that pick a name, a rate or a hand.

## The system

| Component | State | Operations | Interacts with |
|---|---|---|---|
| Attendance policy (`attendance_consumer/policy.py`) | none | `decide`, `to_local`, `format_date`, `format_datetime` | called by the writer |
| Attendance writer (`writer.py`) | none of its own | `handle` one message | policy, MySQL client; raises permanent or transient failures to the consumer |
| MySQL client (`mysql.py`) | connection, employee cache | `day_rows`, `lookup_employee_id`, `insert`, `update` | the ERP's two tables, which others write too |
| Consumer (`consumer.py`) | attempt counts, stop flag, channel | consume, dispatch, ack, retry, dead-letter, stop | broker, writer |
| Runner and entry points (`runner.py`, `factory.py`, `__main__.py`) | thread | start, stop | consumer, container |
| Reporter (`attendance_reporter/`) | one connection for all threads, a lock | `report` with retries, `close` | broker; called by MarkAttendance on a pool of threads |
| MarkAttendance and suppressor | last report per employee | `mark`, `check_and_record` | process, reporter |
| Face tracker (`face_recognition/tracker.py`) | tracks with votes and misses | `update`, `vote`, `expire` | process |
| Recognition process (`process.py`) | none but the tracker | `process_frames` | detector, palm, recogniser, tracker, MarkAttendance |
| Camera runner and hub (`camera/`) | thread, stop event, state, last frame | start, stop, loop, harvest | reader, process, hub, websocket viewers |
| Gallery, embedding cache, photo sources | current gallery; two files on disk | list, embed, load, save, swap | container, reload endpoint, camera |
| Face index and recogniser (`ai/faiss/`, `face_recognition_handlers.py`) | the rows of the gallery | rebuild, search, match | process, gallery |
| Palm scan (`palm_detection_handlers.py`) | none | `scan_regions`, score | process, `/webcam/ws` |
| Container and lifespan | lazily built singletons, one lock | build, start, requests, shutdown | everything |
| Websockets (`endpoints/websocket.py`) | per page: numbers seen; debounced badge | poll, send, scan | hub; recognition process |
| Rate limiter (`core/security.py`) | hits per client | `allow` | endpoints, on a pool of threads |
| Model download (`ai/_download.py`) | the file and its `.part` | fetch | started by hand; read by the loader |
| Evaluation (`services/evaluation.py`) | counters and scores of one pass | measure, report | detector, gallery |
| Settings, schemas, metrics, logging, debug page | none that matters | | |

What is hard, by component; `PROJECT.json` lists each hazard with its line.

* Consumer: every message can be delivered again, a write can commit and still look
  failed, the day is read in one statement and written in another, messages can
  arrive out of order, the table and the employee list change underneath. Correct
  means: two rows a day, the arrival kept, the departure the latest punch, nothing
  lost, nothing dead-lettered that could have been written, nothing stuck.
* Reporter: threads share a connection and tear it down behind one another. Correct
  means: what is reported as published is published, and a punch is given up only
  for a trouble of its own: an outage, a refusal, a connection that broke.
* Tracker and process: one punch per person and track, however scans are interrupted by
  early returns, by evictions, by a swapped gallery; agreement before a punch.
* Camera runner: start and stop against a loop that may outlive its join; a status that
  is true; a stopped camera shows nothing; a stop comes back.
* Gallery: a kill, or a write that fails, between two file replacements must not pair one
  employee's vectors with another's name; vectors of other models or of an older photo must
  not be served, although photos and model files change while the process runs.
* Container: the models are loaded once whoever asks first; shutdown must end although
  it waits for threads that wait for its lock.
* Viewers: a page knows what it has seen by a number only.
* Limiter: hits may reach the deque out of order.

## The modules

| Module | What it is | State | Actions |
|---|---|---|---|
| `PunchPolicy` | `policy.py` as operators on the rows of a day | | |
| `AttendanceConsumer` | consumer, writer, MySQL client, broker queue and tables | see below | see below |
| `DayLedger`, `ConsumerLedger` | abstract: what the reader of the table is promised; and the consumer's table as such a ledger | | |
| `FaceTracker` | `tracker.py` as operators on a function from live ids to tracks | | |
| `RecognitionProcess` | `process_frames` step by step, `attendance_handlers.py`, the suppressor, and the people in front of the camera | `tracks`, `nextId`, `scan`, `queue`, `recorded` | `Detect`, `ContinueTrack`, `OpenTrack`, `LoseTrack`, `Gate`, `Vote`, `Mark`, `Retire`, `SwapGallery`; people `Move` and `Leave` |
| `CameraRunner` | `runner.py`, the hub's slots, start and stop | `control`, `thread`, `stopping`, `state`, and of each loop `pc`, `reader`, `scan`, `seen`, `pipeline`; `hub` | `Start`; the five steps of `Stop`; the loop's `Top`, `OpenSucceeds`, `ReadFails`, `Compare`, `Build`, `PublishFrame`, `HarvestAndSchedule`, `Wake`, `Close`, `ReportDead`, `Die` and their alternatives |
| `GalleryBuild` | `photos.py`, `gallery.py`, `embedding_cache.py`, the two threads that build | `photo`, `files` and `models`, `vectors`, `manifest` and their `tmp`, `gallery`, `build` | `LoadModels`, `TakeFingerprint`, `List`, `LoadManifest`, `LoadVectors`, `Embed`, the four steps of a save, `SaveFails`, `TakenAway`, `Serve`, `BuildFails`; `Reload`, `Restart`; the world's `Edit` and `Deploy` |
| `Reporter` | `rabbitmq.py`: publishes that share a connection | `broker`, `connection`, `pc`, `attempt` | `Begin`, `Published`, `NotPublished`, `Nacked`, `DeclareFails`, `ConfirmLost`, `Teardown`, `Wake`, `Close` |
| `Lifecycle` | `main.py`, `container.py`, the endpoints that reach it, its threads | `lock`, `loaded`, `pc`, `stop`, `closed` | boot, `UseModels` to `EndLoad`, requests, consumer steps, shutdown with its joins |
| `Viewers` | `hub.py` and `/camera/ws`, `/camera/stream` | `hub` with its numbers, `viewer` | `PublishFrame`, `PublishDetection`, `Clear`, `TakeSnapshot`, `SendFrame`, `SendDetection`, `Connect`, `Disconnect` |
| `Webcam` | `/webcam/ws` and `PalmDebounce` | `reported`, `pending`, `badge` | `ReceiveFrame`, `SendPayload` |
| `ModelFiles` | `_download.py`: inodes and names | `dest`, `part`, `content`, `handle` | `Check`, `Open`, `Write`, `EndStream`, `Replace`, `Unlink`, `Fail`, `Kill` |
| `RateLimiter` | `RateLimiter.allow` on several threads | `hits`, `waiting`, `clock` | `ReadClock`, `Serve`, `Refuse` |
| `FaceIndex` | search, grouping and the two gates | `index`, `answer`, `name` | `Rebuild`, `Lookup`, `Group`, `Match`, `NextFace` |
| `Evaluation` | the pass over labelled frames and the rates | `genuine`, `impostor`, the tables | `ReadFrame`, `Detect`, `ScoreFace`, `EndFrame`, `Finish` |
| `PalmScan` | the regions of a frame in which a hand is looked for | `next`, `best` | `Score` |
| `Services` | the reporter, container, viewers, downloader and camera, one per behaviour, with their constants | theirs | theirs |
| `Algorithms` | the limiter, index, evaluation, page, palm scan and camera, one per behaviour, with their constants | theirs | theirs |
| `MCAttendanceConsumer`, `MCRecognitionProcess`, `MCGalleryBuild`, `MCAlgorithms` | instances for TLC | | |
| `AttendanceConsumerProofs`, `ConsumerLedgerProofs`, `RecognitionProcessProofs`, `GalleryBuildProofs`, `CameraRunnerProofs`, `LifecycleProofs`, `ServicesProofs`, `AlgorithmsProofs` | theorems for every value of the constants | | |

Operators named after a definition with a change in it (`DecideFirstRow`,
`OpenInPlace`, ...) stand before that definition and are used by nobody: they are the
mistakes that `PROJECT.json` names for each property, and that the property finds.

### PunchPolicy

Time is counted in ticks, `SecondTicks` to the second, so that the half second that
`format_datetime` drops is visible to the gap check, which compares an untruncated
punch with truncated rows. The rows of a day are a function from row id to stored
time; `Precedes` is `ORDER BY log_date_time, id`, and `Decide` follows `decide` line
by line. The time zone is a constant shift; daylight saving, at which a local day
is not 24 hours long, is not modelled (the default zone, Asia/Kathmandu, has none).

### AttendanceConsumer

One message is handled in the steps between which others can move; `pc` says where
the thread is.

| Action | Code |
|---|---|
| `Connect` | `_consume` up to the loop |
| `Deliver` | the broker, under `basic_qos` |
| `Dispatch` | the loop body and `_dispatch` up to `handle`; `_require`, `_timestamp`, `_resolve_camera` decide `Rejected` |
| `LookupCached`, `LookupQueried` | `lookup_employee_id` with and without a fresh cache entry |
| `Read` | `day_rows` and `decide` |
| `InsertRow`, `UpdateRow` | `insert`, `update`: committed, then seen to succeed or to fail |
| `UpdateTouchesNothing` | `rowcount` 0, the `PermanentFailure` after `update` |
| `DatabaseFails` | `TransientDatabaseError` before anything was committed |
| `Ack`, `Retry`, `Nack`, `Bury`, `BuryAck` | `basic_ack`; `_retry` before and after its sleep; the two halves of `_dead_letter` |
| `Stop`, `Halt` | `stop`, and the loop seeing the flag |
| `DropLink`, `Crash` | the connection, or the process, goes |
| `Publish`, `PublishAgain` | `report`; again after a lost confirm |
| `Replay`, `DeleteRow`, `ChangeStaff` | the operator and the ERP |

Settling on a dead channel raises, which ends `_consume`; the broker then has the
delivery back already (`LeaveBroken`). `attempts` is `_attempts`, with 0 for no entry;
its key is the message id, or the delivery tag for a copy without one, which is what
`_dead_letter` publishes. Abstracted: the lengths of sleeps and backoffs (any
interleaving may happen during them), the age of a cache entry (`LookupCached` and
`LookupQueried` are both possible), columns that are only carried along, and
redeclaring the queue. `published`, `applied` and `failures` are history that the
properties speak about and no guard of the program reads; `spent` holds the bounds.
There is one consumer, as `mysql.py` requires.

`InOrder` distinguishes one camera, whose punches reach the queue in capture order,
from several. `LossyDeadLetter` says whether a publish to the dead-letter exchange
may be lost on a live channel (no exchange configured, or the publish raised).

### DayLedger and the refinement

The reader of the table sees, per employee and day, an arrival and a departure. The
ledger lets an arrival be written once and a departure be written and moved forward by
the gap at least. `ConsumerLedger` maps each day's rows, in the order the day query
returns them, to a sheet. With one camera the consumer implements the ledger; every
retry, redelivery, crash or duplicate is a stutter or one legal entry.

### FaceTracker and RecognitionProcess

A box is its left and right edge, since heads in front of a fixed camera are at one
height; a score is a fraction, compared by cross-multiplication. What the models see is
a choice: which of the people present are found and in which order, who looks and raises
a hand, whom the gallery names. One action is a step of `process_frames` after which the
event loop, the people or a gallery swap may intervene. `update` is taken apart because
a scan can be lost in the middle of it (`LoseTrack`), and the assignments made so far
stay. `Finish` is the one place where a scan ends; a gallery that was swapped meanwhile
brings a new tracker there. `cast`, `reports`, `gen` and `crashes` are history. The
lengths of the windows (votes, misses, suppression) are counted in scans.

### CameraRunner

Every start makes a loop on a thread of its own and a state of its own; the loops share
one stop event and one hub, which is what the properties are about. A loop's `pc` is
between two statements at which a stop, a swap or a scan can matter. A scan is a task
on the loop's own event loop, so `ScanEnds` is possible only where the loop awaits.
`abandoned` is history: the loops whose join was given up.

### GalleryBuild

Two threads build: the one started at boot and the one of a reload. Taking the fingerprint,
listing, the two reads of the cache, embedding, the four steps of a save and the swap are
actions of their own, and a kill may come between any two (`Restart`). A photo is the number
of its edition, and a vector tells whose face it is of, from which edition and through which
models.

The models of a process are those it loaded once (`models`, `Container._models`), whoever
needed them first; the fingerprint is of the files as they are at each build (`files`,
`TakeFingerprint`), so that with `Deploy` the two may differ. `save` gives up at the first
`OSError` and swallows it: `SaveFails` may do so at any of its four steps, with the temporary
file left as it was or cut short (`CutShort`, which no load accepts as vectors or as a manifest
of anything), and `TakenAway` is the case in which the other build has moved the file.

Two variables are history. `misnamed` has the editions of the files a build took a fingerprint
of while its process had others loaded; `mixed` says that a build took the vectors of one
save and the manifest of another for one cache (each file carries the number of its save,
which no step reads). The properties name them where the code fails, so that they speak of
everything else. The formats of manifests and directory pages, retries of a download and the
order of files in a directory are abstracted to what is listed and what can be fetched.

### Lifecycle, Reporter, Viewers, ModelFiles

`Lifecycle` has one program counter per thread (`main` is the event loop) and the one
reentrant lock. `Stuck` says when a join may give up: the thread joined waits for that
lock, sleeps, or is in a load. `Reporter` takes `report` apart where the lock is
released: after an attempt that raised, before the teardown. An attempt raises when there is
no broker or the connection has gone (`NotPublished`), when its confirm is lost
(`ConfirmLost`), when the broker refuses the message (`Nacked`), or when the exchange or the
channel cannot be set up on a connection that could (`DeclareFails`); the last two with a
healthy broker. A report may begin, and connect, after `close`. In `Viewers` a send is an
action, so the camera publishes while one is awaited. In `ModelFiles` a name is a pointer
to an inode, so that two runs that share `.part` do to one another what a file system
lets them.

### FaceIndex, Evaluation, PalmScan, Webcam, RateLimiter

These are algorithms over bounded inputs. A cosine is an integer, a width a number of
pixels, a hand a square. Each is compared with a definition that does not follow the
code: the best K employees of a gallery, a winner with a margin, the counts of people
wrongly rejected and accepted, a run of equal scans, a hand that fits the pads.

`FaceIndex.Rebuild` may come between a lookup and its grouping, as the interface of the index
allows and a test of the repository exercises (`tests/test_faiss_index.py`); the service itself
rebuilds an index before it is served and never again. `RateLimiter` has the one limiter
of the process: that `rate_limit` can make one of an endpoint's own is left out, because no
endpoint asks for it.

## The properties

| Property | What it says |
|---|---|
| `TypeOK`, `TypesOK` | types; that a tracker holds only ids it gave out, and a vector is of a photo that was there; what a loop, build or thread that has ended no longer holds |
| `TwoRowsPerDay` | no third row for an employee and day |
| `DeliveryInHand` | what the thread works on, and settles, is the oldest delivery of the channel that is open |
| `RedeliveryChangesNothing` | no message that was written gets to a second write |
| `ArrivalIsEarliest` | for every written punch the day has a row that is not later |
| `DepartureIsLatest` | for every written punch the day has a row that is not earlier |
| `RowsComeFromPunches` | each row is exactly what a punch wrote |
| `NothingLost` | a published punch waits, is parked, is written, or is within the gap of one that is |
| `BuriedOnlyIfHopeless` | what goes to the dead letters could not have been written, or used up its attempts |
| `EventuallySettled` | a waiting message does not wait for ever |
| `ImplementsLedger` | refinement of `DayLedger` |
| `AgreementBeforePunch` | as many scans of the track named the employee as must agree, and none in between named another |
| `OneTrackPerFace` | two faces of a scan are never one track |
| `OnePunchPerTrack` | a track is reported once, through evictions and failed reports |
| `UntornGalleryIsRight` | whoever is served is served with their own face, until two saves are taken for one cache |
| `GalleryIsOneModel` | no vector of other models is served, unless a cache was named after these files by a process that had others loaded |
| `GalleryIsFresh` | what is served is of the edition listed or a later one, if its version was told, until two saves are taken for one cache |
| `ReachableAreEnrolled` | a photo that cannot be read costs that photo only |
| `ConfirmedMeansDelivered` | the broker has a punch reported as published, once more for each confirm that was lost |
| `FailsOnlyInTrouble` | a report fails only if, while it tried, the broker was down or refused it, or a connection broke |
| `ModelsLoadedOnce` | whichever threads ask first |
| `OneAfterStop` | a consumer told to stop takes no further message, though its join is given up |
| `ShutdownEnds` | although it joins threads that need the lock it holds |
| `SeenMeansShown` | a page that has seen the current number was shown the current picture |
| `LatestReachesPages` | a picture that stays in the hub reaches every page that stays |
| `ResolvedIsWhole` | the file under a model's name is whole, unless runs overlapped or short streams are not noticed |
| `StopReturns` | a caller of stop comes back |
| `SwapReachesCamera` | a running camera's pipeline gets the newest gallery, whenever the swap came |
| `AtMostOneLoop`, `StatusIsTrue`, `StoppedHubIsEmpty` | of loops that no stop gave up on |
| `WindowIsBounded` | the limit, in every window less the lag of the threads |
| `AnswerIsTopK`, `NamedAfterClearWinner` | the search, and the name, against their definitions |
| `ReportIsTrue` | tables that add up, rates of people, the lowest threshold that meets the target |
| `BadgeIsLastConfirmed` | the badge is what the last run of equal scans said |
| `HandIsSeen` | a hand that fits the pads is seen wherever it is |

Some of them carry a condition (`~mixed`, `models \in misnamed`, `abandoned = {}`, `Checked /\ ~overlapped`,
`Retries > 1`): without it the code does not keep them, and "Known deviations" says how.

## The runs

| Run | What it shows |
|---|---|
| `in_order` | one camera, prefetch 1, a message that is no good, one fault, one duplicate, dead letters that may be lost: the ledger is implemented, redelivery is a no-op, the departure is the latest punch, every message is settled |
| `any_order` | any order, prefetch 2: two rows a day, arrival kept, the delivery in hand is the one settled, nothing lost |
| `shared_tables` | two employees, a row deleted (the one to be updated, too), an employee hired or gone, a stop, an operator's replay: every row is its punch's, and a punch whose row went away is parked, not lost |
| `tracking` | two people half a step apart, a gallery that misses or confuses them and is swapped: agreement, one track per face |
| `crowd` | three people and room for two tracks, a failed report: one punch per track |
| `enrolment` | edits, outages, a reload beside the build at boot, newer model files at any time, a kill or a failed write anywhere |
| `services` | the reporter, the container, the viewers, the downloader, the camera with liveness |
| `algorithms` | the limiter, the search, the evaluation, the badge, the hand, and the camera when a join gives up |

`services` and `algorithms` check components that share no state in their modules
(`Services` and `Algorithms` compose them): the initial state says which component a
behaviour is about (`about`), the others stand still. A behaviour of such a run is a behaviour of one component and every behaviour of
each component is one of the run, so a property of the run is that property of each
component by itself, nothing less and nothing about their interplay. Fairness is given
to an action only in the behaviours that are about its component; in the others it is
not enabled.

Four runs show the program disagreeing with what its comments say; each is a finding in
`PROJECT.json` with the quoted line.

| Run | What happens |
|---|---|
| `late_duplicate` | once the check-out has moved on, a late duplicate of the punch it replaced is written again |
| `two_cameras` | the earlier of two punches arrives second, and the row inserted first is then updated |
| `evicted_in_scan` | a newcomer evicts a track that a later face of the same scan matched; the lookup raises, the scan is lost |
| `torn_cache` | a kill between the two cache files serves an employee with the vectors of another |

### Bounds

*Consumer.* A second is 2 ticks, the gap 4 ticks, a day 20 ticks, the zone is 3 ticks
ahead, and `MAX_ATTEMPTS` is 2 instead of 5. ann's punches in `in_order`, `any_order` and
`late_duplicate`: one whose half second is dropped, one exactly the gap away, one later; what
falls within the gap there is a redelivery or a duplicate. `MCAttendanceConsumer` also has a
time within the gap of another and one across local but not UTC midnight: no run has a punch
at the first, and the second is that of the message that is no good. Punches of such times
are covered by the theorems, which hold for all capture times and any zone. In
`shared_tables` and `two_cameras` punches are all far enough
apart, in `shared_tables` three of ann's and one of bob's. Three punches reach
every branch of the policy: insert, insert, update. One fault is enough to hit any step of a message, a commit without its ack
included; one duplicate, one replay, one deleted row and one staff change each meet every
state of the others. `MaxTag` bounds the deliveries on one channel and is above what two
attempts of these messages with one fault and one duplicate need when the key is the
message id. Without an id nothing in the program bounds redeliveries, and `MaxTag` cuts
the behaviours of `shared_tables` there.

*Pipeline.* Two overlapping spots and one apart give every outcome of the affinity:
overlap, near, neither. `ConfirmScans` 2 with three scans is agreement, disagreement,
and agreement across a scan without a name. Room for two tracks and three people is the
smallest crowd that evicts within a scan.

*Enrolment.* Two employees are enough to mix two up and, since one may leave, to have
lists of unequal length; three are needed for two lists of equal length and different
people, which is the torn cache. One fault (`MaxFaults`), a kill or a write that fails,
reaches every step of a build, and two builds beside one another every interleaving of
their files. Two editions of the model files (`MaxModels`) are the loaded one and another;
there may be a fault between a build that saw both and the next.

*Services.* Two threads and two attempts are enough for one to tear down the other's
connection; two refusals (`MaxRefusals`) are enough for a report to fail by them alone.
`MaxDetections` bounds the results published. Two starts make a second loop, two pictures a change, two runs an overlap.
Two messages of the consumer are one in hand and one after the stop.

*Algorithms.* Every gallery of up to two photos, and galleries with 22 photos of one
employee, more than the ten per employee that the pool would have without its second
term. Frames that the grid divides and frames that it does not. 14 messages of a page
are seven scans, three runs of two and a break in one.

**Deadlock** is not checked in any run: with every message settled, every bound used up or
after the shutdown the system rightly stops. What must go on is stated by the liveness
properties.

**Fairness.** Weak fairness of a thread that has something to do: the consumer's thread,
its connecting (`run_forever` loops until stopped), the broker's deliveries, the loop
seeing its stop flag (the `inactivity_timeout` ticks once a second); the camera's loop,
its scan while it awaits, and the steps of a stop; the container's threads and the
event loop; the poll of a connected page. The camera itself (`OpenSucceeds`,
`ReadSucceeds`) is assumed to work again and again, by strong fairness, for
`SwapReachesCamera`: with a camera that never opens no gallery is ever compared. Which outcome a
database access has stays open: it may fail every time. Nothing is assumed of
publishers, operators, faults, viewers that leave, or the ERP.

## Known deviations

Met while modelling, shown by no run of their own, each visible in a module: the code does
this, and a comment of it says otherwise. The properties above hold around them.

| Where | What the code does | What it says |
|---|---|---|
| `policy.py:92` | a punch replayed from the dead letters after later ones moves the check-out backward (`DepartureIsLatest` fails with `MaxReplays` 1) | `policy.py:11`, "so it always holds the latest punch" |
| `writer.py:122` | a row that vanished between read and update dead-letters the punch at once (`BuriedOnlyIfHopeless` fails with `MaxDeletes` 1) | `writer.py:120`, "let it be redelivered and re-decided" |
| `mysql.py:202` | "unknown employee" is cached for an hour, so punches of somebody just hired are dead-lettered (the same property, with `MaxStaffChanges` 1) | `writer.py:9`, a permanent failure "can never succeed" |
| `consumer.py:113` | a replayed dead letter has no message id, and its attempts, keyed by a tag that is new each time, never add up | `consumer.py:16` |
| `process.py:207` | a track ages only in scans with a face and expires only in scans with a raised hand, so the next person may inherit a published one and is not punched | `tracker.py:40`, "not mistaken for this one" |
| `runner.py:267` | a swapped gallery brings a new tracker, and whoever still stands there is punched again once the window has passed | `tracker.py:268` |
| `tracker.py:257` | a track counts as published before its report is made; when it fails no later frame reports that visit | `attendance_handlers.py:84`, "the frame is lost, the next one is not" |
| `runner.py:163` | after a join that gave up, the next start clears the shared stop event: two loops scan (`GiveUpJoin`; `abandoned` leaves them out) | `runner.py:17` |
| `runner.py:184`, `:196` | a loop that outlived its join, or crashed, leaves its last frame in the hub | `hub.py:58` |
| `runner.py:260` | a camera that opens and fails every read is reopened without an await or a backoff, and the scan in flight does not advance | `reader.py:8` |
| `embedding_cache.py:133` | after a kill between the two files, models rolled back to those of the manifest load the vectors of the newer ones (`GalleryIsOneModel` fails with `RollsBack`) | `embedding_cache.py:83` |
| `container.py:99` | the fingerprint is of the files as they are now, the vectors are of the models loaded at first use: model files replaced while the service runs, then a reload, save old vectors under the new name (`embedding_cache.py:127`), and after the restart they are served (`misnamed`) | `embedding_cache.py:83` |
| `embedding_cache.py:139` | a manifest that cannot be written, after the vectors were replaced, leaves the files of two saves without any kill (`SaveFails`, `mixed`) | `embedding_cache.py:58`, "leaves the previous cache intact" |
| `container.py:112` | the build at boot does not take the reload's lock; both save through the same temporary names (`mixed`), and the one that ends last is served | `embedding_cache.py:11`, `endpoints/gallery.py:40` |
| `photos.py:266` | a photo replaced between two failed HEADs keeps its key (`told` in `GalleryIsFresh`) | `photos.py:9` |
| `settings.py:217`, `:197` | `gallery_refresh_seconds` is read nowhere; the download at first boot happens nowhere | `settings.py:215`, `:195` |
| `rabbitmq.py:123` | an attempt after `close` connects again, and nobody closes that connection | `base.py:58` |
| `rabbitmq.py:143` | a punch whose every confirm was lost counts as refused, though the broker has it | `metrics.py:45` |
| `rabbitmq.py:55` | the constructor connects, and without a broker the service does not start (`Construct` to `crashed`) | `rabbitmq.py:9`, "opened lazily" |
| `container.py:139` | shutdown holds the lock over the join of the camera thread, which may need it: both wait until the join gives up, and the reporter is closed while the thread lives | `main.py:11` |
| `container.py:72` | `/health` takes the lock that is held while the models load | `main.py:7`, "never blocks" |
| `_download.py:135`, `:165` | a short stream is not noticed for the hand model (`Checked`); overlapping runs share `.part` (`overlapped`) | `_download.py:160` |
| `evaluation.py:432` | two faces of one frame make a pair of the correlation of consecutive frames; that number is not modelled | `evaluation.py:333` |

## The proofs

Proved for every value of the constants, each by an inductive invariant in its proof
module: the initial states satisfy it, every action keeps it, it implies the property.

The assumptions named in the modules that declare the constants (`PolicyAssumption`,
`ConsumerAssumption`, `TrackerAssumption`, ...) are used throughout; the last column has
what a theorem asks beside them.

| Theorem | Statement | Asked |
|---|---|---|
| `AttendanceConsumerProofs!TypeCorrect`, `AtMostTwoRows`, `DeliveryStaysInHand`, `DecisionsFit`, `RowsArePunches` | `TypeOK`, `TwoRowsPerDay`, `DeliveryInHand`, `DecisionStillFits` (between read and write the decision does not go stale), `RowsComeFromPunches` | |
| `...!ArrivalStays` | `[](spent.deletes = 0 => ArrivalIsEarliest)` | |
| `ConsumerLedgerProofs!NothingIsLost` | `NothingLost` | `~LossyDeadLetter` |
| `...!OnlyHopelessAreBuried` | `[](Undisturbed => BuriedOnlyIfHopeless)` | `Gap > 0` |
| `...!DepartureStaysLatest` | `[](spent.replays = 0 /\ spent.deletes = 0 => DepartureIsLatest)` | `OneByOne` |
| `...!RedeliveriesAreNoOps` | the same of `RedeliveryChangesNothing` | `OneByOne`, `Gap > 0` |
| `...!ConsumerImplementsLedger` | `Spec => ImplementsLedger` | `OneByOne`, no deletes, no replays |
| `...!CheckInRowStays` | `Spec => CheckInRowWrittenOnce` | the same |
| `RecognitionProcessProofs!TypeCorrect`, `FacesApart`, `TracksPunchOnce`, `AgreedFirst` | `TypeOK`, `OneTrackPerFace`, `OnePunchPerTrack`, `AgreementBeforePunch` | |
| `GalleryBuildProofs!TypeCorrect`, `ReachedServed`, `UntornIsRight`, `ServedIsFresh` | `TypeOK`, `ReachableAreEnrolled`, `UntornGalleryIsRight`, `GalleryIsFresh` | |
| `...!ServedOfOneModel` | `GalleryIsOneModel` | `~RollsBack` |
| `CameraRunnerProofs!OneLoop`, `StatusTrue`, `HubEmpty` | `AtMostOneLoop`, `StatusIsTrue`, `StoppedHubIsEmpty` | `MaxStarts \in Nat` |
| `LifecycleProofs!TypeCorrect`, `ModelsOnce`, `LockHolder`, `StopTakesOneMore` | `TypeOK`, `ModelsLoadedOnce`, `LockIsHeldByItsUser`, `OneAfterStop` | |
| `ServicesProofs!ServicesCompose` | `ServicesSpec` implies the `Spec` of each component | |
| `...!ServicesTyped`, `ServicesLoadOnce`, `ServicesStopConsumer`, `ServicesShow`, `ServicesResolve`, `ServicesReport` | `TypesOK`, `ModelsLoadedOnce`, `OneAfterStop`, `SeenMeansShown`, `ResolvedIsWhole`, `ConfirmedMeansDelivered /\ FailsOnlyInTrouble` | |
| `...!ConfirmedDelivered`, `FailureMeansTrouble`, `SeenShown`, `ResolvedWhole` | the same of the reporter, the viewers and the files by themselves | sizes |
| `AlgorithmsProofs!AlgorithmsCompose` | `AlgorithmsSpec` implies the `Spec` of each component | |
| `...!AlgorithmsLimit`, `AlgorithmsTopK`, `AlgorithmsName`, `AlgorithmsReport`, `AlgorithmsBadge`, `AlgorithmsHand` | `WindowIsBounded`, `AnswerIsTopK`, `NamedAfterClearWinner`, `ReportIsTrue`, `BadgeIsLastConfirmed`, `HandIsSeen` | |
| `...!AlgorithmsCamera` | the three properties of `CameraRunner`, of the composition | |
| `...!LimiterInvariance`, `NamingInvariance`, `RatingInvariance`, `PageInvariance`, `CropsInvariance` | the inductive invariants of the components by themselves | `Limits`, `Searchable`, `Measurable`, `Debounced`, none |

What is asked is what the deployment has. `OneByOne` is `InOrder /\ Prefetch = 1`: one
camera publishes, in the order of its captures, and `settings.py` has a prefetch of 1; the
run `two_cameras` shows that without it `CheckInRowStays` is false. `~LossyDeadLetter` is a
dead-letter exchange that exists and routes. A gap of 0 switches the gap check off.
`Undisturbed` is the histories in which no row was deleted, no employee hired or gone, no
dead letter replayed; "Known deviations" says what happens in the others. `~RollsBack`:
nobody puts older model files back. `AlgorithmsAssumption` is what those five names
say: numbers are numbers, a gallery is a sequence of rows of somebody, at least two
employees are asked for (`face_recognition_handlers.py` asks for two, the winner and the
runner-up), there is an edge and the edges ascend, a badge takes a scan at least.

### The table and the queue

None of the properties is
inductive alone. `TwoRowsPerDay` is broken by an insert unless the day still has less than
two rows when the insert happens: that is `DecisionStillFits`, which survives other
steps because nothing but a deletion changes the table while the consumer is between
read and write, and a deletion only makes room. `DecisionStillFits` in turn is
established by `Read` only if the day has at most two rows: on a day of three,
`rows[1]` would not be the last. `TypeOK` needs `DeliveryInHand`: `basic_ack` takes the
head of the channel's deliveries, which must be there. So `SafetyInv` is their
conjunction with `ArrivalKept`. For the arrival, an update may move the row that was
the witness of a punch; `DecisionStillFits` provides the other row, which is not
later (`ArrivalStep`). `SecondRowOfTwo` is the fact about the policy behind it.
`RowsArePunches` rests on a second invariant, `SheetInv`: a pending update points into
the sheet of its message, because ids are not given out twice and no step moves a row
to another employee or day.

*Nothing lost.* `LossInv` adds `AcknowledgedIsSafe`: when the consumer is about to settle a
delivery for good, the message is written, covered by the gap, or parked already. A
message that is requeued is again in the queue, one that is delivered is in hand, and a
crash puts the hand back into the queue.

*Only the hopeless.* `HopeInv`: with nothing replayed every copy carries its message id, so
that `attempts` counts the failures of the message (`AttemptsAreFailures`); the cached
standing of an employee is the true one (`LookupIsTrue`); and an update finds its row,
since nobody deletes. `WriteIsSpaced`, that a write in preparation is the gap away from
every row of its day, makes the message of a pending write a `Writable` one.

*Order.* `Ordered` says that with one publisher and one delivery at a time no message that
waits, or is in hand, was captured before one that was written; so a punch that is
written is the latest so far, and what the gap check holds back is near a row that is
already the latest. `OrderInv` joins it to the departure and to what was there before;
a redelivery then finds a row of its day within the gap.

*Refinement.* `ConsumerImplementsLedger` is a simulation: the sheets of an empty table
are the empty ledger; an insert into an empty day is an arrival, into a day of one row a
departure, an update moves the departure by the gap at least (`WriteMovesForward`), and no
other step touches the rows (`WhoWrites`). `CheckInRowStays` needs the order of the ids
beside that of the times: `RowOrderInv`, that the rows of a day have been inserted in the
order of their times, and that the row to be moved is not the first one.

### Tracker and process

*Typed.* `TypeOK` is read off two invariants: `Typed`, which the other theorems use, has the
places, the ids and the votes, and `Shaped` the records with all their fields.

*Faces apart.* `ScanSound`: the matching of detected faces to tracks, made at the start of a
scan, is one to one, since the greedy choice takes each track once; and an id that was
assigned is either the one matched or one that no match has, being new. A scan that has to
open a track takes `nextId`, above every id in use, and evictions take ids away only.

*One punch.* A track is identified by the generation of its tracker and its id. `Spoken` says
that a track has published, or is gone for good: its id is below `nextId`, or its
generation over. Votes are the only step that speak, and only for a track that has not
(`Confirms`); every other step keeps the voices of the tracks that stay (`Moves`).
`OncePunched` is that queue and reports together have no track twice and that all of them
have spoken.

*Agreement.* `AgreementBeforePunch` counts the ballots in the history, the program looks at
the votes a track has kept. `Followed` ties the two: there is a map from the votes of a live
track to ballots of that track, in order, onto them. With `BallotsSound`, by which a track
casts one ballot a scan, the votes that agree (`Agreeing`) are as many ballots in as many
scans, and no ballot for somebody else lies between (`AllAgreed`). Cardinalities are compared
by an injection from agreeing votes into ballots.

### Gallery

*Typed.* `TypeOK` covers the manifest, the temporaries and every field of a running build. That
a vector is of models that were loaded needs `Ready`: a build that has begun has the models.

*Reached.* `Listed`: the entries of a build are drawn from its list, one at least for each
that was listed and could be reached and has not changed since; a save and a swap keep them.
What the embedding takes from the cache is a row of the same key, whatever build wrote it.

*One model.* `OneModel` is about the models of the process (`Current`, or those it would load).
Files are only replaced by newer ones, so a fingerprint of newer files than `Current` is
misnamed the moment it is taken (`Named`), and one that is not misnamed tells the truth. A
manifest, in place or temporary, with the name of the current models therefore stands beside
rows of those models (`FilesOf`), or the name is misnamed: while a process runs, rows of
its models replace rows of whatever models (`SameProcess`), so between the two renames the
rows on disk may be newer than the manifest and are never older. With files that are put
back this fails, and the theorem excludes that.

*Untorn, fresh.* `Together` holds until `mixed` does. Every save has a number, that of the
listing it comes from; two builds never have the same (`Apart`). Rows and keys of one
number go together row by row, wherever the two files are (`Pair`), and those under the number
of a running build are of its entries, or empty when a write was cut short (`Own`). So a load
that takes two files of one number gives each key its vector (`Fits`: of the employee of the
key, of its version or a later one), and a load that does not sets `mixed`. Both theorems
read this off with what `Listed` says of codes, keys and editions.

`Selected`, the rows whose key is still listed, and the last row with a key are characterised
through the least counterexample (`WFMin`), because the library's induction theorems
take an operator as a parameter.

### Camera and container

*Camera.* `AtMostOneLoop` rests on `Accounted`: a loop that is alive and not given up is
either the one `_thread` names or the one a stop is joining, never two. That needs loops
to be born in order (`BornInOrder`) and `_thread` to be the last (`ThreadIsLast`). The
status and the hub follow from where that loop is.

*Lifecycle.* The models are loaded once because a load begins only where they are missing
(`LoadsOnlyMissing`) and the lock keeps its holder from being joined by another
(`LockRule`); that the lock is held by its user is read off the same invariant.
`OneAfterStop` has an invariant of its own, `LateRule`: a message handled after the stop
was taken before it.

### Services

*Reporter.* A trouble is an outage, a refusal or a broken connection, and `troubled` is set for
every report at work when it happens. A report without one that tries again can only have met
a connection that went stale before it began, and tears it down itself: `TroubleRule` says
that such a report then sees no stale connection, `AttemptRule` and `ResultRule` tie the
results to the attempts. That the teardown of one thread takes the connection of another
is no trouble, and fails nobody.

*Viewers.* `NumbersAreOfOnePicture`: a snapshot with the hub's number has the hub's
picture, since no step takes a number back.

*Model files.* Nothing is claimed once two runs overlapped; until then one run at most is
under way, only while there is no file, and its `.part` has what it has written so far
(`PartIsPrefix`).

*Composition.* A step of `Services` is a step of one component and a stutter of the others
(`StepOfOne`), so that a theorem about a component is one about the composition that the
run `services` checks.

### Algorithms

*Composition.* As in `Services`: a step is a step of one component
(`AlgorithmsStepOfOne`), and what holds of each holds of all (`AlgorithmsCompose`).

*Limiter.* `Remembered`: whoever was served within a window of now is still in the deque,
because a thread expires hits by its own reading, which is not later than now, and only
from the head. The hits in a window, less the lag, are then among the live ones of any
thread, which are fewer than the limit when it serves.

*Search.* `NamingInv` says what a search knows in each step: the rows found are the
nearest of the gallery it started with, and no rebuild changes them. That these rows are
enough is `PoolIsGood`: the pool is the whole gallery, or K times twice the rows of the
employee who has most, and so many rows belong to K employees at least (`FibreBound`, a
set is no larger than its images times the largest fibre). It is closed under "nearer", so
that an employee in the pool is there with the best row (`BestIsARow`) and one outside
is no better than anybody inside. `GroupIsTopK` takes the first K of any order by score.
`PassesIsClear` is the gate: with two in the answer the runner-up is the best of all the
others, and with one there are no others.

*Evaluation.* `Counted` ties the two lists of scores to the faces: at every threshold as
many scores are under it, or not, as faces are rejected or strangers accepted
(`FacesAreShares`); a face adds its one genuine score, the best of those in shot, and one
score for each stranger. The lowest threshold that meets the target is then the one with the
fewest rejections, because rejections only grow with the threshold (`LowestIsKindest`).
`Tables`: the lines of each table count how often each bucket is in some sequence of
buckets, so that they add up to its length (`Tallied`). The sums are folds; `SumIs` shows that
a function on the sets of buckets that satisfies the equation of the fold is the fold.
`LeastOf`, `FiniteMax` and `FiniteMin` do the same for extremes of finite sets.

*Badge.* `PendingDisagree`: the pending scans are the last ones, none of them saw what is
reported, and the one before them did. A badge that changes does so with the scan that makes
`ConfirmFrames` of them.

*Hand.* `SomeTileHolds`: along a side, the last tile that begins at or before the hand ends
behind it, for the next one begins two pads before that end and after the hand's start;
behind the last tile is the edge of the frame. Cutting off to whole pixels moves each edge by less
than one. Rows and columns give a region (`SomeRegionClears`), and `CropsInv` says that the
scan stops without a hand only after all regions.

### Only model-checked

* Every liveness property, `EventuallySettled` to `SwapReachesCamera`: liveness under
  fairness and `ENABLED` are out of the prover's reach.
* The four runs that end in a violation.

The other way round, `TypeOK` and `DecisionStillFits` of the consumer are proved, as parts of its
inductive invariant, and checked by no run: each run checks what rests on them.

## The plan

Done: consumer and ledger; suppressor, tracker and process; reporter; camera, hub and
viewers; container; gallery and cache; search, limiter, badge, hand, evaluation, model
files. Left, in this order:

1. The composition of `CameraRunner` and `RecognitionProcess` with `Reporter`, which are
   modelled with one another's outcomes as choices.
2. The parsing of the photo sources' manifests and directory pages.

## Not modelled

Image processing and inference (numerical; what the models see is an input), the angles of
a gaze and the box searched beside a face (functions of pixels), the dispatchers'
choice of a handler, the lookup of model files and execution providers, resizing of
frames, tokens (a library), the latencies, percentiles, histogram, correlation and text of
the evaluation report, schemas, settings, metrics, logging and the debug page: none of
them has state or an order that could go wrong. Daylight saving, several consumers
(which `mysql.py` excludes) and the exact lengths of sleeps are left out of modules that
are there.
