# A formal model of the ESP32 Wi-Fi GNSS firmware

TLA+ modules, TLC configurations and TLAPS proofs for the firmware in `main/`.
Every definition is a translation of the C source; `PROJECT.json` maps each one
to its lines. Line numbers below are lines of that source.

- [The system](#the-system): components, state, operations, hazards
- [The modules](#the-modules): what each one models and how
- [The runs](#the-runs): questions, bounds, fairness
- [The proofs](#the-proofs)
- [Where code and documentation disagree](#where-code-and-documentation-disagree)
- [Not modelled, and the plan](#not-modelled-and-the-plan)

## The system

The firmware reads NMEA sentences from a GNSS antenna on UART2, picks the best
position of each time window, and streams it to HTTP clients over its own
Wi-Fi access point. An upload can take the antenna's place, and the firmware
can be replaced over the air. All of it runs as FreeRTOS tasks without core
affinity on two cores, next to ESP-IDF's HTTP server task and timer task.

| Component | Source | State | Operations |
| --- | --- | --- | --- |
| GNSS input pipeline | `gnss.c` | parser state, override flags and input epoch under `s_parser_mutex`; candidate, timer and control queues in one queue set; flush semaphore; one-item publication queue; the filter task's best pair | feed bytes, pair GGA with RMC, scan baud rates, consider a candidate, publish, flush, begin / feed / end an override |
| Upload (`POST /write`) | `http_stream.c` | the one write worker, its request | drives the override interface |
| Publication fan-out (`/stream`, `/view`) | `http_stream.c` | newest snapshot under `s_latest_mutex`, a notification value per worker, each response's `last_sequence` | copy the publication and notify; copy the snapshot if new, send, wait, probe |
| Admission | `http_stream.c`, `log_stream.c`, `ota_update.c` | a capacity semaphore and a request queue per pool, the server's sockets | clone the request, take capacity, queue it; serve; complete it |
| OTA update | `ota_update.c` | confirmation and restart flags, two timers, one worker; in flash, two OTA slots with their selection records | `/flash`, `/flash/confirm`, `/flash/rollback`, both timer callbacks, boot |
| Log tail (`/log`) | `log_stream.c` | a 4 KB ring and the count of bytes ever logged, under a spinlock | capture a line, notify; copy a chunk, send, wait, probe |
| LED indicator | `generic_task.c` | event counters under a spinlock | count an event and wake; blink and toggle |
| Access point | `wifi_ap.c` | a bounded event queue | queue a station event; report it |
| Start-up | `app_main.c` and the `..._init` and `..._start` functions of every stack | how far it has come | create a queue, semaphore or timer; start a task, a driver or the server |

How they interact: UART2 tasks and the write worker feed one parser; the
parser's candidates reach the filter through a queue; the filter's publication
reaches `http_stack` through a one-item queue that is overwritten; `http_stack`
stores it and notifies every stream worker; the HTTP server task hands requests
to workers through semaphores and queues; every task that logs writes into the
ring; the stream workers also count clients and packets for the LED task and
wake it; and the OTA worker and two timer callbacks may restart all of it. While
`app_main` is still starting tasks, the access point and the server it has
started accept stations and requests.

### What is hard here

`PROJECT.json` lists every hazard with its line and the properties that would
catch it going wrong. The families are:

- **A value read under a mutex and used after it**: the filter's epoch
  (`gnss.c:642` and `670`), the restart flag of `/flash` (`ota_update.c:221` and
  `192`), the confirmation flag of the timeout callback (`ota_update.c:155`).
- **Two sources, one parser**: half sentences, half pairs and queued pairs of
  one source must not be taken for the other's, also when the epoch wraps.
- **A three-task handshake**: the flush at the end of an upload.
- **FreeRTOS queue sets**: markers and items are separate, and one receive too
  few or too many puts them out of step for ever.
- **Lost wake-ups**: task notifications that are cleared at the wrong moment.
- **Bounded pools**: capacity that leaks on an error path.
- **Crashes**: power may fail between any two steps of an update or a trial.
- **Counters that wrap**: the epoch, the log's byte count, the tick count that
  times a dwell of the baud scan, and the HDOP's conversion to an `int`.
- **Bytes cut anywhere**: a sentence may span reads, rates and tasks, and the
  chunk that locks the rate is parsed twice, by the probe and by the parser.
- **Things that start in an order**: what a task, callback or handler touches
  has to be there when its driver, timer or server is started.

## The modules

Each component's module holds its state, `Init`, one action per step that
another task can observe, `Next`, `Spec`, the fairness the scheduler justifies
and the properties. A step ends where another task can see or disturb it: at a
mutex, a queue, a semaphore, a notification, a blocking call. A short critical
section is one step. Near the top, each module keeps faulty variants of some
definitions, with the same parameters; they are what a plausible bug would look
like, and each property has one that breaks it (`mutants` in `PROJECT.json`).

| Module | Models |
| --- | --- |
| `GnssPipeline` | `gnss.c`'s tasks and override interface, with the upload worker of `http_stream.c` that drives it; implements `BestOfWindow` |
| `BestOfWindow` | abstract specification: a publication is the best pair of a window of one source, and an upload ends when its last window is out |
| `NmeaSentence` | the bytes of a sentence: checksum, fields, HDOP, the probe's parser and the shared one |
| `UartInput` | `gnss_init_task` and `gnss_uart_task` on a line with an antenna: the baud scan, the lock, the hand-over of the port |
| `LatestValue` | abstract specification: a value is published, and each connection is given increasing values, never older than the newest it has seen |
| `StreamFanout` | `http_stack_task` and the stream workers; implements `LatestValue` |
| `HttpAdmission` | the admission of a request to a worker in all four pools |
| `OtaPlatform` | external: selection records, the bootloader's choice, `esp_ota_ops` |
| `OneTrial` | abstract specification: images are written beside the running one, one at a time gets one boot on trial, and is confirmed while it runs or not booted again |
| `OtaUpdate` | the handlers, the worker and the timers of `ota_update.c`, with reboots and power loss; implements `OneTrial` |
| `LogRing` | the capture hook and the response loop of `log_stream.c` |
| `LedIndicator` | the LED task and the stream workers' signals to it |
| `WifiEvents` | the station events and the task that reports them |
| `StartUp` | `app_main`, composed with `LedIndicator` and `WifiEvents`, and what every other task and handler touches |
| `GnssPipelineProofs`, `StreamFanoutProofs`, `OtaUpdateProofs`, `HttpAdmissionProofs`, `LogRingProofs`, `StartUpProofs`, `UartInputProofs` | theorems about the module they are named after |
| `GnssRefinement` | the theorem that `GnssPipeline` implements `BestOfWindow` |
| `MC...` | what the configurations need: bounds, instances of bytes and antennas |

### GnssPipeline

Text is abstracted: a sentence is the set of sources that gave it a byte, a
pair is its HDOP, its epoch and those sources. The parser's decisions (checksum
wrong, no HDOP, RMC without a GGA) become a choice among the outcomes a newline
can have. Feeding holds the mutex for as many steps as the chunk has events,
because the candidates it produces leave for the filter in the middle of it.
The queue set is the sequence `filterSet` of markers, and the filter's program
counter takes the marker's name between the select and the receive.
`publish_best_candidate` is two steps, `PublishCheck` and
`PublishBestCandidate`, as the code releases the mutex in between. The 32-bit
epoch is a counter from 1 to `EpochMax` that skips zero when it wraps. `window`
is a history variable: the pairs accepted since the last publication.

The refinement mapping of `BestOfWindow` takes the pairs of `window` with the
current epoch for the abstract window, and the filter's best pair between
`PublishCheck` and `PublishBestCandidate` for the winner on its way. The
abstract `Release`, the end of an upload, needs an empty window and no winner on
its way; `Override`, the beginning of one, does not, and that is the race of
`MCGnssPipelineSwitch`.

### NmeaSentence and UartInput

A byte is a character; the constant `ByteValue` gives the characters in use their
codes. `NmeaSentence` has the checksum (the bits that an odd number of bytes
set), the fields, the decimal conversion and both parsers as functions from a
parser's state and a byte to its next state, with the buffer's length and the
width of an `int` as constants. Feeding a chunk is a recursive function over its
bytes. Signed overflow wraps, which is one of the results a compiler may give;
`PairsAreExact` claims nothing of an HDOP that an `int` does not hold.

`UartInput` runs them. Time is the tick count, which wraps. A read at the
antenna's own rate returns what the antenna sends meanwhile, cut wherever the
read ends; at any other rate it returns nothing or, once per dwell, noise. The
antenna (rate, period, phase, or none) is chosen in `Init`. After the lock the
line may carry anything: reads are drawn from `Traffic`, which has whole, cut,
corrupted and overlong lines. UART2 owns the parser in this module;
`GnssPipeline` has the upload that may.

What the parsers should find is said without them: `Sentences` is a table of
lines with their type and HDOP, and `Found`, `PairsIn` read the stream by it.
`TableIsSound` and `TableCovers` say what a table must be: true of each line, and
without gaps for the stream at hand.

### StreamFanout

`gnss.c`'s filter is a producer that overwrites the one-item queue with the
next sequence number; publications are bounded by `MaxSequence`. A worker
goes through clear, copy, send, wait and probe. The refinement mapping takes
`nextSequence - 1` for the published value and `lastSequence` for what a
connection was given. `unread` says that the client has sent something since
its request. Nothing reads it, and the probe, which only peeks, sees it before
the end of the connection: `WorkerProbe` takes the client for connected for as
long as the byte is there.

### HttpAdmission

The stream handlers clone the request and then take capacity; the other three
take and then clone. Both orders share one pair of actions, guarded by what the
request already has. `/view` and `/stream` are one pool, as in the code.
Sockets belong to the server task, to an asynchronous request, or to nobody.
What a client sends makes its socket `unread`, before or during a response and
also shortly before it leaves. The server reads an open socket and answers
itself (`HttpdAnswers`: `/flash/status`, or a request its handler refuses at once) or
admits a request (`Request`); the workers of `/write` and `/flash` read a body;
those of `/stream`, `/view` and `/log` (`ProbingPools`) read nothing.
`GoneSocketIsClosed` follows the socket of a client that has gone through all of
this to its end.

### OtaUpdate and OtaPlatform

`running`, `image`, `record` and `newest` are in flash and survive a reboot.
Every other variable is memory and is set by `StackInit`, which each boot runs
(the HTTP server starts only after it). A body is `Chunks` buffers long and is
described by two facts, whether its checksum matches and whether the image is
bootable; a slot is damaged from the first write to the last. A rejected
request changes nothing and is not a step.

What ESP-IDF does is stated in `OtaPlatform`, as weakly as its API allows:
`esp_ota_begin` with sequential writes erases only as it writes, and may fail;
marking an application valid or invalid changes the record that the bootloader
would select, whichever image runs; at boot a pending record is aborted, the
newest usable record is selected, a new one becomes pending, and when the
selected image is damaged the bootloader runs some other whole image.

`OneTrial` keeps of all this the running slot, the records and which slots are
bootable (`Intact`, the refinement mapping). It does not know which record was
written last, nor any flag, timer or program counter, so what it says of a
reset holds whatever the memory held. It lets an upload overwrite the slot that
has just been accepted, as the code does (see below).

An accepted image comes to run (`AcceptedIsTried`), with two exceptions that the
property names because the code has them. A rollback whose handler had begun
may withdraw the image before the restart, which takes a second; and the late
upload of `MCOtaAcceptedImageIsKept` may overwrite it.

### LogRing

A byte is its position in the log since boot, so a chunk's content can be
compared with what should be in it. The counter and `last_sent` are taken
modulo `Modulus` (2^32), a multiple of the ring's size. A guard in `LogLine`
keeps a reader less than `Modulus` bytes behind: to be lapped by 4 GB between
two of its steps is out of the model. The probe is that of `StreamFanout`, with
`unread`. Lines are formatted and cut to their
buffer before the lock; what counts is their length.

### LedIndicator, WifiEvents and StartUp

`LedIndicator` has one step per critical section of `s_led_lock` and one for the
notification. While the task blinks at start-up, events gather in the counters;
its loop then waits, copies the counters and toggles. `owed` is a history
variable: the packets counted and not yet shown. `WifiEvents` has a station
that joins or leaves, the handler that queues or drops the event, and the task
that reports it; `stale` remembers the stations whose last event was dropped.

In `StartUp`, `AppMain` is the sequence of what `app_main` calls, split where a
call creates something and then starts something. A piece creates resources or
starts an actor; `Uses` lists what each actor may touch from its first step on.
The LED task, the stream workers, the stations and the reporting task run as
soon as their piece is done. An `ESP_ERROR_CHECK` that fails aborts and boots
again, which begins another behaviour.

## The runs

`tlc -workers 2 -config X.cfg M` in this directory. All bounds are constants.

| Configuration | Question | Bounds | Distinct states |
| --- | --- | --- | --- |
| `MCGnssPipeline` | Do sources stay apart, do markers match items, is the flush complete, is the best pair the lowest, does it all implement `BestOfWindow`? | candidate queue 2, epochs 1..3, two HDOPs | 2.05 M |
| `MCGnssPipelineLive` | Do uploads end, windows end and candidates drain? | candidate queue 2, epochs 1..2, one HDOP | 52 k |
| `MCGnssPipelineSwitch` | Is every published pair of the selected source? (no) | candidate queue 1, epochs 1..2, one HDOP | stops |
| `MCStreamFanout` | Is a wake-up ever lost, do sequences stay in order, does the fan-out implement `LatestValue`, is the newest publication delivered, is the worker of a gone client released, if it left nothing unread? | 2 workers, 3 publications | 188 k |
| `MCOtaUpdate` | With power loss anywhere: is only a verified image selected, is only an image that has run confirmed, does a trial keep its fallback, does it all implement `OneTrial`, do trials end, accepted images run and workers return? | 2 chunks, 2 timeouts | 178 k |
| `MCOtaAcceptedImageIsKept`, `MCOtaRollbackTargetIsKept`, `MCOtaFailedUploadIsClosed` | three promises the code does not keep | 2 chunks, 3 timeouts | stops |
| `MCLogRing` | Is every chunk intact, is only what was overwritten skipped, is every surviving byte sent? | 2 writers, ring 4, line 2, chunk 3, modulus 8, 21 bytes | 23 k |
| `MCHttpAdmission` | Is capacity conserved on every path, does a socket have one owner, is an accepted request served, is the socket of a gone client closed? | 2 stream workers, one single-worker pool that receives, 2 sockets | 96 k |
| `MCUartInput` | Is the rate locked on a whole sentence and on nothing less, is every antenna found, are pairs and HDOPs those of the stream? | the code's 6 rates and dwells in ticks of 10 ms, 55 antennas, tick counter of 256, 26-byte buffer, 16-bit `int`, 3 reads after the lock | 178 k |
| `MCStartUp` | Is anything used before it is created, does the LED lose a packet or a wake-up, does the log catch up with the stations? | 2 workers, 1 blink, 2 pending packets, 1 station, event queue 2 | 464 k |

Why the bounds are enough. Two candidates fill and overfill the queue with the
filter at any place; three epochs wrap within one upload, so that an old pair's
epoch, the upload's and the next differ and then repeat; two HDOPs give a
better, an equal and a worse pair. Two workers and three publications let a
worker be overtaken twice while another keeps up. Two buffers make a first and
a last write; two timeouts tell the limit from one more and from none. With a
ring of 4, a modulus of 8 and 21 bytes the counter wraps twice and a writer
laps the reader in every phase. The three single-worker pools share their
admission order, so one stands for them; two clients compete for it, and for
stream workers that have not signalled yet. The antennas
send every 10, 100 or 111 ticks at each of the six rates, from several phases:
shorter, longer and incommensurable with the dwells; the tick counter wraps in
the first scan. What `AntennaIsFound` shows, it shows for these periods: a
period in step with the whole cycle of the scan (about 415 ticks, so for
instance 208) is not among them, and the run says nothing of such an antenna.
One read after the lock can end a sentence that the lock's
chunk began, and three make two pairs. `int` has 16 bits because TLC's integers
have 32: 32.767 is the largest HDOP that fits, and 32.768 is tried as well. Two
pending packets saturate the count with two workers, and one station with two
places fills the queue and drops an event. For the properties with a theorem
below, the size of the instance does not matter. A module's type invariant is
not checked again by a run when it is proved, except `UartInput`'s, where it
bounds the sentence buffers.

### Fairness

Nothing is assumed of clients, of bytes arriving or of power loss: a client may
stall, leave, or never come. What is assumed is that FreeRTOS runs a ready task
and that started timers expire:

- `GnssPipeline`: weak fairness for the filter's steps, the ending of an
  override, the end of a chunk and the periodic timer; strong fairness for
  `ConsiderCandidate` and `PublishCheck`, which need the parser mutex. The
  filter has a higher priority than the reader, and FreeRTOS gives a mutex to
  the waiting task of highest priority, so it is not passed over for ever.
- `StreamFanout`, `LogRing`: weak fairness for the tasks, none for the
  one-second timeouts. So `NewestIsDelivered` and `LoggedIsSent` show that
  wake-ups alone suffice. `GoneClientIsReleased` names the timeouts it needs as
  its hypothesis, and a client that left nothing unread as its premise.
- `OtaUpdate`: weak fairness for handlers that have begun, for the worker
  (while it waits for bytes, a timeout is a step) and for both timers.
- `HttpAdmission`: weak fairness for workers and for handlers that have begun;
  strong fairness for the server's loop at each socket, which serves every
  session that `select` finds readable before it selects again. A worker's end
  is assumed in one case only (`CanNotice`): its client has gone, and it either
  receives (`http_stream.c:326-340` and `ota_update.c:398-418` end at the first
  `recv` that fails, or with the body) or has nothing unread on its socket. That
  a stream worker then ends is what `GoneClientIsReleased` shows; the log
  worker has the same loop. A worker whose probe is misled is assumed nothing.
- `UartInput`: weak fairness for the first step of `gnss_init_task` and for time
  while it scans. Nothing is assumed of what a read returns.
- `StartUp`: weak fairness for the LED task and for a worker that is about to
  wake it, for `LedSettlesOff`. `app_main`, stations and clients may stop.

Deadlock is checked in every run that passes without `CHECK_DEADLOCK FALSE`;
no configuration here turns it off.

## The proofs

`tlapm M.tla` checks a module. TLC checks a property on the small instance; the
theorem holds for every value of the constants that satisfies the named
assumptions (`QueueAssumption`, `EpochAssumption`, ...).

**`GnssPipelineProofs`.** The invariants of the run are not inductive alone.
Their strengthening adds what the tasks know at each program counter: who may
hold the mutex, that the override flags follow the upload worker's place, that
every candidate still in the pipeline has the current epoch or the one just
before, and, for the flush, that every candidate of the upload is ahead of the
control marker in the queue set, so that the filter has none left when it
acknowledges. `Invariance` proves it, one lemma per part and one step per
action, and these follow: `TypeCorrectness`, `MarkersAreExact`,
`ParserIsUnmixed`, `EpochSeparatesSources`, `FlushIsComplete`,
`NoStaleAcknowledgement`, `SelectionIsBest` and, as an action property,
`MockStaysInItsUpload`.

**`StreamFanoutProofs`.** `TypeCorrectness`, `WakeupsAreKept`, `OrderIsKept`,
and `Implementation`: the initial states of `StreamFanout` are initial states
of `LatestValue` and each of its steps is a publication, a delivery, a new
connection or a stutter there.

**`OtaUpdateProofs`.** `TypeCorrectness`, `OnlyRunImagesAreConfirmed`,
`TrialCanGoBack` and, as an action property, `VerifiedBeforeSelected`, with
power loss between any two steps. The invariant they come from says what the
flags in memory imply about the records in flash. A new record belongs to the
slot this boot updates (`NewIsNewest`). During a trial no upload is on its way
and everything that counts has run (`TrialIsQuiet`): this is what the check of
`s_confirmation_pending` in `/flash` buys. The record of an image on trial and
the place of the handler that changes it go together (`TrialPhases`). And from
the selection of a new image to the end of its trial the image it came from is
whole, confirmed and next in line (`FallbackIsKept`). `Implementation` shows
that each step is one of `OneTrial` or a stutter. It rests on `TrialIsRunning`:
while the record of the running image is on trial, the flag in memory says so.
The converse fails in the second between an accepted rollback and its restart;
a `/flash/confirm` that comes then is accepted, and `ConfirmMaps` shows that it
marks only what is marked already.

**`HttpAdmissionProofs`.** `TypeCorrectness`, `NoCapacityIsLost` and
`SocketsAreOwnedOnce`, for any number of workers, pools and sockets.
`CapacityIsConserved` is inductive with the types; the bound of a semaphore
follows from it. Ownership is proved in a form without counting
(`AsyncIsOwned`, `OwnersAreOne`: a socket is asynchronous when it has an owner,
and no two owners hold one socket), with the fact that a request whose clone is
still to come has an open socket, and then counted.

**`GnssRefinement`.** `Implementation`: from the invariant above and
`BestInWindow` (the best pair is one of those accepted), each step of the
pipeline is one step of `BestOfWindow` or a stutter, one lemma for each of the
six steps that are not.

**`LogRingProofs`.** `TypeCorrectness`, `ChunksAreIntact`, `WakeupsAreKept` and,
as an action property, `NoSurvivorIsSkipped`, for every size of ring, line and
chunk and every width of the counter that is a multiple of the ring
(`ModulusAssumption`). The invariant says that each of the last `RingSize` bytes
is in its place (`RingHolds`), that the counters are the true positions modulo
their width, and that a reader is less than a whole count behind. The lemmas on
remainders come first: with them a `size_t` difference is a true distance
(`Distance`) and a place in the ring survives the wrap (`RingIndex`).

**`StartUpProofs`.** `TypeCorrectness`, `CountersAreExact`, `WakeupsAreKept` and
`ReportsAreRight`, for any number of workers, stations and blinks and any queue,
and `ResourcesComeFirst`, which follows from the order alone: an actor may run
once its piece of `app_main` is done, and by then what it uses is created.
The invariant orders the start-up (`OrderInv`: the third call creates the LED
task, before any worker), says at each place of the LED task what it has left to
show or that it is woken (`AwakeInv`; the parity of a blink is in it, since a
blink must end dark), and what the log will say of each station (`WifiInv`).

**`UartInputProofs`.** `TypeCorrectness`, `LocksExactly` and
`PairsComeOutExactly`, for every stream of bytes, however the reads cut it, every
length of the buffer, antenna, rate and dwell. Feeding is recursive over the
bytes, so these need induction over data; it is done with sets in the place of
predicates (`InductionOverNat`: the least number outside a set would follow one
inside). `RecursionIsDefined` gives a recursive function its values, and
`ProbeFeedKeeps` and `ParserFeedKeeps` lift to a chunk what one byte keeps. What
is kept relates a parser's state to all the bytes it was ever fed: the sentence
in hand is the line that is open (`Assembling`), or no line is (`Idle`); the
probe has said yes exactly when the bytes hold a good line (`ProbeInv`); and the
pairs sent are the pairs of the lines found so far, in order, with the pending
GGA the last line of all (`PairsInv`). The lemmas below say what one more byte
does to lines (`Restarts`, `StaysIdle`, `GivesUp`, `GoesOn`, `Completes`), to what
is found and to pairs. The two exactness theorems assume `TableIsSound`, and at
each state that the table covers what was heard or fed.
`HdopIsExact` says what a number comes to: by induction over the digits, as long
as the thousandths fit an `int`, no addition or multiplication on the way there
wraps (`DigitFits`), and the result is `Thousandths`, which counts without a
width. `AllSentencesAreATable` takes from it that the table of all intact lines,
with the numbers their HDOPs are, is true and without gaps, and
`ExactWhateverComesIn` draws the conclusion: with that table, nothing is asked
of the stream. For the instance that TLC checks, `TableAssumption` evaluates the
same two conditions, and `NumberAssumption` that `Thousandths` are the digits
read as one number and divided by a power of ten, for every field of up to five
bytes out of three digits and the dot.

Only model-checked: liveness under fairness (TLAPS has no `ENABLED`).

## Where code and documentation disagree

Each has a run whose one property TLC finds violated, and an entry under
`findings` with the quotation.

1. **A UART2 pair may be published during an upload**
   (`MCGnssPipelineSwitch`, `gnss.c:642` and `670`). The comment at
   `gnss.c:389-393` says pairs queued before a switch are discarded. The other
   direction holds and is proved: no uploaded pair is published after its
   upload has ended.
2. **An accepted image may be overwritten before its reboot**
   (`MCOtaAcceptedImageIsKept`, `ota_update.c:221` and `192`).
3. **A rollback may go back to an image that is being erased**
   (`MCOtaRollbackTargetIsKept`, `ota_update.c:331`).
4. **A failed upload may keep its session** (`MCOtaFailedUploadIsClosed`):
   `result` is `ESP_OK` from `esp_ota_begin` on, and the timeout path does not
   reset it.

Seen while modelling, without a run of their own:

- `http_stream.c:84-93` and `log_stream.c:86-95`: a byte the client sent after
  its request and nobody reads makes `recv` with `MSG_PEEK` return 1, also when
  the client has gone. With a silent antenna, or nothing logged, its worker and
  its socket are kept; the comment at `http_stream.c:80-83` says the peek
  releases them. `GoneClientIsReleased` and `GoneSocketIsClosed` name this as
  their exception, and without it TLC finds both violated.
- `log_stream.c:112`: a response starts at `s_write_total - RingSize` or at 0;
  for the first 4 KB after the counter has wrapped, a new client gets only what
  was written since, although the ring holds more (`log_stream.c:107-110`
  promises the history it holds).
- `gnss.c:574-578` says the locking chunk holds a valid line; the line may have
  begun in the chunk before, and then the parser is fed its end only.
- `app_main.c:63-66` says the OTA worker is started before the access point
  accepts clients; `esp_wifi_start` and `httpd_start` come before it. Requests
  wait in queues that exist by then (`NothingIsUsedTooEarly`).
- `generic_task.c:35-38` says creation holds the lock; it writes the handle
  without. No worker exists at that moment (`OrderInv`).
- `gnss.c:302-318`: an HDOP of 2147484 or more overflows an `int`.

## Not modelled, and the plan

Not modelled: `app_version.c` (it formats a constant; two tasks may write the
same bytes at once), the host-side `tools/hardware_ota_test.py`, the
configuration of the Wi-Fi driver and of the network interface, the text of
pages and answers, and TCP below `send` and `recv`. `init_nvs` is one call that
succeeds: a failure aborts, and no data is kept in NVS.

The plan was: `GnssPipeline` with its proofs, `LatestValue` and `StreamFanout`,
`OtaPlatform` and `OtaUpdate`, `LogRing`, `HttpAdmission`; then `NmeaSentence`
and `UartInput`, `LedIndicator`, `WifiEvents` and `StartUp`, the abstract
specifications `BestOfWindow` and `OneTrial` with their refinements, and the
proofs of `LogRing`, `StartUp` and `UartInput`. All of it is written. What could
follow is `UartInput` composed with `GnssPipeline`, for a scan that locks while
an upload owns the parser.
