# netChimes: a verification project

netChimes puts wind chimes on the network.  A *sensor*, a Particle Photon under six
chimes, publishes each strike to a cloud server; a *relay* passes the strikes on to
web pages, which show and play them.  The repository holds the sensor's program
(`user/applications/netChimes2`), the whole Particle firmware it is built with, changed
in places for this project, the relay (`ncServer`) and the web pages (`ncWeb`).

This directory holds TLA+ modules of the parts whose correctness is hard to see and
hard to test, the TLC configurations that check them on small instances, and TLAPS
proofs of the properties that matter most.  Paths below are relative to
`src/photonDevelop/firmware-develop/` unless they begin with `nc`.

## 1. Inventory

| Component | State it keeps | Operations | Why it is hard | What makes it correct |
|---|---|---|---|---|
| **EEPROM emulation** `hal/src/stm32f2xx/eeprom_hal.c` | two flash pages: a status word and a log of slots each | `EEPROM_Init`, `EEPROM_WriteVariable`, `EEPROM_PageTransfer`, `EEPROM_ReadVariable`, `EEPROM_Format` | the power may go between any two flash operations; a flash operation may fail | a write happens entirely or not at all, nothing else changes, nothing is lost, the pages can always be repaired |
| **Event limiter** `SparkProtocol::send_event` | the times of the last five attempts, the flag `updating` | one call per event | unsigned time differences, exact boundaries | no bursts beyond four in a window; nothing else is refused |
| **Strikes** `netChimes2.cpp` `loop`, `strike` | sensor being polled, time left in the debounce | `loop()`, called by `app_loop` | the debounce is exactly half the limiter's window; the cloud is served inside `delay` | no strike is limited; over a connection whose sends succeed both events of every strike are sent |
| **Settings** `netChimes2.cpp` `setup`, the menu, `resetSensor`, `writeUserData` | six texts in RAM, their copies in the EEPROM, three "auto" flags, the HTTP response | start, six changes, save, leave, cloud reset and reboot | byte-wise writes and power cuts, cloud calls inside every delay, answers of failed requests | what was saved is restored; nothing else is changed |
| **Firmware update, keep-alive** `spark_protocol.cpp` `event_loop` and the handlers, `system_update.cpp`, the SysTick handler of `main.cpp` | index, bitmap, update flags in two layers, timers, watchdog | begin, chunk, done; ping; timeouts; handshake; disconnection | chunks that are bad, missing or repeated; broken connections; silent servers | a finished update is complete; every silence is noticed; the application gets its turn back |
| **Other cloud messages** `spark_protocol.cpp`, `system_cloud.cpp`, `system_cloud_internal.cpp` | the table of event handlers, one buffer for everything, one more for arguments | subscribe, unsubscribe, publish; event and function call from the cloud | callbacks run inside the loop and may run the loop again; the connection may change under them | the server knows every filter; an event reaches its handlers; a result belongs to its call |
| **Cloud and network manager** `system_task.cpp`, `system_network_internal.h`, `system_network_wifi.h`, `system_cloud_internal.cpp`, `system_sleep.cpp`, `wlan_hal.cpp` | a dozen flags of the interface, watchdog, failure count, socket and connection flags, what a sleep will restore | one pass of `Spark_Idle`; link down, link up; button; alarm; connect, disconnect, on, off, sleep | the Wi-Fi thread, the button and the application change the flags between any two steps; retries, back-off, resets | a sensor that is to be online gets online; an interface is never joined, without address and unwatched |
| **HTTP client** `netChimes2/HttpClient`, `spark_wiring_tcpclient.cpp` | the response of the last request, the buffer | `request` | answers in pieces, servers that close early or late, time limit, full buffer | an answer that came is what the caller gets |
| **System thread** `active_object.cpp`, `active_object.h`, `system_threading.h` | a bounded queue of calls for each thread | put, take, process, wait for a result | two threads that call each other; full queues | no deadlock; nothing is done twice |
| **Configuration store** `services/inc/dcd.h` over `dcd_flash_impl.h` | two flash sectors with a header each | `read`, `write`; words zeroed in place | power cuts and failing flash operations between any two steps | a write happens at one instant or not at all, and before it reports success |
| **Firmware installation** `flash_mal.c`, `hw_config.c`, `system_update.cpp`, `ota_flash_hal*.cpp`, `bootloader/src/main.c`, `core_hal_stm32f2xx.c` | the system's and the user's module, the area where images are received, the factory image, entries and a flag in the configuration store | begin, chunks, end; reset; the bootloader's copy; factory reset by flag, by button, by the system | system and bootloader share nothing but the flash; power cuts; flash errors that are not looked at | no torn system is started; an accepted update is installed; the device comes up |
| **Relay** `ncServer/ncSparkJSON.js` | the list of sockets, kept by the library | event in, broadcast | clients that come and go | |
| **Web page** `ncWeb/assets/JS/netChimes.js` | a socket, markers | open, message, close | it does not reconnect | |
| **Set-up page** `ncWeb/configure.html` with SoftAP | version, networks, key | three requests at once, then configure and connect | answers in any order | |

How they interact: the application calls down into the limiter (`Particle.publish`) and
the EEPROM (`EEPROM.put`, `EEPROM.get`); the system calls up into the application
(`loop`, and cloud functions in every `delay`).  `event_loop` sets the update flags
that the limiter and `delay` look at.  The connection is the manager's: it calls the
handshake, which clears `updating`, and `cloud_disconnect`, which clears
`SPARK_FLASH_UPDATE`.  A finished update leaves an entry in the configuration store, which the
bootloader reads at the next start.  In the sensor everything but the callbacks of the Wi-Fi thread and
the interrupts runs in one thread; what interleaves are the calls of the system inside the
application's delays, the clock, the server and the power.  The firmware can also run the
system in a thread of its own (`SYSTEM_THREAD(ENABLED)`); `ActiveObject` models that mode,
all other modules the sensor's.

## 2. Modules

| Module | What it is | Uses |
|---|---|---|
| `EEPROMStore` | abstract: a map in which each write takes effect at one instant or never | |
| `EEPROMEmulation` | the two pages, one flash operation a step; implements `EEPROMStore` | instance of `EEPROMStore` |
| `MCEEPROMEmulation` | the symmetry of the values, for runs without liveness | extends `EEPROMEmulation` |
| `EEPROMProofs` | theorems about it | |
| `PublishLimiter` | the ring of five times | |
| `ChimeLoop` | strikes on top of the limiter | extends `PublishLimiter` |
| `PublishProofs` | theorems about both | |
| `HttpClient` | one request and its answer | |
| `ChimeSettings` | settings from EEPROM to menu and back; `MCChimeSettings` gives two of its fields | extends `HttpClient` |
| `SettingsProofs` | theorems about it, and about the HTTP client in it | |
| `FirmwareUpdate` | reception of an update, pings, watchdog | |
| `FirmwareProofs` | theorems about it | |
| `NetworkManager` | the Wi-Fi interface and the cloud connection, passes, interrupts, application | |
| `NetworkProofs` | theorems about it | |
| `CloudMessages` | events, function calls, subscriptions, callbacks in callbacks; `MCCloudMessages` gives its names | |
| `CloudProofs` | theorems about it | |
| `ActiveObject` | the two threads and their queues | |
| `DCTStore` | abstract: words of which a write changes one at one instant or not at all | |
| `DCD` | the configuration store, one flash operation a step; implements `DCTStore` | instance of `DCTStore` |
| `SystemProofs` | theorems about `ActiveObject`, and that `DCD` implements `DCTStore` | extends both |
| `FlashModules` | from the first chunk of an image to the system that runs it; `MCFlashModules` gives its images | extends `DCTStore` |
| `FlashProofs` | theorems about it | |

### EEPROMEmulation

`header` and `log` are the flash.  A slot is the pair of data and address; a slot whose
address was not yet programmed has the address `Blank`.  Free slots are those after
the end of the log, which is what the scans of the code find.  `pc` names the flash
operation that the running call does next and `call` the call; `PowerUp` is
`EEPROM_Init` up to its first flash operation, and one action each stands for its cases
(`InitTidy`, `InitFinish`, `InitResume`, `InitFormat`).  A write is `WriteVariable`,
`ProgramData`, `ProgramAddress`; a full page leads to `MarkReceive`, the write of the
new value, the loop `CopyNext` ... `CopyDone`, `EraseOld` and `Validate`.  The copy loop
of Init ends in the other order, `ResumeMark` and `ResumeErase`, as the code does.
`ReadVariable`, `ReadPage` and `WritePage` are the scans.  `PowerLoss` may come between
any two operations; the constant `LossPoints` names the stretches in which a run allows
it, so that the runs can say what holds up to the defects found and no further.
`FlashError` ends a call with an operation that had no effect.

The abstract `store` is what recovery would find now (`Store`), `pending` the writes
that were asked for and may still take effect: the running one, or the one that an
interrupted transfer left at the head of its page.

### PublishLimiter and ChimeLoop

The ring holds ages in place of times, so that the clock has no origin; `Elapsed` takes
them modulo `Wrap`, which is what the unsigned difference is.  `passed` is a history
variable: the ages of the last five events that were let through.  `ChimeLoop` polls
`Sensors` sensors, publishes two events a strike and waits.  The system serves the cloud
between two calls of `loop` and inside `delay` (`Served`): an update begins or ends, the
connection is lost, a handshake is made.

`send_event` ends with a `blocking_send`, whose result is its own: `SendEvent(sent)`.  Whether
the send succeeds is up to the connection (`link`): never without a socket, always
while the link is `sound`, and either way while it is `faulty`, that is, while the socket is
closed or has no room and the flags do not say so yet.  A sound link may turn faulty
between any two steps (`LinkFails`), the two events of a strike among them, and a
handshake may leave any kind of link.  The time that a send takes is time that passes
after it (`Millisecond`); behind the second event it makes the delay longer, which is time with `wait` at 0.
`SentInFull` is what follows for a strike whose link is sound at its second event, and
therefore at its first.  It does not say that the two events share their fate: with a send that
fails between them they do not, see section 3.

### ChimeSettings

A field has a class of values, not characters: a typed text, the word "auto", a located
position, noise cut from a wrong answer, a torn or cut text.  `promised` records what the
user was told is saved, `typed` what was typed since the last start.  `WriteField` is
`EEPROM.put` for one field; a power cut in the middle of a field that changes leaves it
`torn`.  setup() makes two requests, `GetIP` and `GetGeoData`; while one runs (`Asking`), the
sensor may be reset or rebooted from the cloud, since the client's loop delays.  `EEPROM.put` calls `update`, which does not write a byte that is the same, so a
field that does not change cannot be torn.  That the bytes themselves are written at once
or not at all is what `EEPROMStore` promises.

### HttpClient

An answer is counted in units, `Header` of them before the body.  `sent` is what has come of
it, `from` the end of what `flush()` threw away when the request had been written, `read` what the loop
has put into the buffer.  `RequestEnds` covers the three ends of the loop: the buffer is full, the server has
closed and all is read, or nothing came for five seconds.  What `Parse` finds no body in
leaves `response.body` as it was.

### FirmwareUpdate

One action per message that `event_loop` may find, and `NoMessage` for its timers.  A
chunk is good or bad; a slow update puts it where `chunk_index` says, a fast one where
the message says.  `asked` counts the copies of each chunk on their way, so that a
request repeated too early brings a chunk twice.  The server is outside: it sends what
the protocol allows, and may stop at any time.  `ReceiveFails`, `HandlingFails`,
`CloudDisconnect`, `Handshake` and `HandshakeFails` differ in which of the flags of the
two layers they clear.

### NetworkManager

`wlan` holds the flags of `ManagedNetworkInterface`, `cloud` those of the connection and the
failure count, `wake` what `system_sleep` will restore.  `pc` says in which call the system
waits: joining, DHCP, listening, the socket, the handshake, the first events, the
events.  One pass of `Spark_Idle_Events` goes from `ResetWlan` or `ManageNetwork` by
`StartListening` or `NotListening` to `ManageCloud` and what that calls.  Link down and
link up, the watchdog, the button and the alarm may come at any `pc`; the application acts
between two passes.  `Connect` is used from three places, `back` is where the pass goes on.
`socket` tells a connection that has had its handshake from one that has not, which the
code's flags do not.  `calm` is a point, chosen freely, after which nothing fails and nobody interferes.

`OffAnytime` says whether the application may switch Wi-Fi off, or put the interface to
sleep, while a reset is due.  The code then keeps the request for the reset, and resets
away the next connection; runs and theorems leave that case out, and the list of disagreements
describes it.

### CloudMessages

`stack` is the C++ stack: running callbacks of events and of functions, and greetings, the
call of the event loop at the end of `Spark_Handshake`.  `buffer` names the event whose
name is still in `queue`, `arg` the call whose argument is in `function_arg`.  What may
happen when a callback is running is what may happen in `loop()`: publish, subscribe,
unsubscribe, and a pass of the loop (`Pass`), which receives the next message or, when the
connection is gone, makes another.  `known` is what the server has been told on this connection.
A server that receives anything but a handshake on a new connection closes it.  A name is a
short sequence, so that one filter can be a prefix of another.

### ActiveObject

`putting` is the message a thread is putting into the other's queue, until there is room
(`Enqueue`) or the time is up (`PutTimesOut`), which drops it silently.  `Take` is
`process()`: the system's thread takes when it is not executing anything, the application's
also in the middle of a callback, wherever it calls `Particle.process()`.  An event is
queued with its name and a pointer to its data (`buffer`).

### DCTStore, DCD and FlashModules

`DCTStore` is the contract between the two others: `FlashModules` is checked on top of it, and
`SystemProofs` proves that `DCD` keeps it.  On the Electron the store is `DCD`; on the Photon it
is WICED's, whose source is not in the repository, and which is assumed to keep the same contract.

`DCD` has one action for each flash operation of `DCD::write` and `writeSector` (`EraseNew`,
`FillNew` for each word, `MarkNew` and `SealNew` for the two words of the header, `DropOld`), and of the
formatting that the first read or write starts (`FormatErase`, `FormatMark`, `FormatSeal`, whose errors
the code ignores).  `WriteFails` ends the call at any of them.  An erase that is cut leaves
any mixture of old words and blanks (`HalfErased`).  `ZeroInPlace` is what the bootloader does
to an entry, behind the store's back.  A write changes one word here, a stretch of bytes in
the code: readers and the copy treat the bytes of a stretch alike.  A word is programmed at once or not at all, and
an operation that reports an error has changed nothing.

In `FlashModules` the word `FlagWord` is `Factory_Reset_SysFlag` and the words `Slots` are
`flash_modules[1..]`; an image in one of them is an entry made from that image.  Clearing an
entry is one step, since its first word is the magic number.  A region holds an image and a
state: `torn` is a part of one, `bad` and `lost` what a failed flash operation left, with or
without a header, which is all that `is_application_valid` looks at.  `apart` is where
the factory image lies: on the Photon in the second half of the area of received images, on the Electron at the
very address of that area, as `flash_mal.h:76-77` has it.  `pc` goes through the system
(`run`, `begin`, `prepare`, `receive`, `end`), the bootloader (`boot`, `factory`, `slots`, `erase`, `copy`,
`installed`, `restored`, `dfu`) and `validate`, the first thing the system does.  `accepted` is a history
variable, the image whose entry was written and which was not installed since; a new update,
which erases the image, gives it up, and so does a copy that reports an error.

## 3. Runs

Passing runs:

| Run | Instance | Properties |
|---|---|---|
| `EEPROMPowerCuts` | 2 variables of 2 values, 3 slots a page; power cuts except in Init's own copy | `TypeOK`, `KnownGood`, `TransferFits`, `CopyComplete`, `WriteTakesEffect` |
| `EEPROMResumeCuts` | the same, the values interchangeable, with power cuts in Init's copy too, any number | `ImplementsStore`, `CompletedWriteIsRead` |
| `EEPROMFlashErrors` | 2 variables of 1 value; flash errors and power cuts | `FormatsOnlyBlank`, `VariablesSurvive` |
| `PublishBurst` | window 2, clock modulo 5, gaps up to 5 | `LimiterTypeOK`, `BurstBound` |
| `ChimeLoop` | 2 sensors, window 4, debounce 2 | `TypeOK`, `NeverLimited`, `SentInFull` |
| `ChimeSettings` | a field that cannot be "auto" and one that can; a short typed text and one too long for its field; an EEPROM never written and one that was; answers of 4 or 5 units, 2 of them header, for a buffer of 4 | `TypeOK`, `SavedIsRestored`, `OnlyTheUserChanges`, `AnswerIsWhole` |
| `FirmwareUpdate` | 3 chunks, asked for 2 at a time; short timeouts | `TypeOK`, `FinishOnlyComplete`, `WatchdogArmed`, `SilenceIsNoticed`, `UpdateEnds` |
| `NetworkManager` | the whole state space, `OffAnytime` = FALSE | `TypeOK`, `FailuresReset`, `NeverStranded`, `Reconnects` |
| `CloudMessages` | 3 names, one a prefix of another and one the system's, 2 slots, 2 messages, calls 3 deep, 2 connections | `TypeOK`, `KnownToServer`, `ResultMatchesCall`, `EveryListenerHears`, `CallsAnswered` |
| `ActiveObject` | queues of 2, 5 calls, callbacks 2 deep | `TypeOK`, `AnsweredOnce`, `SystemServes`, `SyncCallReturns` |
| `FlashModules` | one image of the system, two of the user's, the second one longer; two entries; power cuts, failing writes and copies, factory resets and new updates at any step, any number | `TypeOK`, `RunsWhole`, `UpdateInstalled`, `ComesUp` |

Why the bounds are enough.  *EEPROM*: the code's 4095 slots for 2048 variables are
`2 * N - 1`, and the instances keep that relation, on which `TransferFits` hangs; two
variables make one that is written and one that is copied (a third brings the checks
beyond the time of a run, and is what the proofs are for); two values tell an old value from a new one.  Every page fills up and is
transferred many times, in both directions.  `EEPROMFlashErrors` has one value, since it
asks which variables exist and not what they hold.  *Limiter*: ages up to `MaxGap` above
`Wrap` so that the clock comes round between two attempts; five slots, as in the code.
*Strikes*: two sensors give a strike that follows at once and one after the loop's
turn; `2 * BounceDelay = Window`, as 2 * 125 ms = 250 ms.  *Settings*: the two kinds of
fields; an answer that fits the buffer with room to spare or exactly, one that does not, and pieces that
end before, at and after the blank line.  *Update*: two batches,
the second one smaller, and the last chunk of a batch that is not the last one missing;
the timeouts keep the order of the code's (3 s for a chunk, 10 s and 15 s for the pings,
30 s for the watchdog) only as far as anything depends on it, which is that all are
finite.  `MaxAsked` = 2 copies of a chunk on their way.  *Network*: nothing is
bounded; the failure count bounds itself, which `TypeOK` checks and the proof shows.  *Cloud
messages*: a callback in a callback needs a third call only when a greeting is between
them, which the depth allows; two connections are one and the next; two slots, so that the
table is full with one handler of the application.  *Threads*: queues shorter than the
number of calls, so that both can be full at once.  *Installation*: two modules to tell the one that is copied from the one that is
not; two images of one module, so that an entry may meet an image it was not made from, longer or
shorter; two entries make a first, a next and none free.  Nothing else is bounded.

Deadlock is checked in every run but `CloudMessages` and `ActiveObject`, where the bounds on messages
and calls let the system stop, and `FlashModules`, whose device may end in the DFU mode or run on with nothing
to do.

A run that ends in a violation, a disagreement between the code and what the
repository says of it:

| Run | Property | What happens |
|---|---|---|
| `EEPROMInitCut` | `VariablesSurvive` | Init finishes an interrupted transfer by marking the new page valid before it erases the old one.  A power cut in between leaves two valid pages; the next Init formats both. |

Disagreements seen while the modules were written, which no run singles out:

* power cuts in two successive copies of one page use up its slots: `EEPROM_Init` meets
  `PAGE_FULL` and returns (`eeprom_hal.c:474-476`, `565-567`), at this boot and at every
  later one, with one page valid and the other receiving; `EEPROMPowerCuts` shows
  that one cut can do no harm, and `TransferAlwaysFits` proves it;
* after a transfer that failed, `EEPROM_FindValidPage` gives the new page to writes and the
  old one to reads (`hal/src/stm32f2xx/eeprom_hal.c:174-216`), so that a write that
  returned `FLASH_COMPLETE` is not read back before the next boot; `EEPROMFlashErrors`
  shows that no variable is lost by it;
* the comment at `communication/src/spark_protocol.cpp:560` speaks of "4 events per
  second", the window above it was changed to 250 ms;
* `strike` ignores what its two `publish` return (`netChimes2.cpp:93-94`): a send that fails at one of them, since
  the connection broke in between, makes the listeners of "data" hear a strike that those of "json" do not, and
  it is not sent again;
* an attempt that comes 2^32 ms after the fourth last one is refused, however quiet the
  device was: the times of the ring never expire;
* `changeKeeper` and `changeCity` allow 40 characters and `changeDesc` 200, of which
  `writeUserData` keeps 19 and 119: the constant `Long` and the value `cut`;
* a sensor whose EEPROM was never written starts with 0xFF bytes in place of its defaults
  (`netChimes2.cpp:297`), although `ncWeb/sensor.html:77` says that it locates itself by default;
* `resetSensor` returns before its `System.reset()` (`netChimes2.cpp:259`): until the next start strikes go
  out with latitude and longitude "auto", which `toFloat()` reads as 0;
* a request that fails leaves the answer to the one before in `response.body`, and a
  position is cut out of the text of an IP address (`netChimes2.cpp:114`); `flush()` after the headers
  (`HttpClient.cpp:142`) may throw away the first part of an answer, or all of it; an answer that is cut
  by the time limit is taken for the whole (`HttpClient.cpp:249-271`); after an answer too long for the buffer
  the loop goes on counting, and the final zero is stored beyond its end (`HttpClient.cpp:205-222`);
* the request for a chunk that does not come within three seconds is commented out
  (`spark_protocol.cpp:181-189`); the test `EventLoopSendsChunkMissedOnTimeout` expects it;
* the application may switch Wi-Fi off while a reset is due or the watchdog runs.
  `manage_network_connection` does not see that the interface is not started
  (`system_task.cpp:94-108`): with `OffAnytime` = TRUE TLC finds that `Reconnects` fails,
  the sensor has been told to connect and does not;
* `system_sleep` computes what to restore from the value that an earlier sleep left in
  `wakeupState.cloud` (`system_sleep.cpp:76`); a sensor that goes to sleep while it is reconnecting
  does not connect when it wakes;
* a connection that breaks in the events of its own handshake counts as connected
  (`system_task.cpp:276`), and the next one begins without a handshake; the server closes it, and the one after
  is made in full.  `Reconnects` covers it;
* a callback that delays during those events shakes hands a second time, which ends the connection
  (`HandshakeAgain`); a handler subscribed during them is not made known to the server (`late`);
* `unsubscribe()` empties the slot of the system's own handler as well, although
  `spark_protocol.h:176` sets it apart; `event_handler_exists` compares only as many characters as the new
  name has, so that a filter which is a prefix of an existing one is not added (`HandlerExists`);
* a handler that publishes or delays overwrites the event's name, and the handlers
  after it may miss the event: the condition in `EveryListenerHears`;
* an argument that is too long is refused with 4.00, and the function is called with the argument of an
  earlier call (`spark_protocol.cpp:1315-1336`): the condition in `ResultMatchesCall`;
* `invokeEventHandler` copies an event's data into Strings, as its comment says (`system_cloud_internal.cpp:185`), and then queues the
  pointers to the originals (188): the next message from the cloud overwrites them before the handler has run.
  `EventDataIntact` states what is meant; added to `ActiveObject.cfg`, TLC refutes it;
* `put()` drops a call when the queue stays full; a synchronous call that was dropped waits for
  its result for ever: the condition in `SyncCallReturns`.  `system-threading.md` says that the system
  thread does not block on the application's; it does for up to the time limit, which
  for the system's own queue is `1024*3` ms (`system_threading.cpp:15`);
* `FLASH_UpdateModules` clears an entry whether or not it was copied (`flash_mal.c:585-603`): a flash error leaves
  a broken module and no way back (the states `bad` and `lost`, and the second part of `Trapped`);
* `FLASH_AddToNextAvailableModulesSlot` ignores the result of its write (`flash_mal.c:465`), so that an update is reported
  as pending, and the device reset, though no entry was written: `accepted` is set only when one was;
* a new update erases the image that an entry of an earlier one still waits for (`Begin`); the entry is refused later;
* the last chunk of an image, if its length is not a multiple of four, is written from one byte before the
  chunk in place of the padded copy (`flash_mal.c:865`, where `index` has wrapped); the check of the image then refuses it;
* a device without a user's module and with a part of one where the factory image is read asks for a factory
  reset that cannot succeed at every start (`core_hal_stm32f2xx.c:287`): the first part of `Trapped`.  On the Electron a transfer
  that was given up leaves such a part; on the Photon the erasing of the area takes the factory image with it if the
  image is large (`hal/src/photon/ota_flash_hal.cpp:33-40`);
* on the Electron `hal/src/electron/ota_flash_hal.cpp:41` and `flash_mal.h:76` do not agree on the address of the factory image;
* a system that was lost has the bootloader restore the user's module, if there is a factory image, again and again (`bootloader/src/main.c:400`), where
  the comment below it expects the DFU mode;
* a factory reset by the button is not written down: a power cut in its copy leaves a torn user's module.  An
  entry for the user's module that is pending undoes a factory reset at the next start.

**Fairness.**  `EEPROMEmulation`: weak fairness of the steps of a running call (`Step`);
a call has the processor until it returns, and nothing is assumed of power, callers or
errors.  `FirmwareUpdate`: weak fairness of `Tick` (the SysTick interrupt) and of
`NoMessage` (`event_loop` is called again and again, by `app_loop` and by `delay`, and
at some time finds no message, with its timers expired and staying so); nothing is assumed of the
server.  The application must return from `loop()` or reach a `delay` for this, which it
does except in the menu, where the cloud is not served at all.  `UpdateEnds` is stated for behaviours in
which the server at some time stops beginning new updates.  `NetworkManager`: weak fairness of the passes (`app_loop`
calls them again and again; calls that wait have time limits), of the watchdog, of the back-off, of the
alarm of a sleep, all of which are time; and of a user who sets up a sensor found listening,
without whom it listens for ever.  `Reconnects` starts from `calm`, so that nothing is assumed of
the world before it.  `CloudMessages`: callbacks return and the greeting comes to its
end.  `ActiveObject`: the system's thread runs; nothing is assumed of the application's.
`FlashModules`: the processor goes on in the bootloader, in writes to the store and in the steps of an update that wait for nobody; the
system resets when a reset is pending, once the device is `calm` (before, the application may forbid it).  Nothing
is assumed of transfers.  The other
modules have safety properties only.

Every property of a passing run comes with a mutant of the code's definition, kept in the
module next to the definition it changes and marked as such, that breaks it.

## 4. Proofs

All proofs are checked by TLAPS from nothing; nothing is omitted.  Every invariant of a passing run is the
conclusion of a theorem, and so is every action property and every refinement.

**EEPROMProofs**, for every `N` >= 2, every set of values:

* `TypeCorrect`: `Spec => []TypeOK`, with no assumption on power and errors.  The
  invariant adds `CopySource`: while a copy loop runs there is a page to read.
* `FormatIsSafe`: `FormatsOnlyBlank`, assuming only `"bothValid" \notin LossPoints`.  The
  invariant `StatusWords` lists the pairs of status words each step can leave.
* `TransferAlwaysFits` and `AlwaysKnownGood`: `TransferFits` and `KnownGood`, assuming
  `BootsInPeace` (no flash errors, no power cut in Init's own copy).  The argument counts
  slots.  A transfer writes one slot for the new value and at most one for each other
  variable, `N` in all (`TransferRoom`).  Interrupted (`CutRoom`), it leaves at most `N`
  used slots, and the copy of Init writes at most `N - 1` more (`ResumeRoom`), because it
  leaves out the variable in the first slot.  The sum is `2 * N - 1`: a page holds exactly
  one interrupted copy and one whole one, and the last slot of 4095 may be needed.  Two
  interruptions do use up the page, so the assumption cannot be dropped.
* `CopyIsComplete`, `WrittenIsRead`, `WrittenVariablesSurvive` (`VariablesSurvive`) and the refinement
  `PagesImplementStore` (`ImplementsStore`), assuming `NoError`: no flash operation reports an error, and the power is not cut while
  Init has two pages marked valid, which is the one cut that `eeprom_init_cut` shows to be fatal.  Power may be cut in Init's copy,
  any number of times, and the page may fill up.  The invariant is `DataInv`.  Every slot but the first of a page that receives is torn, or says of its
  variable what the old page says (`Copies`); the first one is the write that the transfer is for.  The
  loop has copied each variable below `cursor`, or is at it (`Progress`).  So, when the loop is over, the new page can stand in for
  the old one (`Standing`), whichever of the copies that cuts left in it the scan from its end finds first.  A copy
  that Init had to give up for lack of room leaves the two pages as they are, for ever (`Stuck`); reads still go to the old one.
  For the refinement, each action has a lemma that says where it takes effect.  A write does when the halfword of its address is programmed
  (`Committing`); one that transfers the pages does when the new page is first read in place of the old one, with its head
  (`HeadTakesEffect`); everything else, cuts included, is a stutter (`Quietly`, `ReadAlike`).

**PublishProofs**, for every window, wrap and debounce:

* `BurstsBounded`: `LimiterSpec => []BurstBound`.  The invariant ties the history to the
  ring: the k-th last event let through is at least as old as the k-th last attempt, up
  to the cap.  Its core is the lemma `Shift`: an attempt turns the k-th last attempt into
  the (k+1)-th last.
* `LoopTypeCorrect` and `StrikesAreNeverLimited`: with `2 * BounceDelay >= Window` and
  gaps below the wrap, the fourth last attempt is at least a window old when a strike
  publishes (`Lags`, by position in the loop and what is left of the delay; `Recent`
  bounds the gaps).  `QuietAssumption` keeps the overflow of `millis()`
  out: a strike that comes 2^32 ms after earlier ones is refused.
* `LimiterTypeCorrect` (`LimiterTypeOK`), from the invariant of `BurstsBounded`.
* `StrikesAreSentInFull` (`SentInFull`).  The invariant `Undisturbed`: on a connection a running update keeps the
  application waiting, so that none runs while a strike is published; and where the link
  is sound at the second event, the first was sent.  A flag that a lost connection left
  behind is harmless once the handshake has reset it.

**SettingsProofs**, for every list of fields without repetitions, all texts, and every size of the header, the answers and the buffer:

* `TypeCorrect`, `SavedIsAlwaysRestored` (`SavedIsRestored`), `OnlyTheUserEverChanges` (`OnlyTheUserChanges`) and
  `AnswerIsAlwaysWhole` (`AnswerIsWhole`), from one invariant.  It says at each place of the program how the copy in RAM differs from the one in
  the EEPROM: not at all in `setup` (`Loaded`); in the menu and the loop by what was typed, and by what `setup` put in place
  of "auto", which the menu knows to turn back as long as the flag is set (`InUse`, `Faithful`).  During a write the fields before the one it is at
  are stored, and of those from it on nothing typed is promised yet (`WriteInv`).  `Request` bounds what
  has been read of an answer by what has come of it.  Two assumptions are used: the texts are other values than the model's words
  (`TextsAssumption`; "auto" is a word, and may be typed), and the fields are different ones (`FieldsAssumption`).

**FirmwareProofs**, for every file, batch and timeout:

* `OnlyCompleteUpdatesFinish` and `WatchdogAlwaysArmed`, from one invariant, `Transfer`:
  in a fast update the bitmap is what is saved; in a slow one the saved chunks are
  exactly those before `chunk_index`, and the server has still to send those from it on;
  an update on a link has its watchdog running.
* `TypeCorrect`: no index leaves the file and no timer its range, in particular in `next_chunk_missing`.

**CloudProofs**, for all names and handlers, and any depth of callbacks in callbacks:

* `TypeCorrect`, `HandlersAreKnown` (`KnownToServer`), `ResultsMatchTheirCalls` (`ResultMatchesCall`) and
  `EveryListenerIsCalled` (`EveryListenerHears`), from one invariant.  A message is on its way, or served by one
  frame of the stack, or a call that is answered, and never two of these (`Once`); a frame keeps the
  token and the argument of its own call (`Marked`), although the calls inside it overwrite both buffers.  `Heard` is about the loops of
  `handle_event` that are under way: the handlers that were due when the loop began are still in the table, and, as long as
  the event's name is still in the buffer, those whose slots the loop has passed have been called.
  That is what `subscribe`, which appends to the table, and nested loops have to keep; unsubscribing, which moves the handlers, gives the event up in the
  property as well.  The lemmas are about sequences of frames: what `Append`, `Front` and `Tail` do to them.

**NetworkProofs**, assuming `~OffAnytime`, and nothing else:

* `TypeCorrect`, `FailuresAreCounted` and `NobodyStranded`, from one invariant, `Managed`.  It
  adds to the types what ties the flags together: an interface that is up was not told to disconnect (`LinkWatched`), so that the callbacks of the
  Wi-Fi thread arm the watchdog; one that is off has neither link nor address (`OffMeansOff`); one that is
  joining is on, without an address (`Joining`); from the request of a reset to the pass that makes it the interface
  stays on (`ResetDue`), which is where the assumption comes in, and which `FailuresReset`, being
  an equivalence, needs; a socket is opened only over an interface that is on
  (`OnToConnect`); listening has taken the interface down first (`DownToListen`).

**SystemProofs**.  For sectors of every size, under `Parameters` (the size is positive, blank and zero are values):

* `DCDImplementsDCT`: `DCDSpec => ImplementsDCT`, the refinement of `DCTStore`, where `cell` is what a read finds and `asked` the
  running write.  The invariant: a write works in the sector that reads do not look at (`CallInv`); from the end of its copy
  on that sector holds, word by word, what the write has to leave (`CopyInv`); and until a sector is sealed for the first time nothing but blanks
  is read (`BlankInv`).  The write takes effect when the new sector is sealed, if that is the second one, which reads prefer, and
  otherwise when the old one loses its seal (`SealTakesEffect`, `Drops`).  `NotRead` says that all the rest, a half-finished
  erase included, is invisible.  There is no run of `DCD`: the theorem covers every size.

For queues of every size and any number of messages:

* `ThreadsTypeCorrect` (`TypeOK`) and `CallIsAnsweredOnce` (`AnsweredOnce`).  A function call goes one way: it is being put
  into the application's queue, is in it, is executed, and its result is put, is in the system's queue, is
  executed, and is the answer (`Way`).  The invariant `OnePlace` says that a call is in at most one of the seven places at a time, and
  once, so that whatever the threads drop, take in the middle of a callback or execute nested moves it on or loses it, and never doubles
  it.

**FlashProofs**, for every number of entries and every set of images, on top of `DCTStore`:

* `TypeCorrect` and `NeverRunsTorn` (`RunsWhole`), from one invariant.  Its core is `Repairable`: while the system's area is
  torn, some entry for it passes the bootloader's check and is not behind the bootloader (`Ahead`).  It rests on
  `Received`: the scratch area changes only while the system runs, which it does not when it is torn; and on `Placed`: an entry that is being copied has
  passed its check, and writes to the store that run in the bootloader are to the flag, not to an entry.

Only model-checked: what is out of the prover's reach, which is liveness under fairness (`WriteTakesEffect`,
`SilenceIsNoticed`, `UpdateEnds`, `Reconnects`, `CallsAnswered`, `SystemServes`, `SyncCallReturns`, `UpdateInstalled`, `ComesUp`), and with it
`ENABLED`; and induction over data.  Only model-checked in part: `VariablesSurvive` while flash operations fail
(`eeprom_flash_errors`), which the theorem leaves out, since a slot that failed half-way needs a weaker
`Copies`.  The network manager with `OffAnytime` = TRUE is neither proved nor checked: its run sets it to FALSE, and with
TRUE `Reconnects` fails (section 3).

## 5. Not modelled

A sector that is half erased, or a halfword half programmed, when the power goes.  The
ciphers, the CoAP format and the handshake's cryptography.  The `spark` system events,
which are limited per minute.  Describe and variable requests, which are answered at once.  The buffer that holds both messages and the bitmap of
received chunks.  `waitFor(System.updatesEnabled)`, which ends at once for an application
that does not disable updates.  Safe mode, the
protocol of the DFU mode, the bootloader's update of itself (`bootloader_update` copies directly, and a power cut in it is fatal), the
serial flash of other devices, `migrate` from an older layout of the store, the flags of the store that only colour a LED or count
versions.  Delays
longer than the timers of the model.  Stop mode and deep sleep, which halt or restart the processor.  Header lines and status codes of HTTP, which
no caller reads.

The map names a small part of the repository's lines, and must: more than nine tenths of them are the last group below.

*Relay, web page, set-up page*: a callback or two each, on top of libraries outside the
repository (`ws`, `spark`, jQuery) that keep all the state: a model would be one of
those libraries.  *The rest of the bootloader, drivers, HAL, TLS library, real-time kernels, vendor headers*: by far
the largest part of the repository's lines, vendored and for many platforms, of
which the sensor builds one; external where used.  *Wiring classes*: strings, streams and
pins without protocol state.  Drawings, images and sounds: not code.

## 6. Plan

Done, in this order: EEPROM (the only persistent state), limiter and strikes (the one
thing a sensor is for), settings, update, network manager, HTTP client (composed with the settings), cloud
messages, threads, configuration store and installation of images.

Next, in order:

1. proofs: `VariablesSurvive` with flash errors; the network manager without the assumption `~OffAnytime`, as far as its
   properties hold without it;
2. `NetworkManager` composed with `FirmwareUpdate`, in place of the environment actions of the latter
   (`CloudDisconnect`, `Handshake`);
3. `FirmwareUpdate` composed with `FlashModules`;
4. describe and variable requests, and the buffer that is also the bitmap;
5. `ChimeSettings` on `EEPROMStore`, byte by byte.
