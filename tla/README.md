# A TLA+ model of ThrottleX

ThrottleX is a server between throttles and model railway command stations.
wiFRED throttles connect over TCP and speak a dialect of WiThrottle; command
stations are reached over one or more LocoNet-over-TCP servers. In between is
the *loco table*: one row per loco, through which a throttle and the LocoNet
send threads share the loco's speed, direction and functions. This directory
holds TLA+ modules that model that core, TLC configurations that check them on
small instances, and proofs for every value of the constants.

All paths below are relative to the repository; the C# is under `src/`, so the
projects are `src/src/WiThrottle`, `src/src/Loconet`, `src/src/Shared` and
`src/src/ThrottleX.Core`, and the tests `src/test/Unittests`.

## 1. The system

```
 throttle --TCP--> CustomTcpClient --channel--> WifredClient      (one loop per connection)
                                                    | IThrottle2Row
                                  LocoTableImpl -> LocoRowImpl    (rows, one per address)
                                                    | ILoconet2Row
 station <--TCP--> LoconetClient <-- SlotControl <-- LoconetSend  (one send thread per LocoNet,
                    (receive thread)                               one receive thread per LocoNet)
                         \-- OnMessage --> CommandStationMirror
```

| Component | State | Operations | What makes it correct |
|---|---|---|---|
| **Loco table and rows** (`LocoTableImpl`, `LocoRowImpl`, `AllLoconetsReply`, `FunctionProcessing`, `KnownFunction`) | list of rows; per row `IsActive`, requested speed and direction, emergency stop counter, function states and queue, the wait object `_allLoconetsReply` | `Activate`, `WaitForSlotsAsync`, `Deactivate`, setters and function keys; `OccupySlotSuccess/Failed/Occupied` and the dequeue from the other side | one throttle has a loco; an answer goes to the add that waits for it, once; a grant means the slot is ours everywhere; functions arrive in order |
| **Throttle sessions** (`WifredClient`, `WiThrottleMessageProcessor`) | `_myLocos`, `_customTcpClient`, throttle name and capabilities, the battery loop | the command loop: `+`, `-`, `A`, `N`, `H`, `Q`, `*` | what a client holds is active, what it does not hold it does not move; every add is answered |
| **WiThrottle service, store, TCP** (`WiThrottleService`, `WifredClientStore`, `CustomTcpClient`) | dictionary of clients by uid; listening task and message channel of a connection | accept, `UpdateConnection`, `ForgetClient`, read and send lines, dispose | a client of the store has at most one live connection; old loops end |
| **Send thread: occupying a slot** (`LoconetSend.Activate`, `Deactivate`, `SlotControl`) | `SlotState`, `LastKnownStat1`, slot number | OPC_LOCO_ADR, null move, OPC_WR_SL_DATA; OPC_SLOT_STAT1 | an Active slot is ours at the station; another device's is never touched; a slot no longer wanted is freed |
| **Send thread: operating a slot** (`LoconetSend.Operate`, `SlotControl`, `Speed`) | last speed, DIRF and SND sent; own copy of the stop counter | `SendSpeed`, `SendDirf`, `SendSnd`, `SendFunction` | stops get through, the station ends at what the row shows |
| **Send thread: life cycle** (`LoconetSend.SendThreadMain`) | `State`, `_wake`, cancellation | wait for a connection, query the system slot, operate, recover, stop | it survives every exception, and ends when it is told to |
| **LocoNet connection** (`LoconetClient`, `StringHelper`) | socket, `_sentEvent`, `_replyEvent`, `_sentError`, `_nextReceiveIsReply`, `_lastSentHex`, `_reply` | `BlockingSend`, `SendAndWaitReply`; `OnReceive`, `OnSent`; reconnection | SENT and replies go to the call they belong to; every call returns |
| **Command station mirror** (`CommandStationMirror`, `SlotData`) | slots by number and by address | `OnMessage`, `Remove` | shows what the station has |
| **Guess of the command station** (`CommandStation`, `DigitraxD5`, `UhlenbrockD4`) | none | scoring of the system slot | the best score wins, ties are resolved the same way every time |
| **LocoNet message formats** (`Msg`, `Msg/Accessor`) | none | bit fields, checksum, look-up of a received message, immediate packets | what is written is read back, no bit leaves its field |
| **Addresses, speed, direction** (`ShortAddress`, `LongAddress`, `Speed`) | none | conversions between wiThrottle and LocoNet | conversions there and back agree on the whole range |
| **LoconetService** | the client and the send thread of every configured LocoNet | start, stop | everything that is started is stopped |
| **System time** (`SystemTimeService`, `TimeSyncAlert`, `getBrowserTimeIso`) | per page the flags of the alert, the clock of the host | check, set the host's clock, clear the message, dismiss | success is claimed only when the clocks agree (kept only if the browser's answer parses), a failure stays visible, an update ends |
| **Colour theme** (`site.js`, `ThemeToggle`) | the stored choice, per page an attribute and the toggle's copy | load, choose, follow the system's scheme | only a click replaces a choice; the page and the toggle show it |
| **System health** (`SystemHealthService`, `LinuxSystemMetricsReader`) | last metrics, last CPU counters | timer | differences of counters stay in 0..100 % |
| **wiFRED configuration, web pages, start and logging** | data, rendering, wiring | | |

### How the parts interact

* A throttle's `+address` runs in the loop of its connection: `MtAddAsync`
  activates the row, then awaits a `TaskCompletionSource` in the wait object.
  The send threads *poll* the rows; each reports its result into the wait
  object, and the last one completes it. The awaiting task then goes on *inside*
  `SetResult`, on the send thread that is still holding the wait object's lock.
* Speeds and directions are overwritten, functions are queued, emergency stops
  are counted. Nothing flows back from LocoNet to the row except the slot's data at
  activation.
* `LoconetClient` has two threads, the send thread (inside `BlockingSend`) and
  the receive thread, which share events and fields without one common lock.
* A new connection of the same throttle replaces the old one in the
  `WifredClient`; the loop of the old one is not told, and runs on for the same
  client object: it reads from whatever connection is current when it comes to read.
* The receive thread tells the send thread of a new connection by an event, and
  sets its own state after that. `LoconetService` stops the LocoNets one after the
  other and waits for each receive thread, whose blocking reads only the end of their
  socket can end.
* Every line heard goes to the mirror with the origin that `LoconetClient` guesses.
* Web pages act on the services in two places: "forget" of a client, and the clock.
  The script of a page and its component in the server talk over a circuit.

### What is hard

The list with lines and properties is `PROJECT.json`, "hazards". In short:
answers that race with the end of the wait (5 s on the throttle's side, 3 s on LocoNet);
two loops acting for one client; several send threads sharing one wait object and one
queue; exchanges that fail half-way and leave the station changed; a restart
while slots are held; fields read twice; a flag that says "the next message is
the reply" on a bus where everybody talks; an event set before the state that it
announces; two loops on one connection; a stop in the middle of a reconnection; a timer
that clears a message it was not started for.

## 2. Modules

| Module | Models | Extended by, or together with |
|---|---|---|
| `LocoRow` | one row, the processing loops of the throttles, and the part of each send thread that follows the row's activation | `LocoRow_proofs` |
| `SlotLease` | abstract: one slot that is held by one at a time and counted as ours only when it is | instantiated in `SlotActivation` |
| `SlotActivation` | the three exchanges of `Activate` and the release, with the station and another device | `SlotActivation_proofs` |
| `SlotOperation` | speed, direction, stops and functions of an active loco, for any number of LocoNets | `SlotOperation_proofs` |
| `LoconetClient` | one LocoNet connection: send thread, receive thread, server | `LoconetClient_proofs` |
| `SendLifeCycle` | the two threads of every LocoNet from the start of the service to its stop | `SendLifeCycle_proofs` |
| `ThrottleSession` | the connections of one throttle, the loops on them, the store of clients, "forget" and the stop | `ThrottleSession_proofs` |
| `CommandStationMirror` | the table of slots, fed with the origins that the connection guesses | `CommandStationMirror_proofs` |
| `TimeSync` | the alerts of several pages that set one clock | `WebPages_proofs` |
| `SiteTheme` | the theme in the tabs of one browser: script, storage, circuit, component | `WebPages_proofs`, which extends both; so their `Init`, `Spec` and so on have a prefix |

The interfaces between the modules are narrow. `LocoRow!Acquire` stands for a whole
activation and has just its three results; `SlotActivation` opens it up.
`SlotOperation` has the look-up and the null move of
every LocoNet, which succeed, because the row's values and those that count as sent come
from them; a session ends with the row's deactivation. An exchange of
`SlotActivation` (`ok`, `noRequest`, `noReply`) and a lossy `Send` of
`SlotOperation` are what `LoconetClient` returns to its callers. In `SendLifeCycle`
an exchange just returns: `CallReturns` of `LoconetClient` says that it does.
`ThrottleSession` has the loops that `LocoRow` calls tasks, and why there may be two of
them for one client. `CommandStationMirror` repeats the guess of `LoconetClient` with its
two threads in step, for the question what the guess means to the mirror.

### Correspondence to the code

`PROJECT.json`, "map", gives the lines of every definition. The main points:

**LocoRow.** `isActive` and `pending` are fields of `LocoRowImpl`, `results` and
`completed` those of the wait objects, which are numbered by the add that makes
them. A *task* is one processing loop with its connection; `owner` is the
`WifredClient` it runs for, `current` that client's `_customTcpClient`. `MtAddAsync` is split
where other threads can interleave: `AddRequest` (the check of `IsActive`, outside
the lock), `Activate` (the locked part), `Register` (the wait object is stored),
`Await` (the field is read again, and what it holds by now is awaited, which may be null),
`Timeout`, `Resume` or `Proceed` (the wait ends, or the result was there already),
`Confirm`/`Refuse`, `Release`. A send thread
is split in the same way: `PollActivate`, `Acquire`, `Report` (the snapshot of
`ForwardReply`), `WriteResult` and, for a success, `WriteSlot` (both outside the lock),
`Check` (inside), `Assign` (the slot state, assigned only after all this). A result
`Empty` is a success whose slot is not written yet: the loop that is told so dies of it. An exception in `Check` leads to
`Recover`, which is what `SendThreadMain` does with it.
`snap` is the local variable that keeps a wait object reachable after the row has
dropped it. `Resume` changes the waiting task within `Check`, because the
continuation runs inside `SetResult`.

**SlotLease.** Two variables, who holds the slot and whether ThrottleX counts it as
Active, and what each side may do to them: nobody takes a slot that is held, the
other device releases only its own, and ThrottleX gives back only what it counts.
`SlotActivation` instantiates it with `holder` and `slotState = "Active"`.

**SlotActivation.** One action per exchange, each with three fates. `stat1` is
`LastKnownStat1`, null until a look-up (`LookedUp`), taken by `GetSlotByAddress` and
written back by `Deactivate`; that it is not null there is part of the type invariant.
`holder` is what neither the code nor the station stores: who set the slot IN_USE.

**SlotOperation.** `last` joins `LastSentSpeed`, `LastSentDirf` and `LastSentSnd` of
a `SlotControl`; `seen` is its copy of the stop counter. The getter of
`Speed.LocoNet`, which reads `_speed` twice, is two actions (`ReadSpeed`,
`SendDifference`) with `temp` in between. The rest of `Operate` sends the first
difference that it finds: speed, then direction, then one function of the queue.
Whether a stop was counted (`SendStop`, `PassStop`) is asked one step before the speed is
read, and the throttle counts a stop one step before it sets the speed. `LookUp`
takes `last` from the slot, `Occupy` the reply of the null move, from which
`InitializeFromSlot` fills the row field by field; another throttle (`OtherDrives`, the
speed only) may drive until the null move. A session's threads may operate before the
other LocoNets have their slots, on what the row had before.
DIRF carries direction and F0 to F4, SND carries F5 to F8: a message changes in the
station's slot what it carries, and nothing else.

**LoconetClient.** `n` numbers the messages, so that a property can say which call an
echo, a SENT or a reply belongs to; the code has no such number, and no action
reads it to decide anything except the comparison of the echo with `_lastSentHex`.
`OnSent` is two actions, because the event is set (line 377) before the flag
(line 378). `Prepare` is three steps: the lock on `_sentEvent` keeps out other calls,
not the receive thread, which takes no lock and may handle a line between the assignments.

**SendLifeCycle.** `receive` and `send` are the places of the two threads, `client` is
`_client` with the fate of its socket, `wake` the event `_wake`, which resets itself.
`OnConnectionEstablished` is in steps, because the event is set (line 212) before
the state is `Operation`. Cancellation ends no blocking call: `ReadFails` is the
end of a socket, whether lost or disposed. `disposing` is how far
`DisposeClients` and `LoconetClient.Dispose` have come with a LocoNet, in the
order of the code (`Order`).

**ThrottleSession.** `conn` is the life of each `CustomTcpClient`, `lines` its channel,
`pc` where the task is that accepted it, first in the handshake, then in
`UpdateConnection`, then in the loop. Between the check that the client is connected
(`While`) and the use of its connection (`Use`) the field may become null or another
connection. A malformed line of the handshake ends the handler and leaves the
connection open. `Disconnect` disposes of the connection, which first waits for its listening
task ("closing", still connected for the others, until `Closed`), and then assigns null;
it reads the field twice before, in one step of the model: `NullBeforeAssign`, `NullAfterQuit` and `NullAfterRemove` are
the second halves, for its three callers. `AddEnds` is the end of the long `await` of an
add, during which everything else goes on. The lines are four: one without consequences
for the loop, an add, one that ends the loop with an exception, and `Q`.

**CommandStationMirror.** `bySlot` and `byAddress` are the two indexes. `OnReceive` and
`OnSent` are those of the connection, each followed by `OnMessage` with the origin; what the
station has is changed at the moment it sends the line. `ours` remembers which fields ThrottleX
changed last, so that a property can except them.

**TimeSync.** One handler per `await`: `CheckTime`, `SyncTime`, `Answer` (the browser's
reading has come, or an answer that does not parse, in whose place the host's own time is
taken; `parsed` remembers which), `Succeed`/`Fail`, and `Clear`, which a success starts and which runs 6 s
later. `leftovers` are readings that `SetHostTimeAsync` still sets for a page that
was closed meanwhile. A clock is its distance from the true time in steps of the
threshold of `IsTimeDifferent`.

**SiteTheme.** One action per task of the script (`Load`/`Set`, `OnChange`, `Call`) and per
handler of the component (`OnAfterRender`, `Receive`); `calls` and `events` are the two
directions of the circuit, each in order.

### What is assumed of the outside

* The *server* (LoconetOverTcp, not in the repository) answers SEND lines in order, with
  the echo, SENT, and the reply, and puts no other device's message between SENT and the
  reply. That is what `_nextReceiveIsReply` relies on.
* The *station* refuses a null move of a slot that is IN_USE with a LongAck
  (comment of `MoveSlots`), and answers a write of slot data with a LongAck, which
  the code takes for success whatever it says. FREE, IDLE and COMMON are the same to
  the code and are one value here.
* The *other device* of `SlotActivation` behaves as ThrottleX does: null move first,
  then its id, and it releases only what it holds.
* The *mirror's station* answers a request for an address with the slot's data, and may
  give a slot to another address.
* A *browser* runs one task of a script at a time. Whether another tab can run between a
  `getItem` and a `setItem` differs between browsers: `Torn`.
* An attempt to connect ends (the time-out of the operating system).
* Rows of different addresses share nothing but the send thread's time, so each model
  has a single row.

## 3. Runs

TLC is run in this directory, e.g. `tlc -config LocoRow.cfg LocoRow.tla`.

| Run | Configuration | Checks | Instance and bounds |
|---|---|---|---|
| `row` | `LocoRow.cfg` | `TypeOK` `PendingIsWaited` `HeldRowIsActive` `AddIsDecided` `SlotIsReleased` `RowIsFollowed` | 1 client, 2 loops, 1 LocoNet, 2 adds |
| `row_two_loconets` | `LocoRowTwo.cfg` | `GrantedMeansTaken` | 1 client, 1 loop, 2 LocoNets, 2 adds |
| `row_twice` (violation) | `LocoRowTwice.cfg` | `NoDoubleCompletion` | 1 loop, 2 LocoNets, 2 adds |
| `slot_activation` | `SlotActivation.cfg` | `TypeOK` `ActiveMeansHeld` `OthersSlotUntouched` `IsLease` | no bound: the state space is finite |
| `operation` | `SlotOperation.cfg` | `TypeOK` `FunctionsPending` `FunctionsConverge` `SpeedConverges` | 1 LocoNet, 1 session, 3 commands, 2 functions |
| `operation_sessions` | `SlotOperationSessions.cfg` | `StopIsSent` `SpeedConverges` | 2 LocoNets, 2 sessions, 1 command |
| `client` | `LoconetClient.cfg` | `TypeOK` `ReplyIsOurs` `SentIsOurs` `CallReturns` | two situations, 5 messages, 3 of others, 2 failures of the connection |
| `life_cycle` | `SendLifeCycle.cfg` | `TypeOK` `SendStarts` `StopEnds` | 2 LocoNets, 1 exception; losses and reconnections without bound |
| `session` | `ThrottleSession.cfg` | `TypeOK` `OneReader` `Attached` `QuitOwn` `Served` `StopEnds` | 2 connections, 2 client objects, 2 lines or uses of "forget" |
| `mirror` | `CommandStationMirror.cfg` | `TypeOK` `FollowsOthers` | slots 1, 2 and 127, one field of two values, 4 messages |
| `time_sync` | `TimeSync.cfg` | `SuccessIsTrue` `FailureStays` `UpdateEnds` | 2 pages, 4 reloads or passings of time |
| `theme` | `SiteTheme.cfg` | `LastWriterShows` `ChoiceKept` `ChooserShows` | 2 tabs, 5 clicks, loads or changes of the scheme |

What they show:

* **row.** A connection may be replaced at any moment, so two loops add, remove
  and quit for the same client while the send thread lags behind. The wait object that
  the row offers is always one that somebody waits for or is about to; what the client
  holds is active; every add comes to an end. A wait object may here be completed while
  its loop is between the two lines of `WaitForSlotsAsync` and later be completed again:
  the send thread dies of that for a second, and still follows the row
  afterwards. `SlotIsReleased` says only that a release is *sent* for a slot that the
  thread *counts* as its own; a slot it has forgotten is `NothingForgotten`, which the code
  does not keep with two LocoNets (next section), and a release that is lost is in
  `SlotActivation`. Two adds suffice for a reply of the first to meet the wait
  of the second, which is what the bound is for; two loops are what it takes for one to act
  inside the other's add.
* **row_two_loconets.** Both LocoNets fill in one wait object, that of the first add or that
  of the second, which may come while a thread still works on the first. Nothing is granted
  before both have the slot. There is one loop; with two it is not so (next section).
* **slot_activation.** Whatever is lost, in whichever exchange the thread is restarted
  and whenever the other device takes or releases the slot: a slot counted as Active
  is ours at the station, the other's is left alone, and every step is one that
  `SlotLease` allows. The other device marks a slot as it takes it (`MarksAtOnce`).
* **operation.** Function keys, forced functions and changes of the momentary flag
  arrive in order and leave the station as the row shows it, and speed and direction do. It
  is a first session with one LocoNet, functions that the slot has a bit for, and nobody
  else who changes functions; the next section has the other cases.
* **operation_sessions.** With another throttle driving before, between and during the
  activations, every stop is sent to both stations, and speed and direction converge, but
  for a speed that the other throttle changed between look-up and null move. Two sessions
  are needed for values of an earlier one to be stale. `StopIsSent` does not say that
  the stop is the *first* thing sent after it was asked for, and it is not: the counter is
  read before the speed (`LoconetSend.cs:224`, `:230`), so a stop and a later speed that
  come in between are sent the speed first; and the stop is counted before the speed is set
  (`LocoRowImpl.cs:90`, `:91`), so a thread in between sends the stop and then once more the old speed.
* **client.** With an answer that is never later than the time-out and
  with `OnSent` completed before the next send, replies and SENT lines go to their
  call: with refusing server, silent station and failing connection when no other
  device talks (`"alone"`), and with other devices talking at any moment when every message
  is a request that is answered (`"answered"`). The next section shows that each of these
  conditions is needed. Five messages are enough for whatever an earlier call left behind
  (flag, event, `_lastSentHex`) to meet a later one of another kind, twice over.
* **life_cycle.** Wherever the threads are when the service stops (before, in and after an
  attempt to connect, in a read, waiting for the next attempt, waiting for the event),
  all of them end and the stop returns; and a send thread gets to work on every connection that lasts, after an exception too.
* **session.** In one half of the behaviours (`careful`) the throttle comes back, and is
  forgotten, only while its loops wait for a line: then one loop reads a connection, no
  open connection is unknown to the store, and `Q` ends the connection it came over. In
  the other half these happen at any moment; still every waiting line is handled, unless
  an exception of a command or of the use of a connection that is gone has ended the loop, and the stop ends every handler and loop,
  those of replaced connections too. Two connections are one replacement at every step of the
  first loop; two client objects are one "forget". While a connection is being closed a
  careful throttle sends nothing over it. `OneReader` and `QuitOwn` speak of a service
  that nobody stops: with three connections, `StopAsync` in the middle of a replacement
  (`WiThrottleService.cs:153`) sets the new connection of the client to null, and a third one can
  then be assigned while the loop of the second still handles a line.
* **mirror.** What another device changed last is in the mirror once everything was
  heard, although a message that equals the last one sent counts as the echo, and the
  first one after SENT as the reply. Slot 127 is the one beyond the table. Four messages
  are enough for one to be entered, one sent, its copy by another device, and a change.
* **time_sync.** A page says success only if the clock it set is its browser's, provided that
  the browser's answer was a time: for any other answer `SyncTimeAsync` sets the host's own time
  (`TimeSyncAlert.razor.cs:79`) and the page says success with the clocks as far apart as
  before, which the property excepts. The clearing
  that a success starts never takes a later failure away, and no update hangs.
* **theme.** Neither a load nor a listener nor a new circuit replaces a choice, the page
  that wrote last shows it, and so does the toggle of the page where it was made, in the end,
  for clicks that come after the component has its first answer (`Hasty = FALSE`).

The violation among the runs, `row_twice`, is a disagreement between the code and its own
comment: the lock in `Check` is to "serialize access to `_accumulatedLoconetsReplyResult`"
(`AllLoconetsReply.cs:55`), whose entries are written outside of it (line 86), so that two
LocoNets can each find all results there.

### Further properties that the code does not keep

These are stated in the modules, with a configuration each that refutes them. They
delimit what the passing runs claim.

| Configuration | Property | What happens |
|---|---|---|
| `LocoRowSteal.cfg` | `AtMostOneOwner` | an add of an active loco is refused, in words; the method goes on, and both clients hold the row (`WifredClient.cs:327`) |
| `LocoRowRemoved.cfg` | `GrantedMeansTaken` | two loops and two LocoNets: the other loop removes the loco during the add, one thread has answered and releases its slot, the other completes the wait, and the throttle is told that "all command stations gave us control" (`IThrottle2Row.cs:27`) |
| `LocoRowForgotten.cfg` | `NothingForgotten` | the second of two LocoNets dies of the double completion before it has assigned its slot state; the row is given back, and the slot that the station granted is never released (`LoconetSend.cs:200`) |
| `LocoRow.cfg` with the property | `NoDoubleCompletion` and `GrantedMeansTaken`, each | two loops and one LocoNet: a wait object is completed between the two lines of `WaitForSlotsAsync` (`LocoRowImpl.cs:48`, `:49`) and stays on offer; the other loop removes the loco, and either the same or another one adds it again: the thread reports into the completed object, or the first loop then awaits an old success |
| `LocoRowOrphan.cfg` | `ActiveHasOwner` | a reconnecting client forgets its locos, the rows stay active |
| `LocoRowUnnoticed.cfg` | `ControlIsNoticed` | the station's answer comes before the wait object, or the row is added again before the thread saw it inactive: the add fails although the slot is ours |
| `LocoRowDefault.cfg` | `DrivesKnownValues` | after such a lost answer the slot is driven with the constructor's stop and forward |
| `SlotActivationLockedOut.cfg` | `OccupiedMeansOther` | the null move succeeded, the id was not written: our own slot looks like another's |
| `SlotActivationKept.cfg` | `DeactivateFrees` | the use bits written back at the release were read when the slot was already ours |
| `SlotActivationAbandoned.cfg` | `NothingAbandoned` | a failed activation left the slot IN_USE, giving up sends nothing |
| `SlotActivationOldId.cfg` | `ActiveMeansHeld` | another device between null move and id, our old id still in the slot (`MarksAtOnce = FALSE`) |
| `SlotActivation.cfg` with `OtherId = OurId` | `ActiveMeansHeld` | another ThrottleX has the same constant id (`LocoRowImpl.cs:127`) |
| `SlotOperationNoStop.cfg` | `StoppedOnRelease` | the stop that `Deactivate` counts is not sent: an inactive row is not operated any more (`LocoRowImpl.cs:83`) |
| `SlotOperationLateStop.cfg` | `StopWasAsked` | the stop counted at a removal is sent in the next session |
| `SlotOperationTwoReads.cfg` | `ByteOfASpeed` | the getter of `Speed` reads the field twice, and a stop in between becomes an emergency stop (`Speed.cs:46`) |
| `SlotOperationReplay.cfg` | `FunctionsConverge` | queued functions of one session are sent in the next |
| `SlotOperationShared.cfg` | `FunctionsConverge` | two LocoNets share a queue, each function reaches one |
| `SlotOperationDropped.cfg` | `FunctionsConverge` | a function above F8 is dropped |
| `SlotOperationLost.cfg` | `SpeedConverges` | a lost message counts as sent and is not repeated |
| `SlotOperationOvertaken.cfg` | `SpeedIsRows` | another throttle drives between a look-up and its null move: the thread takes the older speed for the one sent last and finds nothing to send (`LoconetSend.cs:313`) |
| `LoconetClientEcho.cfg` | `EchoIsNoReply` | `OnSent` wakes the sender before it sets the flag, and the next message's echo counts as the reply (`LoconetClient.cs:378`) |
| `LoconetClientOther.cfg` | `ReplyIsOurs` | after a message without reply the flag stays set, and another device's message answers the next request |
| `LoconetClientLate.cfg` | `SentIsOurs` and `ReplyIsOurs`, each | a late SENT answers the next message, a late reply the next request |
| `SendLifeCycleAsleep.cfg` | `SendStarts` | the thread is woken, fails, and looks at the state before it is `Operation`: it waits for an event that is used up (`LoconetClient.cs:212`) |
| `ThrottleSessionTwoReaders.cfg` | `OneReaderAlways` | the loop of a replaced connection was not at its read, and reads from the new one with the new loop |
| `ThrottleSessionLost.cfg` | `AttachedAlways` | a connection assigned during a `Disconnect` is set to null by it, or a client is forgotten between look-up and replacement: open, and served by nobody or unknown to the store |
| `ThrottleSessionQuit.cfg` | `QuitOwnAlways` | a `Q` of the old connection is handled after the replacement and ends the new one |
| `CommandStationMirrorOwn.cfg` | `FollowsAll` | what ThrottleX sends is ignored, "because we setting fields directly", which no code does (`CommandStationMirror.cs:47`) |
| `CommandStationMirrorRefused.cfg` | `FollowsOthers` | a refused message stays noted as sent; the same one of another device is taken for its echo |
| `CommandStationMirrorMoved.cfg` | `FoundByAddress` | a slot that is given to another address stays entered under the old one |
| `TimeSync.cfg` with `Prompt = FALSE` | `SuccessIsTrue` | the reading is old when the clock is set |
| `SiteTheme.cfg` with `Torn = TRUE` | `ChoiceKept` | a page that loads writes back what it read before another tab's choice |
| `SiteTheme.cfg` with `Hasty = TRUE` | `ChooserShows` | the answer to the first question comes after the click and hides it |

Smaller things noticed on the way and not stated as properties: the mirror's look-up of
an address by its two bytes takes them in the other order than its entries are made, but
nothing calls it; the socket of a lost connection is not disposed of at the
reconnection; the guess of the station is not repeated after a reconnection, and while a
reconnection is cancelled the displayed state stays as it was; the stop of one LocoNet waits
for its receive thread before the next is told.

### Fairness

* `LocoRow`: weak fairness of each loop's own steps and of each send thread. Tasks
  run on the thread pool, send threads poll for ever (`SendThreadMain` catches every
  exception but cancellation), and the wait has a limit of 5 s. What a throttle sends is free:
  no request is ever obliged to come.
* `SlotOperation`: weak fairness of each send thread, which polls for ever.
* `LoconetClient`: weak fairness of the send thread, of the receive thread and of the
  server reading its lines. The waits of 3 s are steps of the send thread, so that
  `CallReturns` needs no fairness of the station.
* `SendLifeCycle`: weak fairness of each thread and of the disposal. That a blocking connect
  returns is among the steps of the receive thread (`Connected` or `ConnectFails`; which one
  is free); that a line comes or a connection is lost is not.
* `ThrottleSession`: weak fairness of each task and of a `Disconnect` that was begun. The
  throttle, the user of the page and the operator may be idle.
* `TimeSync`, `SiteTheme`: weak fairness of what was started: handlers, timers, calls and events
  under way. The user need not do anything.

### Bounds

`MaxAdds`, `MaxSessions`, `MaxCommands`, `MaxCalls`, `MaxForeign`, `MaxFails`, `MaxFaults`,
`MaxClients`, `MaxMessages`, `MaxAway` and `MaxOutside` limit
what the environment does; none of them limits the program. `CHECK_DEADLOCK FALSE`
stands where the environment's bound is used up, or the service was stopped, and every
thread has nothing left to do. `SlotActivation` has no such end and is checked for deadlock.

## 4. Proofs

`tlapm LocoRow_proofs.tla` (and the other `_proofs` modules) checks them. The
results hold for all clients, tasks, LocoNets, functions, speeds, pages and bounds,
from the named assumptions of the modules and those stated in the theorems.

| Theorem | Says | Argument |
|---|---|---|
| `LocoRow_proofs!TypeCorrect` | `Spec => []TypeOK` | `TypeInv` adds `SnapInUse` (who writes or checks has a wait object to do it in) and `OutcomeKnown` (who reports has an answer): without them `WriteResult` and `Assign` could store anything |
| `LocoRow_proofs!PendingWaited` | `Spec => []PendingIsWaited` | inductive over `TypeInv`: requests move only tasks that do not wait; `Register` brings its own waiter; the two ways out of a wait clear the field |
| `LocoRow_proofs!CompletedOnce` | `Tasks = {t}` and `Loconets = {l}` imply `Spec => []NoDoubleCompletion` | `Solo`: an object that is on offer and complete leaves the only thread with its slot state still to assign, or decided, and as the row stays active while its loop waits (`LoopInv`) the thread reports nothing more into it |
| `LocoRow_proofs!ToldMeansTaken` | `Tasks = {x}` implies `Spec => GrantedMeansTaken`, for any number of LocoNets | `SuccessGranted`: a success on its way to the wait object, and a state `Active`, is a slot that the station granted. A wait object begins without results (`UntouchedInv`), and as nobody else removes the loco while the loop waits, a success that it was given stands, also while the object is offered and not yet awaited (`LoopInv`, `GrantInv`) |
| `LocoRow_proofs!HeldIsActive` | `Clients = {c}` implies `Spec => []HeldRowIsActive` | inductive over `TypeInv`: the row becomes active before the client notes the loco, and whoever makes it inactive is a loop of the same client, which strikes the loco in the same step |
| `SlotActivation_proofs!ActivationTypes` | `Spec => []TypeOK` | |
| `SlotActivation_proofs!ActiveIsHeld` | `ActiveMeansHeld`, if devices mark a slot as they take it and the ids differ | `HeldInv`: the use bits and id tell the holder (`StationInv`); between null move and id the slot is ours (`ExchangeInv`) |
| `SlotActivation_proofs!OthersUntouched` | `OthersSlotUntouched`, same conditions | from `HeldInv`, action by action |
| `SlotActivation_proofs!ImplementsLease` | `IsLease`, same conditions | `Init` maps to `Init`; under `HeldInv` a null move is `Take`, a look-up that finds our id and a write of the id are `Notice` (or change nothing), a release is `GiveBack` or, unheard, `Forget`, as is a restart |
| `SlotOperation_proofs!OperationTypes` | `Spec => []TypeOK` | the getter's value is a byte even when the speed changes between its reads; `StopsBound` for the counter, `SlotsWaited` (every thread has its slot once the task goes on) |
| `SlotOperation_proofs!FunctionsReachOnlyLoconet` | `Loconets = {l}` implies `Spec => []FunctionsPending` | `QueueStarts`: until the first session has taken the slot nothing is queued and no function is on anywhere; an entry appended at the end becomes the latest of its function, the one dequeued at the head is what was sent. Nobody else changes functions in the model |
| `LoconetClient_proofs!ClientTypes` | `Spec => []TypeOK` | `TypeInv` adds that unanswered SEND lines are of messages sent by now, and that while `OnSent` is half done its SENT line is the first of the inbox |
| `LoconetClient_proofs!SentGoesToItsCall` | `~Slow` and `Prompt` imply `Spec => SentIsOurs` | `SentInv`: outside the wait for SENT there is none on its way; in it the SENT is still to come (`OnItsWay`), in the inbox as the only one (`Answered`), handled and agreeing with the history (`Woken`), or lost with the connection (`Lost`) |
| `LoconetClient_proofs!ReplyGoesToItsCall` | `~Slow`, `Prompt` and `"any" \notin Situations` imply `Spec => ReplyIsOurs` | `ReplyInv` says for each phase of a call what may be on its way: the SENT still to come (`SentToCome`), in the inbox with the reply as the next line that can be one (`SentComes`), half handled (`HalfDone`), handled with the flag set (`Expected`), the reply in hand (`Arrived`), or all of it lost with the connection (`SentLost`); between calls nothing is left that the flag could take for a reply (`Quiet`) |
| `CommandStationMirror_proofs!MirrorTypes` | `Spec => []TypeOK` | `TypeInv` adds the kinds of the lines and of the message being sent |
| `CommandStationMirror_proofs!OthersFollowed` | `~Refuses` implies `Spec => []FollowsOthers` | `FollowInv`: the last line about a field tells what the station has (`Truthful`); a field of a tracked slot is right in the table, told by a line that is to come, or changed by ThrottleX (`Known`); there is one SENT at most (`SentOnce`); and the note of the message sent last stands for an echo before that SENT, behind which somebody else's change is told again (`NoteInv`, `EchoIn`) |
| `CommandStationMirror_proofs!AddressesFollowed` | once everything was heard, a tracked slot has its address, also if the server refuses | the same invariant: only a reading of a slot changes its address, and no reading is like a message that was sent |
| `SendLifeCycle_proofs!LifeCycleTypes` | `Spec => []TypeOK`, with the client that a read uses never null | action by action |
| `ThrottleSession_proofs!SessionTypes` | `Spec => []TypeOK` | `PlaceInv`: who is beyond the handshake has a client, who reads has a connection, a connection that nobody has made yet has no task |
| `ThrottleSession_proofs!SessionOneReader`, `SessionAttached`, `SessionQuitOwn` | `OneReader`, `Attached`, `QuitOwn`, for any number of connections and clients | `CalmInv`: while a connection is being replaced everything else is at rest and nothing can come to a loop (`UpdateInv`, `ReplacedInv`); what a loop reads from or is going to read from no other does (`HoldInv`); a loop that waits at a replaced connection waits in vain, one that handles a line has it from the current connection if there is one (`ReadInv`); who is between the halves of `Disconnect` has disposed of the connection (`DisconnectInv`); a loop whose connection is there has it as the current one of the store's client (`StoreInv`) |
| `WebPages_proofs!ThemeTypes` | `ThemeSpec => []ThemeTypeOK` | action by action |
| `WebPages_proofs!WriterShows` | `ThemeSpec => []LastWriterShows` | `ShowInv`: a page that is closed has nothing pending and is nobody's writer (`PageInv`); a choice of dark or light is shown even while news of the scheme is on its way (`WriterInv`) |
| `WebPages_proofs!ChoiceIsKept` | `~Torn` implies `ThemeSpec => ChoiceKept` | `TaskInv`: one tab at a time is inside a task, and what it is about to write is what is stored |
| `WebPages_proofs!TimeTypes` | `TimeSpec => []TimeTypeOK` | action by action |
| `WebPages_proofs!FailureIsKept` | `TimeSpec => FailureStays` | `QuietInv`: a page with a clearing pending shows no failure and can begin no new update |
| `WebPages_proofs!SuccessHolds` | `Prompt` implies `TimeSpec => []SuccessIsTrue` | `TrueInv`: what is about to be set is still the browser's time, if its answer parsed (`FreshInv`) |

The conditions are needed, as the tables above show: `row_twice` refutes
`NoDoubleCompletion` for two LocoNets, `LocoRow.cfg` with that invariant for two loops of one client, `SlotActivationOldId.cfg` and the
variant with `OtherId = OurId` refute `ActiveMeansHeld` without either condition of
`ActiveIsHeld`, with
two LocoNets `SlotOperationShared.cfg` shows functions that reach only one of them,
`LocoRowRemoved.cfg` refutes `GrantedMeansTaken` for two loops,
`LoconetClientLate.cfg` has a late SENT and a late reply, `LoconetClientOther.cfg` another device
and a message without reply, `CommandStationMirrorRefused.cfg` a server that refuses, `ThrottleSessionTwoReaders.cfg`, `ThrottleSessionLost.cfg` and
`ThrottleSessionQuit.cfg` have a throttle that is not careful, and the variants of
`TimeSync.cfg` and `SiteTheme.cfg` lack `Prompt` and `~Torn`.

Only model-checked: everything about liveness (`AddIsDecided`, `SlotIsReleased`,
`RowIsFollowed`, `StopIsSent`, `SpeedConverges`, `FunctionsConverge`, `CallReturns`,
`SendStarts`, `Served`, both `StopEnds`, `UpdateEnds`, `ChooserShows`), which the prover does
not reach. Every invariant and every safety property of a step that a passing run checks is
proved.

## 5. What is not modelled

* The *message formats* (bit fields, checksum, immediate packets) and the encoding of addresses:
  pure functions from bytes to bytes, which unit tests reach as well.
* The *guess of the command station*: a scoring of constants for a displayed text. Two of its
  candidates have the same values, so the later one is never guessed. When the guess is made is in
  `SendLifeCycle` (`Initialize`).
* *System health*: numbers parsed from `/proc` and `/sys` under one lock.
* *wiFRED configuration*, the *pages* besides the alert and the toggle, *start and logging*:
  data classes, rendering, wiring.
* Of the throttle sessions: wildcard addresses, several locos of one throttle, and the battery
  loop, which changes a displayed value only.
* The list of rows and the lock on it: rows are never removed, and the lock covers each
  access to the list.
* A station that loses its slots while ThrottleX runs: `NormalOperation` has no notion of it.

## 6. Plan

The order is by importance.

1. `LocoRow`, `SlotActivation`, `SlotOperation`, `LoconetClient`: done.
2. `ThrottleSession` with the store of clients, `SendLifeCycle`, `CommandStationMirror`,
   `TimeSync`, `SiteTheme`, and the abstract `SlotLease`: done.
3. Next: several locos of one throttle, with the wildcard of actions, in `ThrottleSession`.
4. `LoconetCodec`: bit fields, checksum, addresses, immediate packets, as operators checked
   against a reference definition over all bytes; the guess of the station.

Proofs to come: what the safety properties of 3 and 4 need; and weaker conditions where the
code would still keep them, as for `GrantedMeansTaken` with several loops of which no two work on
the row at once.
