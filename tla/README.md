# Verification of totem-compass

totem-compass speaks to Totem compasses, small devices that find each other by
radio, in two ways. `emulator` and `cmd/totememu` are such a device: a node that
pairs, bonds and exchanges positions over ESP-NOW, with the button, strip,
battery and sensors of an ESP32 board. `client` and `cmd/totemctl` are the
telephone's side of a Totem: a BLE session with its acks and its half-duplex
transmit window. `store` keeps a board's settings in one flash sector.

This directory holds TLA+ models of the parts in which something can go wrong
that a unit test would hardly reach, TLC configurations that check them on small
instances, and TLAPS proofs of what matters most for all instances.
`PROJECT.json` maps every definition to the lines it models and lists the runs,
the hazards and the theorems.

    tlc -workers 2 -config Bonding.cfg MCBonding
    tlapm BondingProofs.tla

## The system

| Part | State | Operations | What is hard |
|---|---|---|---|
| bonding (`emulator/node.go`, `device.go`, `state.go`) | peers, pairing window, provisional bond, calendar of jobs, outbox, group | `Pair`, `Poll`, `Receive`, `Unbond`, `FactoryReset`, `PowerOff/On`, `AddBond`, `Restore` | timers of earlier windows, lost and repeated asks and acks, limits checked early and used late, requests that answer requests |
| mesh, schedule, clock (`emulator/node.go`) | table of recent frames, replies owed, outbox, chains of jobs, clock and its source | `meshTick`, `onLocate`, `relay`, `window1`, `adoptClock`, `SetClock` | duplicates and late frames, a full table, clocks that change under running timers |
| receive ring (`cmd/totememu/ring.h`, `rx.go`) | slots, `head`, `tail`, lost frames | push in the WiFi task, pop in the main loop | no lock: every access of one side may fall between two of the other; counters wrap |
| settings journal (`store/store.go`) | one flash sector of words, head and sequence number in memory | `Open`, `Load`, `Save` | a reset or an error after any word, noise from other firmware, the value erased flash reads as |
| settings store, main loop (`cmd/totememu/settings`, `main.go`) | key of the last record, boot count, open or not, the bonds last counted | `Open`, `Unread`, `Restore`, `Save`, `Forget`, `Reopen`; a pass, a command, the minute | a save that must not write, a restore after defaults were in use, failed writes, a change the count does not show |
| power, strip, alarm, update (`emulator/power.go`, `leds.go`, `ota.go`, `device.go`) | mode, gauge, run time, what the strip plays, the update | readings, gestures, commands, ticks | several parts that want one strip; a loop that an update blocks; a reading that powers the device off |
| inputs (`emulator/input.go`) | two recognisers, blocks | press, release, poll, taps and holds of the console | bounces, blocks and power cycles inside a press |
| sensors (`emulator/sensors.go`, `orientation.go`, `compass.go`, `position.go`, `cmd/totememu/sensors_esp32s3.go`) | a source, the fields taken over by hand, the last fix, the pose, the calibration | reads, settings, simulations, `calibrateMag` | who overrules whom, and what comes back |
| client session (`client/client.go`) | window ownership and its waiters, write queue, ack marks, events | `Start`, `Send`, `Grant`, `AutoGrant`, `Close`, writer, receiver | goroutines between critical sections, failed writes, a link that drops under a waiting call |
| totemctl session (`cmd/totemctl/session.go`) | what record it waits for | `fetch`, `peerList`, `await` | an ack of an earlier repeat cancels the request on the device |
| BLE transport (`client/ble.go`) | links by address | scan, dial, disconnect callbacks, watch, close | calls that cannot be cancelled, callbacks of an earlier link that come late |
| codecs (`protocol`, `mesh`, `store/state.go`), GNSS reader (`gnss`) | none, or a partial line | encode, decode | boundaries |

They meet at few points. The WiFi task gives frames to the main loop through the
ring; the main loop hands them to `Receive`, calls `Poll`, and compares the
number of bonds with what it saved last; a save goes through the settings store
to the journal. A poll reads the sensors, runs the due jobs, lets the inputs
report and then settles what the strip shows. The client's goroutines meet at two
mutexes, one queue with a one-token wake channel, and the channel of events.

## Modules

| Module | Models | Composition |
|---|---|---|
| `RxRing` | `ring.h` and its two callers, one memory access a step | implements `RxQueue` |
| `RxQueue` | abstract: a bounded FIFO that counts what it drops | |
| `Journal` | `store.go` over a sector of words; one word written a step | implements `StableStore` |
| `StableStore` | abstract: one cell of stable storage | |
| `Bonding` | pairing, handshake, restored bonds, Smart Groups, power, reset, reboot of any number of nodes | |
| `Mesh` | locate frames, relay and dedupe, clocks, the chains of windows and mesh ticks | |
| `Settings` | `settings.Store` and the main loop over it | over a flash as `StableStore` promises it |
| `Device` | power, strip, alarm, charger, update: one poll after another | |
| `Inputs` | the input recognisers, console gestures, the update's block | |
| `Sensors` | board, held and simulated readings; poses; calibration | |
| `Client` | one session: callers, AutoGrant goroutines, writer, receiver, device | |
| `Ble` | the BLE transport on three systems | |
| `MC...` | constants of the instances | extend the module they name |
| `...Proofs` | theorems | extend the module they name; `BoardProofs` is about `RxRing` and `Device` |

Definitions named `X_Slip`, `X_NoBarrier` and so on, marked *Mutant*, are wrong
versions of the definition `X` that follows them. They are part of no
specification; each shows that some property fails when the code is changed so.

Several modules have a variable `kit`, chosen in `Init` and never changed: the
set of events, fields or calls a behaviour may meet. One run then covers several
scenarios, each small enough to be exhausted, that would be too large together.

**RxRing.** `PushCheck`, `PushStore` (one part of a slot at a time),
`PushPublish` are the WiFi task, `PopCheck`, `PopCopy`, `PopRelease` the main
loop. The compiler barriers of the code are the order of these steps; between
two barriers the fields of a slot are copied in any order. `head` and `tail`
count modulo `Width`. One frame is of a length the push refuses.

**Journal.** A word is a number, because the scan reads whatever it finds as a
length or a sequence number. `Scan` is `Journal.scan` with `resume`; `SaveBegin`,
`SaveErase`, `WriteWord`, `SaveReturns` and the failures are `Save`, split where
the flash changes. `Crash` may come anywhere, and leaves an interrupted erase
done up to some word. The checksum is injective on the payloads in play, and
payloads are whole words. An erase that returns an error may have cleared the
sector up to any word, all of it included: the drivers pass on the ROM's own code,
which comes after the operation (`flash_esp32s3.go:206`). The journal has then
kept a head that may be wrong, which the history variable `stale` says, until it
clears the sector or is opened again. `StableStore` lets a save lose the old
record only if it is one that clears the sector (`clears`), and has the same hole
(`sure`): what a save returns after such an erase is not promised.

**Bonding.** A handler is one step: a node is driven by one goroutine. `Poll` is
one step per due job, in the order of `cmpJob`: the calendar `jobs[n][d]` lists
the jobs `d` ticks away in the order they were armed. A Totem outside the model
may send any frame at any time, so one modelled node already meets every peer
behaviour; two nodes are needed only for properties of both ends. Link strength
and distance are nondeterministic (`Lose` covers a sender too far away).

**Mesh.** A frame, once sent, stays in the air: it may be heard late, twice, out
of order or never, by each node. `MeshTick` decides whom to ask for, `Window` and
`Burst` send what is due, `OnLocateEnds`, `OnLocatePeer` and `OnLocateStranger`
are the three ways through `onLocate`. The chains of jobs that run windows and
mesh ticks are counted, because what can go wrong is that a power cycle or a
change of clock starts a second one. Distances, and with them the delivery time
of a frame, are constants; UIDs do not collide.

**Settings.** `owned` is the list of Totems the image was built with; a boot may be
one of another image. `Restores` gives the outcomes of `Restore`, in which
`AddBond` refuses a saved bond that is not owned or does not fit, in the record's
order; the next save then writes the record without it. A write that fails leaves
the old record, the new one or none; a power cut inside a write is that and a
boot. `Look` is the end of a pass, where the number of bonds is compared;
`Command` saves at once; `Save` is the minute's. `dropped` (peers deleted since
the boot), `refused` (saved bonds `AddBond` had a reason to turn away) and
`failed` (a write has failed and none has landed since) are history variables.

**Device.** The device is one record and a handler a function on it, because in
the code handlers call one another freely; `pc` says whether the loop runs, an
update asks or fetches, or the poll in which it was started goes on. Time is in
LED frames. While an update blocks the loop the node's clock stands still, so an
operation carries how far the time it was given lies behind. `Sleep` moves the
last look to now and books whole milliseconds (`Millis`); `lost` is what the last
look left out. `Receive` reads the board before it takes a frame, and `Frame` is
what a frame may do to the strip: play a flash, end the pairing window, or, as
another Totem's ask, open one (`AutoPair`). `over` says that this has happened
since the last poll. The gauge is the code's own curve in integers.

**Inputs.** A recogniser is a record of ages in units of the lockout, and
`Press`, `Release`, `Gestures` and `NextPoll` take an offset from the clock: the
console dates its edges ahead and walks time forward from one `next` to the
following. Two history variables: `felt` is how long the panel has really seen the
button down, `until` how long the last console gesture on an input has yet to go.

**Sensors.** A value says where it is from: the receiver, an operator, the
chip, a simulation, or `"zero"`, which no part has filled in. `ReadWith` is
`Node.read` through the source in use with what has just been set on it, since
every setting is followed by a read. Parts answer, fail or are not due, as they
like; a fix may come without a usable date, and then has no clock. A drive's
bearing turns round when it passes a pole. A sample that is neither pose leaves
the candidate of the tracker alone, and may be the one in which it is committed. `said`, `steady` and `swayed` are history variables: what the operator
asked for, what the receiver has been naming, and when each pose was contradicted.

**Client.** A step is one critical section, one channel operation or one GATT
write. `call[p]` says which call goroutine `p` is in and where. `Grant` is
modelled as `AutoGrant`'s goroutine calls it, its only caller outside a test:
`Lock`, `Give`, the write, `TakeBack`. The device is the fake Totem of
`clienttest/totem.go` in legacy mode; in half duplex, where the repository has
none, it holds the window from Ready or a grant until it hands it back. Callers
begin once `Start` has returned, as `open` of totemctl has it. The handoff
counter is left out, and so is `SendNow`, which is the path of `write` with
nothing added. A write that fails is one the device did not get.

**Ble.** The operating system holds at most one connection to a Totem, numbered
in `os`. A `Connect` cannot be cancelled: a dial that is given up leaves a
goroutine waiting for it (`late`). A disconnect callback names the address, so it
finds whatever link is registered there now; `onDisconnect` asks the system
whether it is still connected, which the Windows build cannot, and believes the
callback when the system returns an error (`blind` marks such a link). A
`Disconnect` may fail and leave the connection. On BlueZ it calls the handler
first, which is a step of its own. The watcher of the Linux build goes step by
step: the tick, the look at `gone`, the read of the property, the handler, the
disconnect, the mark; so one that has looked may still be at work when a newer
link is up.

## Runs

| Run | States | Shows |
|---|---|---|
| `rx_ring` | 55,692 | no frame is torn and the sides never work on the same slot across the wrap (`Safe`), the ring is a bounded queue (`IsQueue`) and is drained (`Drained`) |
| `journal` | 289,246 | resets after any word, failing reads, writes and erases, sectors of noise: `IsStableStore`, `SaveSticks`, no lost record is still reported (`NoGhost`), no erase is spent before the sector is full (`Sound`), numbers climb and noise does not drive them (`SeqSound`) |
| `journal_magic` | violation | `SaveSticks` fails for a payload with the record marker in it |
| `bonding` | 104,150 up to symmetry | one node against any frames and gestures: a half-made bond stays in its window (`HalfBond`), each window has its own end (`EndArmed`), `OwnedOnly`, a bond made final by an ack, a group or a restart is not taken along by a window that ends (`FirmKept`), and a bond without its ack goes with its window unless a group's or a saved list has it (`RolledBack`) |
| `bonding_pair` | 74,055 | two nodes that pair by themselves over a lossy air: bonds of one side do not last (`Heals`) |
| `settings` | 83,156 | a bond leaves the flash only by a deletion or a refused restore (`NoSilentLoss`), `BootRecorded`, `ForgetSticks` and `Persisted` with failing reads and writes |
| `client` | 195,993 | no batch frame in the device's window (`InWindow`), marks true to the queue (`Consistent`), every call returns (`CallsReturn`), repeats end (`RepeatsEnd`) |
| `device` | 292,302 | the strip at rest is current and flashes are seen (`StripTrue`), the alarm comes back (`AlarmBack`), no span is booked twice and each look leaves out less than a millisecond, mode and gauge are right (`PowerSound`) |
| `inputs` | 500,012 | no hold nobody made (`HoldReal`), `next` names useful times (`NextUseful`), power switches once, and an input is deaf only after a boot, in a download, after an edge or while a console gesture on it lasts (`AsMeant`) |
| `ble` | 82,455 | a link is marked gone only when it was given up, its connection has ended or the system could not say (`LinksTrue`), `DoneCloses`, `ScanEnds` |
| `mesh` | 474,731 | a frame is relayed once and sent twice (`FloodBound`), one chain of each kind (`OneChain`), the table forgets the right frame (`Remembered`), requests are paced (`AskPaced`) |
| `sensors` | 715,915 | the hardware comes back (`HardwareBack`), settings hold (`CommandHolds`), what is reported was measured and a far fix is believed in the end (`Honest`), poses have their time (`Steadied`) |

### Bounds

* `rx_ring`: 3 slots and counters modulo 6. The ring fills, overflows and wraps
  with every number of frames held. `Width` is a multiple of `Slots`, as 2^32 is
  of the board's 16.
* Journals: 13 to 16 words hold two or three records of five to seven words and
  a remainder too short for one, so that every save after the second may need an
  erase. `Erased = 6` puts the top of the sequence numbers within reach.
* `bonding`: one bond allowed and three Totems owned: below, at and past the
  limit. A window of two ticks, rounds of one tick and a burst of two leave
  timers of one window to fire in the next; `MaxJobs = 4` admits two windows'
  timers at once. Totems it owns are interchangeable (symmetry).
* `bonding_pair`: both nodes have `AutoPair`, as every board does; any lists of bonds to begin with stand for reboots from older
  records. `Lag = 0`: a frame is taken in its tick or lost.
* `settings`: two peers, two choices and three boots; every pair of records that
  differ in one of them is there, and so is the swap of one peer for the other.
  Room for one bond and two lists of owned Totems: a restore refuses a bond for
  either reason. A record may hold one more than the limit, as the node may.
* `client`: two callers, two AutoGrant goroutines at once, one failed write,
  which may be any write, one notification under way and a buffer of one event,
  which overflows. Three sessions: two callers that race grants, timeouts and a
  link that drops; one whose grants fail and that `Close` ends; a legacy session
  that lists peers while writes fail.
* `device`: three voltages: below the cutoff, low and normal. A flash lasts two
  frames, so that it can end in any state of the rest; nine kits pair the events
  that meet on the strip, in the power model and in an update. `Milli = 2`: a span
  may have a rest over whole milliseconds.
* `inputs`: lockout < multi-tap window < hold < long hold, as in the code, with
  console holds that end before, on and after each of them, `MaxHold` being the
  longest (60 s in the code). An update may outlast the wait after a boot.
* `ble`: three dials to one Totem: a late connect can meet a newer dial and the
  link after it. All three systems; on Linux, where each link has a watcher, two
  dials (`MaxWatched`): an old watcher can meet a newer link. The proofs are for
  any number.
* `mesh`: two nodes and a stranger, clocks one apart, three UIDs and a table of
  two: full tables, evictions and frames that return after their lifetime happen.
  `PeerLimit = 1` (the code has 999): a peer is asked for a second time.
  `DedupeAssumption` relates lifetime and table times as the code's constants do;
  `JumpAssumption` bounds the differences between clocks in the kit that both
  sets clocks and hears strangers' frames.
  Time ends at `MaxNow`, so deadlock is not checked, here and in `sensors`;
  in `client` a session may be over.
* `sensors`: four ticks against a minute of two and a calibration of two: a place
  refused, believed, refused again; dwell and hold times that differ by pose. Four
  kits of fields that can disturb each other.

### Fairness

* `RxRing`: the main loop drains the ring in each pass of `rxPoll`, so its steps
  are weakly fair. The WiFi task owes nothing.
* `Bonding`: time passes (`Tick`), and a job that is due is run by `Poll`
  (strong, because the poll of another node interrupts it in the model only).
  `RadioSpec`, for `Heals`, adds that radio windows come round and that of
  frames sent again and again some arrive.
* `Settings`: a pass comes to its look and the minute comes round. They are
  strongly fair because a boot, which nothing has to stop, disables them for a
  moment.
* `Client`: a goroutine that can go on does, a GATT write returns, the device
  hands back the window. `Lock` is strongly fair: a Go mutex serves a starving
  waiter. Nobody has to start, close or drop anything, and no write has to
  succeed. Two more assumptions are members of a kit rather than fairness.
  `"patient"`: `GrantDelay` outlasts a `Send` that is about to take its turn;
  without it a Send may lose every window to the grant, so `CallsReturn` asks
  for it in half duplex. `"prompt"`: a session that waits for a record reads it
  before `Events` has overflowed.
* `Ble`: goroutines run, the watcher's too, the system delivers its callbacks and
  answers `StopScan`. Nothing says that a `Connect` comes back.

## Findings

* **A save that succeeds and is lost** (`journal_magic`, `store.go:480`).
  A write fails inside a payload that contains the record marker. `headAfter`
  puts the next record behind what landed, but the next boot resynchronises on
  the marker inside the wreck and reads from there over the record that was
  saved. `store_test.go:843` says that this must not happen.

Smaller things the models show, that are not runs of their own:

* The list of bonds can be one longer than `maxBonds` (`node.go:1348`): a window
  opens with room for one, a status frame restores another Totem, and the ask that
  the window was for adds its partner without looking at the limit. The comments
  at `state.go:40` and `node.go:1265` say that it cannot. It is never more than
  one (`OneOverSafe`, proved), so the record on the flash, which has room for 16,
  may hold nine, of which a restore takes eight.
* A saved bond that the restore refuses, not owned any more or past the limit, is
  in the flash only until the next save (`settings.go:145`): reflashing the image
  with the old list does not bring it back.
* Of two nodes of one mesh group the one with the higher MAC asks first; the
  comment at `node.go:1608` says the lower one does.
* A provisional bond is saved at the end of the pass that makes it; a power cut
  inside the window makes it final (`main.go:260`). `Heals` covers what follows.
* The main loop compares numbers of bonds, so a pass that swaps one bond for
  another is saved only by the minute (`main.go:260`). A command's save does not
  update that number either, though the comment at `main.go:239` says that it is
  what the flash holds: a bond deleted by a command and restored in the next pass
  is not on the flash until the minute. `Persisted` is the guarantee that remains.
* After a failed save that had erased the sector the settings store keeps the
  key of the record that is gone (`settings.go:184`), although the journal
  forgets it; going back to those settings writes nothing until they change again
  or the device boots. `Persisted` is therefore stated for failures made good.
* If the chip clears the sector and then reports an error, `Save` keeps the old
  head (`store.go:435`): the record is lost, and the next save, though it reports
  success, may go past a gap where no scan will look. `SaveSticks` and `NoGhost`
  leave this case out (`stale`).
* A grant whose write fails is not tried again: until something else starts a
  handoff, the device no longer streams (`client.go:279`).
* `Grant` does not ask who has the window. A second one, by hand, while the
  device has it may cross with the device's handoff, and `Send` then writes in
  the device's window (`client.go:273`).
* A round of `pairLoop` of a window that was stopped goes on in the next window
  if it has not run by then: requests go out twice as often (`node.go:1127`).
* Two bonded nodes that both pair by themselves, and every board does
  (`main.go:211`), answer each other's opening request for ever while they keep
  hearing each other (`node.go:1244`, `node.go:1340`). No run says otherwise:
  that requests die out holds only when at most one of the two has `AutoPair`.
* Each look at the clock leaves out what its span is over whole milliseconds
  (`power.go:505-533`): the time asleep and the time awake add up to less than the
  run, by up to a millisecond a look.
* A pairing window that a frame opens is drawn over an alarm until the next poll
  (`node.go:1118`).
* A console gesture dates its edges ahead, and the input takes no press until they
  have passed: up to 60 s (`input.go:293`, `command.go:254`).
* `dropLateConnect` (`ble.go:288`) looks for a registered link. A late connect
  that finds one whose own connection has just ended, its callback still on the
  way, keeps a connection that no link holds; one that finds none, because a
  newer dial has connected and not stored its link yet, ends that dial's
  connection. On Windows, where the system cannot be asked, a late callback may
  end a newer link; `GoneTrue` is stated for the other two. There the same happens
  when the system is asked and returns an error (`ble.go:234`, tested at
  `ble_test.go:91`), which `blind` exempts.
* A watcher that has looked at `gone` before its link was given up may go on to
  end the connection of a newer link to the same address (`ble_linux.go:40`). A
  `Disconnect` that fails leaves a connection that nobody holds.
* A fix that `PlausibleStep` refuses has by then moved the odometer's anchor and
  the smoother (`sensors_esp32s3.go:460`), and one that comes with no time passed
  is never refused. After a successful calibration the heading is the held one
  until the first read.

## Proofs

Each theorem is proved from the module's named assumptions, for all constants
that satisfy them, through an inductive invariant.

A few theorems (`SaveLandsHolds`, `OwedHolds`) state the part of a liveness
property that is safety; the run then checks the whole of it.

**BondingProofs.** `TypeCorrect`, `HalfBondSafe`, `EndArmedSafe`, `OneOverSafe`,
`OffQuietSafe`, `OwnedOnlySafe` and the `Invariance` behind them, for any nodes,
Totems, owners, limits and timer lengths; nodes and Totems are disjoint, owned
sets finite, `maxBonds` positive, and the timers of a window fit in it. `IInv` is
`TypeOK` and, for each node, `Sound(n)`: the five properties and one fact that
none of them states, that a window which has not chosen its partner is still
within the limit. `OneOver` is not inductive without it: a handshake adds a bond
without looking at the limit, and what keeps it to one too many is that it adds
one only to a window with no partner. `EndArmed` needs that a cancel timer moves
one slot of the calendar nearer at each tick just as `left` falls by one. An
action changes one node: its lemma shows `Sound` for that node, a common lemma
for the others. `RolledBackHolds` is about a step that closes a window: both
`stopPairing` and the answer that finds the partner bonded already drop the
provisional bond, and no other step closes one except a group's finalize and a
boot. Those two put a list in place that may hold the same Totem, so `RolledBack`
exempts them; without the exemption it is false. `FirmKeptHolds` is the other
half: a bond that is not provisional stays so until the person deletes it or a
list replaces them all. It needs of the invariant that a window with a provisional
bond has that Totem for its partner: then one that is registered is not in the
list yet, and no final bond becomes provisional again.

**BoardProofs**, for what the board's main loop drives: the ring and the device.

The ring: `RingSafe` and `RingIsQueue`, for any number of slots, any
counter width they divide and frames of any number of parts. The invariant says
that the slots between `tail` and `head` hold whole frames (`HeldWhole`), how far
the push has filled the slot after them (`Filling`) and what the pop has copied
(`Copying`). Lemmas on remainders show that the slot being filled is none of
those held, across the wrap. The refinement maps the queue to the sequence of
these frames, a push that is past its check to an offer, and a full ring to a
loss; each step is a step of `RxQueue` or a stutter. `Drained` is left to TLC.

The device: `StripTrueHolds`, `PowerSoundHolds` and `AlarmBackHolds`, for any
voltages, colours, bearings and kits, and for any lengths of a flash, of the
charger's times, of a poll's gap and of an update, as long as a flash outlasts a
gap (`TimesAssumption`; the loop polls every 5 ms). The handlers are functions on
the device's record that call one another freely, so the proof is a calculus of
them: `Good` says that the strip is dark exactly when the device is off, that a
strip at rest shows the device's picture, and that `lead` and `since` agree;
`After(s, t)` that a handler called between two polls keeps `Good`, leaves the
update alone and at most starts a new run; `Polled` what the rest of a poll leaves.
There is a lemma for each handler, and the lemma of an action chains them.

What the properties do not say and the invariant `DeviceInv` has to is how far
back the last look at the clock may lie (`Ahead`). A flash runs out unseen only if
the loop stays away for longer than it lasts, and an update that blocks the loop
may; so in the loop a picture not yet drawn is due and has lost no more than one
gap (`DueSoon`), and when an update hands the poll back late, the picture it
played has lost nothing (`Due`). The rest of the poll then either draws it or, if
it carries the older time, leaves it with its whole length. `Ahead` also bounds
`since` and `lead`: two updates at most, one from the console and one from a
triple tap, fit between two bookings. What a look leaves out is a remainder
(`DivIs`). `AlarmBack` is inductive with the rest: a poll ends in `Restore`; a
reading that leaves the device on does not touch what it alerts to
(`SteadyAlerts`); a frame plays a timed picture, opens a window, which `over`
says, or ends one, and `stopPairing` takes the pairing picture down only when it
is the one that is up (`FrameIs`, `ClosedAlerts`).

The gauge is proved for every pair of voltages and every learnt top. `CurveStep`
evaluates the 58 points of the table; that it falls between any two of them, and
that some segment contains each voltage between its ends, follow from the least
counterexample (`WFMin`), since induction over an operator is not available;
the rest is that division by a positive number keeps the order.

**SettingsProofs.** `NoSilentLossHolds`, `BootRecordedHolds`,
`ForgetSticksHolds`, for any peers, choices and faults. Besides types the
invariant is `Covered`: with the store open, every bond on the flash is one the
node has or one that was deleted or refused (`Excused`). It fails as soon as a restore, a late opening
or a failed write may forget something, and it is what a save needs.
`SaveLandsHolds` is the safety half of `Persisted`: after every step that ends in
a save the flash has the settings in use, also when the store wrote nothing
because its key was the same. `KeyTrue` is why: the key is that of the record on
the flash unless a write has failed that none made good.

**MeshProofs.** `OneChainHolds`, for any nodes and clocks: besides types the
invariant is that a node's own clock is a clock, on which `SetClock` and
`adoptClock` decide whether a chain must be started. `AskPacedHolds` rests on
`Throttled`: after a request that a peer caused, its next one is not due for
`SendFreq`, whichever of the two reasons to ask applied and whatever the node has
heard of the peer since. `FloodBoundHolds` and `RememberedHolds` hold for any
lifetimes, nodes, UIDs and table size. `FloodInv` says of every frame a node
has relayed that it is in the node's table (`Remembers`), or its entry has lapsed,
and then every copy that could still be heard has expired, or its UID was
evicted. The second case is the arithmetic: copies of a frame expire within
`RepeatMax` and the drift of the clocks of each other, and an entry outlives by
`DedupeMin` the copy it was made for. `Mail` says that a queued request has not
been sent and a reply to be repeated has been sent once. Eviction picks the entry
that ends first, which exists because the table is a finite set. `MaxUids > 1`,
a question and its answer, only bounds the instance. `JumpAssumption` is a real
limit of the result: a clock that is set forward, between two hearings of a
frame, by more than half of the margin of `DedupeMin` may make a node relay the
frame again, and nothing is claimed about that case.

**ClientProofs.** `InWindowHolds`, for any number of callers, grants, batches and
failures. In a half-duplex session on a live link the window is a token: of the
app, a `Start` or grant on its way, the device and a handoff in the air no two
have it (`Token`). `Mutex` says that `batchMu` is held from the check of the
window to the return, `Flight` that a request in the queue or with the writer is
there once and is what its caller waits for, `Gave` that the app lets go of the
window before the frame that passes it on is written. `BatchAssumption` keeps
Ready and grants out of batches.
In legacy mode the device never has the window. `ConsistentHolds`: `MarksOK`
relates queue and marks in both directions and says that no ack is queued twice,
which is what makes it right to clear the mark when the writer takes one frame;
`CallsOK`, that a goroutine in a call has a frame to write, keeps what callers
queue apart from acks, and `Buffers` bounds the rest.

**InputsProofs.** `HoldRealHolds` and `NextUsefulHolds`, for any lengths of
windows, holds, waits and updates. `RealInv`: an input not held by the console
that is down is the button, seen down by the panel for at least as long; and the
one that is held has no taps pending while it is up, which is what makes `next`
right in the middle of a console hold. `AsMeantHolds` adds the ranges of the ages,
that a download found the blocks at the wait after the boot (`Found`), that
the power has not been switched by a console hold not yet reported (`Fresh`), and
that an edge lies no further ahead than the console gesture that dated it
(`Ended`).

**BleProofs.** `LinksTrueHolds`, on any of the builds and for any number of
dials. `LinkInv` counts the connections (each was some dial's, and calls back at
most once, when it has ended) and says that only links that were stored are
marked, listed or called back, and that one `Close` waits for was given up.
Without the last two a callback that has picked its link could not be shown to
mark the right one. `Watchers` does the same for the watcher: it belongs to a link
that was stored, and is about to mark it only once that was given up or its
connection ended. `OwedHolds` is the safety half of `DoneCloses`: a link that is
up while the system holds no connection has a callback on its way that will find
it, or the watcher. It needs that dials come one after another (`InOrder`), that
the entry of a link which is not gone is its own until it is closed (`Entered`),
and that a dial given up is over and a link that is not gone has its watcher at
some step of its loop (`Ended`).

**SensorsProofs.** `HardwareBackHolds` and `CommandHoldsHolds`, for any places,
settings and clocks. Besides the two properties the invariant says that the next
read will report what was asked for, whatever the parts answer (`Ready`): the
held reading has it and the field is taken over, or the simulation has it. One
lemma shows that a read made ready shows what it was made ready for, unless the
simulation has moved it, a walk its bearing or a drive over a pole; each action
then only has to make the read it ends with ready. `HonestHolds` and
`SteadiedHolds` rest on `HonestInv`, a part for each reading. A place the receiver
names and the board does not believe was named first after the last fix and last
within a minute of it, so one named for longer has been believed; since the pose
being tried was first seen there was no sign of another, whichever sample commits
it; a fix carries the time at which it was taken, or none. All reads share one lemma, `ReadHonest`. The assumption that
`"none"` and `"zero"` are no places or settings keeps the marks for values
nobody filled in apart from values.

Only model-checked: liveness (`Drained`, `Heals`, `Persisted`,
`CallsReturn`, `RepeatsEnd`, `DoneCloses`, `ScanEnds`) and the absence of
deadlock, which are out of the prover's reach; and `Journal` with its refinement. The
journal's properties are about what a scan finds, and the scan is recursive; they
hold for the payloads, contents and failures that `Uses` pairs and not for any
(`journal_magic`), so that they have no general form to prove.

## Not modelled

* The codecs (`protocol`, `mesh`, the settings record) and the GNSS line reader:
  pure functions of bytes with table tests and fuzzing of their own. Frames,
  records and fixes are abstract in the models.
* The odometer, the smoother and tilt compensation: arithmetic on floating-point
  data. A fix is a place and a heading a value that says where it is from.
* The watchdog's blockers and `HoldSleep`, counters kept for a status line.
* Pixels: a frame of the strip is one picture, determined by what is played.
* The HTTP transfer of an update and the checks of its image: `Device` has the
  outcomes.
* The registers and ROM calls of the board and flash drivers: `Journal` and
  `Sensors` have the ways in which they fail.
* The parser of console lines and, in totemctl, argument parsing, printing and
  the serial console of the mesh command. Of the commands that talk to a Totem,
  `fetch` and `peerList` are modelled; the others are one `Send` each.

What would come next: the composition of `Bonding` and `Settings` over one
node, so that `Heals` and `Persisted` are stated of the same reboot.
