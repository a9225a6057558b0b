# A TLA+ model of udcinput

udcinput is a C library that turns a Linux device with a USB device controller
(UDC) into a Nintendo Switch Pro Controller. This directory holds TLA+ modules
that model it, configurations that check them with TLC, and proofs that TLAPS
checks. Paths are relative to the repository; line numbers are those of the
commit the models were written from.

* [Inventory](#inventory)
* [Modules and the code](#modules-and-the-code)
* [Runs](#runs)
* [Bounds](#bounds)
* [Fairness](#fairness)
* [Proofs](#proofs)
* [Findings](#findings)
* [Not modelled](#not-modelled)
* [Plan](#plan)

## Inventory

| Component | Code | State | Operations |
|---|---|---|---|
| Gadget and functions | `src/udcinput.c:37-296`, `src/gamepads/switchpro.c:251-269, 669-817` | the configfs tree (in the kernel), `gadget->path`, `next_function_id`, each function's two paths | `gadget_create/init/destroy/enable/disable`, `function_create/enable/destroy`, `configure_as_switchpro` |
| Event loop | `src/udcinput.c:298-523` | `epollfd` and what it watches, the eventfd `stopfd`, `datafd`, the local `timeout` | `loop_create/destroy/run/stop` |
| Switch Pro gamepad | `src/gamepads/switchpro.c:288-654, 771-984` | `mutex`, `fd`, `fd_nonblock`, `input_report` with its timer, the flash image | `create/destroy`, `set_state`, callbacks `open`, `close`, `on_data` |
| Output reports | `src/gamepads/switchpro.c:271-654`, `include-private/udcinput/buf_p.h` | a read buffer and a 64-byte response buffer | parsing, the answers to USB commands and subcommands |
| Encodings | `src/gamepads/switchpro.c:145-249, 656-769, 826-889` | none | axes, 12-bit packing, button bits, calibration data, flash layout |
| HID node | `src/hid.c` | none | find and open `/dev/hidg*`, write one input report |
| Utilities | `src/util.c` | none | files, directories, strings, `fcntl` |
| Logging | `src/log.c` | the callback pointer | formatting, hexdump |
| C++ wrapper | `include/udcinput.hpp` | owned C structures, a heap copy of the callbacks | constructors, moves, destructors |

**How they meet.** The application creates and configures a *gadget*, creates
*gamepads* in it (each makes and links one function), and enables it. It runs
the *event loop* in one thread, with the gamepad's callbacks: `open` finds the
HID node of the function and opens it twice, `on_data` answers the reports the
host sends, `close` closes both descriptors. Other threads call `set_state` at
any time and `loop_stop` from anywhere. The loop and the gamepad share nothing
but the descriptor that `open` returned; `set_state` and the callbacks share
`input_report` and the descriptors, under the mutex. The kernel's HID function
keeps one input report until the host polls it.

**What is hard, and what makes it correct.**

* *Event loop.* A wait without a timeout and without a device would never end;
  a descriptor closed while epoll watches it stands for another file when its
  number is reused; a stop may come before the run, inside a callback, or
  together with other events. Correct: the loop sleeps for good only with a
  watched device, watches exactly `stopfd` and `datafd`, calls its callbacks
  in a strict order, and returns after every stop.
* *Gamepad.* Three parties write reports through two descriptors, a write may
  hold the mutex until the host polls, every early return must unlock, and
  `open_hidg` can fail at three places every 500 ms. Correct: mutual exclusion
  with no path that stays locked, no descriptor leak or double use, no report
  with an older state after a newer one, no changed button lost to a full
  endpoint, every call returns while the host polls.
* *Gadget.* The tree outlives the program. It may be left in any intermediate
  shape, and the kernel refuses removals in a wrong order. Correct: init with
  cleanup recovers from every shape, success means a fresh gadget, a failed
  creation leaves nothing and disturbs nobody.
* *Output reports.* The host chooses length and contents. The request is taken
  apart and the answer put together in one array, one answer has a size the host
  chooses, and the flash address is compared after a 32-bit addition. Correct:
  no access outside the array or the flash, no byte of the request or of the
  stack in an answer, the mutex released on every way out, and one count of the
  report timer for each answer.
* *Encodings.* Two scales meet at the center of an axis, pairs of 12-bit numbers
  share bytes, the two sticks' calibrations have different orders, and presses
  are recognised by comparing bytes. Correct: what the host unpacks, measured by
  the calibration it reads, is the state that the application gave.
* *HID node, utilities, wrapper.* Who frees, closes and destroys what, on each
  error path and across moves.

`PROJECT.json` lists every hazard with its line and its properties; those
without a property say why.

## Modules and the code

```
CallbackContract   what a device may rely on   (abstract)
      ^ implements
EventLoop      <- EventLoopProps     <- EventLoopProofs, MCEventLoop
      ^ implements
GamepadSystem  -------------------   <- GamepadSystemProofs, MCGamepadSystem
      | implements
      v
SwitchPro      <- SwitchProProps     <- SwitchProProofs, MCSwitchPro
      | implements
      v
AnswerContract     what the handling of a report shows   (abstract)
      ^ implements
OutputReports  <- OutputReportsProps <- OutputReportsProofs, MCOutputReports
      | extends
Buf                the bounded buffer

Encoding       <- EncodingProps      <- EncodingProofs, MCEncoding
HidOpen        <- HidOpenProps       <- HidOpenProofs
Wrapper                              <- WrapperProofs, MCWrapper
Gadget         <- GadgetProps        <- GadgetProofs, MCGadget
```

**`EventLoop`** is `udcinput_loop_*`. `pc` is the system call or callback the
loop thread is in: `epoll_wait`, `open`, `epoll_add`, `undo_open` (the close
after a failed `EPOLL_CTL_ADD`), `read`, `on_data`, `epoll_del`, `close`.
Between any two of them other threads may stop the loop and the device may
change. `interest` is what `epollfd` watches, `stopCount` the eventfd counter,
which the loop never reads, and `devfd` the descriptor that an arbitrary device
behind the callbacks has open.

**`CallbackContract`** is the promise to `struct udcinput_loop_callbacks`
(`include/udcinput.h:42-46`): one callback at a time and only inside a run,
`open` only while no descriptor is held, `on_data` only with an open one, and
every open is paid back by a `close` before the next, unless the run ends
first. `EventLoopProps!Contract` is the refinement mapping: the callback in
progress and whether a descriptor is held are functions of `pc` and `datafd`.

**`SwitchPro`** is the gamepad at run time. Each application thread is at a
point `tpc[t]` of `set_state` (`idle`, `lock`, `write`, `write_nonblock`), the
loop thread at a point `lpc` of a callback, with its locals `lfd`, `lfd2`,
`lmsg`. A step is what happens between two blocking or failing system calls:
`SetStateLocks` takes the mutex, counts the timer, copies the nine input bytes
and chooses the descriptor; `SetStateWrites`, `SetStateWouldBlock` and
`SetStateWriteFails` are the outcomes of the write, with the unlock and the
return. `files` is the process's descriptor table, in which `open` takes the
lowest free number and the rest of the program opens and closes files of its
own. `endpoint` is the report the host has not polled. `input` is abstracted to
a button part (bytes 3-5, compared by `set_state`) and a stick part (bytes
6-11). Output reports are five classes, by what `on_output_report` does with
locks and answers (`AllMsgClasses`). `accepted` and `synced` are history
variables of the properties.

**`GamepadSystem`** composes the two: the gamepad takes the place of the loop's
device (`EL!devfd` is the gamepad's `fd`), and calls and returns of callbacks
are joint steps. That this composition implements `EventLoop` is checked and
proved, so what holds of the loop with any device holds with this one; that it
implements `SwitchPro`, whose `LoopCalls` is an assumption about the loop, is
proved.

**`Gadget`** is the configfs side. A call is a `script`, the sequence of system
calls that the code makes, each marked as one whose failure ends the call
(`Must`) or is logged and ignored (`Try`). One step runs one system call;
`Crash` may come between any two. The kernel's rules are `Allowed` and
`Effect`: a linked function cannot be removed or written, a bound gadget takes
no new link, unlinking a function unbinds the gadget, a directory with
user-made children cannot be removed, a gadget without a linked function cannot
be bound. These rules are external (configfs and `drivers/usb/gadget/configfs.c`
of Linux), read off from the order in which the code removes things.

**`Buf`** is `buf_p.h`: a window `data..data+size` in an array of `Capacity`
bytes. The `Can...` operators are the conditions of the error returns.

**`OutputReports`** is `on_output_report` with everything it calls. `todo` is the
list of buffer operations the handler has left. A branch of the code (the
switches over report id, USB command and subcommand, the range check of a flash
read) replaces the list by that of the chosen branch; `Fails` is an operation
that does not fit, the jump of `CHECKG` to a label that unlocks and returns.
`array` is a ghost of the memory: for each byte, whether it is unset, a byte of
the request, or which field of the answer it is, so that "what reaches the host"
is a statement about the window at the moment of the write. `OthersCount` is
another thread in `set_state`, which counts the same timer when the mutex is
free.

**`AnswerContract`** is what is left of all that when the bytes are forgotten: a
report is of a class, the class decides whether the timer is counted and an
answer written, and nobody counts between the count and the answer.
`OutputReports` implements it with the class computed from length, ids, address
and size (`OutputReportsProps!Class`); `SwitchPro`, which starts from the class,
implements it as well, with its threads. The classes that `SwitchPro` takes for
granted are thereby those of the code, including the odd one: a flash read of
more than 44 bytes counts the timer and is never answered.

**`Encoding`** has the real numbers: `TwoU12`, `AxisToRaw`, the seven
`flash_write`s of `init` in their order, and `set_state`'s nine bytes. A byte of
buttons is the set of its bits, other bytes are numbers. `FlashWrite` is one call
of `flash_write`, with the failure that makes `create` fail. `EncodingProps`
describes the host's side: it unpacks 12-bit numbers and measures the sticks by
the calibration it reads from the flash.

**`HidOpen`** is one call of `udcinput_hidg_open` after the other. Blocks of the
heap and descriptors are named by the variable that holds them; what no variable
holds any more at the next call counts as lost. Every system call and allocation
may fail, and `<function>/dev` may have any length around the size of the local
array. `VaListPassedByReference` is the ABI: whether the second `vsnprintf` of
`udcinput_vsprintf_alloc` still finds the arguments.

**`Wrapper`** is `CStructWrapper` and `SwitchPro` of `udcinput.hpp`: variables of
the application and the temporary in `create` are constructed, moved, given
callbacks and destroyed in any order. `raw` and `user_data` are copied by a move,
`valid` and `delete_userdata` are handed over, as in the code.

The sections "Faulty variants" are no part of the specifications. Each is a plausible slip in one operation, and TLC
finds that the named property fails when the operation is replaced by it
(`mutants` in `PROJECT.json`): the properties can tell a wrong program from
this one.

## Runs

`tlc -config <cfg> <module>`; numbers are distinct states.

| Run | cfg | States | Shows |
|---|---|---|---|
| `event_loop` | `MCEventLoop` | 181 | the loop with any device: what epoll watches, when it sleeps without a timeout, that a stop always ends the run, that it keeps trying to open, that it implements `CallbackContract` |
| `switchpro_threads` | `MCSwitchProThreads` | 1.26 M | two threads in `set_state` against all callbacks and the host: locking, currency of reports, delivery of buttons, no silent loss, `AnswerContract` |
| `switchpro_live` | `MCSwitchProLive` | 29 k | every `set_state` and every callback returns; an application that retries gets each state to the device |
| `gamepad_system` | `MCGamepadSystem` | 43 k | the composition implements `EventLoop`; watched, read and written descriptors are the gamepad's open ones, none leaks, none of the program's is closed; a stop ends the run although callbacks wait for locks and the host; a lost device is tried again |
| `output_reports` | `MCOutputReports` | 19 k | every kind of report, at every length around a field and every flash range around a boundary: memory, locking, contents of answers, classes |
| `encoding` | `MCEncoding` | 432 | flash, sticks and buttons as a host decodes them, with the real numbers |
| `hid_open` | `MCHidOpen` | 692 | every failure at every step, again and again: descriptors, heap, the right node |
| `wrapper` | `MCWrapper` | 1.2 k | one owner for each C structure that lives, none destroyed twice |
| `gadget` | `MCGadget` | 1.2 k | crashes anywhere, failures of every step of a creation and of binds: cleanup recovers, success means a fresh gadget, destroy leaves nothing, failed creations leave nothing, existing gamepads stay linked |
| `destroy_unopened` | `MCSwitchProDestroy` | | expected violation, see [Findings](#findings) |
| `encoding_grip` | `MCEncodingGrip` | | expected violation, see [Findings](#findings) |
| `hid_open_valist` | `MCHidOpenVaList` | | expected violation, see [Findings](#findings) |

`CleanupRecovers`, `DestroyLeavesNothing` and `NoOrphanFunctions` hold only where
no step of a removal fails without a reason, as it must be: nothing can be
promised of a removal whose `rmdir` fails. That is also what the theorems about them assume of
`Faults` (see [Proofs](#proofs)); any other call may fail in them. What a
reported success means when any system call may fail (`GadgetsAreFresh`, `PadsStayLinked`, `NobodyIsDisturbed`)
is proved for every set `Faults`.

## Bounds

* *Event loop:* two device descriptors, 0 (a legal descriptor that code testing
  with `> 0` would mistake) and 5; the counter saturates at 2, so "at the
  maximum" is reached.
* *Threads:* two threads make every race between two `set_state` calls, and one
  of them with the loop thread; `set_state` treats threads alike, and the
  proofs are for any number. Two button and two stick values give the three
  cases the code tells apart: a button changed, only a stick changed, nothing
  changed. `TimerMod` 2 stands for 256 and wraps.
* *Descriptors:* in `gamepad_system` the program may take both numbers of the
  gamepad as soon as it closes them, or one of them before it opens, in which case
  the second open fails. The invariants and `NothingButZeroIsStolen` are proved
  for any table. `destroy_unopened` has a table of four.
* *Liveness* runs have one application thread and the loop thread, which wait for
  each other's mutex and endpoint. `switchpro_live` has the sticks, and so writes
  that do not block and retries, but no USB commands: a host that
  sends them for ever could have each answer fill the endpoint just before the
  retry, and nothing in the code gives the retry its turn. `gamepad_system` has them, and buttons only.
* *Gadget:* `MaxId` 3 gives a gamepad that exists, one that is being created
  and one that was destroyed. `MaxId` bounds `next` in the guard of `PadCreate`
  and nothing else.
* *Output reports:* the real 64 bytes, and lengths around every field of a
  request (0, 1, 2, 5, 6, 9-12, 14-16, 64). Flash and addresses are scaled from
  2^19 and 2^32 to 512 and 1024, with addresses at both ends of both, sizes
  around the largest that is answered (44) and the largest there is (255), so
  that sums end below, at and above the flash's end and wrap. The proofs are for
  any capacity, flash size and address width. The timer counts modulo 3.
* *Encoding:* each button alone and all of them, with and without triggers, and
  eleven values of an axis (ends, center, neighbours, carries between bytes) in
  all pairs; every change from one state to another is a step. `SticksArrive`,
  `SticksKeepTheirDirection` and `PressesAreSeen` are proved for all states.
* *HID node:* the real array of 10 bytes and contents of 0 to 12. `MaxLost` 3
  stops the count of lost blocks, not the calls.
* *Wrapper:* three wrappers are two variables and the temporary of `create`; two
  structures and two blocks are what it takes to confuse or replace one.

Deadlock is checked in every run but those of `Wrapper`, whose structures and
blocks, each created once, are used up at the end.

## Fairness

`EventLoop!FairSpec`: the loop thread runs, system calls that can complete do,
callbacks return, and `EpollReportsStop` is strongly fair: `epoll_wait` is
called with `maxevents = 1`, and Linux moves a level-triggered descriptor that
was reported to the end of the ready list, so `stopfd` gets its turn however
busy `datafd` is. Nothing obliges the application, the device or an error to
act. One assumption deserves a name: `ReadReturns` is fair, that is, a `read` of
a descriptor that epoll reported as readable returns. The kernel may drop queued
output reports when the host resets the device between `epoll_wait` and `read`;
the blocking `read` then waits for the next report, and a stop waits with it.

`SwitchPro!FairSpec`: strong fairness for taking the mutex and for writes to the
endpoint, since both are granted repeatedly and taken by others in between; the
kernel's mutex and wait queues starve nobody for ever. The host polls. No write
error is fair, so liveness never rests on one. `RetryingSpec` adds an
application that repeats a call that returned true.

`GamepadSystem!SystemFairSpec` states the same of the joint steps. That callbacks
return is not assumed there: it follows.

Assumptions about the application, all visible as guards: the loop is destroyed
only when its run has returned, the gamepad only when no thread is in
`set_state` and no loop exists (`SystemDestroy`), and all gamepads of a gadget
before the structure is created anew (`GadgetCreate`).

## Proofs

`tlapm <module>Proofs.tla` checks every theorem of a module from the constants'
assumptions alone: any descriptor sets, counter sizes, number of threads, states,
timer width, buffer capacity, flash size, number of functions or wrappers.

**Event loop.** `InterestMatchesDatafd` speaks of the moments the loop waits or
does not run, so a step from inside a callback could break it: it is not
inductive. `LoopInv` adds what epoll watches (`Registered`), whether there is a
`datafd` (`DatafdByPoint`) and what the timeout is (`TimeoutByPoint`) at every
other point. From it follow `TypeCorrect`, `NeverSleepsForGood`,
`InterestIsExact`, `DatafdStaysOpen`, and the action properties `StopNeverLost`
and `NeverClosesWatched`. `LoopKeepsContract` is the refinement: the initial
state maps to an initial state of `CallbackContract`, each step to a step or a
stutter. `EveryIterationEnds` is the part of `StopEndsRun` that needs no fairness:
`StepsLeft` counts at most five steps of loop and device from any point back to
`epoll_wait`, where a stop is seen, and each step but a `udcinput_loop_stop` lowers
it, whichever system calls and callbacks fail.

**Gamepad.** `SwitchProInv` ties four groups together. `LockInv`: the mutex is
locked exactly inside the critical sections, and nobody uses a gamepad that does
not exist. `FdInv`: what the callbacks' local descriptors are at every point of
`open_hidg`, that a writer's device is open, what remains in the fields when it
is closed, and the modes of the descriptors. `ReportInv`: a response that is
being written carries the current input (the loop thread has held the mutex
since it copied it), and unless a thread is in the blocking write, the device
has the buttons. The last needs the modes: a blocking descriptor never answers
EAGAIN. The modes need the points of `open_hidg`, and all of it needs the mutex,
which is why the conjunction is inductive and no part is. From it:
`SwitchProTypeCorrect`, `MutualExclusion`, `DescriptorsAreKnown`,
`ModesAreKept`, `ResponsesAreWritable`, `ChangedButtonsArrive`, and the action
properties `ReportsAreCurrent` and `NothingButZeroIsStolen`. Two more rest on
further conjuncts: `NothingIsLostSilently` on what a thread's point in
`set_state` says of its own state, and `GamepadKeepsAnswerContract`, the
refinement, on the timer's range and on the mutex, which is what keeps other
threads from counting while an answer is being written.

**Loop and gamepad together.** Neither half's invariant is inductive here alone.
That `switchpro_close` is called only on an open device, which `SwitchPro`
assumes, holds because the loop has a `datafd` then; that this `datafd` is the
device, which `EventLoop` assumes, holds because only a callback changes the
device, and only while the loop waits for it. `SystemInv` is the two invariants
and `Agreement`, which says which callback each point of the loop belongs to.
With it each step of the system is a step of `SwitchPro` (`SystemStepsGamepad`)
and a step of `EventLoop` (`SystemStepsLoop`), so that the lemmas of the two
proof modules carry the invariant on: `EventLoopProofs` is instantiated with the
gamepad's descriptor for the device. From it: `SystemImplementsEventLoop`,
`SystemImplementsSwitchPro`, `DatafdIsTheDevice`, and with the two refinements the
promises of the halves hold of the whole: those about descriptors
(`SystemLeaksNothing`, `SystemModesAreKept`, `SystemStealsAtMostZero`), states
and answers (`SystemDeliversStates`, `SystemKeepsAnswerContract`), and those of
the loop (`SystemWatchesDevice`, `SystemKeepsLoopPromises`).

**Output reports.** `ReportsInv` says for each point of the handler what is left
in `todo`: the mutex is held exactly when an `unlock` or a step that leads to one
is ahead, only `flash_range` puts bytes of the flash ahead and only after its
comparison, and the window fits because each operation checks it. From it:
`ReportsTypeCorrect`, `WindowStaysInArray`, `FlashReadsAreSafe`,
`MutexIsReleased`, for a buffer of any capacity. What an answer contains needs to
know where in which sequence the handler is. `AnswerInv`: it either takes its
report apart (`Reading`: what is left of one of the sequences that pull, and the
number of bytes gone) or is at the `k`-th operation of the report's answer
(`Answering`: the array is filled up to the size that belongs to `k`, with the
answer's `Layout`). From it, for the 64 bytes of the code and any set of reports,
flash and address width: `EveryAnswerIsWhole`, and `ReportsKeepAnswerContract`,
the refinement. The latter shows that the five classes with which `SwitchPro`
models `on_output_report` are right: a report is answered, counted, rejected or
left alone as its class says.

**Encoding.** `Faithful`, that the report is the encoding of the state given last,
is the invariant; the work is in the arithmetic lemmas about `AxisToRaw` (range
and monotony on both sides of the center and across it), `TwoU12` (a packed pair
is unpacked) and `ButtonBits` (each button has its own bit, so different sets of
buttons give different bytes). `FlashIsNotOverwritten` and `EncodingTypeCorrect`
follow from the regions ascending without overlap. That the calibration fits needs
what the flash contains: `FlashHolds` says that every region written so far still
holds its bytes (`FlashIsKept`), which a later write keeps because its region
starts where none before reaches. The bytes of the two stick regions are thus
those of their writes, unpack to minimum, center and maximum although each stick
has them in another order, and `AxisFits` and `AxisIsMonotone` do the rest:
`SticksFitTheirCalibration`. `ButtonsAreDecoded` says of the buttons what
`SticksArrive` says of the sticks.

**HID node and wrapper.** The invariants say what is allocated and open, or who
owns what, at each point. That `delete_userdata` is never set is part of the
wrapper's invariant; `CallbacksAreNeverFreed` follows.

**Gadget.** `TreeInv` is what the kernel keeps true of its tree whatever is tried
(links only to functions, a bound gadget has one, nothing without its parent).
`PadInv` ties the gamepads to the ids given out so far; `CallInv` says what the
call in progress has left: the script of init ends with the `mkdir` that fails
unless the tree is empty, a create is at one of four points, a destroy touches
no id of a gamepad that exists. Each of the three needs the other two. From them:
`GadgetTypeCorrect`, `PadsStayLinked`, and the action properties
`GadgetsAreFresh` and `NobodyIsDisturbed`, for every set `Faults` of system calls
that may fail.

The other three properties need the removal itself to work. `RemovalInv` says
that what is left of a removal still tries everything that is left of the tree
(`Covers`) in ascending `Rank` (`Ascending`: unbind, links, the configuration's
directories, functions, the other directories), so that nothing is busy or not
empty when its turn comes. It is inductive only where `rmdir` and `unlink`, and
the `mkdir` that follows, fail for no other reason than those the kernel has
(`RemovalIsReliable`, a condition on `Faults`, which the run's `Faults` satisfies
and without which the properties are false: a directory whose `rmdir` failed
stays). Under it `RemovalInvariant`, `CrashesAreCleanedUp` (`CleanupRecovers`) and
`DestroyedGadgetsAreGone` (`DestroyLeavesNothing`) hold for any number of
functions; unbinding, binding, writes and the creation of functions may fail.
`OrphanInv` follows each function from its `mkdir` to its link, or through the
error path back to its `rmdir`; `NoFunctionIsOrphaned` needs only functions and
links to be removable (`FunctionsAreRemovable`), everything else may fail.

**Only model-checked:** the liveness properties (`StopEndsRun`,
`KeepsTryingToOpen`, `CallsReturn`, `CallbacksReturn`, `StateArrives`,
`StopEndsSystemRun`, `DeviceIsReopened`): the prover does not do fairness or
ENABLED. Every invariant and every other property of the passing runs is proved.

## Findings

* `destroy_unopened`: `udcinput_gamepad_switchpro_create` initialises `.fd = -1`
  (`switchpro.c:782-785`) but not `fd_nonblock`, which is therefore 0. If the
  device is never opened, `udcinput_gamepad_switchpro_destroy` runs `close(0)`
  (`switchpro.c:814`) and closes a descriptor of the application.
  `OnlyZeroIsStolen` shows, and the theorem `NothingButZeroIsStolen` proves,
  that this is the only descriptor that is ever closed wrongly.
* `encoding_grip`: "Charging Grip. The Pro controller always has this set."
  (`switchpro.c:866`), but `BIT(8)` is cut off by the byte it is or-ed into
  (`switchpro.c:867`): no report has it.
* `hid_open_valist`: `udcinput_vsprintf_alloc` copies its `va_list` and then
  gives the original to both `vsnprintf` calls (`util.c:26, 40`). Where a
  `va_list` is passed by reference, on x86-64 for example, the second call reads
  beyond the arguments.

Seen while modelling, and not a run of its own:

* `SwitchPro::set_callbacks` allocates callbacks and never sets `delete_userdata`
  (`udcinput.hpp:142-151`), so the two places that would free them
  (`udcinput.hpp:113-115, 144-146`) never do: `CallbacksAreNeverFreed` is proved.
* `OnlyMissingNodeLeaks` holds, and with it `udcinput_hidg_open` leaks its path
  each time the node does not exist (`hid.c:77-79`), which the event loop tries
  every 500 ms.
* The MAC address should be "a different one for every controller"
  (`switchpro.c:355-356`), but its only varying byte is the low byte of
  `function.id` (`switchpro.c:358, 561`), a counter that is never reused: after
  256 creations two gamepads that exist together may have the same address.

## Not modelled

Logging and hexdump (formatting for people), the build files, argument checks
without state (`is_gadget_name_valid`: one of the reasons of `Refused`),
allocation failures other than as one more way in which a call is refused,
`gadget->enabled` (written, never read), `udcinput_buf_add_printf` and the
macros of `util.h` that nothing uses, the report descriptor (a constant), the
contents of rumble data (read and logged), and the path strings and directory
streams inside the file helpers of `util.c`, each of which releases what it
opened before it returns.

Three hazards have no property because no document or code says what should
happen: a write error of `set_state` that is reported like success, the state
that the host sees after a reconnect, and a timer that comes round between two
reports. A fourth, the `read` that blocks when the kernel dropped the report that
epoll announced, is an assumption of [Fairness](#fairness). Two more, the
callbacks that nothing frees and the MAC address, are under
[Findings](#findings).

## Plan

Done: `EventLoop`, `CallbackContract`, `SwitchPro`, `GamepadSystem`, `Gadget`,
`Buf`, `OutputReports`, `AnswerContract`, `Encoding`, `HidOpen`, `Wrapper`.

Worth doing next: the file helpers of `util.c` with their
descriptors, as `HidOpen` does it; two gadgets that share one UDC.

Abstract specifications worth stating: a register that `set_state` writes and
the host reads (implemented by `SwitchPro` while the host stays), and a gadget
whose creation and removal are atomic (implemented by `Gadget` between calls).
