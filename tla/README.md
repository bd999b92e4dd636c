# Models of the meta-hsiao layer

The repository is a Yocto layer for an i.MX93 board. Its own logic is a
handful of Linux character-device drivers and the programs that use them. This
directory holds TLA+ modules that model that logic, TLC configurations that
check them on small instances, and theorems about them proved with TLAPS.

Paths below are relative to `src/`; `ETH` stands for
`recipes-kernel/ethernet/files`, `KMOD` for `recipes-kernel/hsiao-kmod/files`,
`APP` for `recipes-app/files`.

To check a configuration: `tlc -config MCNetWatchdog.cfg MCNetWatchdog`. To check
the proofs: `tlapm M.tla` for each of `NetWatchdogProofs`,
`NetWatchdogModuleProofs`, `EthernetWatchdogProofs`, `ByteChannelProofs`,
`LpuartIrqProofs`, `LpuartReadProofs`, `At24Proofs` and `ExampleDriversProofs`.
`PROJECT.json` lists the runs with their properties, the mutants that show each
property can fail, the source lines of each definition, the hazards of the code and
the proved theorems.

## Inventory

### The Ethernet watchdog

Two parts meet at `/dev/net_watchdog`:

    net_monitor (one process per interface)          net_watchdog (one module)
      carrier? address? ping target                    write(): parse, cooldown,
      count failures in a row          "RESTART 3\n"     claim busy, queue work
      at the threshold: request  ------------------->  worker: find the device,
      cooldown, again        len/EPERM/EAGAIN/EBUSY      rtnl, close, open
             ^                                              |
             |      carrier: unavailable, down, up          |
             +--------------- the interfaces <--------------+

**net_watchdog driver, `ETH/3_net_watchdog.c`.** State: `restart_ctx` (the
atomic `busy`, the plain fields `ifindex` and `last_request`, the work item),
the parameter `cooldown_ms`, the ordered workqueue and four registrations.
Operations: `net_watchdog_write`, `net_watchdog_restart_work`, open, release,
init, exit. It runs in several threads at once (writers, one worker, insmod and
rmmod) with no lock, only `atomic_cmpxchg` on `busy`; it works on network
devices that others bring up, take down and unregister. What makes it correct:
one request in flight, in one place; the interface restarted is the one the
accepted request named; the device is not used after it is freed; accepted
requests keep the distance `cooldown_ms` announces; the flag is always given
back; nothing is left behind by unloading or by a failed load.

**net_monitor program, `recipes-app/ethernet/files/3_net_monitor.c`.** State:
`fail_count`, `seq`, a raw socket for each probe. Operations: read carrier and
address, `send_ping_once`, `request_restart`, sleep. A raw ICMP socket gets
every ICMP packet of the host, so late replies and the replies to other
monitors come in as well; packets are lost, delayed and overtaken. What makes
it correct: a probe counts as answered only if it was; a restart is asked for
only after enough failures in a row; an interface whose path is dead is restarted
in the end; the user is told when the request failed.

`ETH/2_net_event_monitor.c` logs network events and keeps no state;
`recipes-app/ethernet/files/1_eth_status.c` reads files and prints them. Neither
is modelled: there is no state to be wrong. `has_default_route` of net_monitor
only chooses a log line and is left out of its model.

### The UART drivers

**Interrupt driven, `KMOD/lpuart_interrupt.c`.** State: one `struct lpuart_dev`
for all open files: the kfifo, the wait queue, the mutex, the enable count of
the clock, the interrupt line, the hardware registers. Operations:
`uart_open` (five steps, two error labels), `uart_close`, `uart_read`,
`uart_write`, `lpuart_isr`. Readers, writers, opens, closes and the handler run
at the same time. What makes it correct: no register access without a clock;
enable and disable balanced on every path; bytes delivered in order and once; no
reader asleep beside a byte; readers exclude each other; the handler always has
a buffer to write to.

**Polling, `KMOD/lpuart_polling.c`.** State: the enable count of the clock, the
CTRL register, the two data registers. Operations: `uart_open`, which clears CTRL
and sets it again under whoever is using the port, `uart_write` and `uart_read`,
which wait in a loop for the port. There is no handler, no lock and no `release`:
every open enables the clock once more. What makes it correct: no register access
without a clock; the port is ready when it is used.

Both drivers are bound to their hardware by `probe` (seven or eight steps that may
fail, with a label for each) and taken from it by `remove`, which the kernel does
not delay for the sake of open files: only unloading the module is held back by
`.owner`.

### The AT24C256 EEPROM driver

`KMOD/22_i2c_at24.c` and its test program `APP/22_i2c_at24c_app.c`. State: the
file position, the mutex, the chip (memory, page buffer, the write cycle during
which it answers nothing). Operations: read, write in page-sized pieces, llseek,
open, probe, remove. What makes it correct: a piece never crosses a page; byte
`k` of the buffer goes to address `start + k`; no transfer meets a busy chip;
the position stays in the chip.

### The GPIO, timer and character-device examples

`KMOD/9_thread.c` (a LED that one process at a time may open: a flag under a spin
lock, a semaphore or a mutex held from open to release), `KMOD/12_timer.c` (a
timer that re-arms itself, with ioctls that start, stop and change it),
`KMOD/8_gpioled.c`, `KMOD/5_new_chardevtest.c`,
`KMOD/3_chardevtest.c` (registrations and a LED). State: the
registrations with the kernel, the lock, one buffer and one pin for all files, the
timer. Their init functions return on an error without undoing anything, ignore
some errors and return one as a positive number; programs can open the device
before init has returned. What makes them correct: one file at a time
(`9_thread`); an LED that shows what its owner wrote; a timer that blinks until it
is closed, and no callback after the code is gone. `12_timer.c`
does not compile as it stands (line 31 lacks its semicolon and `struct timer_dev`
has two members called `dev`); the model is of what is meant.

### Build files

Recipes, `conf/`, the device tree and the kernel patches have no behaviour of
their own. (`recipes-app/ethernet/net-monitor_1.0.bb` and
`recipes-kernel/ethernet/net-watchdog_1.0.bb` describe how the two programs of
the watchdog are built.)

## The modules

| module | models | extends |
|---|---|---|
| `NetWatchdog` | the write path and the worker of net_watchdog | |
| `RestartService` | what net_watchdog promises, without how | |
| `NetWatchdogModule` | load and unload around the operations of NetWatchdog | NetWatchdog |
| `NetWatchdogProofs` | inductive invariant and theorems | NetWatchdog, TLAPS |
| `NetWatchdogModuleProofs` | the module's life: inductive invariant and theorems | NetWatchdogModule, NetWatchdogProofs |
| `NetMonitor` | the monitors and the packets between them | |
| `EthernetWatchdog` | monitors, driver and interfaces together | NetMonitor, instance of RestartService |
| `EthernetWatchdogProofs` | what requests and answers rest on: theorems | EthernetWatchdog, TLAPS |
| `LpuartIrq` | the interrupt-driven UART driver | instance of ByteChannel |
| `ByteChannel` | what a serial port promises those who read from it | |
| `ByteChannelProofs` | the channel keeps the order of the bytes; facts about sequences | ByteChannel, TLAPS |
| `LpuartIrqProofs` | clock, receiver and registers, for any files: theorems | LpuartIrq, TLAPS |
| `LpuartReadProofs` | types; exclusion, buffer, wakeups and the refinement of ByteChannel: theorems | LpuartIrqProofs, instance of ByteChannelProofs |
| `At24` | the EEPROM driver, its files and the chip | |
| `At24Proofs` | inductive invariant and theorems | At24, TLAPS |
| `CharDevModule` | load, unload, probe, remove and open of eight character device drivers: the five examples, both UARTs, the EEPROM | |
| `ExclusiveOpen` | the files of `8_gpioled` and `9_thread` | CharDevModule |
| `TimerLed` | the ioctls and the callback of `12_timer` | CharDevModule |
| `LpuartPolling` | open, read and write of `lpuart_polling`, and its port | CharDevModule |
| `ExampleDrivers` | the four together: the specification | ExclusiveOpen, TimerLed, LpuartPolling |
| `ExampleDriversProofs` | inductive invariant and theorems, for all eight drivers | ExampleDrivers, TLAPS |
| `MC...` | instances for TLC: symmetry sets | the module they name |

Operators commented as mutants are changed copies of the definition below them.
No specification uses them; they serve to show that a property notices a bug of
that kind.

### NetWatchdog

A call of `write()` is cut where it touches what others touch: the clock, then
`last_request` (`ReadJiffies`, `CheckCooldown`), the `atomic_cmpxchg`
(`ClaimBusy`), the two plain stores (`FillIndex`, `StampRequest`) and
`queue_work` (`QueueWork`). All checks on the arguments alone are one step
(`EnterWrite`): a request is a member of `Requests`, which says which of the
early checks fails and what `sscanf` finds. The worker is cut likewise, from
`StartWork` (the workqueue clears the pending bit) to `ClearBusy`.

External, from what the driver asks of them: the device list (`dev_get_by_index`
finds a registered device and takes a reference; a device is freed only without
references), the rtnl lock (whoever changes a device holds it, for one step), the
ordered workqueue (one worker), the clock. Two kernel facts are assumed: an interface
number is not used again after its device is gone, and `jiffies` does not wrap (it is
64 bits wide on this processor and starts near 2^32, hence the assumption that no
cooldown exceeds `InitialJiffies`, so that the zero in `last_request` never delays a
request). A cooldown is what `msecs_to_jiffies` makes of `cooldown_ms`, in ticks; a
value so large that the conversion saturates is left out by the same assumption. The
administrator may change it at any time (`SetCooldown`), also between the steps of a
write.

`RestartService` has three variables (the job, how far it has come, the running
interfaces) and says that the interface closed and opened is the one accepted,
and that between the two nobody else changes an interface. `NetWatchdog`
implements it under the mapping `Job`, `Phase`, `Running`; the request is in the
writer's local, in `restart_ctx` or in the worker's local, and `Job` picks it
from there. A device opened after it was unregistered is no interface any more,
so `Running` does not count it.

### NetWatchdogModule

`net_watchdog_init` is a walk along `Resources`, each step of which may fail and
start the walk back (`UnwindStep`: the error labels fall into one another);
`net_watchdog_exit` flushes, then gives back in `ExitOrder`. Opening takes a
module reference and unloading is refused while there is one (`.owner`). The
operations of `NetWatchdog` go on underneath for those who have the file open
(`Operate`). The device node is assumed to be opened only once `device_create`
has made it.

### NetMonitor

One pass of `main`'s loop is a chain of steps (`ReadCarrier`, `ReadAddress`,
`OpenSocket`, `SendProbe`, `Receive` or `Timeout`, `CountResult`, `RequestRestart`,
`Wake`). Replies travel in a set from which they arrive in any order, twice, late or
never; an arriving packet goes to every open socket, and each socket keeps the first
(the program calls `recv` once). Other programs' packets, among them replies to
their own pings with any sequence number, may come at any time; `OtherIds` are the
ids they use, so a second monitor is also covered as a part of the environment. An
id is a process number cut to 16 bits; the ids of different monitors are assumed to
differ. Delays are not counted: a poll may time out whenever nothing has arrived.
`RequestRestart` includes the driver's answer, which the program learns only from
the return values of `fprintf` and `fclose` and does not look at. Sequence numbers
are sent modulo `SeqMod`; a reply is assumed not to be underway for a full round of
them (65536 probes), so the model drops it when its number comes round.

### EthernetWatchdog

A monitor of `NetMonitor` gets its answer from a driver, and what it reads of its
link depends on what the driver does to the interface. The driver is
`RestartService`, which `NetWatchdog` implements (that is what the refinement is good
for: the composition needs none of the details), behind the two tests of
`net_watchdog_write`, with time between them: `PassCooldown` (to `passed`), then
`Accept` or `RefuseBusy`. A failed `fopen` is `"unopened"`, and a monitor without
CAP_NET_ADMIN gets `"EPERM"`; both may happen at any request. `Rivals` are interfaces
that other programs ask to restart, for whatever reason. `cooled` says whether the
cooldown since the last accepted request is over, `CooldownElapses` that it passes.

The worker is the service's `TakeDown`, `BringUp` (which may leave the interface
down: `dev_open` fails and nobody looks) and `Finish`. `LinksFollow` is what sysfs
says afterwards: an interface that is closed has no carrier to read
(`"unavailable"`, read fails with EINVAL), and one just opened has none yet
(`"down"`) until `LinkComesUp`, if its cable is plugged in. The administrator may
close and open interfaces, but not while the worker holds the rtnl lock.

### LpuartIrq

`opc` says where each open file is in `uart_open` or `uart_close`, `tpc` where each
thread is in `uart_read` or `uart_write`, `ipc` where the handler is. Each action is
one access to what others touch as well. `wait_event_interruptible` is modelled by
what its expansion does: test, enqueue, test again, sleep; a signal may end the wait.
`kfifo_to_user` is cut in two, the copy and the move of the out index, because the
handler runs in between: `copied` keeps the bytes the first step has copied. The
handler ends in two steps, `kfifo_put` (`IsrPut`) and, if there was room,
`wake_up_interruptible` (`IsrWake`): readers on other processors test, enqueue and
take bytes in between, and which of the two comes first is what `ReaderNotStranded`
turns on. Received bytes carry numbers so that order and loss can be stated.
`init_waitqueue_head` and `mutex_init` on objects in use empty the list and free the
mutex. The receiver's overrun latch is left out: a byte that meets a full register is
lost and reception goes on.

`ByteChannel` says what the driver is to those who read from one open file: the
port is open or not, bytes come in, and some of the unread ones are read, the oldest
first. A byte may be lost in three ways only: it comes in while another is still
unread, it is the first that no longer fits into a full buffer, or the port is closed
or opened. `LpuartIrq` implements it under the mapping `Unread`: the kfifo, then the
byte the handler has in hand (`InHand`), then the one in the data register
(`InRegister`), with `FifoSize` for the channel's `Capacity`. The channel knows no
mutex, no wait queue, no handler and no copy in two steps.

### At24

Each process has one file. `StartCall` is everything up to the loop or the lock
(refused calls change nothing and are no action); `Lock`, `FillBuffer`,
`Transfer`, `Unlock`, `Advance`, `WakeUp` are a round of the write loop, `Lock`,
`Transfer`, `Unlock`, `Deliver` a read. `Target` is the address the code sends,
`*offset + total_written`, with both advanced by `Advance` as in the code. The
VFS hands the driver a copy of the position and keeps it only if the call
succeeds (`Return`).

The chip takes a piece into the page of its first byte (`Cell`), and its write
cycle answers nothing until `CycleEnds`. Of the contents the model keeps what
the properties ask: the set `wrong` of cells that do not hold what was last
written to their place in the file. A transfer that fails writes nothing.
`msleep(5)` is assumed to be as long as a write cycle, as the data sheet has it;
reads and writes of no bytes are left out. `UIntMod` is 2^32 in small, for the
comparison with `-(priv->size)`: with it no `SEEK_END` ever succeeds, which
`SeekFromEndFails` proves for every size below half of it.

### CharDevModule, ExclusiveOpen, TimerLed, LpuartPolling, ExampleDrivers

A behaviour is about one driver, chosen by `Init`. `InitSteps` gives the steps
of its init or probe function and what the failure of each leads to: an error returned
(`ReturnError`), nothing (`IgnoreFailure`), or a positive number
(`ReturnPositive`: `return EINVAL` in `8_gpioled` and `9_thread`, `return FALSE`
in `3_chardevtest`), which the kernel takes for success, so that the module stays
without the steps that are left, in `9_thread` without its lock. `ExitSteps` is
the order of exit. A module whose init returned an error after it had registered
something is `spoiled`: the kernel frees its code while number, cdev and node
stay, and what a program that opens the node meets then is not modelled.

`Led_Open` of `9_thread` is `Acquire`, `Busy` (the flag), `Interrupted` (the waits)
and `Oops`: waiting for a mutex or semaphore that init has not made yet follows a
null pointer inside the object's spin lock, where those that come later hang; both
count as `lost`. A mutex in zeroed memory can be taken, and `mutex_init` frees it
under its holder. `early` says that a file was opened in this load before init had
returned; the properties of the lock say what holds otherwise. A write is
`CopyFromUser`, which may meet a fault, and `SetLed`, because the buffer is shared;
what is written is one of the two words the driver knows.

SETPERIOD is cut into its store, `timer_pending` and `mod_timer`. `del_timer_sync`
waits for a running callback, and deletes the timer that callback armed. The
callback is not cut by CLOSE, as it runs to its end whoever waits for it.

The probe functions of the two UARTs and of the EEPROM undo what they did:
`JumpToLabel` goes to the label for the step that failed, `Unwind` falls from one
label into the next. The structure that `devm_kzalloc` made (`"memory"`) is freed by
the kernel after the last of them, and after `remove`. `Unload` is rmmod, held back
by open files and by opens under way; `Unbind` takes the hardware away and is not
held back. A module whose files are still open when the structure goes is `spoiled`.

In `LpuartPolling`, `EnableClock`, `CtrlOff` and `CtrlOn` are `uart_open`; a write is
`PollTransmitter` and `PutByte` for each byte, a read `PollReceiver` and `GetByte` for
its one byte. Between poll and use another program may come: `disturbed` is the set
of programs to whom that happened. `Port` is the hardware: the transmitter empties,
a byte arrives. `MaxEnables` bounds how often the clock is enabled; at the bound
enabling fails, which the code handles.

A file holds the module from the moment at which the kernel's open takes the
reference of the fops' `.owner` (`StartOpen`). The kernel looks the cdev up before
that, under the reference of `cdev.owner`, which `22_i2c_at24` and `12_timer` never
set and which the others set before `cdev_init` clears it (`9_thread`, `8_gpioled`
and `5_new_chardevtest`): what an rmmod in that short window does is not modelled.

External: `device_destroy` looks the device up in its class and finds none once
the class is destroyed (`Destroyed`); `device_create` fails without class or with
a name that is taken (`Possible`); a kernel timer's callback runs on one
processor at a time. Programs open the device once, as the test programs do.

## What the runs check

Passing runs (each property has a mutant that makes it fail under the same
configuration):

| run | instance | question |
|---|---|---|
| `watchdog_safety` | 2 writers, 2 interfaces, indices 0..2, a cooldown that changes between 1 and 2 while writes go on, one tick | type invariant; one request in flight in one place (`SingleFlight`); no freed device used (`NoUseAfterFree`); writes that do not overlap keep the cooldown (`CooldownBetweenSequentialWrites`); the driver implements `RestartService` |
| `watchdog_module` | 2 writers, 1 interface, cooldown changing between 1 and 2 | loading, failing to load, unloading, reloading: no write, no queued work and no worker outlives the module or its workqueue; resources nested; unloading ends; every accepted request is carried out; the flag is always released |
| `ethernet_watchdog` | 1 monitor, 1 rival, 1 other pinging program, threshold 2, 2 sequence numbers, every state of link, address and path, an administrator | the interface of a monitor nobody rivals is restarted only after failures in a row (`RestartsFounded`); "ping ok" means that the target answered this probe; a dead path gets its interface restarted again and again; with rivals somebody is always served; an interface left down is not asked for again |
| `lpuart_readers` | 1 file, 2 threads, 3 bytes, kfifo of 2 | the driver implements `ByteChannel` (order, no byte twice, losses only where they may be), mutual exclusion, a buffer for the handler, no lost wakeup whatever the readers do between the handler's put and its wakeup |
| `lpuart_files` | 3 files, 1 thread, 1 byte | clock balanced and on, no register touched without it, one receiver that stays on |
| `at24_files` | 2 processes, 2 pages of 2 bytes, calls of up to 3 bytes | the position stays in the chip; transfers exclude each other; the contents are right until a second piece is written; no transfer meets its own process's write cycle; the position moves like an ordinary file's; every call returns |
| `example_drivers` | 2 programs, eight drivers, three locks, periods below, at and above the minimum, 3 enables of a clock | unloading leaves at most the node, and nothing behind it; a failed probe and `remove` leave nothing; one file at a time; the LED shows its owner's value; no timer survives its code; no file outlives its structure unless the driver was unbound; the polled port is ready when it is used; an LED blinks until it is closed; every open is served |

Runs that end in a counterexample, each against a sentence in the code:

| run | the sentence | what the code does |
|---|---|---|
| `watchdog_interval` | `cooldown_ms`: "Minimum interval between restart requests in milliseconds" (`ETH/3_net_watchdog.c:28`) | two writers pass the check together; the second wins the flag as soon as the first restart is over and is accepted at once. `SingleFlight` and `CooldownBetweenSequentialWrites` are what is left |
| `monitor_report` | "restart request failed" (`3_net_monitor.c:280`) | the line is flushed by `fclose`, whose result nobody looks at: a driver that answers EPERM, EAGAIN or EBUSY goes unnoticed and `fail_count` is cleared |
| `lpuart_exclude` | the mutex keeps several programs from reading at once (`KMOD/lpuart_interrupt.c:190`) | a second `uart_open`, even one that fails, re-initialises the mutex under a reader that holds it |
| `timer_close` | "Timer stopped" (`APP/12_timer_app.c:68`), "Timer closed." (`KMOD/12_timer.c:150`) | SETPERIOD of another program found the timer pending before CLOSE deleted it, and arms it again afterwards |
| `at24_pieces` | the application need only send plain data as if to an ordinary file (`APP/22_i2c_at24c_app.c:47`) | the loop adds `*offset` and `total_written` after advancing both: from the second piece on, bytes land too far by what was already written, beyond the end of the chip even at its beginning. `ContentsAsWrittenInOnePiece` is what is left |

Three more comments do not hold. They are stated as properties in the modules and
fail in the model with two programs; put one into `MCAt24.cfg` or
`MCExampleDrivers.cfg` to see it:

- `NextCommandFindsChipIdle` (`At24`): the sleep after a piece is there because
  "otherwise the next command will be NACKed" (`KMOD/22_i2c_at24.c:170`). The mutex is
  given back before the sleep (line 160), so another process's command meets the write
  cycle and fails with whatever the bus says, without a second try. `OwnCycleIsOver` is
  what is left.
- `DataIsWrittenWhenEmpty` (`LpuartPolling`): DATA is written when TDRE is 1
  (`KMOD/lpuart_polling.c:60`). Two writers see TDRE set, both write DATA, and the
  second overwrites the byte of the first. `lpuart_putc` of the interrupt-driven UART
  is the same (`KMOD/lpuart_interrupt.c:67` and 70).
- `BaudIsSetWhileOff` (`LpuartPolling`): transmitter and receiver must be off before
  BAUD is set (`KMOD/lpuart_polling.c:202`). Of two opens at the same time one turns
  them on between the other's clearing of CTRL and its write to BAUD.

In the EEPROM driver two more things follow from the model and have no run:
`SEEK_END` never succeeds; after a write that fails half-way the pieces before stay
written while the position does not move.

The exit functions of the examples leave the device node in place, although the
comment before the call says "Destroy device node" (`KMOD/9_thread.c:188`): the
class it is looked up in is gone by then. `NodeDestroyed` in `CharDevModule`
states the comment and fails; `ExitLeavesOnlyNode` is what is left. SETPERIOD
also says "Setting minimum period to 10 ms" and sets 100 (`KMOD/12_timer.c:163`).

With two files open on the interrupt-driven UART `HandlerHasFifo` fails, for the
same reason as in `lpuart_exclude`, the shared structure: an open that finds the
interrupt taken replaces and then frees the kfifo that the handler of the first
file uses (lines 250 and 287), and a close that has freed the interrupt line frees
the kfifo of the open that followed it (lines 305 and 311). Put a second file in
`MCLpuartIrq.cfg` to see it.

More facts of this kind, which follow from the models and contradict no sentence of
the code:

- In the polling UART two readers take one byte twice, as two writers overwrite one
  (this is why `PortReady` excepts the `disturbed`); an open turns the port off under
  those who use it (why it excepts the state between clearing CTRL and setting it);
  the clock is never disabled, so its count only grows; a reader spins until a byte
  comes, whatever signals are sent to it.
- Unbinding a UART or the EEPROM frees the structure under open files (this is why
  `StructureOutlivesFiles` excepts `unbound`).
- An interface whose `dev_open` failed stays down: its carrier cannot be read, so the
  monitor skips its passes and never asks again (`DownIsNotReported`).
- All monitors share one cooldown: one that always asks just after another's request
  was accepted is never served. `DeadPathIsRestarted` therefore assumes that only its
  own interface is restarted, and `SomebodyIsServed` is what is left with rivals.

### Bounds, and why they are enough

- Two writers: every property about writers speaks of at most two of them, and
  what a third could do, one of the two can do again. The proofs cover any
  number for safety.
- Indices 0, 1, 2: an index the parser refuses, one that is asked for and one
  that is not (the wrong interface).
- The clock stops at `MaxJiffies`: one tick, with a cooldown of one, lets
  a second request be accepted after the cooldown, and refuses it before. A second
  value of the cooldown, two, refuses it throughout unless the administrator changes
  it in time. In
  `watchdog_interval` the cooldown cannot pass before the clock stops, so that
  two accepted requests already are one too many.
- A threshold of two and two sequence numbers: a failure, a loss of carrier and
  another failure must not add up, and a number must come round while older
  replies are still underway. One rival: it can hold the busy flag, keep the cooldown
  running, or be inside `write()` between the two tests while the monitor is too.
- A kfifo of two and three bytes: it is empty, partly filled, full, and
  overflows. Two readers: one sleeps while the other takes the byte it was woken
  for. Three files: one open, one failing, one closing.
- Two pages of two bytes and calls of three: a piece that fills a page, one that
  ends at its end, two pieces, a write cut at the end of the chip, and a second
  piece that goes past it.
- Two programs with the examples: one holds and one waits, one closes and one
  sets the period. A third could only wait as the second does. Periods are
  multiples of the minimum: 0, 1, 2, and 2 by default.
- Three enables of the polling UART's clock (`MaxEnables`): each program opens once,
  and one of them a second time; after that enabling fails, which is a case of its
  own.
- Deadlock is not checked in `example_drivers`: a spoiled module's behaviour ends
  there, and programs lost to a lock that was never made stay lost.
- Symmetry (writers and files) is used only in runs whose
  properties are safety properties.

### Fairness, and why the code justifies it

- A thread inside `write()` never waits (there is no lock in it), so the kernel
  schedules it in the end: weak fairness on `WriteStep(w)`. Nobody is obliged to
  call.
- A queued work item is run by its workqueue: weak fairness on the worker.
  `rtnl_lock` is released by whoever holds it, which is one step here.
- init and exit run in the thread of insmod and rmmod: weak fairness on `LifeStep`,
  whose waits are guards. Loading, unloading and opening have none.
- A monitor is a process whose sleeps and polls end, and which the driver never
  blocks: weak fairness on `MonitorRuns(m)`. The restart worker is scheduled
  (`Worker`), time passes (`CooldownElapses`), and a link whose cable stays plugged
  in and whose interface stays open comes up (`LinkComesUp`). The network, the
  rivals and the administrator owe nothing.
- EEPROM: calls that have begun go on, a write cycle ends; a mutex of the kernel is
  handed on in turn, so strong fairness on `Lock`.
- Examples: init, exit and callbacks go on; an open that can go on again and again
  does (strong fairness on `OpenStep`: semaphore and mutex are handed on in turn);
  the program of `9_thread` closes its file after fifteen seconds. The other
  programs need not.
- UART: opens and closes that have begun, reads and writes that are not waiting, the
  handler and the transmitter go on. No fairness on signals, on bytes that arrive or
  on new calls.

## What is proved

`NetWatchdogProofs`, for any finite or infinite set of writers, any indices, any
cooldowns and any clock, from the assumption `ConstantsAssumption` alone:

- `TypeCorrect`: `Spec => []TypeOK`
- `OneRequestInFlight`: `Spec => []SingleFlight`
- `DeviceOutlivesRestart`: `Spec => []NoUseAfterFree`
- `SequentialWritesAreSpaced`: `Spec => CooldownBetweenSequentialWrites`
- `DriverImplementsService`: `Spec => ImplementsService`
- `WinnerIsServed`: whoever wins the busy flag is told that the request was taken;
  the `-EBUSY` behind `queue_work` (line 137) is never returned
- `SerialWritesKeepInterval`: `Spec /\ []Alone => MinimumInterval`

The invariants are not inductive as they stand. `IndInv` adds `WorkerHolds` (the
worker has its reference, and the rtnl lock, exactly between the steps that take
and give them: without it nothing forbids freeing the device under it),
`RequestNamesDevice` (from the claim to the worker's last step the index names a
device), and `CooldownChecked` (a writer between the check and the stamp has seen
a `last_request` that was a cooldown away from a clock that has not gone back).
`InitIndInv` establishes it, one lemma per conjunct carries it over every action,
and `Inductive` puts them together; the theorems follow. For the refinement
each action is shown to be an action of `RestartService` or to leave its three
variables alone; the only delicate facts are that `Job` stays the same when the
request moves from a local to `restart_ctx` and on to the worker, which is
`SingleFlight`, and that nobody changes an interface while the rtnl lock is held.
`IndInv` was also checked as an invariant of the `watchdog_safety` instance.

`MinimumInterval` is what `watchdog_interval` refutes. The last theorem says what it
takes: `Alone` is the hypothesis that calls of `write()` do not overlap, and under it
nobody stamps a request between another's check and stamp (`SeenIsLast`).

`At24Proofs`, for any set of processes, any chip of whole pages, any page size
and counts, from `At24Assumption`:

- `TypeCorrect`: `Spec => []TypeOK`, hence the position stays in the chip
- `PiecesFitPages`: `Spec => []PieceFitsPage`
- `OneTransferAtATime`: `Spec => []TransfersExclude`
- `OnePieceIsSafe`: `Spec => []ContentsAsWrittenInOnePiece`
- `SleepCoversOwnCycle`: `Spec => OwnCycleIsOver`
- `PositionIsOrdinary`: `Spec => PositionFollowsCount`
- `SeekFromEndFails`: no offset makes `SeekAllowed` true for SEEK_END
- `MutexIsGivenBack`: a mutex that is taken is held by a process between its lock and
  its unlock, never by a call that is over
- `EveryLongWriteIsSpoiled`: `Spec => LaterPiecesGoAstray`

Its `IndInv` adds what a call knows of itself (`CallOK`: `*offset` is the start
plus what was written, what is left ends inside the chip), who holds the mutex
(`MutexHeld`) and where the owner of a write cycle can be (`CycleOwner`). The
arithmetic is in lemmas of its own: a page lies inside the chip (`PageInside`), a
piece ends at the page's end (`PieceBounds`), and the first piece lands where it
belongs (`FirstPieceLands`), which fails for the second, as it should. It too was
checked as an invariant of `at24_files`.

The last theorem is the other side of `OnePieceIsSafe` and of the run `at24_pieces`:
every piece after a write's first leaves a cell that does not hold what was written
to it, for every page size, chip and position. It assumes that the number of
addresses two bytes can send is a multiple of the chip's size (65536 and 32768
here), so that an address that wraps in the driver and one that wraps in the chip
are the same cell (`RolledAddress`, `LaterPieceMisses`). `LaterPiecesGoAstray` was
checked on a small instance first.

`NetWatchdogModuleProofs`, for `ModuleSpec`, any writers and any number of loads,
failed loads and unloads:

- `ModuleTyped`: `ModuleSpec => []ModuleTypeOK`
- `ModuleOutlivesItsWork`: `ModuleSpec => []NothingOutlivesModule`
- `ResourcesStayNested`: `ModuleSpec => []ResourcesNested`
- `GuaranteesSurviveReload`: `ModuleSpec => [](SingleFlight /\ NoUseAfterFree)`
- `ModuleImplementsService`: `ModuleSpec => ImplementsService`

`ModuleInv` is the driver's `IndInv` with `HeldByPhase` (which resources are held
follows from where init, its labels or exit stand) and `LifeOK` (files are open in a
live module only, calls are made through open files, work is queued or running from
the first call to the flush). An operation of `NetWatchdog` is carried over by the
lemmas of `NetWatchdogProofs`; what is new is loading, which must find nothing left.
For the refinement that is `StartLoadUnnoticed`: insmod resets a `restart_ctx` that
serves nobody, so the service does not notice, and every other step is one of
`NetWatchdog` or leaves its variables alone.

`EthernetWatchdogProofs`, for `SystemSpec`, any monitors, rivals, threshold and
number of sequence numbers:

- `MonitorsTyped`: `SystemSpec => []TypeOK`
- `RequestsAreFounded`: `SystemSpec => []RestartNeedsFailuresInARow`
- `OkIsFounded`: `SystemSpec => OkMeansAnswered`
- `RestartsAreFounded`: `SystemSpec => RestartsFounded`
- `SystemServes`: `SystemSpec => Service!Spec`
- `RestartUndisturbed`: `SystemSpec => [](phase = "down" => job \notin running)`
- `DownIsSkippedHolds`: `SystemSpec => DownIsSkipped`

`MonitorInv` adds to the types that the monitor's own count never runs ahead of what
its passes found (`CountsAgree`) and that a reply with the number of the current
probe, underway, in the socket or just read, was caused by that probe
(`AnswersKnown`): numbers wrap and a socket sees foreign packets, so this is more
than a comparison. Whatever driver, rivals, administrator and links do is one case,
`QuietKeepsInv`: they leave the monitors alone.

`RequestsAreFounded` ends where the monitor writes its line. `RestartsAreFounded`
goes on through the driver, to the moment at which a request becomes the job.
`SystemInv` adds to `MonitorInv` that a request inside `write()` belongs to a
monitor that is waiting for its answer (`PassedOK`), that the interface being
restarted is down between `dev_close` and `dev_open` (`RestartOK`), and that sysfs
tells of a link what has become of it (`LinkOK`). From the last one follows
`DownIsSkipped`: a pass that starts while its interface is closed ends without a
probe, and `fail_count` stays as it was. That is why an interface left down is never
asked for again; `DownIsNotReported` is the liveness half, which TLC checks.

`LpuartIrqProofs`, for any finite set of files and any threads, from
`LpuartAssumption`:

- `ReceiverIsNotDisturbed`: `Spec => []ReceiverStaysOn`
- `ClockStaysBalanced`: `Spec => []ClockBalanced`
- `RegistersAreClocked`: `Spec => []ClockedAccess`

`PortInv` puts the two invariants together with the shape of calls and files, that a
call is made through an open file, and that the handler runs only while the interrupt
is requested. The clock's count is a cardinality; `ClockFollows` shows once what one
file that enables or disables it does to both.

`ByteChannelProofs`, for any capacity:

- `ChannelKeepsOrder`: `Spec => []InOrder`

Every step of the channel leaves the bytes delivered and unread, written one after the
other, as they are, takes a piece out of the middle, or puts the newest at the end.
The lemmas about sequences that this needs (what `SubSeq` and concatenation
do to an increasing sequence) are used for the driver as well.

`LpuartReadProofs` continues with `LpuartTyped` (`Spec => []TypeOK`, for any files),
and, under the hypothesis `[]OneAtATime` (no file is opened before the one before
it is closed; any number of files may follow one another):

- `ReadersStayApart`: `Spec /\ []OneAtATime => []ReadersExclude`
- `HandlerKeepsFifo`: `Spec /\ []OneAtATime => []HandlerHasFifo`
- `NoWakeupIsLost`: `Spec /\ []OneAtATime => []WokenForBytes`
- `DriverImplementsChannel`: `Spec /\ []OneAtATime => ImplementsChannel`
- `BytesReachReadersInOrder`: `Spec /\ []OneAtATime => []BytesInOrder`

The hypothesis cannot go: a second open initialises the mutex again and replaces the
kfifo, which is what `lpuart_exclude` and the note after the runs show. It is about
behaviours and not about the constant `Files`, so that one program may close and
another open. `ReadInv` says who holds the mutex, when there is a buffer, who is on
the wait list, and that what a reader has copied is the beginning of the kfifo until
it takes it out (the handler only appends). It carries the refinement: `Advance` is
the channel's `Read`; `IsrPut` is no step of the channel when there is room and
`Overflow` when there is not, whose mapping is the delicate one, because the next
byte may already be in the register behind the one that is dropped. `IsrWake` is
never one. `WokenForBytes` says that a reader who is asleep while there is something
to read is on the wait list and the handler stands between `kfifo_put` and
`wake_up_interruptible`, so that it will wake him: a byte put between the reader's
test and his sleep is not missed. For this `ReadInv` has `Sleepers`: those who may
sleep are exactly those on the wait list, and they test the kfifo once more after
they were put there.

`ExampleDriversProofs`, for any subset of the eight drivers, any programs (a finite
or an infinite set) and any periods, from the assumptions on the constants:

- `DriversTyped`: `Spec => []TypeOK`
- `LittleIsLeft`: `Spec => []ExitLeavesOnlyNode`
- `StructureIsKept`: `Spec => []StructureOutlivesFiles`
- `OneFileAtATime`: `Spec => []OneFileUnlessEarly`
- `LedBelongsToWriter`: `Spec => []LedIsMine`
- `NoCallbackWithoutCode`: `Spec => []TimerGoneBeforeCode`
- `PortIsReady`: `Spec => []PortReady`
- `BlinkingGoesOn`: `Spec => BlinksUntilClosed`
- `OneProgramStopsTimer`: `Spec /\ []OneFileOpen => []ClosedStaysClosed`
- `OneProgramFindsDataEmpty`: `Spec /\ []OneFileOpen => []DataIsWrittenWhenEmpty`
- `OneOpenSetsBaudWhileOff`: `Spec /\ []OneOpens => []BaudIsSetWhileOff`
- `NobodyWaitsForNobody`: `Spec => []SomebodyToWaitFor`

`IndInv` has three layers. `LifeInv` is the driver's life: the kernel objects of a
bound driver are those of the steps before the one it stands at, forwards in probe,
backwards at its labels and in remove (`Held`); an example holds what it has done and
perhaps an old node (`Left`); programs are inside only while the module cannot go,
unless the hardware is taken away (`UsersOK`). The facts it needs of each driver's list
of steps are lemmas of their own (`At24Steps` to `TimerSteps`, `ProbeSteps`,
`ExampleExits`), so that a driver whose labels were in another order would fail
there. On it rest the lock and the LED (`PinKnown`, `LockHeld`), the timer (`TimerOK`:
armed only between `timer_setup` and `del_timer_sync`, and armed again by the time the
callback returns) and the port (`PortOK`). `IndInv` was also checked as an invariant
of `example_drivers`.

`OneProgramStopsTimer` says what it takes to break "Timer stopped", which
`timer_close` refutes: two programs. With one file open at a time no SETPERIOD that
has found the timer armed outlives the CLOSE (`CloseHolds`). The next two say the same
of the polling UART: a second writer, and a second open at the same time (`OneOpens`
excludes it), is what its comments do not survive. `NobodyWaitsForNobody`
says that a lock of `9_thread` that is taken has an open file whose release will free
it (`LockHasHolder`), whatever is interrupted or lost and however early it was opened.

Only model-checked: liveness (`AcceptedIsCarriedOut`, `FlagIsReleased`,
`UnloadCompletes`, `DeadPathIsRestarted`, `SomebodyIsServed`, `DownIsNotReported`,
`ReaderNotStranded`, `CallsReturn`, `OpenersServed`), which is out of the prover's
reach. What four of them rest on is proved, one step or one state at a time:
`DownIsSkippedHolds` (for `DownIsNotReported`), `NoWakeupIsLost` (`ReaderNotStranded`),
`MutexIsGivenBack` (`CallsReturn`) and `NobodyWaitsForNobody` (`OpenersServed`). Every
invariant and every other action property of a passing run is a theorem, those of the
interrupt-driven UART about exclusion, buffer and order while one file at a time is
open.

Of the sentences the code does not keep, five have a theorem with the condition
under which they hold (`SerialWritesKeepInterval`, `ReadersStayApart`,
`OneProgramStopsTimer`, `OneProgramFindsDataEmpty`, `OneOpenSetsBaudWhileOff`), and one
is proved never to hold beyond the first piece
(`EveryLongWriteIsSpoiled`).

## Plan

All parts of the plan are done: `NetWatchdog` with `RestartService`,
`NetWatchdogModule`, `NetMonitor` and their composition in `EthernetWatchdog`;
`LpuartIrq` with `ByteChannel`; `At24`; `CharDevModule` with `ExclusiveOpen`,
`TimerLed` and `LpuartPolling`, composed in `ExampleDrivers`; and the theorems about
each. What could still be added to the models is listed under the next heading. Of
theorems one remains that would say more: an abstract specification of the EEPROM as
a file, which `At24` implements as long as no write needs a second piece.
(`PositionIsOrdinary` and `OnePieceIsSafe` are its two halves.)

## Not modelled, and why

- `ETH/2_net_event_monitor.c`: a notifier that logs each network event; it keeps no
  state and answers NOTIFY_DONE to every event.
- `recipes-app/ethernet/files/1_eth_status.c`: reads files and prints them.
- The platform LED driver (`KMOD/16_gpioled_platform.c`): probe sets a pin, remove
  resets it; the program for it is an empty file.
- The input key driver in the kernel patch: the handler reports the level it reads to
  the input core and keeps nothing.
- `APP/22_i2c_at24c_app.c`: one sequence of calls which `At24` contains.
- What `3_chardevtest` and `5_new_chardevtest` read and write: a copy from and to a
  buffer that nothing depends on.
- The life of an example module after an init that failed half-way ("spoiled"): the
  number and the cdev it has left behind point into memory that is gone, and what the
  kernel does with them is anyone's guess. The same holds for files still open when
  the structure of an unbound driver is freed.
- Formatting, logging and parsing beyond what decides a branch, the ICMP checksum,
  the resolution of names and addresses, privileges beyond the one check in
  `write()`.
- Memory ordering weaker than the sequential order of the atomic operations and of
  `queue_work`, which are full barriers.
- Recipes, configuration, device tree: no behaviour of their own.
