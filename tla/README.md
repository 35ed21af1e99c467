# A TLA+ model of ledagent

ledagent (a fork of LEDscape) drives up to 48 strips of LEDs from a BeagleBone.
Two threads of `opc-server` compute and send the pictures; two small real-time
processors of the AM335x chip, the PRUs, clock them out. Nothing in this chain
is protected by a lock that both sides take, and the two sides of its last link
share nothing but words of memory and an interrupt. The same two threads also run
against a window on a desktop, the emulator. This directory models both, and the
start of the server with its options and configuration file; it checks the models
with TLC and proves the main results with TLAPS.

All paths below are relative to `src/`.

## 1. The system

### Components

| component | code | state it keeps | operations |
|---|---|---|---|
| PRU hand-shake, ARM side | `ledscape/ledscape.c` | `leds->frame`; the DDR buffer; one `ws281x_command_t` per PRU in its data RAM: address, length, command, response | `ledscape_init_with_programs`, `ledscape_draw`, `ledscape_wait`, `ledscape_set_raw_data`, `ledscape_close` |
| PRU loader and interrupts | `ledscape/pru.c`, `am335x/app_loader/interface/prussdrv.c` | mappings of PRU and interrupt controller, `/dev/uio0`, event and host-line masks | `pru_init`, `pru_exec`, `pru_wait_interrupt`, `pru_close` |
| PRU programs | `pru/templates/*.p`, `common.p.h` | registers: data address, remaining length, command | START, `_LOOP`, word loop, FRAME_DONE, EXIT |
| Pin mappings | `pru/pinmap.js`, `pru/mappings/*.json`, `pru/build_template.sh` | none (generates PRU source) | channel to GPIO pin |
| Animation and effects | `opc/animation.cc`, `opc/effect.cc` | `strips_` with `enabled`, `enable_time`, `effect`, `pixels`; a mutex | `Init`, `SetScenario`, `SetEffectLocked`, `Thread`, one `RenderFrame` per effect |
| Render state | `opc/render.cc` | `frame_data_`, shared by both threads without a lock | `SetStripData`, `Thread` |
| LEDscape driver | `opc/ledscape_driver.cc` | packed `buffer_`, lookup tables | `Init`, `SetPixelData` |
| Colour arithmetic | `opc/color.cc` | none | `HSBtoRGB`, `compute_lookup_table` |
| Rate scheduling | `opc/rate-data.cc` | `frame_tv_`; statistics | `WaitFrame`, `AddEvent` |
| Configuration | `opc/server-config.cc`, `opc-server.cc`, `opc/server-error.cc` | `g_server_config`, the JSON file | `handle_args`, read, validate, write |
| Emulator | `opc/fltk-driver.cc`, `opc/screen_runner.cc` | `pixel_positions_`, `pixel_data_`, the window; FLTK's lock, damage and wake-up pipe | `LoadLayout` with one layout per pattern, `SetPixelData`, `draw`, the event loop |
| OPC, UDP and E1.31 servers | `opc-server.cc` 493-887 | - | compiled out with `#if 0` |
| Third party | `lib/cesanta`, `am335x/pasm` | - | HTTP server (of the servers that are compiled out), JSON parser, PRU assembler |
| Other PRU programs | `pru/templates/ws2801.p`, `apa102.p`, `dmx.p`, `nop.p` | as ws281x | the same command loop |
| Benchmarks, demo, examples | `ledscape/ledscape-benchmark.c`, `opc/demo.c`, `processing/`, `devicetree/` | - | not part of the server |

### How they interact

    Animation::Thread --SetStripData--> frame_data --SetPixelData--> buffer_
        (animation thread)             (no lock)   (render thread)     |
                                                     ledscape_set_raw_data
                                                                       v
      PRU 0, PRU 1  <--- DDR, one buffer <---ledscape_draw--- leds->frame
         |    ^                                   ^
         |    +-- command, address, length -------+
         +------- response, system event ---> INTC, UIO, read(/dev/uio0)

* The animation thread writes `frame_data` strip by strip while the render
  thread reads it; `RateScheduler` paces both loops, each with one of its own.
* `ledscape_draw` waits until both PRUs have answered the frame before, copies
  the new one over it in DDR and stores the two start commands.
* A PRU polls its command word, and raises its system event once in every turn
  of that loop. The ARM sleeps in `read` on the event of PRU 0 only.
* The PRUs do not notice when the process dies; a new process meets their
  programs, memory and pending events.
* `main` reads options and the configuration file in the order of the command
  line, validates what comes out, and writes it back over the file before it
  starts the threads.
* In the emulator the render thread copies each frame into `pixel_data_`, asks
  FLTK for a redraw under its lock and wakes the event loop, which draws what is
  there by then.

### What is hard, and what makes it correct

| component | hard part | properties |
|---|---|---|
| hand-shake | three processors, one buffer, every access unordered with the others' | no frame is written while it is read (`NoTornFrame`); every PRU begins every frame once, in order (`EachFrameOnce`); no wait is for ever and no wake-up is lost (`NoWaitInVain`, `WakeUpComesCloser`, `EveryFrameIsShown`); it is a one-place channel (`ImplementsChannel`) |
| PRU program | reads of DDR that are too slow cut a frame short | only the far end of a strip is old (`OnlyTailIsOld`) |
| close, restart | a command overwritten before it is read; shared things released once too often; programs that outlive the process | `CloseStopsPrus` (violated); `RInv`, `StartupMeansRunning`, `ImplementsLossyChannel`, `ComesBack` |
| animation, render, driver | two threads and no lock | `NeverGoesBack`, `FrameIsFresh`, `TwoFramesLate`, `MissesOneFrame`, `EveryStripIsRendered`, `EveryStripIsDriven` (violated) |
| effects | pixel indexes computed from constants and random numbers; floats that turn around at limits; a byte lowered step by step | `InStrip`, `TrailFades`, `DropsLeave`, `KeepsMoving` |
| rate scheduling | a `timeval` addition that does not carry at exactly one second; lateness | `ImplementsPeriodicTask`, `SleepIsShort`, `EveryFrameHappens` |
| packing | bytes of four pixels scattered over three words, strips that overrun each other, a byte order that the PRU undoes | `PackedInOrder`, `LedsShowTheirPixels`, `WritesInBuffer` |
| configuration | options, file and validation that must agree; a file rewritten in place by a process that may die or find the disk full; text that has to be found again | `LastWordCounts`, `OnlyValidIsSaved`, `EmptyFileStopsServer`, `CreatesConfigFile` and `SavedIsRunning` (both violated) |
| layouts | coordinates turned into pixel indexes by hand, blocks that cover each other | `PlacedByLastBlock`, `ZigzagsAreConnected` |
| emulator | two threads, pixels without a lock, a wake-up that may be missed | `QuietMeansCurrent`, `AtMostTwoFrames`, `EveryFrameIsDrawn` |

The full list of hazards, each at its line with the properties that would catch
it going wrong, is in `PROJECT.json`.

## 2. The modules

| module | models | relation to the others |
|---|---|---|
| `FrameChannel` | what the hand-shake promises: a one-place channel from the ARM to both PRUs | abstract specification |
| `LossyChannel` | what is left of that promise when the process dies: at most one frame lost per death | abstract specification |
| `PeriodicTask` | what a rate scheduler promises: frame k no earlier than k steps after the beginning, and none dropped | abstract specification |
| `PruHandshake` | ARM, interrupt controller and both PRU programs, one action per access to shared memory | implements `FrameChannel` (`Channel == INSTANCE ... WITH`) |
| `PruRestart` | the same with an ARM process that dies and is restarted | extends `PruHandshake`, implements `LossyChannel` |
| `RenderPipeline` | animation thread, render thread, driver; the PRUs as `FrameChannel` | uses `FrameChannel` in place of `PruHandshake` |
| `RenderLatency` | the same with a history of what each draw handed over, to say which frames a picture may miss | extends `RenderPipeline` |
| `PixelPacking` | `SetPixelData` byte by byte, the interleaving in DDR, the word loop of the PRUs | the data path that `RenderPipeline` moves as words; its draw is one step of `FrameChannel` |
| `RateScheduler` | `timeval` arithmetic and `WaitFrame` | implements `PeriodicTask`; `RenderPipeline` lets its wait take any time |
| `Effects` | the effects of one strip, frame by frame | alone; `RenderPipeline` has the thread that renders them and gives each picture a number |
| `ServerConfig` | `main` up to the start of the threads: options, file, validation, with deaths, restarts and a file that cannot be written | alone; it yields the lengths that `PruHandshake` and `PixelPacking` assume |
| `Layout` | the block layouts: which LED stands where | the main thread's first part |
| `Emulator` | the event loop against the render thread | extends `Layout` |
| `MCServerConfig`, `MCEmulator`, `MCEffects` | options, files, blocks and speeds for the runs | extend the modules they are about |
| `PruHandshakeProofs`, `PruRestartProofs`, `RenderPipelineProofs`, `PixelPackingProofs`, `RateSchedulerProofs`, `ServerConfigProofs`, `EmulatorProofs`, `EffectsProofs` | theorems and proofs | extend the modules they are about |

### PruHandshake

The unit of interleaving is one access to something shared. `armPc` names the
next access of the thread inside `ledscape.c`:

| `armPc` | code | action |
|---|---|---|
| init, exec, spin | `ledscape_init_with_programs` 164-230: `pru_init`, zeroing of both structures, `pru_exec` and the spin on the response, PRU 0 and then PRU 1 | `InitPrus`, `ExecPru`, `SpinStarted` |
| idle | outside ledscape.c | `Draw`, `Close` |
| wait, clear, enable | `pru_wait_interrupt`: `read`, then for each event the status clear and the host enable of `prussdrv_pru_clear_event` | `WaitEvent`, `ClearEvent`, `EnableHost`, `Fault` |
| test | the condition of `ledscape_wait` | `WaitAgain`, `WaitReturns` |
| copy | `ledscape_copy_frame_to_pru`, pixel by pixel | `CopyPixel` |
| dma, busy, zero, send | `ledscape_draw` 130-143: address and length, busy wait, responses, commands | `SetDma`, `CommandsClear`, `ZeroResponse`, `SendStart` |
| abort, disable, closed, dead | `ledscape_close` and `pru_close` | `SendAbort`, `DisablePru`, `Fault` |

`pruPc[p]` does the same for the program of PRU `p`: start, raise, read,
ackStart, word, done, and ackExit, exit, exitRaise, halt after an abort. `PruRead`
is one step because the program reads address, length and command in one burst
(ws281x.p:74-77). `PruTimeout` may cut any frame short at any pixel (the timeout
depends on the load of the memory bus). `Interrupt(h)` is the kernel's UIO
handler, external to the repository: it turns a pending event on an enabled host
line into a wake-up and disables the line.

Abstractions: the 24 strips of a PRU move together, so they are one strip; a
pixel holds the number of the frame it belongs to; the cycle counter a PRU
answers with is "not 0" (1); stores become visible in program order (the memory
is mapped uncached and the pointers are volatile).

### PruRestart

Adds `Crash`, which returns the ARM to `init` and keeps everything the PRUs own.
`Crash` may come between any two accesses to shared memory, and again during the
next start-up. A restart begins while both PRUs are idle, halted or off (`Drained`):
a frame takes some 30 ms for a strip of a thousand LEDs, starting a process
longer. `RSpec` has this as a guard of its first step; `RSpecAnytime` has no such
guard, and `StartsDrained` is the assumption by itself, so that a theorem can name
it. What happens without it is told below.

### RenderPipeline

`frameData`, `buffer`, `ledsFrame` and `ddr` are the four copies of a picture.
A pixel holds how often its strip had been rendered (`pixels[s]`), so that
"newer" can be said of any two of them. `CopyPixel` and `PackPixel` move one
word; within one strip they do so in any order, as `memcpy` and an optimised
loop may. `SetRawData` is one step because only the render thread touches both
its ends. The packing of four pixels into three words is not visible here: word x
of a strip stands for the pixels packed in it. The PRUs are those of `FrameChannel`,
except that they may cut the frames of `Timeouts` short (`FinishFrame`).

### PixelPacking

The first 135 LEDs of a strip (`Rgbw`) have a white channel and take one word
each; after them, four LEDs share three words. `PackRgbw` and `PackGroup` are the
bodies of the two loops of `SetPixelData`, with `i` and `pos` (the loop index and
`buffer_pos`, in words), and store into one flat `buffer` in which a strip may
write over the beginning of the next, or over what lies behind `buffer_`.
`SetRawData` copies as many bytes as there are pixels. `DrawFrame` is the address
arithmetic of `ledscape_copy_frame_to_pru`, `ClockWord(p)` that of the word loop
(`r_data_addr`, `r_data_len`, the offset of the PRU's channels). A byte is
abstracted to the frame, pixel, channel and lookup table it comes from; bit
timing is left out, and so are frames cut short, which `PruHandshake` has.
`WireByte` says how a chain of LEDs takes its bytes; it is the only definition
here that is not code.

### RateScheduler

`timeval_add`, `timeval_lt` and `timeval_microseconds_until` are operators with
the code's own comparison and carry; `WaitFrame` is split where the thread
sleeps. `Pass` lets the clock advance by any amount at any point.

### ServerConfig

`disk` is the file: a document, short (below two bytes, which `read_config_file`
refuses), absent or huge. A document is the function from keys to values that its
text states, down to where the text ends: `CutShort(doc, n)` is one that ends after
n of the keys, in the order of the printing (`PrintedKeys`). What the server finds
in it is another matter. `server_config_from_json` asks for the values by paths that
`json_vscanf` builds from formats (`scan_path`), and `json_walk` calls back with
the paths of the text (`walk_path`), which begin with a dot for the outermost brace.
`pc` follows `main`:

| `pc` | code | action |
|---|---|---|
| parse | `handle_args`, one option at a time | `SetFields`, `ReadConfigFile`, `NameDriverConfig`, `Quit`, `validate_server_config_or_die` |
| load | the rest of `main` before the file is written | `LoadDriverConfig` |
| open, put | `write_config_file`: `fopen`, then `fputs` and `fclose`, which writes all of the text, its beginning or nothing; the threads start in any case | `OpenConfigFile`, `PutConfigFile` |
| running | the threads | |
| set_error | `opc_server_set_error`, which never returns | `StackOverflow` |

`Kill` may come at any point; `Start` begins again with any command line. The
conversions are what the code does: `uint16` and `int32` narrow what `atoi`
returns, `Round4` is `%.4f` (a NaN stays one), and
`color_channel_order_from_string` turns an unknown order into an
invalid one. Floating-point numbers are hundred-thousandths, `Programs` the files
`build_pruN_program_name` can be given.

### Layout and Emulator

A block is the record of the YAML keys it has. Each pattern is a set of calls of
`SetPixelLayout`, built like the code from rows or columns (`LeftToRight`,
`HorizontalRectangle`, `HorizontalZigzag`, ...); `LoadBlockLayout` makes the
calls of one block, or ends the program if a key is missing, the pattern unknown
or an index bad; `FailLayout` is a file without a list of blocks. Like the code, `vertical_zigzag` is laid
out as a horizontal one.

`mainPc` is layout while blocks are placed, then flush, draw, select and lock for
the parts of `Fl::wait`: draw what is damaged, sleep without the lock, take the
lock, handle events. `renderPc` follows `PixelRenderer::SetPixelData`: copy (any
order, as `memcpy` may), lock, redraw, unlock, awake. A pixel is the number of its
frame. What is said of FLTK (`Flush`, `WakeUp`, `HandleEvents`) is external and
modelled from the calls; `Expose` is the window system.

### Effects

`effect` is a record of what an effect keeps between frames; `touched` the pixels
the last `RenderFrame` reached by an index. Positions, speeds and luminosities,
floats in the code, are integers in thousandths, and `Rand` is what `rand()` may
return. `SetDefaultScenario` gives each strip its first effect. `SetEffect`, which
nothing calls yet, may replace it at any point.

## 3. The runs

| run | asks | bounds and why they are enough | result |
|---|---|---|---|
| `handshake` | draws against both programs, and `ledscape_close` at any idle point: the invariant of the proofs, `NoTornFrame`, `OnlyTailIsOld`, `NoWaitInVain`, `EachFrameOnce`, `WakeUpComesCloser`, `ImplementsChannel`, `EveryFrameIsShown` | 2 frames: the first after start-up and one after a drawn frame, from where the loop repeats. 2 pixels: a strip can be half copied or half shown | holds |
| `close_stops` | does an abort stop both programs? | 1 frame, 1 pixel | violated |
| `restart` | two deaths anywhere, restarts after the PRUs have drained: the invariant of the proofs, from which `NoTornFrame` follows, `StartupMeansRunning`, `ImplementsLossyChannel`, `ComesBack` | 1 pixel; 3 frames, 2 deaths: the process that meets leftovers may die in turn | holds |
| `pipeline` | the invariant of the proofs, `NeverGoesBack`, `FrameIsFresh`, `TwoFramesLate`, `MissesOneFrame`, `EveryStripIsRendered` | 2 strips (one per PRU), 2 words (torn copies), a black picture and one rendered; 3 frames: one in flight and two after it. Frames 1 and 2 may be cut short, frame 3 not, or nothing need ever be shown | holds |
| `strips_driven` | does every strip get its picture? | 2 strips of 2 words: 1 word of 4 is forwarded | violated |
| `packing` | `PackedInOrder`, `WritesInBuffer`, `LedsShowTheirPixels` and the invariant of the proofs | 3 white LEDs and 1 to 9 LEDs in all: strips that end in the first loop and 0 to 6 LEDs after it, that is, at every place in a group and in both kinds of overrun; 3 strips per PRU, 1 or 6 of them used; frames alternate for ever | holds |
| `scheduler` | every interleaving of `WaitFrame` and the clock: `ImplementsPeriodicTask`, `SleepIsShort`, `EveryFrameHappens` | a second of 5 ticks and a step of 2: steps do not divide the second, and sums reach exactly one second; 5 seconds | holds |
| `effects` | the invariant of the proofs, `InStrip`, `TrailFades`, `DropsLeave`, `KeepsMoving` | 12 pixels, on which a square of 3 x 3 fits and walks at an offset of 23 or 99 do not; 1 star and 1 drop, as they do not interact, the fastest, the slowest and one between; one effect replaced at any point | holds |
| `config` | the invariant of the proofs, `LastWordCounts`, `OnlyValidIsSaved`, `EmptyFileStopsServer` | one of 19 options before `--config` and one after it, valid, wrapping and invalid; 5 files; any number of deaths, failed writes and restarts with other command lines; `IntSpan` is 2^20 instead of 2^32, as TLC's integers have 32 bits | holds |
| `config_created` | is a file that does not exist created? | 4 command lines, no file | violated |
| `config_restored` | does a start with the file alone get what was saved there? | 2 command lines, a file that states nothing | violated |
| `emulator` | the invariant of the proofs, `PlacedByLastBlock`, `ZigzagsAreConnected`, `QuietMeansCurrent`, `AtMostTwoFrames`, `EveryFrameIsDrawn` | 2 strips of 3 LEDs; every pair of 34 blocks that fill, overlap or overflow strips, and every kind of bad one; 2 frames, so that one may be drawn while both come; 1 expose | holds |

`restart` checks deadlock too: when the bound on frames is reached, idle PRUs
keep polling. The runs with `ledscape_close` switch it off, since there the
program ends; `EveryFrameIsShown` is what says that they do not stop before. The
`emulator` run does so too, since a bad layout or a closed window ends it.
`MaxFrames`, `MaxCrashes`, `MaxVersion`, `MaxSec`, `MaxSets` and `MaxExposes` bound
counters only; none of them is a limit of the code.

Every property of a passing run has a mutant: a variant of one action with a
plausible slip (a dropped guard, `||` for `&&`, an index off by one, a store left
out). They stand in the modules next to the action they change, each marked
`Mutant:`, and the property fails when the mutant takes the action's place.

### Fairness

* `WF(Arm)`, `WF(RArm)`, `WF(Animate)`, `WF(Render)`, `WF(Thread)`: the threads are ordinary
  Linux threads, each scheduled again and again. Weak fairness of the whole
  thread is enough, since each has one next step at a time.
* `WF(Program(p))`: a PRU executes one instruction after another and cannot be
  preempted. It is fairness of the program, not of a branch: a frame may always
  be cut short by `PruTimeout`.
* `WF(Interrupt(h))`: the kernel serves a pending interrupt on an enabled line.
* `WF(Main)`, `WF(Render)` of `Emulator`: two Linux threads again. The render
  thread waits for a lock, for which weak fairness is enough because the event
  loop sleeps without it for good once nothing is left to draw; the bound on
  `Expose` stands for a window system that does not ask without end.
* `WF(RenderFrame)` of `Effects`: the animation thread renders frame after frame.
  Which number `rand()` returns is not fair.
* `ServerConfig` states no fairness: its properties are all about safety.
* `Crash`, `Close`, `Draw` after the bound, and `Pass` of the scheduler have no
  fairness of their own. An idle ARM draws or closes by `WF(Arm)`:
  `EveryFrameIsShown` says that every frame is shown unless the caller closes.

### What the violations show

1. `CloseStopsPrus`. `ledscape_close` stores 0xFF in the command word without
   looking at what it holds. A PRU that has just read a start command stores 0
   over it (ws281x.p:89), shows the frame and polls for ever. ws281x.p:7 promises
   that a 0xFF makes the program exit.
2. `EveryStripIsDriven`. `SetPixelData` passes a number of pixels where
   `ledscape_set_raw_data` counts bytes: of the default 48 strips 12 get data.
3. `CreatesConfigFile`. A file that cannot be opened is an error, and
   `opc_server_set_error` (server-error.cc:58) calls itself with the arguments it
   was given: instead of creating the file, as opc-server.cc:364 says, the server
   ends with its stack.
4. `SavedIsRunning`. Two ways in which a saved configuration does not come back.
   * No key of a file is ever found. The formats of `server_config_from_json` have no
     braces (`"ledsPerStrip:%d"`; frozen.h gives `"{key: %d}"`), so `json_vscanf`
     compares `ledsPerStrip` with the path `.ledsPerStrip`. `--config` sets nothing;
     the server runs with its defaults and the other options, and then writes those
     over the file. configs/README.md:18 starts the server from its file alone, and
     so does `run-ledscape`, which thus replaces /etc/ledscape-config.json by the
     defaults. (frozen is read in the copy in lib/cesanta, which the Makefile links;
     the Bazel build fetches another commit, which is not in the repository.)
   * The E1.31 port is neither printed nor looked for, although opc-server.cc:369
     says that options after `--config` are saved.
   TLC's trace shows both: after `--config f -e 1 -c 64` the text has 64 LEDs and no
   E1.31 port, and what the next start gets from it is 250 LEDs and port 5568.

### Found on the way, without a run

These came out of reading for the models, or from earlier runs of them. The
properties above are stated so that they hold beside them, where they say so.

* `ledscape_close` (ledscape.c:270). The first `pru_close` calls `prussdrv_exit`,
  which unmaps the subsystem and closes `/dev/uio0`; the second waits on the closed
  descriptor, which fails at once, and then stores to the unmapped interrupt
  controller. `Fault` is that store; `armPc = "abort" ~> armPc = "closed"` fails.
* A prompt restart (ledscape.c:192). The structures are zeroed before the old
  programs are stopped, so an old program's answer can satisfy the spin that is
  meant to see the new program start (ledscape.c:212). Without `Drained` in
  `RArm`, TLC finds `StartupMeansRunning` violated after one death.
* Lookup tables off (ledscape_driver.cc:63). The first loop of `SetPixelData` uses
  the tables whether `BuildLookupTables` has filled them or not.
* Short strips (ledscape_driver.cc:62). Strips of fewer than 135 LEDs, and of 136,
  137 and 140, are valid for `Validator`, and the last of them is packed beyond
  `buffer_`: `WritesInBuffer` needs `CountFits`.
* Short strips again (effect.cc:102). `SpikeEffect` works on 225 pixels and is on
  strip 1 of the default scenario. The default of the server is 250, but that of
  the emulator 128 (screen_runner.cc:31). `InStrip` needs `Needs`.
* The luminosity of a star (effect.cc:332) may pass 255 by its last step; the
  conversion of such a float to a byte is undefined. The `w` of stars and fading
  strips is never assigned.
* The blur of spikes tests `id > 0` (effect.cc:128) and leaves pixel 0 out.
* `vertical_zigzag` calls the horizontal layout (fltk-driver.cc:338); the one
  written for it (124) is never called.
* `pixel_width` and `pixel_height` have no default (fltk-driver.cc:294), although
  `default_pixel_width` is read: emulator-layout-rectangle.yaml does not load.
* README.md:117 says that port 0 disables a server; `Validator` refuses 0.
* A NaN passes `AssertDoubleRangeInclusive` (server-config.cc:310) and is written
  to the file as `nan`, which is not JSON.
* A write that fails (server-config.cc:98-100, say on a full disk) is reported by
  `main` and then ignored: the threads run, and the file is empty or ends early.

No caller in the repository uses `ledscape_close`; the README's example does.

## 4. The proofs

TLAPS checks all of the following for every value of the constants, from the
assumptions the modules state about them: at least one pixel per strip
(`Validator` rejects fewer), at least one strip, no more strips used than the
PRUs have, a step of at least one microsecond, stars and drops that move,
layouts whose keys are numbers where the code reads numbers.

**Hand-shake.** `NoTornFrame` is not inductive: nothing in it says why a PRU that
is clocking a frame keeps the ARM out of the copy loop. The invariant `IInv` adds
the reasons, one named part each.

* `BootInv`: the programs are started one after the other, with zeroed words.
* `WorkInv`, the heart: a PRU that has, or will take, the frame in DDR has a
  response of 0 and a DMA address, and the ARM is not between the wait and the
  stores of the commands; a start command is pending only while the program
  polls.
* `CloseInv`: aborts and exits happen in `ledscape_close` only, and no start
  command is pending once it waits.
* `CopyInv`: DDR holds one frame except inside the copy loop, where it holds the
  prefix copied so far.
* `ShowInv`: each PRU is at the frame in DDR or the one before, and which of the
  two follows from the command, the response and where the ARM is.
* `LitInv`: the pixels a strip shows get no newer towards its end.
* `WaitInv`: PRU 0's host line is enabled unless a wake-up is there or on its way
  through `prussdrv_pru_clear_event`, and a PRU that has not answered is at work or
  has its command still to come.

The parts need each other: `WorkInv` uses `CloseInv` to rule out a response
written by an exiting program, `ShowInv` uses `WorkInv` to know that a response
that is not 0 is the answer to the current frame. In the first state the data RAM
is arbitrary, so the last three parts start with `InitPrus`. There is one lemma
per part (`BootStep`, `WorkStep`, ...), with one step per action or group of
actions that leave the part's variables alone. From it follow `TypeCorrect`,
`FramesAreWhole`, `OldPixelsAreATail`, `WaitsAreAnswered`, `FramesInOrder`,
and `ChannelImplemented`: initial states map to initial states and every step to
a step of `FrameChannel` or a stutter.

`WaitsAreAnswered` and `SleepersAreWoken` are what can be proved of the liveness of
the hand-shake. The first says that the ARM never waits for something that is not
under way. The second (`WakeUpComesCloser`) is a ranking of the way to the wake-up
of a blocked `ledscape_wait`: the host line stays enabled; a pending event of PRU 0
stays pending, so that the kernel's step stays possible until it is taken, and it
wakes the reader; while none is pending, each step of PRU 0's program raises it or
brings it closer (`StepsToEvent`), and no step of PRU 1 or of the kernel takes it
away. It rests on `NoWaitInVain`, which says that the program is one that comes
round. What `EveryFrameIsShown` adds is fairness.

**Restart.** After a death `IInv` no longer holds: commands and responses may be
left over, DDR half written, and a PRU two frames behind. `RInv` says what is left
of it. `RBootInv`: a program that has not been loaded again is idle and its words
are zeroed, and the one in its START block is the one the ARM waits for.
`RCopyInv`: DDR is whole whenever a PRU reads it or is about to (`Active`),
whoever told it to; a half-made copy is written again before it is read.
`RShowInv`: a PRU is behind by one frame, and one for each death so far, at most. `WorkInv` and
`CloseInv` hold again once start-up is over. The lemmas `WorkStep`, `CloseStep` and
`LitStep` of `PruHandshakeProofs` are stated so that both proofs use them
(`WorkKept`, `CloseKept`, `LitKept`), as are those of whole frames. From `RInv`
follow `DeathsTearNoFrame`, `StartupIsSeen` and `RestartedWaitsAreAnswered`.
`StartupIsSeen` names what it assumes: `RSpecAnytime /\ StartsDrained`. A restart
that finds an old program still at work is outside of it, and of all of this.

`LossyChannelImplemented` is about whole behaviours: a frame is lost only by the
death that comes before both PRUs have been told of it, and the next one that is
published is not lost with it. Its mapping
computes which PRUs have lost the frame in DDR from the commands (`Lost`: nobody is
left to tell them), and `TakeInv` is what it needs beside the rest: a frame that is
coming is a new one, and a start command is read by the program it was written
for. `Close` and `Abandon` of `LossyChannel` are covered by this proof only, as the
`restart` run never closes.

**Pipeline.** `PipeInv` orders the copies of a picture: shown, DDR, `leds->frame`,
`buffer_`, `frame_data`, rendered. `FreshInv` says which of them are already at
least as new as the `frame_data` the render thread woke up to. `NeverGoesBack`
and `FrameIsFresh` are action properties that follow from them.

`PicturesMissOneFrame` bounds the delay of a picture without fairness: what
`frame_data` held at one call of `ledscape_draw` is in DDR at the next, because the
render thread has begun to copy it in between (`MemoryInv` compares the history
`drawn` with the base of that copy). A PRU that has answered shows what is in DDR,
unless that frame is one that may be cut short (`Timeouts`). `TwoFramesLate` needs this and the fairness of everyone.

**Packing.** `PackedInOrder` and `LedsShowTheirPixels` speak of whole frames. `IInv`
follows a word on its way: `LoopInv` ties `pos` to `i` (three words per four
pixels), `ContentInv` says which words are packed already, `LedsInv` and `DdrInv`
what reaches `leds->frame` and DDR, `WireInv` where each PRU stands. The proofs
need no bound on strips or lengths; the lemmas about multiplication and division
by a number that is not known (`TimesIsMonotonic`, `QuotientIsUnique`) stand in
for what the SMT solver does not find by itself, and `LedTakesItsColour` is the
arithmetic of the packing: byte n after the white LEDs is channel n mod 3 of LED
n div 3.

**Scheduler.** `timeval_add` leaves `usec` at a full second where it should
carry. `TimevalLtIsOrder` shows that `timeval_lt` still orders a clock reading and
such a due time correctly, because its usec can be at most that one value too
large; with it, the schedule is exact, never early, and each sleep is at most one
step long (`ScheduleIsExact`, `FramesAreNeverEarly`, `SleepsAreShort`). Seen in
microseconds, `WaitFrame` is then `PeriodicTask`, which sleeps exactly when a frame
is not due, never begins one early and drops none (`PeriodicTaskImplemented`). The
run checks this refinement.

**Configuration.** `LastWordCounts` is inductive itself and part of `IInv`;
`ValidInv` carries the validation past the parsing, `FileInv` what a process knows
of the file it has named: a document when it got past opening it, and once it runs
the text of its own configuration, the beginning of that, or nothing (`CutShort`).
`SavedIsValid` also needs that rounding to four digits does not leave a range whose
ends have four digits. `EmptyFileIsFinal` covers both ways to an empty file, a death
and a failed write. `FileCountsForNothing` is what lies behind the violation of
`SavedIsRunning`, in general: whatever a file states, `--config` sets no field
(`NothingIsRead`: a path of one part is no path of two).

**Emulator.** `LockInv` says that who holds the lock follows from where the two
threads are; `CopyInv` that `pixel_data_` is the last frame but for the pixels
still to copy; `DrawInv` that what is drawn is at most one frame old; `RedrawInv`
that a pixel that is not current will be drawn again: there is damage, an expose,
a redraw to come, or the drawing has yet to reach it, and damage always has a
wake-up with it unless the event loop is awake. From it `NoRedrawIsLost`,
`TwoFramesMix` and `WindowFollowsFrames`: no pixel of the window goes back to an
older frame. `EventLoopGetsOn` is the ranking under `EveryFrameIsDrawn`: while a pixel
is due each step of the event loop brings its drawing nearer, and the render thread
cannot put it off. For the layouts, `LayoutIsPlaced` is an invariant over the blocks
placed so far, and `ChainIsConnected` follows from it by the arithmetic of the
zigzag (`Cell`): the quotient and remainder of consecutive numbers.

**Effects.** `IInv` gives the range of each effect's state. `TrailsFade` rests on
the byte being lowered at most as many times as the trail is long, whichever way
its ends are rounded; `DropsLeaveUnseen` on truncation towards zero at both ends
of a strip. `EffectsGetOn` is the ranking under `KeepsMoving`: every frame takes a
star, drop or breath nearer to where it turns around, for every speed, and never
past it without turning.

Model-checked only: the liveness properties (`EveryFrameIsShown`, `ComesBack`,
`TwoFramesLate`, `EveryStripIsRendered`, `EveryFrameHappens`, `EveryFrameIsDrawn`,
`KeepsMoving`), since they rest on fairness, which is out of the provers' reach. For
`EveryFrameIsShown`, `EveryFrameIsDrawn` and `KeepsMoving` the ranking is proved that
an argument by well-founded induction would use (`WakeUpComesCloser`, which the
`handshake` run checks too, `DrawingComesCloser`, `EveryFrameCounts`).

## 5. Not modelled

The plan of this development is done but for these, which were left out:

* `SetScenario` has no caller, and neither have the setters of single pixels,
  `HSBtoRGB` and the string helpers of `util.c`. `SetEffect` has none either, but
  it is the only way to effects the default scenario does not have.
* The bit timing of ws281x.p and the other PRU programs (`ws2801.p`, `apa102.p`,
  `dmx.p`): nanoseconds on a bus, behind the same command loop. `nop.p` answers
  frames without showing them, and its EXIT raises no event.
* The pin mapping, a build step that generates PRU source from JSON tables.
* What floating point decides: the lookup tables, the hue of fading strips, the
  colours of spikes, the statistics of `RateData`, which are only printed. Stars
  and drops are modelled with integers in thousandths instead; rounding of floats
  is left out.
* The OPC, UDP and E1.31 servers: compiled out with `#if 0`, and their threads
  commented out.
* Vendored code: mongoose, which only those servers would use, frozen, of
  which `ServerConfig` has the paths by which a value is looked for, and the assembler pasm,
  a build tool. They are by far the larger part of the C code in the repository
  (mongoose alone is more than half of it), and none of it is ledagent's own
  logic; the share of all lines that the models stand for is small for this reason.
* Examples, hardware descriptions, installation scripts, logging.

What remains open within the models: a driver configuration that makes
`YAML::LoadFile` throw is an exit without a cause; a process that outlives its
window (screen_runner.cc:44 destroys what both threads use) is not followed; and
several strips of one PRU are one strip in `PruHandshake`, so that pixels of
different strips are only told apart in `PixelPacking`.
