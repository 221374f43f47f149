# A TLA+ model of sdcc-cpm

sdcc-cpm is a small C library and a set of programs for CP/M machines built
with SDCC: start-up code, a BDOS gate, system functions, formatted output,
two terminal libraries, a driver for the MODPRN-02 serial board, a screen
editor, a few examples, and two host tools that bring a program to the
machine. This directory models them, checks the models with TLC and proves
their main safety properties with TLAPS.

## Inventory

Paths are relative to the repository's `src/`; `edit.c` is `esrc/edit/edit.c`
and `hw_modprn02.c` is `src/hw/modprn02/hw_modprn02.c`.

| component | state | operations | hard part | what makes it correct |
|---|---|---|---|---|
| screen editor, `edit.c` | cursor, viewport, mode, cached line pointer, array of growing line buffers, prompt buffer | one handler per key, called from `main`'s loop | the cached pointer, buffers that grow, heap failures, partial redraws | the key goes to the line the user sees; no access outside a buffer; nothing leaks; the screen shows the text; only a typed `q!` quits |
| PCW terminal, `pcw_term.c`, `shared_term.c` | none in the program; the screen's viewport, cursor and cells | `TERM_pcw_*` | scrolling, viewports, wrapping | callers get the picture they count on |
| serial driver, interrupt receive, `hw_modprn02.c` with `esrc/modprnex01/modprnex01.c` | `ch_buf[chan]` (count, array, read index), `reg5_status`, the chip's registers | `setup_modprn`, `modprn_int_getch`, `modprn_outch`, the receive handlers | handlers against main program, on memory and on the chip's register pointer; RTS handshake; overruns | characters come back once and in order; no store outside the buffer; reception never stops for good |
| serial driver, polled receive | the chip's registers | `modprn_getch`, `modprn_getchBuf`, `modprn_sendBreak`, `modprn_getBreakStatus` | RTS windows, buffer limit, break drops RTS | no character lost under flow control; never more than `bufSize` bytes |
| interrupt vectors and ports, `hw_common.c` | vector table at 0x7F00, interrupt enable | `hw_setupInterrupts`, `hw_addInterruptHandler`, `hw_outp`, `hw_inp` | the vector mask, two channels, a vector without handler halts | every interrupt reaches its own handler |
| file functions, `cpm_sysfunc.c`, with `esrc/fileop/fileop.c` | control block, DMA address, record buffer | `cpm_setFCBname`, `cpm_setDMAAddr`, `cpm_performFileOp` | one block for every file in turn, results nobody looks at | the protocol of `doc/bdos_calls.txt`; nothing deleted or shown that was not meant |
| console functions and BDOS gate, `cpm_sysfunc.c`, `cpmbdos.c` | line buffer, the gate's result cells behind it | `cpm_sysfunc_init`, `cpm_gets`, `cpmbdos_extn` | a line that fills the buffer, neighbours in memory | the line comes back; the results survive |
| formatted output, `cprintf.c` | number buffer | `cprintf`, `__numout` | a loop bounded only by the number, signs, widths, precisions | prints the number it was given; returns what it put |
| ANSI terminal, `ansi_term.c` | none | `TERM_ansi_*` | numbers put together by hand | the terminal does what the call says |
| program start, `cpm0.s`, and `add_tpa_to_sdcc_heap` | stack, TPA bounds, heap list | boot, heap hand-over | what is initialised and what is not; the list's order | the heap stays inside the TPA and whole |
| host tools, `lsrc/load.c`, `lsrc/binpak.c` | the image | convert a file | order of records, a faulty line | the image equals the records; a damaged file is refused |
| empty example, build files, reference documents | | | | |

The editor calls the terminal library and the console functions; the serial
example calls the driver, which programs the chip through `hw_common.c`; all
programs reach CP/M through `cpm_sysfunc.c` and the BDOS gate. The only
concurrency is between the main program and the serial interrupt handlers;
the only shared state is `ch_buf` and the chip. `PROJECT.json` lists the
hazards line by line and the properties that watch each.

## Modules

| module | models |
|---|---|
| `Editor` | `edit.c`: one action per key handled to its end, one disjunct per outcome of an allocation |
| `TextDoc` | the abstract editor: a sequence of lines, a row, a column |
| `EditorDoc` | `Editor` implements `TextDoc` |
| `EditorQuit` | `Editor` with a user who decides to quit, and what that user sees on the prompt line |
| `PcwTerm` | what the PCW's escape sequences do to cells, viewport and cursor |
| `EditorScreen` | `Editor` with what each handler draws on a `PcwTerm` screen |
| `Sio` | the control port of a channel of the board's SIO chip |
| `ModprnIrq` | interrupt-driven receive on channel A with chip, peer and echo program |
| `ModprnPoll` | polled receive and breaks, with chip and peer |
| `CpmFiles` | the file functions, and BDOS as far as they use it |
| `FileOp` | the file example on a disc with any files |
| `CpmConsole` | `cpm_gets` between other calls through the gate |
| `Numout` | `__numout`, one loop pass a step |
| `Cprintf` | `cprintf`'s directives around `Numout` |
| `AnsiTerm` | the ANSI functions and a terminal that reads what they send |
| `Output` | a program that uses `Cprintf` and `AnsiTerm` in turn |
| `HexLoad`, `BinPak` | `load.c`; `binpak.c` with the line and CP/M's DOWNLOAD |
| `TpaHeap` | the TPA's bounds and SDCC's heap |
| `Vectors` | the vector table, the chip's vector and the handlers of both channels |
| `Boot` | these four composed: from the linker's file to a running program |
| `MCModprnIrq`, `MCFileOp`, `MCOutput`, `MCBoot` | the values of constants a `.cfg` cannot write |
| `EditorProofs` | the editor's inductive invariant, what lines contain, the heap, the prompt, and the refinement of `TextDoc` |
| `EditorScreenProofs` | the screen shows the text |
| `ModprnIrqProofs` | RTS as a lock, buffer bounds, no wedge, the echo's order |
| `ModprnPollProofs` | order, bounds and no loss under flow control |
| `CpmConsoleProofs`, `FileOpProofs` | the line and the cells; the file example's three properties |
| `OutputProofs` | room and digits of `__numout`, fields and count of `cprintf`, the ANSI terminal |
| `BootProofs` | image, check bytes, heap and vectors |

A definition `Bug...` stands next to the one it replaces, with a mistake the
property named in `PROJECT.json` catches.

### Editor

`cur_x`, `cur_y`, `top_screen_line`, `editor_mode`, `do_exit` and `cur_line`
are the fields of `cur_state`. A `struct text_line *` is the index of its slot
in `text_array`: a slot is filled once and never moved, so index and pointer
name the same line. A line keeps `len`, `size` and every cell of `buf`, with
`Nul` for a cleared cell and `Junk` for one `realloc` left unwritten. `live`
counts heap blocks. `port_w`, `port_h` and the limits are constants: 90, 31,
80 columns, 50 lines, 128 slots, a 16-character prompt in the program. The
heap may fail at every allocation. A failing `realloc` refuses the key
and changes nothing, so it is a stuttering step, like all keys refused with
only a beep.

`BootCurLine` says what `cur_line` holds before anything assigns it.
`cur_state` is in `_DATA`, which `gsinit` does not clear, so it may be
anything: `Wild` stands for a pointer whose `len` reads as any byte. With
`NoLine` alone one gets the program as if memory had been clear.

The integers of the code never reach their width here (line numbers stay
below 128, columns below 91), so they are not wrapped.

`EDITOR_MAX_LINE_COUNT` is 50, but `edit.c:727` compares it with a line number
counted from 0: the text can have 51 lines. `TextDoc` is instantiated with
`MaxLineCount + 1` rows for that reason.

### EditorScreen and PcwTerm

The screen is external: each sequence does what its callers count on, and
where no caller can count on anything the cursor is `Lost` and later output
may land anywhere. The history variable `faulted` marks the two cases in
which the editor is known to lose the screen, so that `DisplayFaithful` speaks
about all other behaviour: `j` moves the cursor onto the status row (run
`port`), and a newline that is refused because the text is full or the heap
empty has already set `cur_x` to 0 without moving the screen's cursor
(`edit.c:736`). Clearing `faulted` on `r` says that a repaint heals both.

### EditorQuit

`typed` is what a reader of the prompt line has in mind; `plan` counts the
keys of ESC : q ! CR already pressed. The only fairness is that a user who
has begun to quit keeps pressing keys. The editor itself needs none: every
step is a key.

### ModprnIrq

Each read or write of shared memory and of the control port is a step of the
main program; `avail--` and `idx++` are a read and a write each, which covers
a compiler that uses a register. A handler is entered with interrupts
off, so the main program does not move until it ends. The chip is
external: a register pointer shared by all writers, RTS and transmitter
bits in register 5, a receive fifo that overwrites its last character when
full. A peer sends at most `burst` characters per RTS window and up to
`slack` more once RTS is lowered; which of `Peers` is at the other end is
chosen once. Characters are numbered as they are sent. `Prompt` means
`slack` = 0: the peer stops at once.

The echo loop of the example ends after 4095 characters; the model's does not
end, and bounds the characters sent (`MaxSent`) instead. Channel B, identical
but for ports and array index, is left to `Vectors`. The status-change
handlers are left out because the interrupt that would call them is never
enabled.

Fairness: the processor executes (`MainStep`), takes pending interrupts
(`Interrupt`), the transmitter shifts out what it has (`Shift`) and the peer's
CTS comes back (`CtsUp`). Arrivals are not fair: the peer need not send.

### ModprnPoll

A program that calls `modprn_getch`, `modprn_getchBuf` and `modprn_sendBreak`
in any order after `setup_modprn`, as the disabled loop of the example does
with the first. Interrupts are off and nobody else writes to the control port,
so a select byte and its value are one step; looking at the chip, raising RTS,
seeing a character, lowering RTS and reading each character are separate
steps, with arrivals between any two. `modprn_getch` is `modprn_getchBuf` for
one character. `setup_modprn` leaves RTS up, and a call that finds a character
waiting does not touch it; the peer may then send without end and the chip
overruns. `windowed` becomes true when a call has found RTS down and raised
it: from then on flow control is in force. `modprn_getBreakStatus` only sets
the register pointer, which every other call sets again, and is left out.

Fairness: the processor runs (`Program`), the program calls a receive function
again and again, whatever it calls in between (strong fairness of `Receive`,
which is disabled during a call), and the peer sends what it has when it may.

### CpmFiles and FileOp

A file is its directory name: 11 bytes, the attributes in their top bits. A
control block keeps its name, whether BDOS has left anything in EX, S1, S2 and
RC (`used`), and the file it was opened on (`alb`). An open copies the
directory's name, attributes included, into the block; a search leaves a sector
of four entries in the buffer, three of which belong to other files or none.
`FileOp` is `main` of the example, one step per call; after a failing search
or delete it carries on as the code does, and a hardware error ends it at any
call (`DiscError`).
The second open's result is overwritten before anyone looks at it
(`fileop.c:70`): `ShownTrue` says why that does no harm, and only holds because
BDOS refuses to read through a block that names no allocation. The failing
`malloc` at line 29 is left out, as the block is the program's first.

### CpmConsole

`mem` is the line buffer's bytes and, behind them, the four bytes of the
gate's `ret_ba` and `ret_hl`: `cpmbdos_extn` stores A and B, L and H there with
their bytes swapped. `cpm_gets` writes the newline at `bytes[len]`, which for a
full line is the first of the gate's bytes, and a line one shorter leaves no
zero for `strcpy`. `GetsReturnsLine` states what callers get in either case.
The history variable `full` says that the last call was one of a full line:
`CellsKept` wants the gate's cells to be what BDOS returned last in every byte,
but for that newline, which any next call must have overwritten.
What memory holds at the start (`BootBytes`) is not cleared. The call block is
in the same area: a `cpm_gets` before `cpm_sysfunc_init` hands BDOS a function
and an address nobody chose (`GetsTooEarly`), and the model follows the program
no further. All other functions of the library that make one BDOS call are
`OtherCall`.

### Numout, Cprintf, AnsiTerm, Output

A `long` is in `-Half..Half-1`; `Power` is a table rather than an operator, so
that proofs can use its defining equation. `Numout` writes digits from the last
of `NUMLTH` places to the front, one loop pass a step, and nothing but the
number's end stops it: `PlaceExists` is the buffer's bound. `Cprintf` takes a
format as parsed directives and keeps what it puts and counts. Three ways in
which the code differs from C's `printf` are modelled as they are: padding is
computed for the length before a precision cuts the text, a precision also
cuts numbers, and zeros go in front of the `-`. A format that ends in `%h` or
`%l` would read past its end; no format of the repository does, and `Formats`
has none.

`AnsiTerm`'s terminal reads characters one at a time and records the command it
understood; `asked` is what the function's name says. `TerminalObeys` compares
the two after every call and around text `Cprintf` put in between. Erasing
before the cursor sends the digit for erasing behind it; the property names
that one exception. `SetParam` without any attribute sends `ESC [ m`, which
terminals take for a reset.

### Boot

`HexLoad` reads a record a step. Records that are not data still move
`uiLastByte`; the checksum is not compared, and a file without any byte at
0x100 or above would wrap the image's length (not in `HexFiles`). `BinPak`'s
line changes, drops or inserts at most one byte. `TpaHeap` has the TPA's bounds
from `cpm0.s`; `malloc`, `realloc` and `free` are SDCC's first-fit list and
external. `calloc` is `malloc`, whose bytes it clears. `realloc`, with which the
editor lets a line grow, frees a block in place and cuts from what that makes,
when it is large enough, and otherwise moves it before it frees it. And
`add_tpa_to_sdcc_heap` puts the TPA in front of a list that is otherwise in
address order, after which `free` keeps blocks whole only because it never
joins across the gap. `Vectors` fills the table for both channels and has the
chip put channel and kind into bits 1 to 3 of its vector. An odd start of the
vectors would pass the mask and shift every vector by a byte; the example
starts at 0.

## Runs

Passing:

| run | distinct states | shows |
|---|---|---|
| `edit` | 163 k | types; gap-free text with the cursor on it; line cache; buffer bounds; cursor inside its line; only typed characters; no leak; refinement of `TextDoc`; exit exactly on `q!`; ESC : q ! CR always gets out |
| `display` | 510 k | with three lines on two rows the redraws add up to the picture of the text |
| `irq` | 88 k | with a prompt peer: RTS is a lock, echo in order, every character not lost is echoed, the buffer drains; with either: buffer bounds and no wedge |
| `poll` | 10 k | no character invented, doubled or reordered; buffer bound; nothing lost under flow control; the peer always gets its turn, after a break too |
| `files` | 2.7 k | proper control blocks; only TEST.TXT deleted; what is printed is true |
| `console` | 6.2 k | lines come back; the gate's results survive, a full line's newline only until the next call |
| `output` | 47 k | numbers fit and are right; fields; the returned count; the terminal obeys |
| `boot` | 30 k | image; damaged files refused; heap apart and whole; each interrupt its handler |

Violations, each a finding quoted in `PROJECT.json`:

| run | property | what happens |
|---|---|---|
| `right` | `RightOnLine` | `l` before any line exists follows an unassigned pointer |
| `port` | `CursorInPort` | `j` puts the cursor on the status row |
| `irq_hang` | `OutchReturns` | the handler, between the two writes that raise RTS, takes over the register pointer and its bytes switch the transmitter off for good |
| `irq_echo` | `EchoInOrder` | a rewound index repeats old characters and drops new ones |

The last two need a peer that still sends after RTS is lowered (`slack` = 1),
as UARTs with a fifo of their own do; the buffer is one it fits. With such a peer RTS is also raised
while a character is waiting, against the comment at `hw_modprn02.c:152`.

### Bounds

- Editor. `edit` has one text row, two lines at most and two characters, so
  that the text scrolls and the line limit is reached; `display` has two rows
  and three lines. In `display` `CursorDown` scrolls (`edit.c:607`) only after
  the cursor has left the viewport, when `faulted` excuses the screen: what the
  branch does to the picture is covered by `DisplayHolds`, not by the run. A
  line starts with one cell and grows to two: an insertion,
  an overwrite and a deletion in the middle of a line all occur. The prompt's
  buffer holds three characters in `edit`, so that it is filled, too long by
  one for the command, and left with old characters.
- Serial, interrupts. The fifo has three places, the buffer five, and six
  characters are sent. One peer bursts four characters, one more than the
  fifo, and stops at once; the other sends one and one late, and just fits
  the buffer: 2 `burst` + 3 `slack` <= `Depth` (`Fits`), of which a burst and
  twice the slack may be on their way when RTS goes up and the rest belongs to
  the next window. One place fewer overflows, but only after eight characters,
  more than this run sends and with handlers delayed at will: the theorem, not
  the run, is what covers the buffer's bound. The program's 16 slots are
  enough for peers that send, say, 6 characters a window and one late, or 5
  and two; the code enforces nothing.
- Serial, polled. The smallest fifo for which nothing is lost is three for
  `Burst` and `Slack` of 1: with two, an overshoot that arrives after a call
  has found the chip empty and before it raises RTS makes a later one overrun.
  Buffers of 0, 2 and 3 are the special size, one below and one at the fifo.
- Files. Four names: the example's own, read-only; one the search's wildcards
  match; the file to delete; one whose name only begins alike. Every subset of
  them is a disc.
- Console. Three bytes and lines of 0 to 3 characters: lines that fit, that
  leave no zero, and that fill the buffer; four calls, so that a short line is
  read after a long one and another call lies between.
- Output. Seven-bit longs, four-bit ints and three places: as with 32 bits and
  eleven places, the most negative decimal and the largest octal number need
  every place. Every byte occurs as each coordinate and parameter.
- Boot. Eight bytes of memory, two data records of one or two bytes anywhere
  around `Start`, overlapping, out of order and with gaps; bytes of four
  values, so that lengths and sums wrap; block sizes below a header, that fit
  and that do not, with room for three blocks in either heap; every even start
  of the vectors.

The runs check deadlock: the editor and the console program stutter when they
have ended, the serial programs always have a step.

## Proofs

All theorems hold for every value of the constants that satisfies the named
assumptions of the modules, which the program's own values do.

**Editor.** `Inv` in `EditorProofs` is `TypeOK`, `CursorOnText`,
`CurLineCached`, `BufferSafe` and `LinesLimited`. None of them is inductive
alone. The type of `top_screen_line` needs the limit on line numbers; that the
fetch behind the cursor leaves no gap needs the cursor to be on a line; that
line is only known to be the cached one by `CurLineCached`; DEL's count needs
all three. `InvParts` splits the invariant into what it says of the store, of
the cursor and of the rest; `FetchKeeps`, `RewriteKeeps` and `NothingKeeps` say
what the three ways to touch the store preserve, `OnLine` what it takes to put
the cursor on a line; then there is one lemma per key. The theorems need
nothing of `BootCurLine`: even a pointer that starts wild never reaches the
text, which no run checks.

Three of its theorems assume that the pointer does not start wild: the cursor
never leaves its line (`TextHolds`), every character of the text was typed
(`TextTypedHolds`), and `Editor` implements `TextDoc`
(`DocHolds`). The hypothesis is needed: run `right` walks the cursor off the
text, and an insert there would leave unwritten cells inside a line. For the
refinement, `CountLines` turns the cardinality of the set of filled slots into
"the first n slots", so that `TextFetched` and `TextRewritten` can say what the
two ways to change the store do to the abstract text; each key's lemma then
maps it to an action of `TextDoc` or to a stutter. `HeapHolds` says, by the
same cardinality, that no allocation is ever lost. `QuitOnlyOnCommandHolds`
follows from `PromptShown`: what the prompt's buffer holds up to `p` is what
the user has typed and not taken back.

**Screen.** `DisplayHolds` holds for every text and every screen on which the
prompt's line fits (`PromptAssumption`), when the pointer does not start wild.
Writing characters and repainting rows are folds, so what a fold yields has to
be found out first: a function that satisfies its equation exists
(`FoldExists`), so `CHOOSE` picks one, and then it is built up element by
element. `SetInduction` does both; it is induction with a set in place of the
predicate, which the provers can instantiate. With that `PaintView` says row by
row what `repaint_screen` leaves. The invariant has two halves: `ViewInv`, whose
viewport it is and where the prompt's cursor is in it, and `PictureInv`, that
every row shows its line and, outside the prompt, the terminal's cursor is the
editor's. The editor's own invariants come in as facts about the step
(`EditorStep`). Each handler's redraw is then compared with the rows before and
after its key; a scroll shifts them.

**Serial, interrupts.** Most theorems of `ModprnIrqProofs` are about prompt
peers and assume nothing of their bursts. `Own` relates RTS,
the interrupt and the main program: RTS is up only when the buffer is empty,
with RTS down nothing is in the chip unless a handler runs, and while the main
program takes a character RTS is down; the register pointer is where each
writer takes it to be (`ChipBytes` says what the bytes then do). It gives
`BufferOwnedHolds`. `Stored` adds the counts: `avail` + `idx` never exceeds
what one interrupt can have found in the chip. It gives the prompt half of
`BufferSafeHolds`, the bound the handler does not check, and of `NoWedgeHolds`.
`Chain` is the order:
what was echoed, the character being sent, the one in hand, the buffer's unread
places and the chip's fifo are consecutive pieces of what the peer sent, with
only lost characters between (`Piece`, `Follows`); it gives `PromptEchoHolds`.

Runs `irq_hang` and `irq_echo` show what one late character does to all this.
What is left holds for slow peers that fit (`SlowInv`). `Line` is where the
register pointer can be when a handler has interfered, and what the bytes then
do (`WrongBytes`): a write meant to raise RTS may be lost, but no write raises
RTS that is not meant to. `Cycle`: RTS goes up when the buffer was found empty
and, if it was down, with at most the slack still to come. `Index` bounds `idx`
plus everything that may still be stored, at every point between the main
program's reads and writes of `avail` and `idx`, whose lost updates only ever
lower `avail`. `NoStop`: when RTS stays down something is stored or waits in
the chip, so that it will be raised again. They give the other half of
`BufferSafeHolds` and `NoWedgeHolds`, with the bound in `Fits`; TLC finds an
overflow when it is weakened by one. `TypeHolds` is for every peer.

**Serial, polled.** `ModprnPollProofs` proves types, order and the buffer's
bound for every peer; the core is that what was returned and what waits in the
chip is one increasing sequence of characters sent. `KeepsAllHolds` assumes
`Burst` + 2 `Slack` <= `FifoDepth`. `Room` says how many characters the chip
and the line may hold at each point of a call; a character is lost only when
one arrives in a full fifo, which `Room` excludes. TLC finds a loss as soon as
the assumption is weakened by one.

**Library.** `OutputProofs`: what is left of a number is below the power of
the base that belongs to the places left, one place fewer when a sign is still
to come (`Fits`); that is `PlaceExistsHolds`, with `RoomAssumption` saying what
`NUMLTH` must be. Digits written and number left make up the magnitude
(`Magnitudes`), which is `DigitsRightHolds`, the most negative number included.
`CallsNumout` shows that `cprintf` is a caller these results cover, and
`FieldRightHolds` that fields are as wide as asked, for every text, width and
format. `CountRightHolds` counts the carriage returns put so far: texts and
padding have none, a newline brings one, and the count is what is left.
`TerminalObeysHolds` needs what the terminal makes of a sequence of characters:
`Gets` is a recursive function, so any function that satisfies its equation
gives its value (`GetsIs`), and a sequence may be taken apart where one likes
(`GetsJoin`). Then one lemma per kind of character and one per call; a list of
attributes goes by induction over its length. `PrintsAlone` says that the
terminal's calls leave `cprintf` alone, so that `OutputRight` holds of both
together. `FileOpProofs` holds for every directory, `CpmConsoleProofs` for
every size of the buffer: the latter rests on where the first zero behind the
line lies.

**Boot.** `ImageFaithfulHolds` carries the last of the records read so far that
covers an address (`Written`). `HeapApartHolds`: every block lies in one of the
two heaps (`Sound`); two that touch lie in the same one because the stack is
between them (`JoinedSound`, `MapAssumption`). `HeapWholeHolds` adds that blocks
do not overlap and that every byte of the two parts is in one. All that is done
to the heap is made of two things, a piece cut from a block of the list
(`Takes`) and a block put into it and joined with its neighbours (`Puts`);
`TakesWhole` and `PutsWhole` say that either leaves no overlap and loses no
byte, wherever in the list the block goes, and `realloc` is one after the
other. The TPA is clear of all blocks until it is handed over. `StoredIntactHolds` is arithmetic
modulo the size of a byte: a missing or extra byte changes the low byte of the
length, and one changed byte the low byte of the sum by as much as it differs.
It holds for every file, of any length. `OwnHandlerHolds`: the mask
leaves a multiple of 16, so no two handlers share a word (`SetupVec`).

Only model-checked: liveness (`QuitWorks`, `AllEchoed`, `Drains`,
`GetsThrough`), which with fairness and ENABLED is outside what TLAPS can
prove.

## Plan

Done: all modules above, in this order: the editor and its abstraction, its
screen, the serial driver in both modes, the proofs of their safety, the file
and console functions, formatted output and terminals, the way from the linker
to a running program, and the proofs of those.

What a slow peer gets back is left at `irq_echo`: characters are doubled and
dropped, and TLC also finds one taken from a place of the buffer where none was
stored, so there is nothing to promise.

## Not modelled

- The PCW's attribute, colour and cursor-visibility sequences: no program of
  the repository calls them and nothing reads them back.
- The file operations and drive functions no program calls. They choose another
  BDOS function number and change nothing else in the library.
- The empty example, build files and the reference documents.
- Of the modelled parts: wording of messages, beeps, the timing of the serial
  line beyond the order of events, file names and options of the host tools,
  and `load.c`'s fixed arrays, which SDCC's records do not fill. That the
  vector table at 0x7F00 lies inside the TPA, where a large program or its heap
  would reach it, is left to the program: the only one that uses it is small
  and has no heap.
