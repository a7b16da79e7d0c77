# hobby-kernel in TLA+

The kernel under `src/kernelcpp` is a small 32-bit x86 kernel: threads and
processes under a preemptive timer, messages between threads, a physical page
allocator, one heap per process, a kernel heap, a keyboard driver and a text
console.  Nearly all of it runs with interrupts enabled, the kernel's own code
included, and nothing is locked except by `cli`/`sti`.  What can go wrong is
therefore mostly a matter of *when* the timer arrives, and of what an allocator
does after a long series of legal calls: the things a test on an emulator hardly
reaches.

The modules here are translated from the source; `PROJECT.json` maps each
definition to the lines it stands for.  Names follow the code where TLA+ allows.

## The system

| Component | State | Operations | Works with |
|---|---|---|---|
| Scheduler: `TaskManager.cpp`, `thread_asm.s` | `current_thread`, `ready_queue` (linked list of `thread_list_t`), `tid`, each `thread_t` | `createProcess`, `createThread`, `addThread`, `handleTimerEvent`, `switch_thread`, `thread_start`, `thread_exit`, `removeThread`, `isRunning` | the timer calls `handleTimerEvent`; it changes `cr3` and `Heap::currentHeap`; at the end of a thread it calls `IPC::clearMessages` |
| Message passing: `IPC.cpp` | one list `msgs` for all threads | `sendMessage`, `receiveMessage`, `clearMessages` | asks the scheduler who runs; allocates with `kernel_malloc` |
| Physical pages: `mem/pmm.c` | `_bitmap`, `_first_free_index`, `_last_available_index`, `pmm_location`, `pmm_paging_active` | `init_pmm`, `map_pmm_to_virtual_space`, `pmm_alloc_page`, `pmm_free_page` | called by `vmm.c` and by `Heap` |
| Process heap: `mem/heap.c` | `list_array`, `current_mem_addr`, chunk headers, `Heap::currentHeap` | constructor, `kmalloc`, `kfree` | maps pages; `operator new`/`delete` use `currentHeap`; thread stacks are its blocks |
| Virtual memory: `mem/vmm.c` | page directories, `current_directory` | `init_vmm`, `map`, `unmap`, `get_mapping`, `create_page_directory`, `switch_page_directory` | `createProcess`, `Heap`, the page fault handler |
| Kernel heap: `MemoryManagement.cpp` | `current_address`, a chain of headers in 1 MB | `kernel_malloc`, `kernel_free` | `IPC`, `createThread`, `createProcess`; the handler frees what `createThread` allocated |
| Interrupts: `IDT.cpp`, `Interrupts.s`, `PIC.cpp` | IDT, handlers | `irq_handler`, `isr_handler` | timer, keyboard, page fault |
| Keyboard: `Keyboard.cpp` | `length`, `pressed`, `timesToIgnore`; `KEY_PRESS_TABLE`, `lineBuffer`, `callback` | `handleKeyboardEvent`, `setPressed`, `setListener` | calls the listener from the interrupt; prints to the console |
| Console: `Console.cpp` | cursor, video memory | `kprint...` | every component |
| Programs: `kmain.cpp` | - | boot, `kmain`'s loop, `Program1`, `Launcher` (commented out) | create processes and threads, send and receive |

What makes each one correct, and what makes that hard:

- **Scheduler.** No thread is lost and none starves; the ready queue is never
  closed into a ring; a dead thread is never resumed; a thread runs in its own
  address space, on its own stack, with its own heap; ids are unique.  Hard:
  `addThread` walks and links the list with interrupts on while every tick
  relinks it; `createProcess` works in another address space and with another
  heap while ticks save and restore both; `switch_thread` uses the next stack
  and enables interrupts before it loads the next page directory; the removal
  of a thread runs with interrupts on and with `current_thread == NULL`.
- **Message passing.** A message reaches its addressee, once, in order; the end
  of a thread removes its messages and no others.  Hard: one list for everybody,
  removals in the middle of a walk, nodes freed while a pointer stands on them.
- **Physical pages.** No page has two owners; the reserved pages are never given
  out; out of memory is reported only when it is true.  Hard: one index that a
  scan moves on and a free moves back, boundaries at both ends, no lock.
- **Process heap.** No two blocks overlap, blocks do not lie on headers, all
  their pages are mapped, and nothing leaks.  Hard: lists per size, merging and
  splitting, headers that cross pages.
- **Virtual memory.** Every space maps the kernel, reaches its own tables, and
  shares no frame with another; what the TLB remembers is what the tables say.
  Hard: the tables are written through themselves, a new directory through two
  pages that are mapped for it, and a tick may change `cr3` between any two stores.
- **Console.** What was printed stays where it was put; nothing is stored behind
  the screen.  Hard: the cursor stands beside or below the screen between two
  characters, and the loop tests for that with `==`, interrupts on.
- **Kernel heap.** A block stays its owner's, and what was freed stays readable,
  for the handler goes on using the `thread_t` it has freed and `clearMessages`
  the node.  Hard: the chain is counted with and without headers,
  `kernel_free` comes in the middle of a `kernel_malloc`, and at the end of the
  megabyte every size is off by a header.
- **Keyboard.** A key is heard once, with its direction; the table says what is
  held; a sequence that was misread does not spoil the following ones for ever.
  Hard: the decoder keeps its place between interrupts, and bytes it ignores
  count like those it reads.
- **Together.** A message reaches the thread whose id it names, while threads
  get their ids, are linked and are removed under the timer.

`PROJECT.json` lists the hazards one by one, at their lines.

## The modules

**`TaskManager`** is the scheduler and the processor state it works on: `cr3`,
`Heap::currentHeap`, whose heap is mapped in which address space (`heapAt`), and
where the registers of a thread were saved (`frame`).  A thread object names its
`thread_t`, its list node and, for a process, its page directory and `Heap`.
Thread code is one action per step between which the timer matters
(`CreateProcess` ... `RestorePageDirectory`, `CreateThread` ... `Link`,
`ThreadStart`, `ThreadExit`); `pc[t]` is where a thread's code stands.  The
handler runs with interrupts off and is one action, `TimerRotate`, unless the
thread is to be removed: then `clearMessages` has enabled interrupts, and
`TimerRemove`, `Release`, `Pop`, `SwitchAway` are steps between which another
timer may come.  One that comes while `current_thread` is NULL reads `remove` at
address 0: zero on a page that was never used (`TimerNested`), and a byte of the `ebx` of
a thread that ended once the page was used, when the handler may remove what it finds there
(`TimerNestedRemove`).  `tid++` is `ReadTid` and `WriteTid`.

**`RoundRobin`** is what the scheduler promises as long as no thread ends: a
sequence of waiting threads, rotated by each tick.  `TaskManager` implements it
under the mapping `ReadyList`, the linked list read from its head.

**`IPC`** has each call as one action, for they run with interrupts off from
their first line to their last, and the scheduler as three actions in between
(`Switch`, `Start`, `End`).  `clearMessages` is part of `End`, as it is part of
the handler.  `Freed` and `Unlinked` are what its walk does to a list: a match at
the head is freed first, and the walk then goes on from the freed node; behind
every removed node one node is skipped.  Messages are numbered in the order they
are accepted; `blocks` are the kernel blocks in use.

**`Mailbox`** is what message passing promises: a box per thread.  `IPC`
implements it; what a closed box or a skipped node loses is `dropped`.

**`PhysicalMemory`** has `pmm_alloc_page` as `Check`, `Claim`, `Take` and `Scan`
(one turn of its loop each), and `pmm_free_page` as `ClearBit` and `LowerIndex`.
Pages are named by their index.  With `Exclusive` no call starts while another
one is under way; without it they interleave, as the code lets them.

**`ProcessHeap`** has `kmalloc` as four actions, by how the block is found: `New`
(no free chunk in the list), `Reuse` (a free one of a standard size), `Split`
and `MergeOnly` (a large size with free chunks in its list:
`find_nonstandart_node` with and without success).  Addresses count from
`HEAP_START`; `list_array[k]` is the list of one size in its order.  A call is one step.
A new chunk writes its header first and maps the next page then (`Extend`), also over a page that is
mapped: a header that crosses the page end keeps only the bytes in front of it (`Written`,
`CutHeader`): four or fewer leave the chunk free with length 0, more of them keep the mark and the low
bytes of the length.  `torn` remembers that it happened.

**`VirtualMemory`** is `vmm.c` on the paging hardware.  A frame holds the entries
of a directory or a table, `Walk` translates a page from a directory, and `tlb` is
what the processor remembers; loading `cr3` empties it, `invlpg` removes a page.
`map` and `unmap` reach the tables as the code does, through the last two entries
of the directory in use, so each of their stores is a translation that may fault.
`create_page_directory` is its eleven steps, the calls of `map` and `unmap` among
them included; between any two of them `Switch` may run a thread of another space.
`createProcess` then goes on inside the new space: `Enter` loads its directory, `Heap` is the
constructor, `NewStack` and `Push` the first thread's stack, `Leave` the way back; `Within` and `Saved` are
the directory a tick in between restores.  Each space has one thread, in whose name this is done and
which makes chunks afterwards (`kmalloc`: the header is stored, then `NextPage` maps the pages
behind it, mapped or not, through `map`) and uses its pages (`Use`); the creator is one more thread in the kernel's
space.  Where a header lies is abstracted to the pages it touches.

**`AddressSpaces`** is what virtual memory promises: each space has pages of its
own, and a page that has been used keeps its frame.  `VirtualMemory` implements it,
the frame behind a page being what its tables say.

**`Console`** has the loop of `kprint` with a step per test and statement; every
character may be any of the printable ones or a control character, which covers
the strings the other functions of `Console.cpp` print.  `gone` remembers the rows
that were scrolled away.

**`Paper`** is what a printer expects: a sheet without end, on which a character
stays until the cursor comes back to it.  `Console` implements it, the sheet being
`gone` with the screen below it.

**`KernelHeap`** has `kernel_malloc` with a step for each change of what calls
share (`Found`, `Mark`, `SkipHeader`, `SetRet`, `Advance`, `Split`; `Onward` is
one turn of its walk), and `kernel_free` as one store at any time.  `block` are
the headers in the arena by their address, `held` and `freed` the blocks callers
have and had.  A walk that comes to something that is no header ends the model
(`GoAstray`): what is read there is unknown.

**`Allocator`** is what a heap promises: a block inside the arena, apart from
the others, until it is given back.  `KernelHeap` implements it.

**`Keyboard`** has `handleKeyboardEvent`, one byte at a time, as one action per
branch, each with the `setPressed` it leads to; a keyboard that sends the bytes of
scan code set 2 for the keys that are struck (`Bytes`), its own answers in between
(`Respond`); the value that the driver's table has for each key (`VK`), which the two SHIFTs share, as do
the keys whose codes differ by the E0 in front only (`RCONTROL`); and what the listener heard since the last stroke (`heard`).
`rested` and `inStep` remember whether the decoder was at rest (`Rest`) when the
last key, and when every key, was struck; `crossed` are the held keys beside which another of
their value went up.

**`Kernel`** composes `TaskManager` with the calls of `IPC`: every step of the
scheduler, threads in `launch` sending to ids that `isRunning` finds and
receiving by their own id, and `clearMessages` as part of the step of the handler
that begins to remove a thread.  With `TimerNestedRemove` they are cleared for any id
(`ClearAstray`).  It implements `Mailbox` with threads, not ids,
as the boxes; a box is open from the store that links the thread into the queue.  `KernelDelivers`
makes one exception, `Mailbox`'s `Lose`: see below.

`MCTaskManager`, `MCIPC`, `MCProcessHeap`, `MCVirtualMemory`, `MCKernelHeap` instantiate these
for TLC and hold the properties the repository states and the code does not have.  The `...Proofs`
modules hold the theorems.

### Abstractions

- A page directory, a `Heap` and a stack are named by the thread they were made
  for.  The stack of a thread is readable in every space that has a heap, since
  all heaps begin at the same address; a push faults only where there is none.
- `switch_thread` is one step, except for a thread that never ran: its first
  flags enable interrupts before its page directory is loaded, which
  `ThreadStart` finishes.
- While `current_thread` is NULL the handler goes through address 0.  If page 0
  is zero this goes on as the model says; once it has been used as a `thread_t`
  it may go on or fault, which is a nondeterministic choice (`nullPage`).  In `TimerNestedRemove` the
  removed thread is not one of the queue, its heap may be anybody's, and what `kernel_free`
  overwrites at an address that is none of its blocks is not followed.
- `Walk` reads `iterator->next` once, where the code reads it for the test and again for the step.
  No tick changes it in between unless the node it stands on becomes the last one, which takes a
  thread that returns (as in `lost_thread`, whose trace is another): while none returns
  the two reads agree.
- A `sendMessage` to an id that does not run changes nothing and is left out.  The
  bytes of a message are its number.
- `set_bit` and `clear_bit`, each a read and a write, are one step.  A page is freed by the caller that got it.
- In `ProcessHeap` what a program writes on a header it was wrongly given is
  unknown: the model ends at such a state (`Usable`), which is where
  `BlocksApart` is already false.  `pmm_alloc_page` always succeeds, lengths of
  2^31 and more (which return NULL) are left out, and so is a fault on the header
  that `split_chunk` writes.
- In `VirtualMemory` flags of entries are left out, `pmm_alloc_page` calls exclude
  each other and the end of the memory only ends the behaviour; no frame comes
  back, since nothing calls `pmm_free_page`.  Every space has one thread that maps, and
  there is one creator: see what more of them do below.  Two constants name what the code does not
  exclude: `Aligned`, that no header crosses a page end, and `Undisturbed`, that no tick
  comes while `createProcess` is inside the new space.
- In `Console` a statement is one step, `cursorX++` on the volatile cursor
  included; colours, the hardware cursor and the conversions of numbers to digits
  are left out.
- In `KernelHeap` the two fields of a header are stored together.  A block is freed once:
  the second free of a heap that two threads share stores what is there already, for
  no block is given twice (`FreedBytesStay`).
- In `Keyboard` the characters of the line are only counted: one for each key but
  SHIFT and ALT (CONTROL adds one too, for the test that should except it,
  `!isPressed(key != VK_CONTROL)`, asks for the key 1 or 0, and neither is ever pressed;
  so do PAUSE and PRINTSCREEN).  A full line of 78 is given to the
  listener without a terminator.  `length` is counted to 3, since it is only
  compared with 0, 1 and 2.  The listener may be set at any time.  Of the keys that share a value
  two pairs are there, SHIFT (18 and 89) and CONTROL; the others (PERIOD 73 and 113, PLUS 85 and 121, SUBTRACT 78 and 123,
  and those with E0) go through the same lines.  The keyboard's
  additional bytes for extended keys under SHIFT and NUM LOCK, and the shorter PRINTSCREEN with a modifier, are left out.
- In `Kernel` a message is sent to a thread that `isRunning` finds; the calls run
  with interrupts off, so `isRunning` and the store are one step.
- `MemoryManagement.cpp`, `Keyboard.cpp` and their headers end their lines with
  carriage returns only, so `PROJECT.json` can only name line 1 of them; the symbol
  of each entry says which function is meant.

## The runs

| Run | Module | Asks |
|---|---|---|
| `threads_only` | MCTaskManager | four threads, three of them creating others: `NoThreadLost`, `CursorAtEnd`, `EveryThreadRuns`, and the refinement `RefinesRoundRobin` |
| `lifecycles` | MCTaskManager | kmain creates processes `a`, `b` and a thread `c`; `a` and `c` return: `QueueSound`, `DeadNeverQueued`, `RunsAtHome`, `HeapsStay` |
| `messages` | MCIPC | three threads, four messages: `ImplementsMailbox`, `NodesAllocated`, `Delivered` |
| `pages` | PhysicalMemory | six indices, two pages taken at boot, two callers that exclude each other: `PageHasOneOwner`, `LimitsNeverGiven`, `PanicOnlyWhenFull`, `BitmapExact`, `AllocationReturns` |
| `spaces` | MCVirtualMemory | two processes created by one thread, which builds their heaps, while up to three others make chunks and use them: `SpacesWhole`, `TlbCoherent`, `FramesApart`, `NothingLeftMapped`, `NeverFaults`, and the refinement `ImplementsSpaces` |
| `console` | Console | one printer, any characters: `CursorOnScreen`, `NeverBeyond`, `Returns`, and the refinement `WritesOnPaper` |
| `heap` | MCProcessHeap | two standard sizes and two large lengths, pages of 64 bytes: `ApartUntilDamaged`, `NothingLost`, `BlocksMapped`, `DataStays`, `AlignedNeverFaults` |
| `kernel_heap` | MCKernelHeap | two threads, blocks of two lengths, an arena that is soon spent: `HeadersIntact`, `FreedBytesStay`, `EndsWhenSpent`, and the refinement `ImplementsAllocator` |
| `keyboard` | Keyboard | keys of every kind, known and unknown to the driver, both SHIFTs among them, two held at a time: `HeardFromRest`, `TableInStep`, `Recovers`, and `TypeOK`, which says that a line never fills its buffer |
| `kernel` | Kernel | kmain creates a process and a thread that return, under the timer, and all send and receive: the refinement `KernelDelivers`, with its exception |

The type invariants hold in each of these instances too; only the keyboard's is listed,
for it bounds the line.  To look at another one, add `TypeOK` to the configuration.

`CursorAtEnd` deserves a word.  `addThread` remembers the last node and stores
into it with interrupts on, while every tick appends a thread behind that node.
It works all the same when no thread ends: by the time the thread that stopped
there runs again, the queue has gone round once and the same node is last.
`Cursor` proves it for any number of threads.

The other runs expect a violation, each of one sentence of the documentation
(`src/Aprasas.doc`) or of a comment:

| Run | What TLC finds |
|---|---|
| `lost_thread` | `addThread` links a new thread behind one that has returned meanwhile |
| `leftovers` | `clearMessages` skips messages, and frees the node of one that stays in the list |

Found while modelling and described here only, with what shows it:

- `handleTimerEvent` saves `Heap::currentHeap` into the thread it leaves
  (`TaskManager.cpp:229`).  A tick between lines 71 and 73 of `createProcess` leaves
  kmain with the new process's heap, which line 73 then makes its own for good:
  `MCTaskManager` with one process, `AllocatesAtHome` fails.  `TaskManager.cpp:69` says
  the heap is switched for the new thread only.
- `switch_thread` pushes the next thread's flags (`thread_asm.s:30-31`) before it loads
  that thread's page directory (34-35), so through the directory of the process it
  leaves, whose memory it overwrites: two processes, `StackWritesStayHome` fails.
- `split_chunk` (`heap.c:307-322`) takes a length with a header, subtracts it from one
  without in `uint32_t`, and puts the new chunk behind the old one.  A freed large
  block that is asked for again with its length gets a header into its last eight
  bytes: `MCProcessHeap` with `Lengths = {16, 40, 100}` and `MaxAddr = 250`, `BlocksApart` fails.
- Once a thread has ended with a tick while `current_thread` was NULL, page 0 holds registers of a dead thread, and `remove`
  read through NULL (`TaskManager.cpp:199`) is a byte of its `ebx` (`thread_asm.s:10`).  If it is not zero, a
  second tick at this place clears the messages of an id it reads from a dead stack, which may be one of a
  thread that lives.  `MB!Spec` itself, without the exception, fails in the `kernel` run, with two threads that
  return; the exception says that nothing worse happens to the messages.
- Two threads that create threads at once can get one id (`tid++`): `UniqueIds`
  fails with two `Spawners`, which is why `lifecycles` and `kernel` have one creator.
- A header that crosses a page end (`heap.c:153-155`) is written before the next page is mapped again (158-167) and
  loses what it has there to the fresh frame.  Its chunk can then be free, and is given again while its
  block is held: `BlocksApart` fails in the `heap` run without the exemption of `torn`, after three blocks of 10 and
  one of 45 a chunk begins at 125, three bytes before a page end.  As long as lengths are multiples of eight it does not happen
  (`AlignedNeverFaults`).  In the page tables the same store has put the page into the TLB, and `map` replaces its
  entry without `invlpg` (`vmm.c:159`): with `Aligned = FALSE`, `TlbCoherent` and `ImplementsSpaces` fail (one
  process is enough).
- A tick inside `createProcess` brings the creator back with the kernel's directory: the constructor then maps
  `HEAP_START` over the page of the kernel's heap (`TaskManager.cpp:64`, `heap.c:77`), and the stack is looked for
  there.  With `Undisturbed = FALSE`, `SpacesWhole`, `TlbCoherent`, `NeverFaults` and `ImplementsSpaces` fail; `FramesApart` and
  `NothingLeftMapped` were found to hold (one process, 15 frames), with `Aligned = FALSE` too.
- `kernel_malloc` never finds a freed block.  `curr += curr->size` moves by eight
  times the size, and the search starts at `current_address`, behind everything
  that was ever given: with one caller and `Size = 7`, `FoundWhenFree` of `MCKernelHeap`
  fails, although `Aprasas.doc:118` (section 4.2.1) describes a list that is searched, with
  free neighbours merged.  When memory is spent the walk leaves the arena.  A rest
  shorter than a header is given one across the end (`overrun`), where the bitmap
  of `pmm.c` begins.
- Two calls of `kernel_malloc` that interleave get overlapping blocks:
  `ImplementsAllocator` and `EndsWhenSpent` fail with `Exclusive = FALSE`.  In the
  kernel that is built only kmain allocates; `Program1` receives, which frees.
- The keyboard misreads: bytes that are ignored count in `length`, so after PAUSE or
  PRINTSCREEN the next sequence of several bytes is not begun at rest, and the release of
  PRINTSCREEN after its own press is read as MULTIPLY and SHIFT released; the release of a key
  that is not in the table (GUI, or LESS beside the left SHIFT) leaves `pressed` false, so the next press
  is a release; LESS and then SHIFT are read as PRINTSCREEN, which swallows two more bytes.  Releasing one of two
  SHIFTs unmarks the other, which is still held, and the listener hears SHIFT released (`crossed`).  That every
  key is heard, without `rested`, fails in the `keyboard` run, and so does recovery
  while PAUSE or GUI are struck among the others for ever.
- The end of a thread frees the heap it shares with its creator
  (`TaskManager.cpp:210`): `freed` gets the heap of threads that still run.
- Two interleaved calls of `pmm_alloc_page` return the same page: with
  `Exclusive = FALSE` `PageHasOneOwner` fails.
- `map` clears page 0 instead of the new page table (`vmm.c:155`: `memset` gets
  the table's first entry as the address).  With memory that is not zero at boot
  (`Dirty` all of it) the table keeps what was there, and `NeverFaults`,
  `FramesApart` and `ImplementsSpaces` fail; `spaces` is the machine the kernel was
  written on, an emulator that starts with zeros.
- Two creators in the kernel's space would map their directories at the same two
  pages (`vmm.c:88`), which are fixed.
- Two printers: a cursor tested by one and moved by the other passes the width or
  the height (`Console.cpp:79`), after which `==` never holds again and `NeverBeyond` fails.
- `kprint(unsigned)` has room for nine digits before its pointer leaves the array
  (`Console.cpp:100`); a number of ten digits is written in front of it.
- The data block of a received message is never freed (`IPC.cpp:63`), so the megabyte
  of kernel memory ends after enough messages;
  `receiveMessage` on an empty list reads through NULL (`IPC.cpp:69`, the action
  `receiveNothing`); the loop at `pmm.c:105` marks indices 1 to `skipped` and never
  index 0; every new heap chunk maps a page, also when the next one is mapped
  already (`taken` in `ProcessHeap`).

### Bounds

- Threads: four.  Every pairwise race of the scheduler needs one thread in
  `addThread`, one at the end of the queue, and one more to rotate past them.
  Threads are not symmetric (`Main`, who spawns, who returns), so no symmetry is used.
- `MaxSent` 4: the walk of `clearMessages` looks one node ahead and skips one;
  four nodes hold every pattern of match and skip with a node of another thread
  on either side.
- `Units` 6, `BootPages` 2 (three in the code): three pages to give, so that the
  index can stand before, between and behind freed ones, and the panic is
  reached.  `_first_free_index < Units` in `Scan` keeps a scan that has run past
  the last index, possible only when calls interleave, from going on for ever.
- `spaces`: five entries per table are the fewest that keep the low table, the
  heap, the temporary pages and the two recursive entries apart.  `Last` 17 gives
  the kernel, two processes and three heaps their frames, and several for chunks that map a page
  again, up to the last one that fits.  `HeapPages` 2 has the page a heap stands in and the one behind
  it, which is all that one chunk distinguishes.
  The processes are interchangeable, and `ProcessSymmetry` says so.
- `console`: two columns and four rows, so that a scroll by three leaves one row
  to check; `MaxScrolls` 1, from any contents and any place of the cursor.
- `MaxAddr` 200 with pages of 64 bytes: chunks begin at several places of three
  pages, cross one or two page ends, and up to eight of them exist.  `Word` is
  2^16 instead of 2^32 and only has to exceed the lengths.
- `kernel_heap`: `Size` 14 with headers of two bytes and lengths 1 and 3 ends in a rest of
  nothing, of less than a header, and of less than a block, after up to four blocks.
- `keyboard`: one key or more of each kind of sequence (one byte, extended, not in the table,
  PAUSE, PRINTSCREEN), and SHIFT, whose code PRINTSCREEN contains; `LINE_SIZE` 2 instead of 78;
  `MaxDown` 2 lets a key go down while another is held.
  All of `SHIFT`, `RSHIFT` and `RCONTROL` are struck, so that a value is shared with a held key and
  a code comes with and without E0.
- `kernel`: three threads, of which two return, so that page 0 is used when the second ends, and `MaxSent` 3, so that two messages for one thread and one
  for another can stand in any order around a `clearMessages`.
- `CHECK_DEADLOCK FALSE` stands where the kernel may panic or halt, where a
  bound ends the behaviour, and nowhere else.

### Fairness

- `TaskManager`: `WF(Timer)`, the PIT ticks as long as the kernel runs; and for
  each thread `SF(ThreadStep(t))`: a thread that gets the processor again and
  again executes its next instruction, since a tick is many instructions long.
- `IPC`: `WF(Switch(t))`, which the scheduler's `EveryThreadRuns` justifies, and
  `SF(receiveMessage(t))`: a thread that is switched to again and again comes
  round to its receive loop, as `Program1` does.
- `PhysicalMemory`: `WF(Step(c))`, a call that has begun goes on.
- `Console`: `WF(Loop(p))`, a printer in the middle of `kprint` goes on.
- `Keyboard`: `WF(handleKeyboardEvent)`, the interrupt comes while bytes wait; that keys are
  struck again is the premise of `Recovers`, not fairness.
- `RoundRobin`: `WF(Rotate)`, implied by the timer's.  `ProcessHeap`,
  `KernelHeap` and `Kernel` have none.

## The proofs

TLAPS checks the following for every number of threads, spaces, messages, pages,
frames, cells and keys held, under the assumptions named in the modules and the
hypotheses named here.  Every invariant, action property and refinement of the runs
is among them; what needs fairness is not.

- `TaskManagerProofs`: `Typing`, `SoundQueue`, `DeadStayOut`, `ThreadsRunAtHome`.
  `QueueSound` is not inductive: that appending `current_thread` keeps the list
  free of rings depends on no node being linked from two places and on a thread
  under construction being linked from nowhere.  The invariant `Inv` adds
  `Chain` (the queue reached from the head ends and no two nodes share a
  successor), `Apart` (the running thread, those in the hands of `addThread` or
  of the handler, and the queue are disjoint), `Private` (what nobody has seen
  yet is referred to by its creator only), `Ending` and `Owned`.
  The queue is defined as the least set closed under `next`; that it ends is a
  pigeonhole argument on a finite injection (`QueueEnds`).  `AtHome` adds the
  address spaces.
- There also, with threads that return: `OwnHeaps` (`HeapInUse`: only `Main` is in
  `createProcess`, and whoever else runs has its own heap in use) and `Once`.  As long as none
  returns (`Returning = {}`, for `lost_thread` shows what happens else): `Cursor` and
  `NobodyLost`, from `Lasting`: every thread that was made is in the round, and the
  end that a walk has found is the thread that runs just before the one that walks; and
  `ListIsQueue`, the safety half of `RefinesRoundRobin`, with `Fair`, which follows from it.
  `ReadyList` is defined by the recursive function `Hop`.  That it reads the queue from
  its head to its end, each node once, needs an induction on the number of links followed; it is made with sets
  (`Least`: a set of numbers that is not empty has a least element, from the
  library's `WFMin`; `Inductive`), in place of the induction theorems that take an operator.
- There also, for `Kernel`: `Delivery`, that the scheduler and the message passing together
  implement `Mailbox`, when only `kmain`'s thread makes threads (`Spawners` at most `Main`; with
  two creators ids are not unique, as said above).  The invariant `Together` adds to `Inv`: `Ids`, an id is
  given to one thread and is below `tid`, `remove` is set only for a thread that is at its end; and
  `Letters`, the list is sorted, holds nothing that was taken, and names no thread before
  `addThread` linked it.  So the store that links a thread opens an empty box (`LinksOpens`), what `isRunning`
  finds is one thread with a box (`SendDelivers`), a tick that begins to remove a
  thread a second time closes nothing (`ClearCloses`), and clearing the messages of an id found on page 0 takes
  them from one thread and from nobody else (`AstrayLoses`): ids are unique, whichever it is.
- `IPCProofs`: `Typing`, `NodesStay` and `Refinement`, that `IPC` implements `Mailbox`.  The
  invariant is that the list is sorted by number, that what it holds was not
  taken, and that it holds messages only for threads that run or have ended;
  one lemma per action maps it to an action of `Mailbox` or to a stutter.
  `Order`, `Addressee` and `Conservation` are what a caller gets from it, stated of the list
  itself: what a thread took was sent in that order, was sent to nobody else, and an accepted
  message leaves a box only by being taken or with its thread.
- `PhysicalMemoryProofs`, under `Exclusive`: `OwnersAreUnique`, `Limits`,
  `NoFalsePanic`, `ExactBitmap`.  The invariant says, for each place in a call,
  which bits are set, and that every index below the first free one is set.
- `ProcessHeapProofs`: `Separation` and `NoLeak`, for every page size, size table
  and set of lengths.  The invariant `Good`: chunks are pairwise apart, end below
  `current_mem_addr`, cover everything below it, have their list's size, and are
  marked exactly when one block of at most their length is held.  It says
  nothing once a freed large block has been looked for (`recycled`) or a header was lost (`torn`): from there
  `BlocksApart`, described above, shows what happens.  `Mapping` adds
  that the pages up to `current_mem_addr` are mapped and none behind them; `NoFault`, that a header
  that begins at a multiple of its size lies in one page, for which the page has
  to hold a whole number of headers (`PageSize % Header = 0`; the code has 4096 and 8), so `torn` is not set
  before a large block of another length was asked for; and `NoFreshPage`, under the same hypothesis, that the page which is
  mapped again holds nothing of a block or a header, `Ends` putting all of them in front of `current_mem_addr`.
- `VirtualMemoryProofs`: `WholeSpaces`, `Coherence`, `Apart`, `Unmapped`, `NoFault` and
  `Refinement`, at every step of `map`, `unmap`, `create_page_directory`, `createProcess` and the heap, and under every switch.
  The hypotheses `Aligned` and `Undisturbed` are those without which TLC finds them violated, as said above; `Aligned`
  is what `NoFault` of `ProcessHeapProofs` gives for lengths that are multiples of a header, `Undisturbed`
  is not what the code ensures.  The hypothesis `Dirty \subseteq {0, 1}` is that the memory which is handed out is zero at
  boot, without which the properties fail (see `vmm.c:155` above).  None of the
  properties is inductive.  The invariant has two parts.  `Heaped` is about the heaps: whose turn it is inside
  `createProcess` (`Turns`), and that the page a chunk is about to map was never touched (`Tidy`), which is why
  mapping it again loses nothing.  `Owning` is that `Sound(own)` holds for some `own`, which says that a map `own` from
  frames to roles exists: a frame is the directory of one space, one of its tables, one of its pages, or was
  taken by a thread to become a page.  A store through one role then changes nothing that is
  reached through another, which carries `Whole` (a finished directory), `Building` (how far
  the unfinished one is, by `pc`), `NewMapped` (what the two pages for it show) and `Calling`
  (what `map` has found) over every step of the other threads.  `TlbKnown` is what `NoFault` and the
  refinement need of the TLB.  `Ownership` and `Persistence` are `OneOwner` and
  `KeepsData` of `AddressSpaces`, read from the tables.
- `KernelHeapProofs`, under `Exclusive`: `HeadersStay`, `FreedStay`, `SpentAtTheEnd` and
  `Refinement`.  The invariant `Inv` has one number, `base`: below it every byte is in a
  block that was given or in its header, and the last header is there; `Progress` says
  where `current_address`, the headers and the caller's variables stand at each place of the call under way, while
  others may free.  `EndsWhenSpent` then follows by counting the bytes.
- `KeyboardProofs`: `Typing`, `Hearing`, `Table`.  The invariant follows the bytes of the
  last stroke: `Untold` (what is still on the wire and where the decoder is fit
  together, and nothing was heard), or `Told` (what is left will be ignored).
- `ConsoleProofs`, for one printer (`Alone`): `CursorStays`, `StoresStay`, `OnPaper`.
  `CursorOnScreen` is not inductive: `Places` says, for each place in the loop,
  how far the tests passed so far confine the cursor, strictly inside the screen
  at the store, which is why it stays inside.  `OnPaper` has one lemma per
  statement of the loop: a scroll moves three rows from the screen to `gone`
  and leaves the sheet as it was.

Only model-checked: everything with fairness (`EveryThreadRuns`, `Delivered`,
`AllocationReturns`, `Returns`, `Recovers`, the liveness half of `RefinesRoundRobin`), which the prover
does not do; and what `Merged` computes, a fold, which would need induction over data.

## The plan

What is done is above.  What is left: `ProcessHeap` with calls that interleave, on one
heap shared by threads.

### Not modelled

- `Launcher` (`kmain.cpp:150-190`) would create threads from the keyboard's
  interrupt; `kmain` has it commented out and registers no listener.
- The rest of `Interrupts.s`, `IDT.cpp`, `PIC.cpp`, `PortIO`, `loader.S` and the GDT: single
  instructions and tables that are written once, without behaviour of their own.
- `InterruptHandler` and `TSS`: not called.  `common.c`: memory and string copies.
- The conversions of numbers to digits in `Console.cpp`.
- The commands to the keyboard at boot (`readByte`, `writeByte`, the constructor).
