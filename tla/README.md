# NEXS: TLA+ models, checks and proofs

NEXS is an interpreted language whose programs live in a *registry* (a tree of
typed keys that can also carry message queues), together with a small kernel
that runs the same registry on bare metal. This directory holds TLA+ modules
translated from the source, the configurations that model-check them with TLC,
and theorems that TLAPS proves for every value of the constants.
`PROJECT.json` lists the components, the runs, the source lines each definition
stands for, a plausible bug for each property that the property catches, the
hazards the properties are aimed at, and the theorems.

    tlc -workers 2 -config MCSched.cfg MCSched      # a run
    tlapm SchedProofs.tla                           # a proof

Paths in this text are those of the repository below `src/`.

## 1. Inventory

| component | state | operations | hard behaviour | what makes it correct | modules |
|---|---|---|---|---|---|
| processes, scheduler (`kernel/proc.c`, `sched.c`, `ctx_*.S`) | level queues with tails and counters, `g_current_proc`, saved contexts, `/proc` keys | create, destroy, block, unblock, yield, tick | preemption inside the interrupt handler, first switch, removal of the current process | queues hold exactly the live processes; no thread is resumed twice; turns are taken in the order of the queue | `Sched` |
| timer (`hal/amd64/apic.c`, `hal/arm64/timer.c`) | interrupt pending or not | ISR, acknowledgement | the acknowledgement comes after the callback, which may switch away | acknowledged exactly once | `Sched` |
| block cache (`kernel/blk.c`) | 256 buffers, device table, `/dev/blk` keys | register, read, write, sync, evict | full cache, failing or missing driver, power loss | a read returns the last write | `BlkCache` implements `BlockStore` |
| journal (`kernel/journal.c`) | write position, transaction flag, commit count, records on disk | init, begin, log, commit, checkpoint, replay | crash at any point, also in replay; wrap-around | a crash undoes an open transaction whose records are on the device | `Journal` |
| IPC queues (`registry/reg_ipc.c`) | per-key queue in memory, or a pipe | init, send, recv, pending, enable_pipes | fork, several readers and writers of one pipe, a process killed in the middle | messages arrive once, whole and in order | `RegIpc`, `Eval` |
| hosted processes (`sys/sysproc.c`) | the OS's processes | rfork, exec, exits, await, sleep, alarm | every process has its own registry after a fork | what a process sends itself survives the fork | `RegIpc` |
| buddy allocator (`core/buddy.c`) | tree of node states | alloc, free | fragmentation, sizes at the edges | blocks are disjoint; a request is refused only if it cannot fit | `Buddy` implements `Heap` |
| page allocator (`core/pager.c`) | page slots or a bump pointer | alloc, free | exhaustion | pages are disjoint | |
| values, arrays (`core/value.c`, `dynarray.c`) | reference counts, capacities | clone, free, push, pop, insert | arrays shared by values | freed once, after the last use | `Values`, `Eval` |
| registry (`registry/registry.c`) | tree of keys, scope stack, key count | set, get, delete, move, mount, bind, pointers, scopes | subtrees relinked by hand, mounts into their own source | it is a tree; a path names what was set there; a key's path leads back to it | `Registry` implements `Namespace`; `Eval` |
| VFS (`kernel/vfs.c`) | descriptor table, inodes and mounts in the registry | open, read, write, seek, dup, mount | full table, inode published before failure, one table for all | a descriptor refers to the file it was opened on | `Vfs` |
| messages, system calls (`kernel/msg.c`, `syscall.c`) | `/sys/kernel/inbox`, reply queues | dispatch loop, handlers | answers into full queues, calls of several processes in any order | every request is answered | `Kernel` |
| 9P server (`fs/9p.c`) | fid table | version, attach, walk, open, read, write, clunk | client-chosen fids, descriptors shared with the system calls | a fid keeps its file | `P9` |
| images, FAT (`fs/regfs.c`, `fat.c`) | disk sectors | save, load, read | half-written image | load returns what save wrote | |
| hosted descriptors (`sys/sysio.c`) | `g_fd_table`, `/sys/fd` keys | open, create, read, seek, close, dup, pipe | files and built-in texts share entries, streams copied by dup | a stream has one holder; the list is right | `Sysio` |
| language front end (`lang/lexer.c`, `parser.c`) | position in the text | scan, parse | look-ahead and pushing back, precedence, newlines that end statements or do not | nothing is lost; trees are grouped as the table says; the parser ends | `Lexer`, `Parser`, `Syntax` |
| evaluator (`lang/eval.c`, `fn_table.c`, `builtins.c`) | scopes in the registry, function table, call depth, named arrays | statements, expressions, calls, builtins | errors, break, cont and ret through nested calls; arrays counted by hand | calls leave nothing behind; nothing in use is freed | `Eval`, `Session` implements `Frames`; `Strings` |
| line editor, REPL (`runtime/nexs_line.c`, `main.c`) | line, cursor, history ring, kill buffer, terminal mode | every key, raw on and off, the prompt | bytes, characters and columns; cut escape sequences; ring at its limit | what a user sees is what the next key edits | `LineEdit`, `Repl` implements `EditedLine` |
| compiler (`compiler/`) | files being generated | scan, generate, drive cc | cycles of imports | each file once | |
| HAL bytecode (`hal/bc`, `hal/module`) | stack, memory window | load, step | stack limits, jumps | stays inside its bounds | |
| boot, MMU, interrupt controllers, UART (`hal/`) | hardware registers | init | none that is not the hardware's | | |
| libc replacement (`kernel/libc_stub.c`) | none | string functions | none | | |
| services (`services/*.nx`) | registry keys | scripts | written in NEXS | | |

How they interact. The timer interrupt calls `sched_tick`. The dispatcher of
`msg.c` takes requests from an IPC queue of the registry, runs the handlers of
`syscall.c` (which call `proc.c`, the VFS and the registry) and answers into the
queue of the caller; the 9P server opens and closes descriptors of the same VFS
table. The block cache publishes its dirty state in the registry; the journal is
a client of the block cache, and nothing calls the journal yet. In hosted mode a
line goes from the editor to the scanner, the parser and the evaluator, which
keeps its variables in the registry, its arrays behind reference counts and its
descriptors in `g_fd_table`; `nexs_rfork` copies all of it with the process and
then upgrades the queues to pipes. Everything allocates with the buddy allocator.

The hazards this gives rise to are listed one by one, at their lines, under
`hazards` in `PROJECT.json`.

## 2. Modules

### Sched (`kernel/proc.c`, `kernel/sched.c`, the context switch, the timer ISR)

A queue is the sequence that `s_queues[l]` and the `next` pointers spell; that
`s_tails[l]` is its last element is taken for granted. The
public calls are the actions `proc_create`, `proc_destroy`, `proc_block`,
`proc_yield`, `sched_unblock_waiting` and `timer_isr`; each contains the
`sched_tick` it ends in, and `sched_tick` contains `publish_state`, the pick with
its rotation, the state changes and the context switch. What runs on the CPU
(`cpu`) is kept apart from `g_current_proc`, because the first tick sets
`g_current_proc` without loading a context; the next switch then saves the boot
thread into the first process's context. `irq_open` and `in_isr` follow the
acknowledgement: a thread that is switched out inside the callback still owes it.

Abstractions: a context is the thread it belongs to (no registers); `s_tick` is
kept modulo its period; calls are atomic with respect to the timer. The last
one leaves a real interleaving out (`sched_add` and `sched_remove` do not mask
the interrupt): what a torn list does depends on the order of stores the compiler
chooses. It is a hazard without a property.

`SchedTurns` adds a history to it: `passed` has the pairs of processes of which
the first was given a turn while the second waited for one. `NoOvertaking` says that
the first has no second turn before the other has one.

### BlockStore and BlkCache (`kernel/blk.c`)

`BlockStore` is the promise: `content` is what a reader sees, `durable` what the
devices hold, blocks are written back whenever the store likes, and a value is
lost only in a crash or to a device that does not work; `Sync` puts everything
written to a working device on it. `call` remembers which block the last call was
about and what it returned, so that an answer for the wrong block is not a step. `BlkCache` is the code:
slots, clean-before-dirty LRU eviction, the device table with its limit, drivers
without read or write functions, the ignored result of `write`, the registry's
dirty keys and a power loss. Stamps are kept as the order they induce, which is
all the comparison in `cache_evict` sees. Devices are external; those in `Faulty`
may fail any call. The refinement mapping is `Store` in `BlkCache`.

### Journal (`kernel/journal.c`)

Runs on the store that `BlockStore` promises (a block may reach the device at
any moment), which is how the two components compose: what `BlkRefinesStore`
proves of the cache is what `Journal` assumes. A header keeps what
`journal_replay` looks at. `journal_replay` is one action per turn of its loop,
so that a crash can happen between any two of its writes. A commit that makes a
checkpoint resets the positions and enters the phase `"sync"`: the blocks then reach
the device one at a time (`write_back`, in the order of the cache's buffers, which may
be any), a crash may come between any two of them, and `blk_sync_returns` when none
is left. The two blocks of one record enter the cache in one step. A failing device read
is an alternative of `journal_log` and of both reads of the replay loop. Writes to the
device do not fail here (the block cache would ignore it if they did). The
client is external (the repository has none): it logs a block before it writes
it, inside a transaction, and boots with `journal_init` and `journal_replay`.

### RegIpc (`registry/reg_ipc.c`, `sys/sysproc.c`)

Hosted mode. Each process has its copy of the queues; a queue is in memory or on
a pipe. A value goes through a pipe in `PARTS` pieces, one per `write` or `read`
call, which block when the pipe is full or empty. `nexs_rfork` copies the queues;
parent and child then each run `reg_ipc_enable_pipes`. A process other than the
first may end at any point, in the middle of a message too.

### Heap and Buddy (`core/buddy.c`)

`Heap` is the promise of a first-fit heap of aligned power-of-two blocks;
`Buddy` is the tree and its two recursive searches, and implements `Heap`. Both
remember the size that was asked for, so that an answer to a different request is
not a step.

### Namespace and Registry (`registry/registry.c`)

`Namespace` is the promise: a map from paths to values, one action per call, mount
and bind in one step. It also says where the promise stops: after a move onto a
taken path (the code adds a second child of the same name in front of the
first), and for keys whose path is longer than `REG_PATH_MAX`, which no lookup
reaches. `Registry` is the code: keys with parents, ordered children and a copy
of their path, `strtok` and `strchr` skipping empty names, paths cut off at their
limit, the textual test in `reg_move`, and `reg_mount` as a stack of frames that
reads the very lists it extends. `call` is the call being served, in both
modules, so that the effect of one call cannot pass for that of another; `named`
is the refinement mapping, `View(key)` except while a mount is at work.

A path is a sequence of names, each short enough for its field (`NAME_LEN`,
`registry.c:36`, `:470`: a longer one would be cut); rights, the queue of a key and `total_keys` are
left out (no code reads the last one; `reg_unmount` counts a key it removes down
twice). Keys that a call has freed and still reads hold what they held: the pool
of `core/buddy.c` keeps its state outside the blocks. Deleting the root is
excluded by `CallAssumption`. A call that makes keys waits for `Room`, where
`xmalloc` would end the program. `reg_move` has no caller in the repository and is
modelled as the API offers it.

### Vfs, P9 and Kernel (`kernel/vfs.c`, `fs/9p.c`, `kernel/msg.c`, `kernel/syscall.c`)

`Vfs` has one operator per function of `vfs.c`, each with a last argument `r` for
the value it returns; a file's data is its length. `P9` extends it with the fids
and one operator per message type that changes state. `Kernel` composes both with
the message path: a process puts a request into `/sys/kernel/inbox`, `dispatch` is
one turn of the dispatcher (take a message, drop one that cannot be decoded,
run the handler, send the result unless the caller's queue is full), and the
process takes the answer from its own inbox. Between these steps the 9P client
and the other process do theirs, on the same descriptor table. Neither the
dispatcher nor the 9P loop is started by the repository; both are modelled as
what they do when they are.

The table has no owner and the code checks none, so the clients are programs that
keep to what they were given: they close, and duplicate onto, only descriptors
they hold (never one onto itself, which `vfs_dup` would leave closed), and wait
when `QUEUE` of their requests are unanswered. `held`, `waiting` and the inode of
a fid are history; what an answer hands over (`AnswerNone` for none) stands for
the number in it. `sys_exit` destroys the process and closes none of its
descriptors, as the code has it. Left out: `exec`; an interrupt in the middle of
a handler; a `:` inside an argument (`strtok` would shift the fields); answers
cut to the size of a buffer; and a `msize` below 11, from which `Tread`'s bound
would wrap around.

### Sysio (`sys/sysio.c`)

One entry of `g_fd_table` holds a path, a stream, and the text of a file the
program was built with. The actions are `nexs_open`, `nexs_create`, `nexs_close`,
`nexs_pread`, `nexs_seek`, `nexs_dup` and `nexs_pipe`, with what they publish
under `/sys/fd`. A stream is the address of a `FILE`, which a later `fopen` may
get again; a second `fclose` of one that `dup` copied aborts the program
(`running`). `shared` is history. What a stream delivers, and its position, are
the C library's; so a read through a dangling copy is not in the model, only the
second close of it is.

### Lexer, Parser, Strings and Syntax (`lang/lexer.c`, `lang/parser.c`, string builtins)

`Lexer` is `lexer_next` as a function of the text and a position: blanks,
comments, numbers, strings with escapes, names, keywords, paths with their
look-ahead, operators. `Parser` is the whole recursive descent: `parse(rule, min,
p)` dispatches the rules that call each other, a parser state is the tokens not
yet read and a status, and the status `"hang"` stands for a loop that no longer
reads anything. `Strings` has the string builtins over sequences of characters.
`Syntax` makes a state machine of texts being typed, so that TLC enumerates them,
and states the front end's promises from the other side: `ShowExpr` and
`ShowStmt` write a tree with only the parentheses precedence asks for.

Left out: the digits of floating-point numbers, numbers beyond 64 bits, strings
beyond `MAX_STR_LEN`, and the wording and line numbers of messages.

### Values, Eval, Session and Frames (`core/value.c`, `core/dynarray.c`, `lang/eval.c`, `fn_table.c`, `builtins.c`)

`Values` has the operators, conversions and comparisons. `Eval` is the
tree-walking evaluator over the trees of `Parser`: an interpreter is a record
(registry paths with values, queues, arrays with their counts and buffers, named
arrays, the function table, the current directory, call depth, the counter that
names scopes), an evaluation returns the interpreter, a signal (`none`, `ret`,
`break`, `cont`, `err`) and a value. Calls push a key `/local/<fn>_<n>`, bind the
parameters in it, evaluate, and delete it; `reg_resolve` walks the scope
outwards and then looks in `/fn` and `/sys`. Arrays keep the places behind their
size, because `arr_set` looks there. Each builtin on arrays, the registry,
messages and strings is an operator.

`Session` is `nexs_repl` as a sequence of lines. `Frames` is the promise:
variables and functions of a language with local and global variables and no
registry in sight. The refinement mapping reads the globals and functions off
the interpreter.

Left out: floating point, 64-bit overflow, texts used as numbers (`atoll`), names
and texts cut to their buffers, looking names up in modules, rights and mounts
(`Registry` has the mounts), queues that are pipes (`RegIpc`), `eval()`, `keys`
and the like, and what is printed. Printing a value that contains itself does not
end (`value.c`), so such a line ends a session. A function that is declared again
inside its own body frees the tree that is being evaluated (`fn_table.c:81`);
trees are values here, so no line does that.

### LineEdit, Repl and EditedLine (`runtime/nexs_line.c`, `include/utf8.h`, `runtime/main.c`)

`LineEdit` is the editor over bytes: decoding of UTF-8 and of escape sequences
with their timeouts, every key, the history as a ring, the kill buffer, and the
column the cursor is left in. `Repl` adds the prompt and the terminal's mode with
its two owners, the editor and the builtins `rawon` and `rawoff`. `EditedLine` is
the promise in characters: a line with a cursor, the lines before it newest
first, the line that was left to look at them, and what was killed. What is typed
comes in bursts, after each of which the reads inside an escape sequence time
out. `nexs_line_read` copies an entered line into `char line[1024]` of `nexs_repl`,
while the editor's buffer holds 4095 bytes (`Copied`, `LINE_SIZE`): a longer line is
remembered and run cut, in `EditedLine` too. When the cut is inside a character, the
mode becomes `"torn"` and the model follows the program no further.
Lines fit into the terminal; completion, the commands after `:` other than
exit, `readkey` and the fallback for an input that is no terminal are left out.

## 3. Runs

| run | what it shows | distinct states |
|---|---|---|
| `sched` | queues, contexts, acknowledgements and the ends of processes stay consistent under every order of calls; no process has two turns while another of its level waits for one | 439,219 |
| `blkcache` | no block is cached twice, a clean buffer is on its device, the dirty key covers the cache, and `BlkCache` implements `BlockStore` | 106,830 |
| `journal` | replay restarted after crashes converges and ends; the open transaction's records stay intact and, once on the device, undo it, with crashes inside a checkpoint and stale records of other blocks too | 698,912 |
| `regipc` | a private queue is FIFO through a fork; a shared pipe is safe for one writer and one reader; a receive that began on a private pipe does not block | 1,600,364 |
| `buddy` | the tree implements `Heap` | 12,863 |
| `registry` | the keys form a tree, a key's path leads back to it, `Registry` implements `Namespace`, calls return, also on overlapping paths | 106,604 |
| `kernel` | a descriptor given to a process or a fid stays open on its file and nobody else's; a path has one inode; no answer is lost | 416,912 |
| `descriptors` | `/sys/fd` lists what is open; a stream has one holder unless `dup` copied it; a built-in text is read only through its own path, except by the ends of a pipe | 1,135,071 |
| `syntax` | the scanner loses nothing and blanks mean nothing; the parser groups as its table says, ends but for one named case, and lines stand alone; `split` and `arr_join` undo each other, and agree with `replace` where the separator occurs once | 64,627 |
| `session` | variables and calls implement `Frames`; calls leave no scope, depth or directory behind; every array has as many counts as references | 15,204 |
| `session_slots` (violation) | an array is left with one count for two references, so that the next of them to go frees it under the other | |
| `repl` | the editor implements `EditedLine`; the cursor is on the screen where the next key acts; the terminal is given back; nothing is claimed of Ctrl+D | 43,468 |

Bounds and why they are enough.

- `sched`: three processes on one level (`proc_create` gives all of them priority
  128): the smallest queue with a head, a middle and a tail, so that every case of
  `sched_remove` and of the rotation happens. Two wait paths make a wake-up that
  finds nobody. `PublishEvery = 2` has both outcomes of the throttle.
- `blkcache`: two buffers and three blocks force evictions with every mix of clean
  and dirty; one device that works and one that may fail; two registrations of
  any devices in any order fill the table, so that a third is refused and one
  device may be registered twice. Values and blocks of one device are symmetric;
  the invariants and the refinement treat them alike.
- `journal`: two records on disk and three per boot wrap around and overwrite;
  a checkpoint every two commits; two crashes, so that a replay itself crashes and
  records of an earlier boot are met again;
  one failing read per behaviour. `MaxRecords` and `MaxCrashes` are bounds of the
  model, hence no deadlock check.
- `regipc`: three processes (a grandchild inherits the pipes its parent made, which
  is the only way a pipe becomes shared), one path, two messages, a queue of two,
  a pipe that fills up after two messages, three sends in all. The processes
  other than the first and the messages are symmetric. What a process was doing
  when it exited and the histories of its queues are left out of the states that TLC
  compares (`View`): no step and no property looks at them. Deadlock is not checked:
  all processes may be blocked on full or empty pipes, as in the code.
- `buddy`: eight leaves give a tree four levels deep; every size from 0 to one
  above the pool and every address.
- `registry`: two names and paths of at most two of them, so that a path, one
  below it and one too long to grow all occur. Sources have up to two children;
  mounts, binds and unmounts go over another path, one below the source and one
  above it, and unmount over the source itself; a move may end in a slash. Keys
  are set while there are at most three (`Grown`), and a behaviour has one move
  and one mount or bind (`MaxMade`), with any number of deletes and unmounts.
  `MaxKeys` only has to leave `Room`, the keys one path may need, before a call that
  makes some: with 13 it always does, or the run would report a deadlock.
- `kernel`: two processes, one of them with the administrator's capability, and a
  9P client with two fids share five descriptors, two of which are free, so that
  the table fills up; the root and one file, three inodes; the inbox and each
  answer queue hold one message, so that both are at their limit; three calls and
  three 9P messages (`MaxCalls`, `Max9P`), enough to open, dup and close, to
  remove and create again, and to reopen a fid. Ends when they are used up, hence
  no deadlock check.
- `descriptors`: five entries, two of them free, so that `pipe` and `dup` meet a
  table with two, one and no free places; two streams, the number `pipe` needs; a
  built-in text of one byte, so that reading reaches its end; two dups
  (`MaxDups`). The program may be aborted by the C library.
- `syntax`: every text of up to four characters over thirteen that take every
  branch of the scanner (a path, a digit after a slash, a comment, an escape, an
  operator of two characters, ...), and up to seven words of vocabularies that
  each lead into one part of the grammar; a text of words is extended only while
  the parser has not given up on it (`Viable`, the constraint of the search).
- `session`: five lines of 25 that are chosen to interact: a recursive function
  and a redefinition of it, one with an error in its loop, parameters named as
  globals, arrays inside arrays, in keys, in queues and behind pointers; call
  depth 3, so that recursion meets its limit, queues of two. `MAX_FN_DEFS` leaves
  room for three of the four functions besides the builtins, so that a declaration
  meets a full table and must leave everything as it was. The run
  deletes items with `arr_del` and writes no place behind a deleted item;
  `session_slots` does, with four lines of five.
- `repl`: five bursts of single keys and of pairs typed fast, over characters of one
  byte and one of three bytes and two columns, every escape sequence a key may be
  sent as and two that are cut short; a line of at most five bytes and a history
  of two, both of which fill up; `LINE_SIZE = 5`, so that the longest line is cut, at
  the end of a character or inside one.

Fairness. `sched` assumes none: it says in which order turns are taken, not that
they come. `journal`
assumes that the loop of `journal_replay`, which runs alone during boot, takes
its next turn. `registry` assumes that the interpreter goes on with a call it has
made. No other run assumes any.

### Finding

`session_slots`: `builtin_arr_del` shifts the items behind the deleted one to the
left by copying them and decrements `size` (`lang/builtins.c:498`-`510`). The last
item's value stays in its old place behind the end, without a count of its own,
and `arr_set` frees whatever lies in the place it writes (`core/dynarray.c:91`).
So with

    b = arr_create_anon()
    a[1] = b
    arr_del(a, 0)
    a[1] = 5

the array keeps one count, while `b` and `a[0]` both refer to it: the next of the two
to be deleted or assigned to frees it under the other. It contradicts
the "Mach-style refcounting" of `core/include/nexs_value.h:67`. In every other
order of the lines tried, `NoDanglingArrays` holds (`session`).

### Observations

Where the code does less than one might expect, the models follow the code and
the properties say what does hold:

- `sched_pick_next` tests only the head of each level (`sched.c:93`), and the head
  may be the RUNNING process itself: one process is created and gets its first turn,
  then a second one is created behind it, and no tick or yield ever picks it, as long
  as the first neither exits nor is blocked and woken. `sched.c:2` and `:9` say
  "Round-robin scheduler" and "picks head of highest non-empty level". No property
  claims that a READY process gets the CPU; `NoOvertaking` is what the order of the
  queue does give.
- `sched_tick` makes the process it leaves READY whatever its state was
  (`sched.c:119`), so `proc_block` blocks a process only until the next switch;
  `BlockedIsCurrent` is proved.
- Data records are written with commit byte 0 and `journal_replay` looks at each
  record's own byte (`journal.c:134`): a replay after a crash takes back committed
  transactions whose records have not been overwritten, too. A checkpoint does not
  change that: it starts over at position 0 and leaves the records in place
  (`journal.c:146`, where the comment says "old entries no longer needed"), so a crash
  after it, or after a reboot that wrote a few records, restores the old contents
  again; and of two records of a block the stale one, further back, wins.
  `journal.c:7` says that replay "re-applies uncommitted ones". `OpenTxnUndone` is
  about blocks without a stale record (`NoStaleRecord`).
- `reg_ipc_enable_pipes` runs after `fork()` in both processes (`sysproc.c:98`) and
  each calls `pipe()` for itself: only a queue that was on a pipe before the fork
  is shared by the two (compare the comment in `reg_ipc.c:13`).
- `reg_get_deref` returns the value of a key that is no pointer
  (`registry.c:346`).
- A request with an empty argument cannot be decoded, since `strtok` skips empty
  fields, and gets no answer; `AnswersAccountedFor` leaves those aside.
- Newlines after an `if` block are skipped in search of an `else` and not given
  back, and the argument loops of `sendmessage`, `receivemessage`, `msgpending` and
  of `ls` in an expression do not end at an error: `LinesStandAlone` and
  `OnlyMessageCallsHang` name exactly these cases.
- The standard descriptors carry the inode numbers 1 and 2 (`vfs.c:58`), which
  `ino_alloc` also gives to the first two files (`vfs.c:28`): a duplicate of
  descriptor 1 writes to the first file. `Vfs` has it so; the special cases for the
  descriptors 0, 1 and 2 hide it in all other calls.
- `sys_pipe` reads `/sys/pipe_seq` (`syscall.c:173`), which nothing increments.
- `replace` changes the first occurrence only (`builtins.c:251`, `:263`), while
  `README.md:188` offers `replace(s from to)` as "Replace all occurrences".
  `StringsComeApartAndTogether` speaks of `replace` only where the text occurs once,
  when the two agree.
- Ctrl+D does nothing: the byte 0x04 becomes `NXK_CTRL_D` (`nexs_line.c:389`), which
  `nexs_line_read` does not handle, and the key it does handle, `NXK_EOF`
  (`nexs_line.c:835`), comes from the end of the input alone (`:208`). The comments
  give Ctrl+D both meanings, to delete the character at the cursor (`nexs_line.c:682`,
  `:841`) and to end an empty line (`nexs_line.h:50`, `:64`). `EditedLine` leaves it
  open: the key may do what the comments say or nothing (`Meanings`).
- A line of more than 1023 bytes is cut where it is copied (`nexs_line.c:829`, into
  the array of `main.c:57`), if need be inside a character, and is run and remembered
  so.
- `nexs_close` leaves `emb_src` in the entry, `nexs_pipe` takes the entry and does not
  clear it (`sysio.c:269`), and `nexs_pread` looks at it before the stream
  (`sysio.c:173`): an end of a pipe may be read as the built-in text of the file that
  was open there before. `TextOfItsPath` exempts the ends of pipes.
- The results of a driver's write (`blk.c:61`) and of `reg_ipc_send` for an answer
  (`msg.c:92`) are ignored: a device that fails loses writes without notice, and a
  process that leaves more requests unanswered than its queue holds loses answers.
  `CleanIsOnDevice` and `ImplementsStore` exempt such devices, and the clients of
  `Kernel` wait.

## 4. Proofs

The proof modules hold for every value of the constants, under the assumptions
named in the modules.

`SchedProofs`. Assumptions: priorities are in 0..255, the publishing period is
positive, `None` and `Boot` are not processes. The inductive invariant `IInv` is
the conjunction of the properties of the run with the types, with
`RunningIsCurrent` and `BlockedIsCurrent`, and with three facts the steps need: an unused control block has its own fresh
context (else `proc_create` would reset a context that holds a suspended
thread), and the current process and every destroyed one were created. Each of
`Append`, `RemoveAt` and `Rotate` gets a lemma saying which elements it leaves in
the queue; `RotateSound`, `RemoveSound` and `AddSound` lift them to the statement
about all levels, and `TickStep` covers the tick that five actions share.
`SchedNoOvertaking` proves `NoOvertaking`, which is about the past of the queue, from
`PassedInv`: whoever waits since another's turn is before it in the queue of their
level, if both live. Appending, removing and the rotation keep the order of any two
others (`BeforeAppend`, `BeforeRemove`, `BeforeRotate`), and the process that a tick
picks is the head, so nobody is before it. Destroyed processes and those not created
yet are in no queue, and a control block is used once, which is why both parts of a
pair must have been created.

`BlkCacheProofs`. Assumptions: there is at least one buffer, blocks belong to
devices, the error result is not data. `IInv` is the conjunction of the run's
invariants with the types and `StampsDistinct`: they are inductive together and not alone (`cache_evict` needs the
stamps to be total, the flush needs blocks to be unique). `BlkRefinesStore`
shows `Spec => ImplementsStore`: the initial states map to initial states and
every step, under `IInv` before and after it, is a step of `BlockStore` or a
stutter; `ReplaceContent` is its core: an eviction changes what a reader
sees of no block but the one inserted, unless its device does not work.

`JournalProofs`. Assumptions: the journal holds at least one record (with none,
the code divides by zero; `journal_init` does not check), a checkpoint comes after
some positive number of commits. `IInv` adds to the run's invariants what they
rest on: the write position is at most the number of records since boot; during
a replay the journal's own blocks are already on the device; the records of the
open transaction are the last ones before the write position; there is no gap
before it; a block not logged is unchanged, and the first record of a block holds
its old value. Three arguments carry the proof. A replay does not change the
journal's blocks, so restoring a record now or later gives the same end result
(`TurnSkips`, `TurnRestores`), and a block written back early has either a record
or its final value already (`WriteBackStep`). Records fewer than `s_n_blocks`
apart are in different places (`LbaDistinct`). And when the records before the
write position are on the device and no stale one of the block is left behind it, the
one record of the block is the last one a replay meets (`Undone`); this holds for any
other stale records, after any number of checkpoints and reboots, and for a device
on which a sync was cut off anywhere.

`SysioProofs`. Assumptions: at least one descriptor besides the standard three;
the built-in texts have a length and a path that is a file's; addresses, names
and `None` are told apart. Each operation gets a lemma about what it does to one
entry (`OpenEffect`, `DupEffect`, `CloseEffect`, `PipeEffect`, `PlaceEffect`), from
which three inductive invariants follow. `ListInv` needs that an entry not in use
is not listed. `TextInv` needs the place to be in the text also in entries that are
not in use, because `nexs_pipe` takes such an entry with its text; it gives
`TextOfItsPath` (`FilesReadTheirText`), which exempts the ends of pipes for the same
reason.
`HolderInv` says without cardinalities that a stream `dup` has not copied has at
most one holder and is open exactly when it has one, and adds `LowHigh`: only
`dup` brings a stream of its own to descriptors 0, 1 and 2, which are never
closed, or takes theirs elsewhere; `HoldersCounted` gets back to the cardinality.

`KernelProofs`. Assumptions: those of `Vfs` and `P9` on the sizes of the tables
and the root path. `NamesAreUnique` is about the composition: whatever clients,
dispatcher and 9P server do in whatever order, two inodes never have one path.
The invariant adds that only inodes given out by `ino_alloc` have names
(otherwise publishing could overwrite one, and `path_to_ino`, which looks below
`next_ino`, could miss one). `NameStep` is what any step does to names: nothing,
publish one that was not found, or take one away; each handler and each message
type is shown to be such a step.

`NoAnswerIsLost` (assumption: the length of a queue is a natural number) is about
the three queues a call passes through. `AnswersInv` joins to the property that a
process never waits for more than `QUEUE` answers, which `client_send` keeps: then
the answer queue of a process has room whenever one of its requests is still in the
inbox, and the dispatcher never drops an answer. The counting is done without
induction: `CountAppended` and `CountTail` say what appending to the inbox and
taking its head do to the number of a process's requests in it, the second by the
bijection that shifts positions by one.

`DescriptorsKeepTheirFile` (no further assumption) is `HeldFdsKeepTheirFile` for any
number of processes, fids and descriptors. What is
held changes hands on its way (client, request that gives it back, dispatcher,
answer, client again), so `HoldInv` says who has a descriptor at each moment: a
client, an answer under way, a fid, or a request that will close it or duplicate
onto it. It says that what anyone has is open on the file it was opened on
(`HoldersLive`), that two never have the same (`OneHolder`, which is stronger than
the property by the requests), and that no request duplicates a descriptor onto
itself (`vfs_dup` would leave it closed). `HandlerTable` and `P9Steps` say what a
call or a 9P message does to the table, and `Served` and `P9Serves` bring all of them
to one form: one descriptor is touched, and nobody has it but the request, or the
fid, that is being served.

`RegIpcProofs`. Assumptions: at least one piece per value, room for one piece in a
pipe, one message in a queue; `Garbage` is no message, and the missing queue and the
missing pipe (`NULL` and -1 in the code) are no queue and no pipe. All three
properties of the run are theorems, for any processes, paths, messages and sizes.
The invariant `IInv` first says who can be on a pipe: a pipe belongs to the process
and path it was made for, that process keeps it, everybody else has it from a fork
(`PipesOwned`), a pipe not made yet is unused (`PipesNew`), and only processes that
have a pipe use it (`UsersKnown`). What a pipe holds is said by `Stream`: with one
writer and one reader, the pieces of what was written are those of what was read, then
some a reader holds, those in the pipe, and some a writer still owes; a process killed
in the middle of a message keeps its part for good, so `InOrder` asks about everyone
who ever used the pipe, dead or alive. `MemoryFifo` and `PrivateLinked` tie the
histories of a process to its queue and to its own pipe, before and after
`reg_ipc_enable_pipes`; `Polled` says that who receives alone has found a piece. None
of these follows from the three properties, which only speak of idle processes, of
whole messages and of the pipes as they are now. `StreamFirst` to `StreamLast` are the
four ways a piece goes in or out, `StreamDrained` the new pipe, `StreamBetween` and
`StreamWhole` what an idle and a receiving process find; they rest on arithmetic about
which piece of which message is at a place (`SplitUnique`, `SplitExists`). Five
actions touch no pipe and go through `QuietPreserves`; a fork never makes a queue
private (`ForkPreserves`), and new pipes start in order (`UpgradePreserves`). TLC
checked `IInv` on the instance of the run with two sends before it was proved.

`ReplProofs`. Assumption: a terminal sends whole characters, the bytes of a key
included, and the lines of earlier sessions were typed on one. `CursorIsOnScreen`
proves `CursorOnScreen` for any characters of one to four bytes and of one or two
columns, any bursts, any lines and any sizes. The inductive invariant `OnScreen` is
the property in every mode, `Apart`: no character of the line lies across the
cursor, and `Editors`: the line, the killed text, the lines of the history and the one
that was left are all made of whole characters (`Whole`), because any of them may be
put back into the line. It rests on three arguments. Columns add up at a place that
is apart (`ColumnsSplit`, `ColumnsBetween`) and only there: `visual_cols` decodes
from the beginning, so at a place inside a character the parts may take more columns
than the whole.
Every way to move keeps the cursor apart: over characters (`PrevApart`,
`NextApart`), over words (`OverWordApart`), and for the word that `kill_word_back`
takes, whose loop goes byte by byte through characters, because it ends at the
beginning or behind a blank (`BlankApart`). And what is cut out, put in, exchanged
or trimmed at such places is whole again (`WholePart`, `Joined`). `Whole` lets a byte
that continues no character stand for itself, and so every end of whole text is
whole (`AfterWhole`): an escape sequence that swallows the first byte of a character,
as ESC before one does, leaves bytes in the line that are no character, and the
cursors stay together over these too. TLC checked the invariant first, with such
bursts among the keys.

`TerminalIsGivenBack` proves `TerminalGivenBack` for any keys, lines and
commands. Raw mode has two owners, the line editor and `rawon`, each with a flag and
a kept mode of its own. `TtyInv` says what each has kept: `rawon` a cooked terminal,
since it never runs while a line is read, and the line editor, while one is read,
what the commands asked for last. So the editor may find raw mode on, keep that as
the mode to go back to, and still leave the terminal right.

`RegistryProofs`, with its invariants and the other terms it speaks in by themselves in
`RegistryTerms`. Assumptions: those of `Registry` on the calls (paths as callers
spell them; the root is neither deleted nor moved), distinct names of the keys of
`reg_init`, at most 1024 keys (beyond, the explicit stacks of
`regkey_free_recursive` and `regkey_update_paths` may overflow and drop keys, which
the model leaves out). `KeysStayATree` is `TreeShape`, and with it `TypeOK`, for any
names, values, calls and sizes. The property is about what can be *reached*, a
recursive function that no backend computes with, so the invariant says the same
without it: `Rooted`, every set of keys that has the roots and with a key its
children is the set of all keys. `SubtreeSound` ties the two together: what
`Subtree` reaches is the least such set, and the turns are enough because every turn
but the last adds a key. `Forest` has a *set* of roots, because between
`regkey_detach_child` and `regkey_add_child` the registry is two trees: `Detached`
makes a key a root, `Attached` makes it a child of a key that is below another root,
`FreedRoots` frees trees of their own. In `reg_move` this is the whole argument: the
key to move is a root by itself while `reg_mkpath` walks, and whatever that finds or
makes is below the registry's root (`MkPathSound`, `Below`), so a key never becomes
its own ancestor; the slip `RegMove_parent_first` looks first and breaks it.
`NoCycle` (no key is among its ancestors) shows that emptying a key for `reg_bind`
or `reg_unmount` does not free the key itself. A frame of `reg_mount` holds keys
across the calls to itself that make more keys; they stay, since a mount frees none.
Recursive functions over a path or a list (`LookupSteps`, `MkPathSteps`,
`SubtreeSteps`, `PathsSteps`, `UnmountedSound`) are shown to exist for every length
by one lemma, `Counted`: a set that has 0 and with a number the next one has all up
to the length. The rest is about lists: taking an element out or putting one in
keeps each of the others once.

`PathsLeadBack` is `PathLeadsBack`, which only asks about keys that some path leads
to and is not inductive. `Right` says of every key that it carries the path of its
parent and its own name, cut to the size of the field; a path of names that leads to
a key is then the one it carries (`FoundCarries`). `Right` has the roots of `Forest`
left out, so that the key `reg_move` carries about, with its old paths below it, is
excused until `regkey_update_paths` hands the new ones down (`UpdatePathsRight`: the
new parent is not below the key, and what is not below it has no parent there). A
path may be cut at every level: `CutTwice` says that cutting above changes nothing
below. `Aimed` is about the frames of `reg_mount`: each is over the very key whose
path it puts in front of names, while deeper calls add keys. The theorem has a
hypothesis on the calls, `Unslashed`, which all of the run but its moves to `/b/`
fulfil: the path to which a key is moved, or over which one is mounted or bound, does
not end in a slash.
Otherwise it is not so: `reg_move` onto `/d/` makes a key without a name, and a mount
over `/d/` gives new keys paths like `/d//x`, which lead back until one is so long
that it is cut, a name too early. Sources, and the paths of `set`, `delete` and
`unmount`, may be spelled either way.

`CallsKeepThePromise` is about the calls of `ImplementsNamespace` that do their
work in one step: a `reg_set`, `reg_delete`, `reg_move` or `reg_unmount` of a
path as `Namespace` spells them, and a mount or bind of a source that is not there,
is asked for and served as `Namespace` promises, whatever calls, mounts and binds of
other kinds came before (assumption `AbsentAssumption`: `Absent` is no value). What
ties the two together is `Seen`: between calls `named` is the view of the tree
(`View`), the first key of each name that a lookup finds, and as long as nothing is
`shadowed` no two children of a key share a name (`Distinct`). `Busy` says which
frames a call under way has. The lemmas say what becomes of lookups when the tree
changes: what `reg_mkpath` adds is seen and hides nothing (`SeenAfter`), a key taken
out of its parent's list takes what is below it (`Unhooked`), and only that as long
as its name was its own, an emptied or an unmounted key keeps its place (`Emptied`,
`Bared`), and a moved one is seen with all below it at the new path and nowhere else
(`Moving`).

`NamespaceIsImplemented` is `ImplementsNamespace` for all calls whose paths are
sequences of names within the limit (`Spelt`: no slash at the end, not too long, no
move to the root), of any number and in any order. What it adds is the copying of
`reg_mount` and `reg_bind`, which goes on for many steps on the lists it extends and
is promised as one step. Until the first frame returns, nothing of it is seen, and
`Copying` says what is true all along. `Start` is the view the copy begins with: the
destination has been made, and emptied by a bind. `Kept`: nothing is lost, and
nothing changes that is not below the destination. `Laid` ties each frame to the two
paths it stands for, `Piled` says that a frame on top of another is over a longer
path, which has not been there before. The rest counts down. `Owes` is the names
that a frame has still to come to, `Copied` says that a new path holds what the
source had there unless a frame owes a name above it, `Due` that what is owed has
not been made, `Overlaid` that of the children the destination had only the values
may change, and only when they are not owed. A turn (`Turned`, the same for
`MountNext` and `MountMirror`) writes one value and strikes one name off, and makes
over all that is owed below it to the frame it puts on top (`PromiseGoesDown`); a
turn that puts none has nothing below it to copy. This is all for a destination that
is not below its source (`Field`); otherwise, and once a key has been shadowed,
`Namespace` promises no contents, and `Kept` and `Laid` are what is left to show.
The argument needs `PathsRight`, since a frame's child must have a name, and
`Distinct`, since a name that comes twice would be struck off once. A bind of a path
over one it is below has freed its source and is over at once (`Unbound`); a bind of
a path over itself has nothing to copy.

`path_to_ino`, `fd_alloc` and other searches return a least number by `CHOOSE`;
that it exists is taken from the library's theorem on well-founded relations
(`LeastNumber`), which needs no operator as a parameter.

Theorems without a run of their own: the types, `RunningIsCurrent`,
`BlockedIsCurrent` and `StampsDistinct`, the parts of the inductive invariants
that a reader may want by themselves. They are true by the proof; the runs check
the properties that rest on them.

Only model-checked: all liveness (`ReplayTerminates`,
`CallsReturn`); `Buddy`, the front end and `Eval`, whose recursive operators are
beyond the prover; and what the line editor makes of the text in characters. With them
`ImplementsHeap`, `ImplementsFrames` and `ImplementsLine` stay with TLC, and so do
the paths of `ImplementsNamespace` that end in a slash, which the run moves from and
to. A caller's path that is longer than the limit is in no run and no theorem about
`Namespace`, which has no such paths. That a mount ends at all is `CallsReturn`, and
not proved.

## 5. Not modelled, and why

- Hardware programming (boot, MMU, interrupt controllers, UART) has no state of
  its own a property could be about; registers and stacks of a context switch are
  below the model.
- The page allocator hands out pages and takes none back that others could see;
  the libc replacement is string functions; the compiler makes one pass over its
  input; the services are programs of the language.
- `regfs.c` copies a registry subtree to a file and back in one pass, and `fat.c`
  reads a foreign layout: conversions of data without state between calls.
- The HAL bytecode machine runs programs that no tool of the repository writes,
  and its memory operations are the hardware's.
- `exec`, `await` and `sleep` of hosted processes replace or wait for a whole
  process, of which nothing here keeps state.
- What the models of section 2 leave out is said there, per module. In short:
  floating point, 64-bit overflow and fixed-size text buffers; preemption inside
  a kernel function; rights in the registry; the positions and contents of
  streams.

What could be added next: `sched_add` and `sched_remove` split at their stores
with the tick in between, for a given order of stores; the queues of `Eval` on
pipes, which would compose `Eval` with `RegIpc`.
