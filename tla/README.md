# A TLA+ model of plibsys

plibsys is a portable C library: threads, locks, inter-process objects, containers,
sockets, hashes, one API with an implementation per system. This directory holds TLA+
modules for the parts whose correctness depends on interleavings, crashes, the order of
system calls or long sequences of calls, the TLC configurations that check them on small
instances, and proofs that TLAPS checks for every instance. `PROJECT.json` lists the runs,
what each definition models (file and lines), the mutants that show each property can fail,
the hazards, the findings and the theorems.

Paths below are relative to the repository's `src/` directory. A build compiles `lib/*.c`,
the directory of its system under `os/` and, where a system lacks a primitive, one of the
alternatives in `tmp/`. Public functions start with `z`.

## Inventory

| Component | State it keeps | Operations | Talks to | What is hard |
|---|---|---|---|---|
| read-write lock, general (`tmp/prwlock-general.c`) | one mutex, two condition variables, counts of active and waiting readers and writers packed into two words | reader/writer lock, trylock, unlock | mutex, condition variable | lost wake-ups, barging, spurious wake-ups, failing primitives, 15-bit counters |
| read-write locks of the systems (`os/{posix,solaris,win}/prwlock-*.c`) | a native lock; on Windows XP a packed word and an auto-reset event | the same | kernel, atomics | decisions on a word read earlier; an event set before the exchange |
| mutexes, condition variables (`os/*/pmutex-*.c`, `os/*/pcondvariable-*.c`) | a native object, a semaphore and a count (XP), a list of suspended threads (BeOS, AtheOS, AmigaOS), an event and a flag (OS/2) | lock, trylock, unlock; wait, signal, broadcast | kernel | a wake-up between unlocking and sleeping, signals stolen or merged |
| atomics (`lib/patomic-c11.c`, `tmp/patomic-*.c`) | a word; a mutex in the simulated build | get, set, inc, dec, add, and, or, xor, compare-and-exchange | compiler, mutex | loops around compare-and-exchange, plain stores |
| spinlock (`lib/pspinlock-c11.c`, `tmp/pspinlock-*.c`) | a word or a mutex | lock, trylock, unlock | atomics | when the holder's stores become visible |
| named semaphore, POSIX (`os/posix/psemaphore-posix.c`) | kernel: name and counter; process: handle, ownership flag | new (open or create), take ownership, acquire, release, free | kernel names | several system calls per operation, kills between them, a name rebound meanwhile |
| shared memory, POSIX (`os/posix/pshm-posix.c`) | kernel: name, segment and its size; process: mapping, ownership flag, a semaphore | new, take ownership, lock, unlock, free | named semaphore | two name spaces that must agree, creation races, recovery after a crash |
| System V objects (`tmp/psemaphore-sysv.c`, `tmp/pshm-sysv.c`, `lib/pipc.c`) | two key files, two kernel ids, ownership flags | as the POSIX ones | files, ftok() | removal and re-creation while in use, undo after a kill |
| shared memory buffer (`lib/pshmbuffer.c`) | in the segment: read and write position, bytes; in the process: a size | new, take ownership, read, write, clear, space queries, free | shared memory | unsigned arithmetic at the wrap, kills between copy and publish, handles of different size |
| threads (`lib/puthread.c`, `os/posix/puthread-posix.c`) | a counted structure per thread, a creation lock, a thread-local key made on demand | create, exit, join, current, ref, unref, local keys, shutdown | pthreads, atomics, spinlock | the thread starts before its structure is complete, reference counts, the race for the key |
| threads of AmigaOS, BeOS, OS/2, Windows (`os/*/puthread-*.c`) | a table of keys and destructors; on AmigaOS also slots, identifiers and a list of threads | local keys and their destructors, exit, join | kernel | keys registered while a thread ends, identifiers that start again, a join that races with the end |
| trees (`lib/ptree*.c`) | nodes with parents, colours or balance factors | insert, remove, lookup, foreach, clear | caller's functions | balance after every removal; traversal that rethreads the links |
| hash table, list (`lib/phashtable.c`, `lib/plist.c`) | chains | insert, lookup, remove, keys, values | none | collisions, order of the two lists |
| cryptographic hashes (`lib/pcryptohash*.c`) | a buffer, counters, the running hash | update, finish, reset, digest | none | block boundaries, carries of the counters, padding that needs one block more |
| INI parser (`lib/pinifile.c`), strings (`lib/pstring.c`) | sections and parameters | parse, lookups, lists | files | the last section, repeated keys, blanks |
| sockets (`lib/psocket.c`), errors (`lib/perror.c`) | descriptor, flags, timeout | new, from descriptor, bind, connect, listen, accept, send, receive, shutdown, close, waits | kernel | blocking made of non-blocking, signals, two readers, failures between two system calls |
| socket addresses (`lib/psocketaddress.c`) | family, host, port, flow, scope | new, any, loopback, to and from the system's structure | getaddrinfo() | builds without IPv6 or its extra fields, order of bytes |
| library start and end (`lib/pmain.c`), memory, files, directories, processes, libraries, time | | | | straight lines or one system call |

## Modules

| Module | Models |
|---|---|
| `RWLock` | what a `PRWLock` promises: many readers or one writer |
| `RWLockGeneral`, `SyncProofs` | `tmp/prwlock-general.c` with the mutex and condition variables below it, and the theorems about it |
| `RWLockOS`, `SyncProofs` | the locks of four systems, a second implementation of `RWLock` |
| `PCondVariable`, `SyncProofs` | mutexes and condition variables of eight systems |
| `AtomicWord`, `PAtomic`, `SyncProofs` | what the atomic operations promise, and six builds of them |
| `PSpinLock`, `SyncProofs` | five builds of the spinlock with the memory it guards |
| `PosixSemaphore`, `PosixIpcProofs` | `os/posix/psemaphore-posix.c`, one name, one step per system call |
| `PosixShm`, `PosixIpcProofs` | `os/posix/pshm-posix.c`; extends `PosixSemaphore`, whose steps run inside its own |
| `SysVIpc`, `SysVIpcProofs` | `tmp/pshm-sysv.c` over `tmp/psemaphore-sysv.c` and the key files of `lib/pipc.c` |
| `BoundedFifo`, `ShmBuffer`, `ShmBufferProofs` | what a `PShmBuffer` promises, and `lib/pshmbuffer.c` over one segment and its lock |
| `UThread`, `UThreadProofs` | `lib/puthread.c` and `os/posix/puthread-posix.c` |
| `UThreadOS`, `UThreadOSProofs` | what AmigaOS, BeOS, OS/2 and Windows do themselves |
| `PHashTable`, `PIniFile`, `PSocketAddress`, `StructureProofs` | the hash table, the INI parser with its strings, and addresses, against what a caller expects of them |
| `PTree`, `PCryptoHash` | the trees and the digests, against reference definitions |
| `PErrors`, `PSocket`, `PSocketProofs` | the translation of error codes, and sockets on three kinds of system with the kernel's side |
| `...Proofs` | the theorems about the modules named in the same row |
| `MC...` | instances for TLC; the constants are in the `.cfg` files |

`MCSync`, `MCIpc`, `MCObjects` and `MCProgress` put modules that share no state side by side: the
variable `part` says which one a behaviour is of, and the others stay as they began.
Nothing is interleaved between parts, so what is checked of each is what a run of its own
would check. The other `MC` modules serve the runs that end in a violation.

Operators named in a comment "Mutant: ..." are variants of the definition that follows
them, changed the way a slip in the code would change it. No specification uses them.

### RWLockGeneral

`active` and `waiting` are the two packed words as records of their fields; `SetReaders` and
`SetWriters` wrap and spill like the macros. Everything between `zmutex_lock()` and the next
wait or `zmutex_unlock()` is one step, because every access to the shared fields is under
the mutex. Taking the mutex, falling asleep (which gives it back), waking, taking it again and
giving it back are steps of their own. `readCv` and `writeCv` are the sleepers; a signal
removes one, a broadcast all, a spurious wake-up any. `Faults` names the primitives that may
report an error; `RegularNext`, on which the fair specification is built, is `MonitorNext` without
the steps in which one does. `held` is the caller's knowledge: it changes in the step that decides the
call's result. Callers follow `prwlock.h`: no recursion, matching unlocks. `zmutex_unlock()`
does not fail for the owner of a live mutex and its error path is left out, as are allocation
failures in `zrwlock_new()`.

### RWLockOS

The Windows XP lock is modelled read by read: `Load` reads the word and decides, `Take`,
`Park`, `Unpark` and `Give` exchange it against what was read (`seen`), `ExchangeFails` starts
over, `SetEvent` and `Awake` are the auto-reset event. The yields of the spin phase change
nothing and are left out. POSIX, Solaris and Vista forward to a lock that is external.

### PCondVariable

One mutex and one condition variable per system; a call is the sequence of its visible steps
(`cpc`, and `todo` for the nodes a broadcast has still to resume). `owed` and `must` count
what signals and broadcasts owe; the code has neither. `UnlockedOn` says where callers also
signal without the mutex, which the headers allow. On XP the count of waiters is a plain
variable, so the run keeps callers there under the mutex. `Processors = 1` is a scheduler that
does not show a running thread as ready, on which BeOS's `resume_thread()` loop depends.

### AtomicWord, PAtomic, PSpinLock

`AtomicWord` is one operation, one step, on a word of `WordBits` bits. `PAtomic` refines it with the loops of DEC C and old
Windows compilers and the mutex of `tmp/patomic-sim.c`; builtins and interlocked instructions
are one step. `PSpinLock` gives each thread a buffer of stores that become visible in any order,
in every build.

### PosixSemaphore, PosixShm, SysVIpc

The kernel's part is modelled from the calls the code makes: a name leads to at most one
object, an object lives while it has a name or a user, a killed process loses its handles and
nothing else, except that System V gives back its units (`SEM_UNDO`). `EINTR` loops are one
step. `semInit` is the value each semaphore was created with, one of `InitVals`, `semLost`
counts units that died with their holder and `seized` remembers that some process removed or
claimed a name it had not created; the code has none of them, they only serve the properties.
A handle is freed by a process that holds no unit. In `PosixShm` the constants `ConcurrentNew`
and `CrashAnywhere` say whether the calls of different processes overlap and whether a process
may be killed inside a call; `Usages` of `SysVIpc` says the same.
In `SysVIpc` a key is the inode of a key file, and a removed file's inode is used again.

### ShmBuffer

The lock is a single holder, which is what `PosixShm!LockExcludes` gives when creations do
not overlap. Copying and publishing are separate steps. One segment exists at a time: the
name is created again after the last user of the old one is gone. `psize` arithmetic is
modulo `PSizeLimit`, so a negative free space becomes a large one, as in the code. The two
public space queries take the lock, evaluate `FreeSpace` or `UsedSpace` and change nothing.

### UThread, UThreadOS

A structure is identified by its thread and by how it came to be (`created` by
`zuthread_create_full()`, `adopted` by `zuthread_current()`). The proxy's pass through the
creation lock is one step that waits for the lock to be free. The thread-local key is read,
made and installed by compare-and-exchange in separate steps. The destructor the pthread
library calls is `Destructor`; `Gone` is the moment a thread can be joined. Only foreign
threads join, and `zuthread_shutdown()` is called when the others have ended, as `pmain.h`
asks. `lost` remembers structures that `zuthread_set_local()` could not store.
`UThreadOS` has the tables of destructors, which a thread goes through at its end while others
add to them, and AmigaOS's identifiers, slots and join; two keys, the library's and one of
the application.

### PTree, PHashTable, PCryptoHash, PIniFile, PSocketAddress

A tree node is named by the key it holds; every iteration of a balancing, traversing or
clearing loop is a step, and `content` is the set of keys a caller expects. Chains and lists
are sequences. A compression function is the sequence of blocks it was given, so digests are
compared by what went into them; only GOST's 256-bit sum is computed, word by word with the
carry the code finds. `total` and `swallowed` remember the true sum and whether a carry was lost;
`DigestOfMessage` speaks of messages for which none was, the run `gost_sum` shows one for which
one is. A line of an INI file is
what `sscanf()` makes of it. Addresses keep the bytes of ports and hosts, because the builds
differ in their order.

### PSocket

A thread is in one call at a time; each call is the steps between its system calls. A wait ends
with readiness (`WaitReady`), when its time has run out (`TimePasses`, `WaitTimeout`) or with an
error (`WaitErrs`); a signal begins it again with the whole timeout (`WaitInterrupted`).
`connect()` may answer with success at once, be interrupted, or leave the handshake under way, and
`zsocket_check_connect_result()` may be called at any time. Descriptors are numbers that the
system gives out again; ends of connections hold the bytes on their way. The bytes of a
direction are numbered, and callers send on from where the library told them they are. The
error codes pass through the tables of `PErrors`, on which the library branches.

## Runs

| Run | Instance | What it shows |
|---|---|---|
| `progress` | general lock: 3 threads, no faults, fairness; sockets: a client and a server thread, 3 descriptors, 3 bytes, 3 systems | no lost wake-up, nobody stranded; descriptors owned once, bytes once and in order, a blocked reader returns at the end of the data |
| `sync` | general lock: 4 threads, all faults; system locks: 3 threads; condition variables: 3 threads, 8 systems; atomics: 2 threads, 6 builds; spinlock: 3 threads, 5 builds; POSIX segment: 3 processes, calls overlap and fail | the general lock refines `RWLock` and counts exactly on the error paths too; XP refines `RWLock` and its word counts readers, writer and sleepers exactly; signals and broadcasts wake whom they owe; loops around compare-and-exchange are atomic; spinlocks exclude, and a holder sees the last holder's stores; nothing left under the name, mappings backed |
| `ipc` | 3 processes: POSIX semaphores of 1 and 2 units with all modes, owners and kills; a segment, POSIX and System V, calls not overlapping, kills outside calls; System V also 2 processes with overlapping calls | units conserved, the owner's name is its own; the lock excludes, a System V unit comes back after a kill; nothing left in the kernel |
| `objects` | 2 foreign threads and a worker, failures of thread and key creation; a main thread and 2 workers on four systems; 7 keys; 3 pointers in 2 buckets; blocks of 4 bytes, words modulo 32; 5 lines; 14 builds of addresses; 2 processes on 2 usable bytes, 1 may be killed | no use after free, no leak, one key, complete start; one slot per key, values destroyed once, unique identifiers, joins woken; each sequential part agrees with its reference after any calls; the buffer refines `BoundedFifo` |
| `semaphore_create` | 1 process | **violated**: `P_SEM_ACCESS_CREATE` on an existing name fails |
| `shm_race` | 3 processes, calls overlap | **violated**: two processes hold the lock of one segment |
| `shm_kill` | 2 processes, killed anywhere | **violated**: a kill inside `zshm_new()` leaves a name nobody can recover |
| `shmbuffer_sizes` | 2 processes asking for 1 and 2 bytes | **violated**: unread bytes are overwritten |
| `tree_destroy` | 3 keys | **violated**: the destroy functions get the pair that stays in the tree |
| `rwlock_xp` | 2 threads, Windows XP | **violated**: a writer sleeps on although the lock is free |
| `connect_early` | 1 thread, Unix | **violated**: a socket that is still connecting is reported connected |
| `gost_sum` | two blocks | **violated**: the sum of two blocks of all ones lacks a carry |

The eight violated properties are sentences of the public headers, and in the last run of a
comment, that the code does not keep; `PROJECT.json` quotes them under "findings".

**Bounds.** With three threads there can be a holder, a signalled waiter and a thread that
barges in, of either kind; four add two sleepers of each kind. Three processes are the
fewest that can pair one segment with two semaphores by overlapping calls without a retry.
A buffer of three bytes with writes of one and two wraps at every offset and gets full and empty.
A connection with room for one byte makes every send of two a partial one.
Kernel objects are one more than processes, so that one is always free; System V
identifiers outnumber what processes can remember. Two foreign threads and a worker race
for the key three ways. Seven keys reach every case of the rotations and of the removal
fix-ups, up to three levels. Updates of 33 bytes carry an 8-bit count of bits past a modulus
of 32 words, and blocks of four with two cells of length reach every padding. `MaxId = 1`
makes AmigaOS's identifiers start again while their holders live. `MaxRefs`, `MaxLost`,
`MaxDepth`, `MaxVal`, `MaxList`, `MaxNew` bound what the code leaves unbounded; `PSizeLimit`
is larger than any sum of legal positions.

**Symmetry.** Processes and the threads of the general lock are interchangeable, and so are foreign
threads and byte values; where two parts of a run have such sets, the same model values stand for
both, since no behaviour has steps of both. Kernel objects are not interchangeable, because a
fresh one is picked by `CHOOSE`. `progress`, which checks liveness, has no symmetry.

**Deadlock** is checked in every passing run. Where the system may really stop there is a step that
says so: every thread may wait for a signal nobody sends (`CondIdle`), a caller for a peer that
does nothing (`SocketIdle`), and the bounds end the behaviours of the structures, or a process
killed inside the lock of the buffer leaves it taken, which `psemaphore.h` documents
(`SerialIdle`). Any standstill of the read-write locks, of threads or of processes that make and
free objects would be reported.

**Fairness.** The lock of `progress`: some thread with an enabled step runs (the scheduler does not
stop the whole process), and a holder eventually unlocks (the contract of every lock). No fairness
among threads is assumed, so `NoSleeperStranded` does not promise that a given waiter gets the
lock: readers can overtake a waiting writer for ever, and the code does not prevent it. Its
sockets: a thread that is in a call and can take a step takes one (`CallStep` per thread), which a
preemptive scheduler gives. Signals may come each time a timeout is about to run out, for ever;
the peer and its bytes owe nothing, and no wait is assumed to fail (`WaitErrs`).

## Proofs

Eight modules prove what the runs check on small instances for every value of the constants.
Each theorem about a step invariant follows the same argument: an inductive invariant that
`Init` establishes and every action keeps (one lemma per action or family of actions), from
which the property follows. TLC checked every inductive invariant before it was proved.

**The general read-write lock** (`SyncProofs`), for every finite set of threads smaller
than the counters can count (`NoSpill`; 2^15 in the code), proves `CountersExact` and
`MutualExclusion` with every fault allowed, `NoLostWakeup` when no primitive fails, and that
every step is a step of `RWLock` or leaves `held` alone. `IInv` joins the properties with three
facts: exactly the thread that owns the mutex is inside a body (`MutexOwner`), only threads in a
wait loop sleep, on the condition variable of their call (`Sleepers`), and the call a thread
makes fits what it holds (`CallsMatch`). Exclusion follows from the exact counters: a lock
operation succeeds when it sees a zero, and a count is zero only if the set it counts is empty.
`WakeInv` strengthens `NoLostWakeup`: while readers sleep a writer is active or will pass the
lock on, and while writers sleep on a free lock a writer has been woken.

**The locks of the systems** (`SyncProofs`), for fewer than 2^15 threads
(`LockAssumption`, the width of a field of the word): the word of Windows XP counts readers,
writer and parked threads exactly (`WordNeverDrifts`), and all four locks implement `RWLock`
(`SystemsImplementRWLock`). Decisions are taken on a word read earlier; `DecidedOnSeen` says
what that word allowed, and an exchange that succeeds shows it is still the current one.

**Atomics** (`SyncProofs`): six builds implement `AtomicWord`, for any width and any number of
threads. In the simulated build the invariant is that the thread between lock and unlock owns
the mutex and what it read is still there; in the loops the exchange compares with what was
read, so nothing need be known about the value.

**Spinlock** (`SyncProofs`), for any number of threads and with stores that may always pass each
other: no two threads hold the lock in any build, and whoever gets it sees the last holder's
stores, except in the two builds that put the barrier after the freeing store, for which that is
false (see below). The invariant describes what a store buffer may contain (`BuffersFit`), that at
most one thread has the lock or has freed it by a store still in its buffer (`OneHolder`), and
what the counter is by then (`CounterFollows`).

**Condition variables** (`SyncProofs`), for any finite number of threads. `WakeupsNotLost`: on POSIX,
Solaris and Windows a signal wakes somebody; `BroadcastsRelease`: on POSIX, Solaris, Vista and
OS/2 a broadcast wakes all. The invariants count. Native: the wake-ups owed are at most the
threads that were released and have not left their sleep, and a thread a broadcast must wake is
one of them (`NativeInv`). Windows XP: the threads that sleep or failed to are as many as the
count and the semaphore's units together, and each wake-up owed has its unit unless a broadcast
has read the count and not yet released (`XpInv`); this needs callers that hold the mutex
(`XpHeld`, an assumption of `WakeupsNotLost` and of the run), since the count is not atomic. OS/2:
the count is exact, and a broadcast with a thread still to wake is at work (`Os2Inv`); it stops
only when it reads a count of zero. BeOS, AtheOS and AmigaOS are left to TLC: with more threads
than the run has, their lists do lose threads (see below).

**Named semaphores** (`PosixIpcProofs`), for any finite number of processes and any initial
values, with kills at every step: units are conserved, a semaphore of one unit is a mutex, and
as long as nobody resets or takes over the name its owner removes its own semaphore. The
invariant adds that handles exist exactly outside the calls that make and free them, that an
object nobody reaches is as new (`Reaped`), and that there is one owner at most (`OneOwner`).

**Shared memory, POSIX** (`PosixIpcProofs`), for any finite number of processes. However the
system calls of `zshm_new()` and `zshm_free()` interleave, and wherever processes are killed, a
handle never reports more memory than its segment has (`MappingIsBacked`), and without kills
nothing stays behind under the name (`NothingStaysBehind`). `ShmIInv` extends the semaphore's
invariant: where a process is in its `PShm` says where it is in its `PSemaphore` (`PhaseOf`); a
creator has still to give its segment a size, and who looked earlier read 0 and will give up
(`SegmentOf`); and while a name is bound and nobody is killed, somebody is there who will remove
it. With the constants of `Serial`, that is, creations that do not overlap and kills only
outside the calls, processes share a semaphore exactly if they share a segment (`SerialPairs`), and
the lock excludes (`SerialLocksExclude`). Both need `Serial`: the run `shm_race` refutes the second
for overlapping creations. `SerialInv` describes
the moments at which the two names disagree, while a creator has the segment and not yet the
semaphore (`Ahead`) and while an owner has removed the first name and not yet the second
(`Behind`), and says that all who have both handles have two that belong together (`PairOf`).

**Shared memory and its semaphore, System V** (`SysVIpcProofs`), for any finite number of processes
and more than twice as many identifiers (`SysvAssumption`; the kernel does not soon use one again).
Each action has a lemma that says what it does (`...Does`), so that the invariants are argued about
fields and not about records. `Base` holds in both usages: the kernel counts as attached exactly
the processes that have attached and not detached (`AttachedExact`). When calls overlap freely,
`NoKernelObjectLeft` follows from `Kept`: a live segment is attached or in the hands of a process
that will still attach, look or remove (`InHand`), and a live semaphore has a handle that will
remove it (`WillRemove`). For the disciplined use `Disc` says that one process at a time is in a
call that creates or frees, that what lives belongs to the key file there is and is the only one
(`SegsOne`, `SemsOne`), that a segment has its semaphore unless its creator, then alone, is about to
make it (`SegHasSem`), and that the unit is in the semaphore or with the one holder the undo
values record (`Unit`). `SysvLockExcludes` and `SysvUnitKept` follow: an owner is alone when it
frees, so a semaphore that somebody uses is never removed or set again.

**Shared memory buffer** (`ShmBufferProofs`), for any number of processes, any size and length, any
byte values, and kills at every step: the buffer implements `BoundedFifo`
(`BufferIsFifo`), and copying bytes in leaves the unread ones alone (`WritesKeepUnread`). Both
need `SizesAgree`, that all who pass a size to `zshm_buffer_new()` pass the same one; without it
the run `shmbuffer_sizes` refutes the second. `BufferIInv` says that both positions lie in the
segment, whose size every handle knows (`SizePart`), that only the holder of the lock is inside a
call (`LockPart`), and that what a reader has copied out is what lies at the front, while what a
writer has copied in lies behind the unread bytes and leaves one byte free (`CopyOf`). `Wrap` and
`Places` turn the remainders into additions: the places counted from the read position are all
different, so a write that fits meets no unread byte. A process killed after the copy leaves the
bytes behind the write position, where they are not part of the stream. The assumption that
`psize` can hold twice a size and a length keeps the unsigned subtractions exact.

**Threads** (`UThreadProofs`), for any number of foreign threads and workers and any failures: no
use after free, no leak, one thread-local key, no start before the structure is complete, and
joins that return the thread's code. The heart of `IInv` is `StructureOf`: from the moment the
creator has filled in the structure, its count is the references of the application, plus one
while a creator or a join has it in hand, plus one while its thread has it; before that moment
the creator holds the lock and the thread waits at the barrier.

**Threads of other systems** (`UThreadOSProofs`), for any number of workers, slots, identifiers and
values: one slot per key, distinct identifiers, joins that wait only for a thread that has
still to signal, and values destroyed exactly once. `KeyPart` says that every destructor but the
last is registered for the slot its key has, and that the last is either registered too or
about to be published by the thread that holds the mutex. `Accounts` splits the values a thread
stored into the one in its slot, the ones given to the destroy function once, and the
overwritten ones; `PassOf` says what a pass over the destructors leaves behind: values that a
destructor called in this very pass has stored, which on AmigaOS makes the number of passes
smaller than the number of values stored. So the theorem about values needs, for AmigaOS only,
that no thread stores more values than there are passes (4 in the code); TLC refutes it
otherwise. OS/2 is left out of `ValuesDestroyed` (see below).

**Sockets** (`PSocketProofs`), for any number of threads and descriptors, any size of the system's
buffer and any calls the threads may make, on one client, one listener and one accepted socket
at a time. `StreamsIntact`: what readers got is what the sender was told, in order and once,
even if `close()` fails. Its invariant `Streams` says that the bytes on their way to an end are
numbered on from what its readers got, that two ends name each other as peers, and that an end
that is not connected has neither a peer nor bytes; so a byte a thread missed because another
was faster is simply further on in the other's count. `DescriptorsOwned` assumes that `close()`
does not fail (`CloseFails = FALSE`; otherwise it is false, see below) and rests on `Owned`: a
socket's descriptor leads to its own end and back, and a closed socket has none. The descriptor
of a failed accept never enters a socket. `Calls` says that a call is on a socket that is still
there: callers do not close or free a socket that another thread uses, which the library does
not check. Steps that move neither descriptors nor bytes are shown once to keep everything
(`QuietKeeps`). Nothing is claimed of the connected flag: the run `connect_early` shows it set on a
socket that is not connected.

**Socket addresses** (`StructureProofs`), for any addresses, ports, extra fields and builds, in
either order of bytes: `AddressesSurvive`. `AddressInv` says that an address is one the build can
hold, so that it has no flow or scope where the system's structure has none (`Held`), and that what
was handed to the system is such an address with its port in network order (`Sent`). The rest is
that `NetworkOrder` undoes itself and that the word compared for loopback starts with the first
octet in both orders.

**Hash table** (`StructureProofs`), for any keys, values and number of buckets:
`LookupsFindTheLast`. `HashInv` says that a chain holds a key at most once and that the chain of a
key's bucket has it exactly with the value a caller stored last (`Has`). The lemmas say what
inserting in front, replacing in place and removing one node do to `Has`.

**INI parser and strings** (`StructureProofs`): `zstrchomp()` returns what lies between the first
and the last character that is no blank, for any string (`StringsTrimmed`), and for files of any
length that begin each section once a parameter is found exactly if the file has it in that section,
with the value of its last line (`FilesAreRead`). `Parsing` relates the lines read to what was built:
the section being filled has the keys of the lines since the last header (`FillsLatest`), every
finished section is that of some header (`AllMatch`), every header with parameters has one
(`AllListed`), and of equal keys the newest comes first (`Newest`), which is the one a lookup meets.
A file that begins a section twice is outside the theorem: the parser keeps both and the lookup
meets the later one unless that is the last of the file.

Only model-checked:

* liveness (`NoSleeperStranded`, `EndReturns`), which is out of the prover's reach;
* what recursive definitions and folds compute for every input, which needs induction over data:
  the trees (`LookupAgrees`, `BalancedWhenIdle`, `ForeachRestores`), the digests
  (`DigestOfMessage`) and `ListsAgree`: the lists of a hash table, of sections and keys, and of the
  words of a value;
* the condition variables of BeOS, AtheOS and AmigaOS, for two threads waiting.

## Sentences that hold only in part

The following are stated in the modules and are false as they stand; the runs check the part
that holds. TLC refutes each in the instance given.

| Property | Where it fails | To see it |
|---|---|---|
| `PCondVariable!BroadcastWakesAll` | XP: a thread that waits later takes the unit meant for another; AmigaOS: a node is read after its owner freed it; BeOS, AtheOS, AmigaOS: the third waiter overwrites the link to the second, which no broadcast reaches | `CondSpec`, 3 threads, `CondSystems = {"xp"}` or `{"amiga"}`; 4 threads and nobody signalling unlocked: `{"beos"}` |
| `PCondVariable!WakeupsKept` on OS/2 | one flag stands for any number of signals | drop the restriction of `csys` |
| `UThreadOS!Os2ValuesDestroyed` | the slot is emptied before the value for the destroy function is read | `OSSystems = {"os2"}` |
| `PSocket!FdOwned` | a `close()` that fails after releasing the descriptor leaves its number in the socket | `CloseFails = TRUE` |
| the second part of `PSpinLock!HolderSeesStores` | the barrier comes after the store that frees the lock | for `"sync"` and `"win"` |

Two more sentences hold only in part. `psocket.h` calls a timeout the "maximum amount of time" of a
blocking call, but each signal restarts the whole of it (`lib/psocket.c:1565`), so signals that
recur faster than it expires keep the call waiting; SCO alone counts the time gone by. And a
process killed while it clears a buffer leaves it half cleared: with the POSIX semaphore the lock
then stays taken, so nobody sees it, which is why `ClearAll` is one step; with the System V one
the kernel gives the unit back (`SEM_UNDO`) and the next holder would.

Seen while reading, and outside the models: `lib/pmain.c:84` calls `zlibrary_loader_init()`
where the shutdown is meant; `tmp/prwlock-general.c:57` goes on after freeing a lock that could
not be made; the creator's `zshm_buffer_free()` (`lib/pshmbuffer.c:136`) removes the name while
others use the buffer, against `pshmbuffer.h`; `os/win/puthread-win.c:290` returns a freed
structure when the thread cannot be made; AmigaOS recycles Task pointers that its list of
threads is searched by (`os/amiga/puthread-amiga.c:497`) and an identifier 0 is a null handle
(`:562`); the OS/2 table of `lib/perror.c:149` has no socket codes; the Windows wait
(`lib/psocket.c:1497`) does not ask for the end of the data; a line of an INI file longer than
1024 characters becomes two, and the mark of UTF-32LE is taken for that of UTF-16LE; a
System V semaphore whose creator is killed between `semget()` and `SETVAL` stays at 0.

## Not modelled

Allocation failures and argument checks; `fstat()`, `ftruncate()` and `mmap()` failures
other than the empty mapping; memory order except in `PSpinLock`; thread priorities, names
and sleeping; numeric conversion of INI values; datagram sockets and socket options beyond
blocking mode and timeout; the compression functions of the hashes; the parts listed as
`not_modelled` in `PROJECT.json`, with the reason: they are straight lines or wrap one system
call, and no state of theirs lives across calls.

## Plan

Everything that was planned is modelled, and the safety properties within the prover's reach are
proved. What is left are the semaphores and shared memory of the other systems, one kernel object
behind each call, and for the trees a proof by induction, which needs a prover that can instantiate
the induction theorems.
