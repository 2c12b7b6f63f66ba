# Verification of racez

Racez finds data races in pthread programs by sampling. The library
`libracez.so` is preloaded into a program; it keeps, per thread, the set of
mutexes the thread holds, and has the PMU interrupt each thread every so many
memory accesses. The interrupt arrives as a SIGIO, whose handler writes a record
(thread, instruction, address, read or write, locks held) to a shared buffer. At
`racez_stop` the buffer goes to a file. An instruction simulator (a patch for the
MAO assembler optimiser) may derive more records from the raw ones. The offline
detector reads both files and applies the lockset discipline.

The simulator reads a profile that the converter makes of the raw records.

This directory models the library, the converter, the simulator and the detector
in TLA+, checks them with TLC on small instances, and proves every safety property
the passing runs check with TLAPS, for all values of the constants.

## Inventory

| Part | State | Operations | What is hard | What makes it correct |
|---|---|---|---|---|
| Lockset (`racez_lockset.cc`, `racez_mutex.cc`) | per thread: `n`, `overflow`, `lockset_[10]` | `add_one_mutex`, `remove_one_mutex` | the handler runs the same functions on the same lockset between any two statements | a sample's lockset is what the thread holds |
| Wrappers (`racez_preload.c`) | `racez_enable`, the options | lock, unlock, cond_wait, cond_signal, malloc, free, pthread_create, `racez_start`, `racez_stop` | `racez_enable` is read and used later; unlock precedes removal | nothing is logged without a buffer; two samples with a common lock exclude each other |
| Buffer (`racez_bufferdata.cc`) | `global_buffer`, `global_`, the records, the file | `InitBuffer`, `WriteRecord`, `StopBuffer` | an atomic increment shared by threads and by handlers that interrupt `WriteRecord`; a full buffer | each entry is filled by one call and written to the file |
| Profiler (`racez_pmuprofiler.cc`) | `sig_enable`, SIGIO's disposition, `tid_fd_map` and its mutex, the kernel's contexts | start, attach, handler, stop | attaching, sampling and stopping race; queued signals outlive `pfm_stop` | a running context is in the map; a stop silences all of them and returns |
| Detector (`tools/detect.cc`) | per address: record set, status, lockset; `heap_map` | `offline_detection`, `core_detection`, `delete_map_entries`, the merge in `main` | the state is a summary of an unbounded history; three maps are kept in step over frees | the summary is right; warnings are exactly the promised ones |
| Converter (`tools/convert.cc`) | symbol table, three text files | `ReadRawFile`, `ReadSymFile`, `ConvertIP`, `Combine` | binary search at its ends; files that belong together line by line | a line of the profile describes the record of its index |
| Simulator (`mao-patch/patch`) | iterators over samples and instructions, two maps of polluted registers | `Go`, `UpdateMemory`, `ExecuteSimWhole` | invalidation of what an instruction overwrites; two iterators moved by hand | samples meet their instructions; a derived address is the address accessed |
| Reader, stubs, benchmarks | none | printing, drivers | - | - |

## Modules

* `RaceReport` is the abstract specification of the detector. It keeps every
  access since an address was freed and says when a warning is due: two threads,
  a write, no common lock, and (as in the code) the access is not the first one
  of a new thread to an address that was shared and modified already.
* `Detector` models `offline_detection`, `core_detection` and
  `delete_map_entries`. `NextRecordSet`, `NextStatus`, `MayReport` and
  `NextLockset` are the four things the switch over `*status` computes. An
  address leaves and enters the maps as in the code; `std::set::insert` keeps the
  old element when two records compare equal, which is why the order of the log
  matters (`InLogOrder`). The disabled block `if(0)` of state 4 is left out.
  Addresses are naturals because ranges of them are freed; the arithmetic on
  instruction addresses is reduced to their order.
* `DetectMain` extends `Detector` with `main`: two input files, the cursor of
  each, the merge loop, and the loop for a raw file alone.
* `HeapTrace` extends `Detector`, with the `-m` option, by what produces its log:
  the `malloc` and `free` wrappers around the allocator. A wrapper is two steps,
  the real call and the record, so another thread may be handed a freed block
  before the FREE record is written. Writing a record is the detector's step on
  it, because the detector meets records in the order of their numbers. `calloc`
  and `realloc` have no wrapper; a failed `malloc` and `free(NULL)` log address 0.
  `own` and `blurred` are history variables: the samples of the present block, and
  the addresses hit by one of the two cases in which the filter cannot work.
* `Lockset` models the wrappers around mutexes and the lockset functions, one
  action per statement that touches the LOCKSET (`AddIncrement`, `AddStore`,
  `AddMarkFull`, `RemoveDecrement`, `RemoveMove`, `RemoveClearFull`). A handler
  that unwinds the stack (`racez_stacktrace`) locks and unlocks a mutex of
  libunwind: the action `SignalHandler`, one step because its thread does nothing
  else meanwhile. The array has one cell more than the code's, to see what is
  stored behind it. `missed` is a history variable: the mutexes held that never
  entered the lockset because it was full or because `pthread_mutex_trylock` has
  no wrapper. `attach` follows a thread through `racez_thread_start_func`: the
  lock and unlock of `tid_fd_map_mutex` go through the wrappers and create the
  thread's LOCKSET before `pfm_self_start` lets the first signal come.
* `Runtime` models the rest of the library. A thread has a place in the wrappers
  (`pc`), a place in the handler (`handler`), and each of the two may be inside
  `WriteRecord` (`frame`, `entry`), which is split at its three accesses to the
  buffer. The three attach functions (Core 2, Nehalem, AMD) share one shape:
  create and load a context, enter it into `tid_fd_map` under the mutex, start it.
  External are the PMU and the kernel (`Overflow`, `Deliver`, `Unmask`, `Exit`):
  an overflow masks the context and queues a SIGIO; `pfm_restart` unmasks a masked
  context and does nothing to a stopped one; the default action of SIGIO ends the
  process.
* `Convert` models the five passes of `tools/convert.cc`. Text files are sequences
  of lines; `functions.txt` is the sequence of pieces in which the `fgets` of
  `Combine`, with its buffer of 200 bytes, reads it. `readelf` and `addr2line` are
  external. What `strcmp` returns for unequal strings is up to the C library
  (`strcmp_one`).
* `InstSim` models the pass INSTSIM: `Go` moves over samples and instructions
  (`Seek`, `Attribute`, `LeaveOffset`, `RunOff`, `Finish`), `ExecuteSimWhole` walks
  back and forth (`SimulateBackward`, `SimulateForward`). A register is a family
  and the form it is named in, an address the set of registers it is made of.
  The instructions and their sizes are MAO's and external.
* `DetectorProofs`, `DetectMainProofs`, `HeapTraceProofs`, `LocksetProofs`,
  `RuntimeProofs`, `ConvertProofs` and `InstSimProofs` hold the theorems about these
  modules, `LeastElement` a lemma that four of them use.
* `MCDetector`, `MCDetectMain`, `MCHeapTrace`, `MCLockset`, `MCRuntime`,
  `MCConvert` and `MCInstSim` instantiate these for TLC (symmetry sets; the input
  files of `DetectMain`; the instructions of `InstSim`).

The modules meet at their interfaces: `Lockset` gives the premise of the lockset
discipline (`SharedLockExcludes`), `Runtime` the file in the order of the record
numbers (`FileComplete`), `Convert` the index by which the simulator finds the
registers of a sample (`ProfileMatchesRecords`), `InstSim` the derived records
(`DerivedExactly`), `DetectMain` shows that the merge delivers the log `Detector`
takes (`FeedsDetector`).

Each module states a few wrong variants of its definitions, marked "Mutant". They
are not part of the model. Put in place of the definition that follows them, they
make TLC find a property violated, which shows that the property depends on that
line of the code.

## Runs

Passing:

| Configuration | Instance | Shows |
|---|---|---|
| `MCDetector` | 3 threads, 1 lock, 2 addresses and the null address, logs of 4 records, 118,307 states | the asserts hold; records, status and lockset summarise the history; the warnings are those of `RaceReport`; a free forgets exactly the freed addresses |
| `MCDetectMain` | all raw files of 3 entries with all sets of derived records, 162,280 states | no new record is lost, each precedes its raw record, the merged log is a behaviour of `Detector`, `main` ends |
| `MCHeapTrace` | 2 threads, blocks of 1 or 2 at 2 addresses and the null address, traces of 4 records, 753,868 states | `heap_map` has the size of each logged block in use; the detector's history of an address is that of its present block, with two exceptions (below) |
| `MCLockset` | 2 threads, at most one never attached, 3 mutexes, room for 2, 1,918,135 states | a sample's lockset is exact through overflow, trylock, cond_wait and locks from before the start, and excludes other samples that share a lock |
| `MCLocksetHandler` | 1 thread, 4 mutexes, room for 3, handlers anywhere, 61,280 states | a handler leaves what it interrupts alone, as the comment at `racez_mutex.cc:27-38` argues for `add_one_mutex`; it never creates the LOCKSET; it writes behind the array at one point only |
| `MCRuntime` | main and 2 workers, 2 records, the program joins before it stops, 251,026 states | each entry has one writer, the file is complete, the process lives until a second start |
| `MCRuntimeLive` | main and 2 workers, the stop may come at any time, missed lookups included, 72,661 states | the order of the start, what a stop silences, that it returns, that a masked context is re-armed |
| `MCConvert` | 2 records, 2 symbols of 2 names, one of them long, 791,850 states | the profile's lines describe the records of their indices until a line too long is skipped; the search leaves the table only if it is empty |
| `MCInstSim` | all functions of 3 instructions out of 12, 2 blocks, 2 samples, 2,277,941 states | samples meet the instruction at their offset; the records derived are exactly those the sampled registers determine |

Expected violations, each of something a comment or an assert of the code says:

| Configuration | Property | Behaviour |
|---|---|---|
| `MCDetectMainRest` | `AllRawDetected` | the merge loop ends with the last new record (`detect.cc:614`) |
| `MCLocksetClobber` | `SampleExact` | a handler between `n--` and the move overwrites the element to be moved (`racez_mutex.cc:65-67`) |
| `MCInstSimHalf` | `AddressesCurrent` | a write to `r8d` or `al` leaves `r8` or `rax` valid, and an address is computed from it (`patch:819`) |

`disable_signal_handler` means to ignore SIGIO, but `sa_handler` and
`sa_sigaction` share their storage, so the NULL stored last selects the default
action; the model has what the code does.

More that the models show, without a run of their own:

* The first access of a third thread to a shared modified address is not reported
  even if it empties the lockset (`detect.cc:274-275`, against the comment at
  line 191); `RaceReport` has the same exception.
* A mutex locked and unlocked before `racez_start` stays in the lockset of its
  thread (`racez_preload.c:133`). `SampleExact` shows that no sample records it:
  only threads created after the start are sampled.
* Record number BUFFERSIZE is stored one entry behind the array
  (`racez_bufferdata.cc:38`); `TypeOK` of `Runtime` has that entry and no further.
* A SIGIO that is queued before `pfm_stop`, or that comes from a context started
  behind the loop, meets the default action and ends the process
  (`racez_pmuprofiler.cc:1035`). A program that joins its threads first is safe
  (`NoFault`).
* With the stack trace on, a handler between `n++` and `overflow = true` of the
  last free element stores behind `lockset_[9]`; `HandlerStaysInside` shows that
  it happens nowhere else.
* A program that does not join its threads can be inside `WriteRecord` when the
  buffer is freed.
* A handler whose unlocked lookup misses enters descriptor 0, on which
  `assert(fd != 0)` ends the process.
* A second `racez_start` fails `assert(sig_enable == false)` (the exception in
  `NoFault`).
* The memory reuse filter fails in two cases, and `HistoryOfBlock` shows that it
  fails in no other: memory is handed out again before its FREE record is written
  (`racez_preload.c:210-219`), and a block without an ALLOC record (from `calloc`,
  or from before the start) is freed (`detect.cc:443-445`).
* A function name too long for `Combine` ends it by an assert, or, where the source
  line is unknown, shifts the rest of the profile by one line.
* A sample offset inside an instruction or behind the function makes `Go` drop it
  and samples behind it, or run past the last entry (`patch:1407`, `1440`).

### Bounds

The bounds are the constants of the modules. Three threads are what it takes for
a thread new to a shared modified address; four records reach every status and
free an address in between; the theorems cover every size. One mutex
more than fits shows overflow and its end. Two workers and the main thread
give an insert into the map under a handler's lookup and a stop during both; a
buffer of two records is full in most behaviours. `MaxSamples` and `MaxLogged`
bound the samples and logged calls of a thread, `MaxStarts` the starts. In
`HeapTrace` two addresses let a block cover another's place in part, and four
records hold an allocation, a sample, a free and one record of the other thread in
between. `MaxUnattached` bounds the threads created before the start; they are
never sampled, one is enough to contend for a mutex. In `Convert` three addresses
against two symbols lie below, on, between and above them, and one long name is
skipped or not. In `InstSim` instructions of sizes 1, 2 and 1 leave an offset inside
an instruction, and two samples share an offset or follow each other.
Deadlock is not checked: logs end, mutexes deadlock when the program takes them
in opposite order, the converter and the simulator end, and a program may stop
calling the library.

### Fairness

`DetectMain`: `main` is one sequential thread that keeps running. `Runtime`: weak
fairness for each thread while it is inside the library (`InLibrary`) and for the
delivery of a queued signal and its handler. That is what a scheduler and the
kernel give. User code has no fairness: it may never call, create, log, exit or
overflow again. The map mutex needs no strong fairness because each thread
attaches once. `Detector`, `HeapTrace`, `Lockset`, `Convert` and `InstSim` claim
safety only.

## Proofs

Each safety property of a passing run is a theorem, and so is each refinement:

| Module | Inductive invariant | Proved from it |
|---|---|---|
| `DetectorProofs` | `IInv` | `TypeOK`, `AssertsHold`, `OneRecordPerThread`, `StatusMeaning`, `CandidateLockset`, `WarningShowsConflict`, `ImplementsRaceReport` |
| `DetectMainProofs` | `MInv` | `NewBeforeRaw`, `AllNewDetected`, `FeedsDetector`; `main` implements `RaceReport` and keeps the asserts |
| `HeapTraceProofs` | `HInv` | `HeapTypeOK`, `HeapMapCurrent`, `HistoryOfBlock`; a traced program writes a log of `Detector`, hence `ImplementsRaceReport` |
| `LocksetProofs` | `HandlerInv`, handlers anywhere | `TypeOK`, `OverflowMeansFull`, `AddLands`, `HandlerFindsLockset`, `HandlerTransparent`, `HandlerStaysInside` |
| | `ExactInv`, if `~racez_stacktrace` | `ArrayInBounds`, `SampleExact`, `SharedLockExcludes` |
| `RuntimeProofs` | `RInv` | `TypeOK`, `ClaimsExact`, `EnabledMeansReady`, `SampledIsMapped`, `StopSilences` |
| | `RInv` and `Flushed`, if `JoinsFirst` | `FileComplete`; `NoFault`, if also `~RacyLookup` |
| `ConvertProofs` | `CInv` | `TypeOK`, `LookupInTable`, `ProfileMatchesRecords` |
| `InstSimProofs` | `Typed /\ Walk` | `TypeOK`, `AttributedInPlace` |
| | `DInv`, if `PairedNames` | `DerivedExactly`, `AddressesCurrent` |

The constants are arbitrary sets and numbers under the named assumptions of the
modules (addresses, offsets, sizes and record numbers are naturals; special values
are not members of the sets they are told apart from; the capacity of the buffer and
of the array is not 0; the two files of `DetectMain` are `WellFormed`). The bounds
of the runs (`MaxSamples`, `MaxLogged`, `MaxStarts`, `MaxRecords`...) are constants
too, so a theorem holds for each value of them.

Some theorems need a condition, each one that a program can meet:

* `~racez_stacktrace`, the default: the handler takes no lock. With the stack trace
  `SampleExact` is false (`MCLocksetClobber`).
* `JoinsFirst`: the program joins its threads before `racez_stop`. Otherwise a
  thread can be inside `WriteRecord` when the buffer is freed.
* `~RacyLookup`: the handler's lookup of its own descriptor, without the mutex, does
  not miss while another thread inserts.
* `PairedNames`: results are written under names that `InvalidateRegister` pairs with
  the names addresses are read under. It holds of the instructions of `MCInstSim` and
  fails for those of `MCInstSimHalf`. So `AddressesStayCurrent` says that unpaired
  names are the one cause of the violation found there.

The invariants, and why the properties alone are not inductive:

* `Detector`. `AssertsHold` says that a shared status has two records, but whether
  the next access keeps it so depends on which threads the records are of; the status
  depends on the whole history, of which the code keeps a part. `IInv` states
  `Summary`, per address: at most one record per thread, each an access of the
  history, one for each thread until a warning; the lockset is the common locks; the
  status separates one thread from several and reads from writes. `Passed` says that
  the log has moved beyond every record kept, so that an insert never meets an equal
  key. `CoreKeepsSummary` is the heart: one call of `core_detection` keeps `Summary`
  and reports when `RaceReport` does.
* `DetectMain`. What the detector has read says nothing about what is still to come:
  `MInv` has either `BehindFiles`, all that waits has a higher number than the log,
  or `AmongNew`, the log stands among the new records of the raw record that waits.
* `HeapTrace`. Between the real `free` and its record the block may be handed out
  again. `HInv` keeps for each such block what its record will find in `heap_map`
  (`SizeFound`) and that whatever overlaps it is blurred (`Overlapping`).
* `Lockset`. A property of `user` code must be known at each statement of the
  wrappers. `Shape` says so of the length and the flag and survives handlers;
  `Exact` says which mutexes the array lists at each statement, and does not.
  `Attachment` says that a thread has a LOCKSET before it is sampled.
* `Runtime`. `ClaimsExact` counts calls; `Claimed` says the same without counting,
  with numbers that no two calls share. `Phases` ties buffer, handler and
  `racez_enable` to the place of the main thread, `Idleness` says which threads are
  out of the library, `Mapping` that an attached context is in the map before it
  starts.
* `Convert`. Each pass relies on what the pass before has left: `CInv` says what
  each file has so far. `Nearest` is about the search (lower bound and step back),
  `Lined` about `functions.txt`, where the first long name ends the correspondence of
  lines and records.
* `InstSim`. `Walk` relates the running offset to the sum of the sizes. The offsets
  are a recursive function; that it exists on all positions is shown with the least
  counterexample (`LeastNatural`). `DInv` says that a map holds exactly the registers
  written between the sample and the cursor, in either direction.

TLC finds each of these invariants true on the instances of the runs.

Only model-checked: liveness under fairness (`MainTerminates`, `StopReturns`,
`ContextRearmed`), which is beyond the prover. What the three violating runs show are
counterexamples and need no proof.

## Not modelled

* `read.cc` only prints; `util.cc` is empty functions; the benchmarks are drivers.
* In the simulator, `ExecuteSim`, `ComputeNewSample`, `UpdateState` and
  `ComputeAddress`: an older variant that `Go` does not call. MAO itself is not
  part of the repository.
* What `InstSim` leaves in `/tmp/new.txt` between two runs: it is opened for
  appending and nobody truncates it.
* Failing system calls (`open`, `write`, `pfm_*`), failing allocation, the
  programming of the PMU registers, the sampling formats, the stack traces.
* `FlushBuffer` and `attach_experimental`, which nothing calls.
* Recursive mutexes and reuse of thread ids by the kernel.
* Entries of the buffer that are never filled read as zero: the block is large
  enough that malloc maps fresh pages.
* Sizes of 2 GB and more, which do not fit the `int` of a record.
* `preload_init`: the lookup of the real functions and of the options. It runs under
  `pthread_once`; should `printf` or `dlsym` allocate there, the `malloc` wrapper
  would enter `pthread_once` again, which is up to the C library.
* `num_stat`, a counter that handlers increment without a lock: it is only printed.
* In `Lockset`, calls begun after `racez_stop`, and handlers that still run after `racez_stop` cleared
  `racez_enable`: samples are no longer of interest then.
