# Verification of BASS_SOX

BASS_SOX is a plugin for the BASS audio library that plays a source channel at
another sample rate. It makes a new BASS channel whose data comes from a callback,
`resampler_proc`; behind the callback sits a *resampler*: buffers, a soxr
converter, and optionally a background thread that keeps the buffers filled. This
directory holds TLA+ models of that machinery, the TLC runs that check them on
small instances, and proofs that TLAPS checks for every instance.

All paths below are relative to `src/`; `.c` files without a directory are in
`bass_sox/`.

## 1. The system

| Part | State | Operations | Talks to |
|---|---|---|---|
| Playback ring (`ring_buffer.c`) | store, `head`, `tail`, `full` | create, write, read, clear, free | written under the resampler's semaphore, read without it |
| Buffers (`resampler_buffer.c`) | input and resampler buffers with their lengths, the ring | create, clear, free, length | settings, ring, semaphore |
| Resampler (`resampler.c`) | `reload`, `ready`, `source_end`, `soxr_end`, `soxr_delay`, pointers to all the rest | `resampler_populate` (reload or create on demand, read the source, convert, write the ring), `resampler_proc` (read the ring, report the end) | BASS calls `resampler_proc`; it calls `BASS_ChannelGetData` and soxr |
| Updater (`resampler_updater.c`) | `thread`, `shutdown` | start, stop (waits for the thread), the thread's loop | populates the resampler every 100 ms |
| Semaphore (`resampler_lock.c`) | a count, 0 or 1 | enter with a timeout (almost always 0: a try), exit | populate, clear, length |
| Settings (`resampler_settings.c`) | eight values | create; read by everything, written by `BASS_SOX_ChannelSetAttribute` | no synchronisation |
| Converter wrapper (`resampler_soxr.c`) | the `soxr_t` | create from the settings, free | libsoxr |
| Registry (`resampler_registry.c`) | ten slots | add, remove, get by channel, get all | every API call, the free callback, `DllMain`; no synchronisation |
| API (`bass_sox.c`) | none of its own | `StreamCreate`, `StreamBuffer`, `StreamBufferClear`, `StreamBufferLength`, `ChannelSetAttribute`, `ChannelGetAttribute`, `GetLastError`, the callback `BASS_SOX_StreamFree`, `DllMain` | all of the above |
| ASIO bridge (`bass_sox_asio/`) | one global channel handle | set, get, the ASIO callback | the registry of `bass_sox`, BASS, ASIO |
| .NET bindings (`ManagedBass.Sox/`) | a cache of module handles | one P/Invoke per function | the DLL |
| libsoxr (`libsoxr/`, vendored) | per channel a chain of stages with a queue before each, sample counts | `soxr_create` plans the stages, `soxr_process` converts, `soxr_delay` | the converter wrapper and `read_resampled_data` |
| BASS, C runtime | external | | |

Three kinds of thread meet in one resampler: the thread on which BASS calls
`resampler_proc` (*pull*), the updater, and the application's own. All three may
populate the resampler. The semaphore lets one at a time do so, and the others
give up rather than wait. What the semaphore does not cover is what makes the code
hard:

* `resampler_proc` reads `ready`, the pointer to the ring, the ring, and the two
  end flags without it;
* `BASS_SOX_ChannelSetAttribute` writes a setting, starts or stops the updater and
  raises `reload` without it ("TODO: Does this need to be synchronized?");
* the ring has no lock either: its two offsets and `full` are plain variables, tested and
  loaded again on one thread while the other stores them;
* the registry has no lock at all: a look-up loads a slot three times, and is followed by
  a use;
* `resampler_updater_stop` waits for the updater without a limit, from an API call,
  from the free callback and from `DllMain`, there with the lock of Windows' loader held,
  which the updater needs to end.

What makes each part correct: the ring is a first-in first-out queue whose copies
stay inside the allocation; the semaphore is held by at most one thread and given
back on every path; no frame of sound is lost, repeated or reordered but by a
reload; a new setting always takes effect; the stream neither gets stuck nor ends
before its last frame; a conversion returns, leaves nothing convertible behind and
changes the rate by the ratio that was asked for; the updater is one thread that
outlives neither its handle nor its resampler; a registered resampler exists, and a channel that exists is
registered; a creation that fails keeps no slot; unloading leaves nothing behind.

## 2. The modules

| Module | Models | Notes |
|---|---|---|
| `BoundedFifo` | the promise of the playback buffer | abstract specification |
| `RingBuffer` | `ring_buffer.c`, each call one step | implements `BoundedFifo` |
| `RingBufferProofs` | | theorems about `RingBuffer` |
| `SharedRing` | `ring_buffer_write` in `read_playback_data` against `ring_buffer_read` in `resampler_proc` | each load or store of shared memory a step |
| `SharedRingProofs` | | theorems about `SharedRing` |
| `PlaybackStream` | what an application may rely on: each frame of the source is played or given up once, in order | abstract specification |
| `PlaybackStreamProofs` | | what every implementation of `PlaybackStream` inherits |
| `Resampler` | `resampler.c`, `resampler_buffer.c`, `resampler_updater.c`, `resampler_lock.c` and the API calls on one resampler | three threads, each a program counter; implements `PlaybackStream` |
| `ResamplerProofs` | | the types and the inductive invariant of `Resampler` |
| `ResamplerStreamProofs` | | that `Resampler` implements `PlaybackStream`, and what the application is told is true |
| `StagePlan` | the choice of the stages in libsoxr's `_soxr_init`, `dft_stage_init` | pure, with exact fractions |
| `StagePlanProofs` | | theorems about `StagePlan`, and what they need of fractions and of least elements |
| `Fifo` | libsoxr's `fifo.h` | pure, where the items lie and not what they are |
| `Converter` | `soxr_process`, `stage_process` and the functions of the stages | the recursion of `stage_process`, a step per call |
| `Conversion` | the numbers of `resampler_buffer.c` and `resampler.c` around a `Converter`: lengths, frame counts, the delay, the reported length | extends `Converter` |
| `ConversionProofs` | | theorems about `Fifo`, `Converter` and `Conversion` |
| `Lifecycle` | `BASS_SOX_StreamCreate`, the registry, the free callback, `DllMain` | any number of threads and channels |
| `LifecycleProofs` | | theorems about `Lifecycle`, for any number of threads and for one, and about `AsioBridge` |
| `AsioBridge` | `bass_sox_asio.c` | extends `Lifecycle` by the thread of ASIO |
| `MC...` | | the values of the constants for TLC |

`Resampler` uses the ring as the sequence `playback`: what `BoundedFifo` says and
`RingBuffer` implements. It treats one ring operation as one step; `SharedRing`
says when two of them at once do no harm. `Lifecycle` knows of an updater only that
it uses its resampler until it is told to stop; `Resampler` says how.

`Resampler` and `Conversion` look at the same calls. `Resampler` follows each frame
through all interleavings and takes one frame in for one frame out, `Latency` frames
late. `Conversion` follows how many there are: a call of `resampler_populate` is
undisturbed there, since the semaphore lets one thread at a time into it, which is
what `Resampler` shows. What `Resampler` assumes of the converter, that it accepts what
it is given, keeps a bounded rest and yields nothing only when there is nothing, is what
`Conversion` checks (`LengthFollowsSource`, `DelayBounded`, `NothingHeldBack`), and
where it does not hold is a finding.

Operators whose comment begins "A fault to detect" are not part of any
specification. Each is an operation with one plausible bug in it; put in the place
of the operation it breaks the property it is written for, which shows that the
property depends on what the code does.

### How state and actions correspond to the code

`RingBuffer`: `store`, `head`, `tail`, `full` are the fields of `RING_BUFFER`;
`ring_buffer_write(data)`, `ring_buffer_read(length)` and `ring_buffer_clear` are
the functions, `in` the bytes the last call was given, `write_span` and `read_span` the lengths of the first of the two
`memcpy`s, `out` and `done` what the caller gets. The uninitialised store has
arbitrary contents.

`SharedRing`: the same functions cut at every access to a field the other thread
writes: each load is a step and each store is one. The code names the other's offset more
than once where it takes one decision, to test it and to subtract it
(`ring_buffer.c:25-29` for the capacity, `:56-66` and `:106-116` for the layout of a copy).
The fields are not volatile, so a compiler may load twice or keep the first load; the model
loads twice, and a run in which nothing happens in between is the other. A difference is a
`size_t` and wraps (`SizeT`, `SIZES` values): `ReadCapacity` computes from the outcome of
the test, kept in `ahead`, and from the offset as it is by then. The writer is
`read_playback_data`: it works out the capacity twice, once to decide whether the chunk
fits and once inside `ring_buffer_write`. `writer` and `reader` hold the values each has
loaded or computed. An offset that passes the end is stored advanced and then wrapped, as
the source has it, or only wrapped, as a compiler may have it. `written` counts all bytes
that were handed to `ring_buffer_write`, also those it drops, since the caller goes on as
if all had been written (`resampler.c:167-168`). `met` records that the writer has found
its head where the tail is. `torn` records that an offset turned between two loads of one
decision, or that a copy was laid out by an offset that was advanced and not yet wrapped.
A copy that would leave the allocation is undefined: the thread that makes it is `crashed`
and not followed further.

Two things are left out: a copy is one step, and loads and stores take effect in the order
of the program. The second is what x86, for which the library is built, gives but for one
thing: a store may wait in a buffer while the thread's later loads go on. With it the
writer could also compare `tail` before its own `head` is seen, and a thread could start
its next call before its store of `full` is; both only add to the ways in which `met`
states go wrong and are not modelled.

`Resampler`: a frame is a number, counted in the order the source gives them. The
fields of `BASS_SOX_RESAMPLER` keep their names; `soxr` is NULL or the quality the
converter was created with, `buffer` NULL, the size of the ring, or `NoRing` when the
buffers are there and the ring could not be allocated; `held` is what is inside the
converter. `pc[t]` says where thread t is:

| `pc` | where |
|---|---|
| `enter` | `resampler_populate`, at the semaphore |
| `ensure`, `release`, `reloaded`, `create`, `allocate` | `ensure_resampler` |
| `input` | the length tests of `read_playback_data` and `read_resampled_data`, and `read_input_data` |
| `process`, `write` | `soxr_process` and what follows, the write to the ring |
| `succeeded`, `nothing`, `failed` | leaving the semaphore: `resampler_populate` returns TRUE, FALSE because there was nothing to do or no room, FALSE because something failed |
| `ready`, `load`, `read`, `eof`, `drained`, `ended` | the rest of `resampler_proc` |
| `loop`, `off` | `background_update`, no updater |
| `clear`, `clearing`, `cleared`, `measuring` | `BASS_SOX_StreamBufferClear` and `...Length` |
| `start`, `stop`, `join`, `request_reload` | `BASS_SOX_ChannelSetAttribute` |
| `crashed`, `crashed_inside` | a pointer that is NULL or freed was followed; inside: while owning the semaphore |

`BASS_ChannelGetData` gives some frames, none for now, none and the end, or an error
(`resampler.c:80-86`), which is taken for the end: in mid-stream where `MayFail` has
`"source"`, as in `foreground`, bounded with the stalls by `MaxStalls`. The code does not
tell the two apart, and a later read that succeeds takes the flag back.

The converter accepts the input it is given, hands frames on in order, and keeps the
last `Latency` of them. One frame in is one frame out; the rates change the numbers,
which are `Conversion`'s business, and not the order or the fate of frames. `quality`
stands for the settings the converter is created with (`phase`, `steep_filter`,
`no_dither` are used in the same place), `playback_buffer_length` for those the buffers
are. `Stream` is the refinement mapping to `PlaybackStream`: its queue is what the
buffers and the converter hold, oldest first.

`delivered`, `lost`, `ring` (and in `SharedRing` `written`, `out`, `met`, `torn`) are
history variables: no action of the code reads them, except that `ring` decides
whether a read goes to freed memory.

`StagePlan`: `Pass` is one turn of the planning loop of `_soxr_init`, cut at the lines of
that loop; its record has the loop's variables under their names. `StagesOf` is what is
made of the plan. `OnlyPhases` is the one entry of `poly_firs` without interpolated filters
(`cr-core.c:256`, `:259`), which stays with a phase for each of `arbL` however many there are.
The code decides in double precision with a tolerance of some 2^-32;
rates are whole numbers, and with both below 2^16 the decision is the exact one.
`DftFilter`, `HalfCoefs`, `PolyCoefs` stand for the result of the filter design.

`Converter`: `conv.stages[s]` is what `stage_t` keeps unchanged, `stage[s]` what changes,
`fifo[s]` the queue in front of stage s. A sample counts as one byte. `depth` is the level
of the recursion, `done` the local variable of that name at each level; `Pull` is one turn
of the loop of `stage_process` (or `_soxr_process`), `stage_process` its last two lines.
`Convert(s)` says what the stage's function reads, writes, reserves and where it goes on.
The counts come from the code: `Walk` is the closed form of the loops that step through
the input by a fixed ratio.

`Conversion`: `input`, `resampled`, `playback` are the lengths of the three buffers in
frames, `soxr_delay` the delay as `soxr_delay` gives it, multiplied by the input rate to
stay whole. `read_input_data`, `Process`, `Convert_on`, `read_resampled_data` and
`read_playback_data` are what one `resampler_populate` does, in order.

`Lifecycle`: a channel and the resampler made for it share a name; BASS reuses no
handle. `registry`, `memory`, `whole`, `thread`, `shutdown`, `updaters` describe the
resamplers, `streams`, `returned` and `unsynced` the channels in BASS, `pc`, `target`,
`slot`, `stage`, `pointer` and `todo` the threads. `resampler_registry_add` tests a slot
and stores to it in two steps; `clashed` records that the slot was not empty any more.
`resampler_registry_get` loads a slot to test it, loads it again to follow it, follows it,
and loads it once more to return it: four steps (`stage`), between which another thread may
take the slot or give it back, or free what was loaded. With two threads, even on different
channels, it may follow NULL or freed memory; then the thread may crash (`crashed`), or, if
the memory was freed, find the channel it had still there. Removing an entry and enumerating
them are one step each. The free callback runs on the thread that frees the channel. A
thread passes only handles that `BASS_SOX_StreamCreate` has returned.

Each of the calls that a creation makes may fail, if it is named in `MayFail`: the `calloc`
of the resampler and `BASS_ChannelSetSync`, whose results nobody looks at, too. A NULL
resampler is followed at `bass_sox.c:118`; a channel without its sync is returned as usual,
and freeing it calls nothing back (`unsynced`).

`DllMain` is called with the lock of Windows' loader held, and a thread takes that lock to
end, whether or not `DisableThreadLibraryCalls` was called. So `background_update` cannot
end while `Detaching`: `DllMain` has been called and has not returned. This is the case of
`FreeLibrary`. When the process ends, Windows has ended the other threads before; that case
is not modelled. (A thread needs the lock to start, too; since the application's threads are
idle then, an updater that was created and has not started waits like one that cannot end.)

`AsioBridge`: `channel_handle` is the global of that name, `Null` for 0. `resampler_registry_get`
is that of `bass_sox`, which its declaration exports, so `StreamSet` runs `Lifecycle`'s
steps of the look-up, each of its loads a step, and then stores. `asio` says where the thread of ASIO is: outside the
callback, between the test of `channel_handle` and `BASS_ChannelGetData`, which loads it again, or
inside `BASS_ChannelGetData` in the procedure of `playing`. Three things are assumed of
others: BASS does not free a channel while its procedure runs (`bass_sox` frees the resampler in
the callback and waits for nothing but the updater), Windows unloads `bass_sox` after the bridge
that imports from it, and the application stops ASIO before it unloads the bridge.

## 3. The runs

| Run | Configuration | Question |
|---|---|---|
| `ring_buffer` | `MCRingBuffer.cfg` | Is the ring a bounded queue, with all copies in bounds? Yes. |
| `shared_ring` | `SharedRing.cfg` | Do reader and writer harm each other while the ring never becomes full and no offset turns inside a decision? No. |
| `shared_ring_filled` | `SharedRingFilled.cfg` | And without these two conditions? **Violated.** |
| `foreground` | `Foreground.cfg` | One populating thread, attribute changes, clears, measurements: is it the stream that `PlaybackStream` promises, is nothing followed that is NULL, does it end, and not early? Yes. |
| `background` | `Background.cfg` | With the updater and `StreamBuffer`, when allocations, conversions and threads may fail: are frames, settings and updater in order, does the stream go on once failures end? Yes, but for the failures the code does not look at. |
| `conversion` | `Conversion.cfg` | Fourteen converters between source and BASS, count by count: does every conversion return, stop no earlier than it must, stay in bounds and agree with the reported length? Yes. |
| `conversion_drops` | `ConversionDrops.cfg` | And when a buffer is not a whole number of output frames? **Violated.** |
| `clear_is_refused` | `ClearIsRefused.cfg` | Does clearing clear? **Violated.** |
| `reload_while_playing` | `ReloadWhilePlaying.cfg` | Is a reload on another thread safe for `resampler_proc`? **Violated.** |
| `ended_early` | `EndedEarly.cfg` | Is the end reported after the last frame with the updater on? **Violated.** |
| `lifecycle` | `Lifecycle.cfg` | One application thread, settings and semaphore may fail: no use after free, nothing left behind, all calls return, unloading is clean? Yes, but for unloading with an updater, which never returns. |
| `asio_bridge` | `AsioBridge.cfg` | Two application threads and ASIO, every call that a creation makes may fail: does the registry hold only live resamplers, are its slots given back, does ASIO play only live resamplers, and no error as data? Yes, the second and the third until two threads have stored in one slot. |

### What the passing runs show

* `ImplementsFifo`, `CopiesInBounds`: the offsets may rest on
  `length`, one past the last byte, since the code wraps on `>`. A ring that was
  filled exactly can have `head = length`, `tail = 0` and `full = FALSE` and is
  still read correctly.
* `InOrderUntilMet`, `AllReadUntilMet`: without any synchronisation the
  two threads do each other no harm up to the moment `ring_buffer_advance_head` finds `tail`
  equal to `head`, an offset turns between two loads of one decision, or a copy is laid out
  by an offset that is not wrapped yet: what is read is in order, every `memcpy` stays
  inside the ring, and all that was written is read. This is what the shared use of the
  ring rests on, and where it ends.
* `LockHeldByOne`: the count of the semaphore matches the threads inside, always,
  although `ReleaseSemaphore` checks no owner and several paths leave early.
* `SettingsApplied`: the open question in the source ("Does this need to be
  synchronized?") has the answer that no setting is forgotten. The setting is
  written before the flag, and a reload resets the flag before it reads the
  settings; either the reload reads the new value or the flag stays up.
* `ImplementsPlaybackStream`: no step of any thread does anything to a frame but move
  it along, play it or, in a reload, give it up. `EveryFrameOnce` is its state form,
  which the larger run checks.
* `PlaysToTheEnd`: the clamp on the playback buffer's size is what makes it true; a
  chunk larger than the ring would be retried for ever. `EndIsFound` says the same with
  the lengths the settings give.
* `RecoversFromFailures`: after the last failure the stream plays on, because each
  failed step is tried again by the next call. The property names what is not recovered
  from: a NULL buffer (`resampler.c:60`: the converter exists, so the next call does not
  create the buffers) or ring (`resampler_buffer.c:47`) is followed, or the updater could
  not be started (`bass_sox.c:243`) and `resampler_proc` goes on relying on it.
* `EndIsReported`: neither reload nor clear resets the end flags, and the end is
  still found.
* `UpdaterOwned`, `StopReturns`: there is at most one updater, and waiting for it
  ends, because its inner loop fails when the ring is full or the source is dry.
* `RatioKept`: whichever stages are planned, for rates in use and all pairs up to 40, make
  the ratio of the rates together, and the loop needs two turns. The proofs remove the bound.
* `StagesInBounds`: no stage skips more input than it has, which `fifo_read` would refuse
  in silence, and none writes more than it reserved. The queue must keep back more than
  three samples before a cubic stage whose step is larger.
* `NothingHeldBack`, `ConversionReturns`: the stages call each other until there is enough
  or nothing to come. Then every stage has less left than it takes at once. That need not
  be nothing convertible: a stage behind another may get more than a turn from the last
  work of the one before, does one turn of it and leaves the rest, as from 192000 to 44100
  at the default length. But when nothing went in and nothing came out nothing is left that
  could be converted, in any stage; `read_resampled_data` takes that for the end and is
  right to.
* `DelayBounded`, `MemoryBounded`: what a converter holds is bounded by what its filters
  look ahead and its stages may have left, at any time, and its queues by what they hold at
  once. The delay can also be negative, by less than two samples of the input: a cubic stage whose
  step is above two samples and no whole number gives an output early (quality 0 from 22050
  to 8000). `resampler_buffer_length` adds it as a `DWORD` (`resampler_buffer.c:105`), so
  with all buffers empty the length is then almost 2^32; read as an `int`, as the test
  reads it, it is a few bytes below 0.
* `LengthFollowsSource`: the position that the test `BufferLength` computes is right, within
  its ten bytes, in every state between calls.
* `UpdatersHaveResamplers`, `NoCrash`, `NothingLeftBehind`, `RegistryIsLive`,
  `StreamsAreRegistered`: the life of resamplers. The free callback joins
  the updater before it takes the resampler out of the registry and frees it, and a
  creation that failed undoes what it did, in whatever state it left the registry. Once the
  library is unloaded nothing is left (`UnloadedIsClean`, a part of `NothingLeftBehind`).
* `SlotsAreGivenBack`: the ten slots do not run out by failed creations. Memory may: the two
  early returns of `BASS_SOX_StreamCreate` release nothing, but they come before the slot
  is taken. The one case in which a slot is lost is named in the property: a channel whose
  `BASS_ChannelSetSync` failed. With two threads it says so as long as no two resamplers were
  stored in one slot: the one that was hidden has no slot to give back, and another's callback
  may find no entry of its own.
* `CallsReturn`, `DetachWaitsForEver`: every call returns but one. `DllMain` frees every
  channel, the callback waits for the channel's updater, and the updater cannot end before
  `DllMain` has returned: `FreeLibrary` with an updater running never returns, and the two
  properties say that this is the case if and only if there is an updater then. No text in
  the repository says that the library can be unloaded like this (the tests free their
  channels first), so it is stated as what the code does and
  not as a finding.
* `PlaysLiveResamplers`, `NeverOverruns`: the handle that the bridge keeps may be stale, at any
  of its uses, and does no harm: only what was found in the registry is ever stored, BASS refuses
  what was freed since, and the bridge turns that error into silence. Two threads that create
  channels at once can store their resamplers in one slot (`clashed`); the one that was
  stored first cannot be found any more and is never freed, and the callback of one channel
  may find the resampler of the other. From then on `PlaysLiveResamplers` says nothing.

### What the violations show

* **Clearing clears nothing.** `BASS_SOX_StreamBufferClear` takes the semaphore and
  calls `resampler_buffer_clear`, which tries to take it again and gives up. The
  header promises "Clears any buffered data".
* **A reload frees the ring that `resampler_proc` is about to read.** `ready` is
  tested, then the pointer is loaded, then the ring is read; `ensure_resampler` on
  another thread lowers `ready` and frees the ring in between.
* **The end overtakes the last frames.** `resampler_proc` reads an empty ring; the
  updater writes the last frames and then raises both end flags; `resampler_proc`
  looks at the flags.
* **`full` on an empty ring.** The writer stores `head`, the reader drains the ring,
  the writer compares and raises `full`; the reader then gets a whole ring of old
  bytes.
  There is a second way to the same end, without any meeting, which the same model has:
  `ring_buffer_read_capacity` sees `head >= tail`, the writer wraps `head`, and `head - tail`
  is then almost the whole address space, so that the reader is given what it asks for, old
  bytes among it. The same happens to the writer with `tail`, and in the layout of the
  copies. `torn` marks these states; `InOrderUntilMet` is violated at once if it is left out
  of its condition.
* **Input that the converter did not take is thrown away.** `soxr_process` takes as many
  frames as make the output it has room for, and says how many;
  `read_resampled_data` forgets the rest. Where the resampler buffer is not a whole number
  of output frames for a full input buffer, each full conversion loses some: 2 of 4410
  from 44100 to 11025 at the default length. They are not played, and the reported length
  no longer agrees with the source.

### Bounds, and why they are enough

* Ring: 3 bytes, two byte values, chunks and requests of 0 to 4. Each call finds
  too little, exactly enough and more than enough, with the first copy empty,
  partial and whole, from every pair of offsets. The proofs remove the bound.
* `SharedRing`: 4 bytes, chunks of 1 to 3, requests of 1, 3 and 5, 6 bytes written
  (`MaxWritten`), so the ring goes round once and each thread can meet the other at
  every access. A `size_t` has 32 values (`SIZES`): more than twice the ring and more than
  any request, so that a difference that wraps is larger than every length, as in the
  program. Deadlock is not checked: writing is bounded, and a thread whose copy leaves the
  ring stops.
* `Resampler`: 3 or 4 frames, buffers of 2, a ring of 1 (clamped to 2) or 3, a
  latency of 1, requests of 2. The ring can be full, a chunk may not fit, a reload
  finds frames in every buffer. `MaxCalls` (2 or 3) calls of the application, of
  the kinds in `Calls`; `MaxStalls` reads that find the source stalled or, in `foreground`,
  get an error (1 there, 0 in `background`, which has failures enough). Two
  calls suffice for a reload inside a reload and for a stop after a start, three
  for a start after a stop.
* `Lifecycle`: three channels for two slots, so the registry overflows; one thread. Settings and
  semaphore may fail; the other failures leave something behind, and are in `asio_bridge`.
* `AsioBridge`: two application threads, two channels for two slots, so that two creations can
  meet in one slot, and one channel that is no resampler; `LENGTH` is 1 and a `DWORD` has four values,
  which tells data, nothing, the end and the error apart. Threads and channels are symmetric.
  States that differ only in values that no step will read again (the `target` of an idle
  thread, the `slot` of one that does not search, a `pointer` that was used) are explored
  once, by the VIEW `Read`; the invariants read none of them, and of `result` the view keeps
  whether `NeverOverruns` holds. Whatever can fail may fail.
* `Conversion`: 10 frames, buffers of one to six frames at either rate, stages that take
  8 samples at once, filters of 3 to 9 coefficients in blocks of 8 or 16. The real sizes
  are larger by a factor of a hundred to a thousand, all together; what matters is their
  order, and each relation occurs: a stage that has less than it wants, enough for one
  turn, and for several; blocks larger and smaller than a buffer. Among the fourteen
  converters every kind of stage occurs, alone and together with others, with whole,
  broken and reduced ratios, for the three qualities that differ in their plan. The source
  gives any number of frames at a time, but in the one converter that is made for a stage
  to be left with a part of a turn (9 to 2): that one needs 30 frames and a buffer of 27,
  and its source gives none, 3 or 27 at once. A second
  has 4 units of time, so that lengths of buffers come out whole; `conversion_drops` has
  one that does not.

Deadlock is not checked in the runs of `Resampler`, `Lifecycle` and `AsioBridge`: the stream ends,
calls are bounded and handles run out, so both really stop.

### Fairness

`Resampler!FairSpec`: BASS goes on calling `resampler_proc` while the channel plays;
Windows goes on scheduling the updater; a call of the application, once made, goes
on. Nothing obliges the application to make one. Only weak fairness is used there, on each thread as a whole: a thread is always able to take its next step (a refused semaphore
is a step, the wait for the updater ends with the updater) until it is done.
`SharedRing!FairSpec`: BASS goes on reading, a write once started goes on; a new one
need not start. `Conversion!FairSpec`: a call of `resampler_populate` goes on, and BASS
asks for data again and again. The second needs strong fairness: the application may call
`BASS_SOX_StreamBuffer` at any time, so the moments at which BASS gets in come and go, and
BASS, which waits for no lock, is not shut out of all of them. `Lifecycle!FairSpec`: every call
goes on, every updater runs, and ends when it is told to and nothing holds the lock of the
loader. The last is a condition of the step itself: while `DllMain` runs the step is not
enabled, and fairness promises nothing of it.

## 4. Proofs

`RingBufferProofs` proves, for every `Length`, `Bytes`, `Chunks` and `Requests`
that satisfy `RingBufferAssumption` (a ring of at least one byte):

* `RingInvariant`: `Spec => []RingInv`. `RingInv` is the types of the fields and
  `full => head = tail`. It is inductive: the offsets stay in `0..Length` because a
  call moves one by at most the capacity it computed, and that capacity is at most
  `Length` only if the other offset is in range and `full` means what it says.
* `RingTypeCorrect`, `RingFullMeansMet`: parts of it.
* `RingCopiesInBounds`: the spans of both copies, from the invariant alone.
* `RingImplementsFifo`: `Spec => ImplementsFifo`. `Contents` is the refinement
  mapping: the bytes from `tail` on, wrapped. `WriteIsPut`, `ReadIsGet` and
  `ClearIsForget` show that each call maps to the operation of the queue.

`ResamplerProofs` proves, for every number of frames, every size of the buffers,
every latency and request and every set of calls that satisfy `ResamplerAssumption`
(NULL is neither a quality nor a length, `NoRing` is not a length, the initial settings are legal, the input
buffer and a request hold at least one frame), failures included:

* `ResamplerTypeCorrect`: `Spec => []TypeOK`. Its lemmas follow the program: one for
  `resampler_populate` with a step for each of its parts, one for the rest of
  `resampler_proc`, one for the updater's loop, two for the application. What takes an
  argument is that a read never passes the source's end and that what the converter
  hands on and keeps are parts of what it had (`SplitFrames`).
* `ResamplerInvariant`: `Spec => []ResamplerInv`, and from it
  `ResamplerLockHeldByOne`, `ResamplerSettingsApplied` and `ResamplerUpdaterOwned`.

`ResamplerInv` joins these three to the types and to `Created`, because none of them
is inductive alone. `SettingsApplied` fails after the reload flag is lowered unless
nothing is left of the old converter and buffers then: `Created` says that a thread
between the release and the creation finds none. `Created` fails if another thread
can create or release meanwhile: `LockHeldByOne` excludes it. And `LockHeldByOne`
needs `UpdaterOwned`, since starting an updater moves a second thread, which must
have been off. `OneOwner` is the argument about the semaphore, once for all steps: a
step that takes it on the way in, gives it back on the way out, or does neither,
leaves one owner or none.

`PlaybackStreamProofs` proves `StreamKeepsFrames`: whoever implements `PlaybackStream`
plays no frame twice or out of order and loses none but those it gives up. It is cited below
with the resampler's pipeline in the place of the queue.

`ResamplerStreamProofs` goes on from `ResamplerInv`, for the same constants:

* `ResamplerImplementsStream`: `Spec => ImplementsPlaybackStream`, with all three threads
  and every failure. The mapping makes one queue of the playback buffer, the resampler
  buffer, what the converter holds and the input. Moving frames from one of them to the
  next must be a stutter, which is regrouping of sequences (`Regrouped`), and needs one
  fact that is not in `ResamplerInv`: `NothingOverwritten`, that `soxr_process` finds the
  resampler buffer empty. `ResamplerPlaysEachFrameOnce` follows from the refinement and
  `StreamKeepsFrames`.
* `ReportedLengthIsAccurate`: for any threads, assuming that converter and buffers can be
  created and that conversions succeed. `soxr_delay` is a copy; `DelayKnown` says between
  which steps it is old. The assumption is needed: when a conversion fails, its input is
  still counted, and a delay remains after its converter is gone.
* `EndOfStreamIsReal`, `ForegroundDoesNotCrash`: for one populating thread (`Foreground`:
  neither `BASS_SOX_StreamBuffer` nor `BACKGROUND` is used), since with two the runs
  `ended_early` and `reload_while_playing` show the opposite. The first excludes failed
  conversions, which leave the flags of an earlier one; the second excludes the failures of
  the buffers and of the ring, which `resampler_populate` does not look at. `DrainedInv` ties
  each flag to the buffer that is empty when it is raised and to the place of `resampler_proc`
  where it is read.

`LifecycleProofs` proves for every set of threads and channels and every size of the registry:

* `LifecycleTypeCorrect`, `RegistryStaysLive`: any number of threads, any failure, with every
  load of the look-up a step. `LifeInv` adds to the types who owns a resampler (`Accounted`),
  in two layers. `Unlocked` needs no lock and holds always: a resampler is created by one
  thread and known to no other before it is stored (`MadeOnce`, `WasMade`), so the store may
  hide another resampler but never stores one that is freed. `Owned` holds until two
  resamplers were stored in one slot (`~ clashed`): then each callback finds its own, so a
  resampler is freed once, by the thread that took its channel from BASS
  (`KeptWhileMade`, `FreedOnce`, `ReturnedAreWhole`).
* `UpdatersAreJoined`, `StreamsStayRegistered`, `NoSlotIsLost` (any failure) and
  `NothingIsUsedAfterFree` (any but that of `calloc`): for one application thread
  (`OneThread`), beside any number of updaters. The others do not hold for two threads,
  as the steps of `asio_bridge` show; `NoSlotIsLost` is only model-checked for two, there. `NothingBetween` says that what a step tested or loaded is
  still so at the next; `SlotsKept` says of every slot whose it is, also inside a call.
* `ChannelsAndResamplersGoTogether`, `UnloadingLeavesNothing`: for one application thread,
  if the `calloc` of the resampler, `BASS_StreamCreate`, the second `BASS_ChannelGetInfo`
  and `BASS_ChannelSetSync` succeed (`StreamsAreCreated`); otherwise the resampler is left
  behind (`bass_sox.c:108`, `:142`). The second says what is so once `DllMain` has
  returned. `DetachingNeverEnds` (`Spec => DetachWaitsForEver`) goes on from it, under the same
  conditions: no step but an updater's own end takes an updater away, that step waits for
  `DllMain`, and by `UnloadingLeavesNothing` `DllMain` does not return with one left.

For `AsioBridge` it proves, for any number of threads, `AsioPlaysLiveResamplers`,
`AsioIsNotOverrun` and `RegistryStaysLiveBeside`. `BridgeInv` is `LifeInv` with the labels and
names of the bridge added, so the lemmas about `Lifecycle` are used as they are, and
three facts about the handle: it was found in the registry, so it was handed out once, and
what is played BASS still knows.

`SharedRingProofs` proves for every length of the ring, all chunks and all requests, every load
and every store a step:

* `SharedRingTypeCorrect`: whatever the threads do to each other, also once a capacity has
  wrapped.
* `BytesArriveInOrder` (`Spec => []InOrderUntilMet`: in order, and no copy leaves the ring),
  from `OrderInv`, which holds as long as the offsets have not met and nothing was torn: the bytes between the offsets are the bytes between the
  counts (`Apart`); each thread that has tested an offset finds it on the same side when it
  loads it again, or the decision is torn; each that laid out a copy still has what it found
  (`Room`); at most one offset is past the end, by less than a turn (`OneWraps`); and each
  byte lies where the reader will look (`InPlace`). What is not obvious is `FilledIsSeen`: a
  ring filled to the last byte looks empty, but only until the writer compares the offsets.

`ConversionProofs` proves for every set of converters that satisfies `ConverterAssumption` and
`ConversionAssumption` (the rates are positive, the stages are those that are planned, and
their filters have the proportions that libsoxr designs them with, `Designed`), for every length
of buffers and whatever the source gives at a time:

* `ConversionTypeCorrect`, `NoStageLeavesItsQueues`, `QueuesDoNotGrow`. For each kind of stage
  there is a lemma on what it takes and makes of a queue of any length (`HalfStays`,
  `PolyStays`, `CubicStays`, `DftStays`); the first three rest on `WalkStays`, about a walk
  in fractional steps: it ends no further beyond its input than it looks ahead, since it
  steps no further. `ReserveKeeps`, `TrimKeeps` and `ReadKeeps` are about the queue.
* `ConversionGoesOn`: the first half of `NothingHeldBack`. `TurnInv` is about the recursion:
  no level above the one that runs is done, and when the one that runs is done, all stages
  before it have less than a turn left.
* `LengthTellsThePosition`: `LengthFollowsSource`, where `WholeBuffers` holds: frames have one
  size on both sides, and the resampler buffer takes what a full input buffer makes. Then
  `soxr_process` takes all that it is given, which `read_resampled_data` relies on
  (`AllIsTaken`); the counts of frames in, under way and out agree (`Counted`), and only
  three roundings to bytes are left. `WholeBuffers` holds of all converters of `conversion` and not of the
  one of `conversion_drops`.

* `StagesKeepTheRatio`: `RatioKept`. Along the chain of any number of stages, the product of
  their gains is followed by `MakesOf`: halvings (`Halvings`), the stages that may or may not
  be there (`PerhapsOneMore`), and the arbitrary one. `StagePlanProofs` proves what the plan
  itself keeps, `PlansKeepTheRatio`: each pass of the loop of `_soxr_init` moves factors
  between its variables, and for no ratio is a third pass wanted.
* `DelayStaysBounded`: `DelayBounded`. `AccountInv` keeps books: for each stage there is a
  number of samples that have come to it, exact to the fraction of a sample (`Books`), and
  what has come and was not passed on is its rest. A turn of a stage changes both sides alike
  (`StageCounts`, from one lemma for walks, one for halvings, one for blocks). `Chained` adds
  the stages up, with `HoldingEquation`. The rest is bounded where the stage has less than it
  takes at once (`TurnInv`), and where nothing more comes the first stage has used all it can
  (`FirstInv`). A call that did return all it was asked for says nothing of the stages;
  there the bound is kept from before the call, since the room that it was given is enough
  for all that went in (`BalanceInv`).
* `NothingIsHeldBack`: the second half of `NothingHeldBack`. `CallInv` adds to the books what
  they were when the call began: a stage that is told that nothing more comes has used up what
  it has, or has worked on a whole turn in this call. If a call makes nothing, the last stage
  with something left would have worked on a whole turn, what it made came to stages that
  used it all, each passed on what it could not keep (`NeedIsPassedOn`), and something would
  have come out (`AllAreUsedUp`).

These three suppose more of the converters, each where it is the point, in hypotheses that
are stated at the end of `Conversion`. All of them hold of the fourteen converters of
`conversion`, where TLC evaluates them (`MCAssumption`):

| Hypothesis | Says | Where it fails |
|---|---|---|
| `StepsAreExact` | the fixed-point step of an interpolating stage lost nothing to rounding | a ratio whose denominator does not divide 2^32: the code is then off by less than 2^-33 of a sample a step, which adds up without bound |
| `AllIsConverted` | the resampler buffer takes what a full input buffer makes | `conversion_drops` |
| `FiltersAreRegular` | an arbitrary filter looks as far as it steps, a block is a whole number of steps | not in what libsoxr designs for a linear phase |
| `TurnsAreFelt` | what a stage makes of a whole turn (8192 samples) is more than the stages behind it may keep | before a very steep filter, one that looks ahead thousands of samples, all that a turn makes may stay in it |

`StagesKeepTheRatio` needs the first, `DelayStaysBounded` the first three,
`NothingIsHeldBack` the last two. The library's induction theorems are out of the reach of
the installed provers; induction along a chain or a loop is done here by the least element
of the counterexamples (`LeastOf`, from the well-foundedness of the numbers), and for the
recursive functions `Made` and `Holding` by a witness that satisfies their equations.

So every safety property that a passing run checks is also proved. Only model-checked are the
liveness properties (`AllReadUntilMet`, `PlaysToTheEnd`, `RecoversFromFailures`,
`EndIsReported`, `StopReturns`, `ConversionReturns`, `EndIsFound`, `CallsReturn`), which
need ENABLED and are beyond the proof system. What the violating runs show is no matter for
a proof.

## 5. Not modelled

* BASS and the C runtime: external. Most of the lines under `src/` are third-party: the
  headers of the C and Windows runtime (`crt/`) and the signal processing of libsoxr.
* In libsoxr the arithmetic: filters and their design, Fourier transforms, dithering,
  conversion of sample formats. Of the control: flushing (bass_sox never announces the end
  of the input, so what the converter holds back is never played), the high-precision
  clock, variable rates, several channels (all do the same), and planning with rates
  above 2^16, where the tolerance for rational ratios matters.
* Failures of `realloc` in `fifo_reserve` (`fifo.h:62-65`): it returns NULL then, which no
  caller looks at.
* The last bit of `soxr_i_for_o` (`soxr.c:737`): the quotient of the rates is exact in the
  model. In double precision the product may exceed a whole number, and one frame more is
  then taken, if there is one.
* Roundings: buffer lengths are rounded down from exact numbers, not from single precision,
  and the fixed-point steps of an interpolated filter are exact for the rates that are run.
  Buffers that are not whole frames leave a fraction of a frame in the converter at each
  conversion, and `DelayBounded` does not hold (48000 to 44100 at 15 ms).
* Frames of the source and of the output that differ in size: `LengthFollowsSource` does not
  hold then, since `resampler_buffer_length` scales by the rates alone.
* `BASS_SOX_ChannelGetAttribute` and `BASS_SOX_GetLastError` change no state.
* Unloading at the end of the process, an updater that has not started yet when the library
  is unloaded, and stores that are delayed in a processor (section 2).
* Failures of `CloseHandle`, `SetThreadPriority` and `ReleaseSemaphore`.
* `BASS_SOX_ASIO_StreamGet` changes nothing; loading the bridge a second time is not modelled. An
  ASIO that still runs when the bridge is unloaded would call code that is gone: the library
  does nothing against it. The .NET bindings have no behaviour.
* Two application threads starting and stopping the same updater, in `Resampler`.

## 6. Plan

1. Done: the ring (abstract, detailed, shared, with both stores of an offset), one resampler
   and its threads with every failure, the stream it implements, the life of resamplers, the
   bridge to ASIO, the planning and counting of conversions.
2. Done: proofs of every safety property that a passing run checks, of both refinements, and of
   the lemmas on queues, walks, blocks, fractions and plans that they rest on.
3. Left: the weakest assumptions on the failures under which `LengthAccurate` and
   `EndMeansDrained` hold; a bound on how fast the ratio drifts where `StepsAreExact` does not
   hold.
