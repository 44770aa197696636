# oxideav-core: specifications

TLA+ models of the parts of `oxideav-core` whose correctness depends on
interleavings, on long sequences of calls, or on arithmetic at the edge of a
machine integer, with TLC runs on small instances and TLAPS proofs for every
value of the constants.

Contents: the system and its hazards (1), which module models what (2), the
runs (3), bounds (4), fairness (5), proofs (6), statements of the documentation
that fail (7), what is not modelled (8), the plan (9).

## 1. The system

`oxideav-core` is the crate every codec, container and source of the OxideAV
framework depends on. It defines the data they exchange, the traits they
implement, the registries they enter themselves in, and the memory pool that
bounds what a decoder may allocate. It starts no threads itself; its types are
shared between the threads of its users.

| component | state | operations | hard parts |
|---|---|---|---|
| thread-safe arena (`arena/sync.rs`) | atomic cursor, atomic allocation count, buffer | `alloc`, `reset`, writes through slices | two atomics updated by separate steps; a CAS loop; a reservation that is rolled back; size arithmetic that overflows |
| pool and frames (`arena/sync.rs`) | idle list and total under a mutex, weak and strong handles, reference-counted frames | `lease`, drop of an arena, `FrameInner::new`, clone and drop of frames and pools | the destructor of an arena racing the death of its pool; frames shared by threads; zeroing outside the lock |
| single-threaded arena (`arena/mod.rs`) | the same with `Cell` and `Rc` | the same | none beyond the arithmetic; it is what the shared one has to match |
| output parameters (`registry/codec.rs`, `stream.rs`, `frame.rs`) | the decoder's current description, a wrapping generation counter, in-band events, the consumer's `OutputParamsWatch` and `CodecParameters` | `receive_frame`, `receive_arena_frame`, `reset`, `observe`, `prime`, `merge_output_params` | a change told twice, by two paths that can be read in either order, across resets and swapped decoders |
| side-channel records (`frame.rs`, `signal.rs`, `layer.rs`, `blob.rs`) | records stored as extra entries of a frame's plane vector | `set_*`, `with_*`, `take_*`, `push_blob`, getters, `image_planes` | records and image planes share one vector; duplicate, unreadable and unknown records |
| codec registry (`registry/codec.rs`) | infos per id, registration order, tag and magic indices | `register`, `resolve_tag_*`, `resolve_payload_magic_*`, listings | the answer depends on confidences, priorities, NaN and registration order |
| container registry (`registry/container.rs`) | maps of (de)muxers and extensions, list of probes | `register_*`, extension rules, `probe_input` | one rule written twice; replacement in place |
| source registry (`registry/source.rs`) | openers per scheme, order of schemes | `register_*`, `open`, `schemes` | spellings, replacement by another kind |
| filter registry (`registry/filter.rs`) | factories per name | `register`, `contains`, `make` | prefix stripping shadows names |
| runtime context (`registry/context.rs`, `slice.rs`) | the registries above | every crate's entry point, in any order, possibly twice | order independence |
| bit readers and writers (`bits.rs`) | buffer, 64-bit accumulator, cursor | reads, peeks, skips, unary codes, byte runs, alignment, `finish` | refills at partial fill, a cursor that runs ahead of the logical position |
| rationals, time bases (`rational.rs`, `time.rs`) | none | arithmetic, comparison, rescaling | `i64::MIN`, zero and negative denominators, 128-bit overflow, rounding by sign |
| pixel formats, channel layouts (`format.rs`) | none | plane geometry and sizes, labels, names of layouts | odd sides, three overflows, eight match lists that must agree |
| wire forms (`signal.rs`, `layer.rs`, `blob.rs`, `picture.rs`) | none | encode, decode, code points, kinds | lengths from files, reserved code points, a naming rule |
| options, encoder capabilities (`options.rs`, `capabilities.rs`) | a bag of options; declared limits, rates and kinds | `insert`, `from_json`, `parse_options`, builders, `fits_params`, `pick_sample_rate` | all or nothing; lists in any order |
| limits, metadata, packets, subtitles, engine and execution descriptions, vector graphics, errors | plain data | builders | see section 8 |

How they interact: a decoder leases an `Arena` from an `ArenaPool`, allocates
planes in it and freezes it into a `Frame`; the default `receive_arena_frame`
copies an ordinary video frame, with its side-channel records, into a one-shot
arena. `receive_frame` returns frames and, interleaved with them, events about
the output parameters; the consumer's watch merges those into the stream's
parameters. Crates fill a `RuntimeContext`, through which demuxers find
decoders by tag or payload and inputs find demuxers by probing. Demuxers and
muxers move timestamps between time bases and parse with the bit readers.

What makes each correct, in one line: slices never overlap and the caps hold
(arena); a buffer has one owner, is never leaked and never shows an earlier
lease's bytes (pool); the stream's parameters describe the frame just looked at
(output parameters); records and image planes never disturb each other
(records); every lookup gives the documented best answer and registering one
more crate changes only answers in its own favour (registries); every reader
sees the bits that were written, in order and once (bits); results are exact or
refused, ordered, and rounded as asked (rationals); a size holds every sample
and nothing else, and a name means one thing (formats); what is encoded decodes
to itself and nothing damaged decodes in part (wire forms); a codec sees every
option as last stated or refuses (options).

`PROJECT.json` lists every component with its status and every hazard at its
line.

## 2. Modules

| module | models | state and actions against the code |
|---|---|---|
| `ArenaArith` | alignment, size and overflow arithmetic of `alloc` | operators over `usize` of width `UsizeMod` and an arena of `Cap` bytes; a request is an element size, an alignment and a count |
| `SyncArena` | `sync::Arena` during one lease | `cursor`, `allocCount` are the atomics; `pc`, `req`, `seen` a thread's position and locals in `alloc`. `Reserve` is the `fetch_add` with its check, `LoadCursor` the first load, `CasWin`/`CasFail` one turn of the loop, `RollBack` the `fetch_sub` before an error, `WriteSlice` a client's write, `Reset` the `reset` (which needs `&mut self`, so no call is in flight and no slice is alive). `slices`, `wasReset` are history |
| `BumpArena` | the abstract arena: `Arena::alloc`/`reset` of `arena/mod.rs` | cursor and slices only, one step per successful call |
| `ArenaPool` | `sync::ArenaPool`, `Drop for Arena`, `FrameInner`, `Frame` | `idle`, `total` are the mutex's contents; `handles` and the points inside a destructor are the strong count. `Upgrade`, `ZeroBuffer`, `PushIdle`, `Unref` / `FreeBuffer` are the steps of a drop between which other threads run; `Freeze` is `FrameInner::new`, consuming the arena on error too. `content` tells whose bytes a buffer shows |
| `LeaseSemaphore` | the abstract pool: at most `MaxArenas` leases out | `ArenaPool` implements it with `out` the arenas that own a buffer |
| `StreamParams` | `CodecParameters` with its constructors and builders, `ColorSignal::or`, `merge_output_params` | a function from field names to values, `Unset` for an open field |
| `OutputParams` | decoder contract, `OutputParamsWatch` | one decoder, one consumer in one of five modes (counter, counter on media only, events, both, arena frames). `ReceiveEvent`/`ReceiveMedia` take an item, `Look` handles it; the counter wraps at `GenMod`. Decoders differ in whether they emit events and override `reset`; their behaviour is that of the reference decoder in the tests of `codec.rs`. `origin` (the container's parameters) and `stated` (per field, what was last said of it) are history |
| `RecordWire`, `VideoFrame` | records in the plane vector | `planes` is the vector; a record is an entry whose stride is a tag; one action per `set_*`, `take_*`, `push_blob`, the getters are operators. `RecordWire` has what the encodings decide: which bytes are readable and how many entries they hold |
| `FrameRecords` | the abstract frame: image planes beside a table of records | `VideoFrame` implements it, replies of `take_*` and of indexed look-ups included |
| `Orders` | `sort_by`, `filter` and `flat_map` of the standard library, as the registries and the frame use them | an element's place in the result is how many precede it; a stable sort breaks ties by place |
| `CodecInfos` | `CodecTag`, `ProbeContext`, `CodecInfo` and their builders | operators on records |
| `CodecRegistry`, `ContainerRegistry`, `SourceRegistry`, `FilterRegistry` | the registries | one action per `register_*`; look-ups, openers and listings are operators on the state |
| `RuntimeContext` | the context | any sequence of calls on the four |
| `ProbeInput` | `ContainerRegistry::probe_input` against a caller's `Read + Seek` | one action per call on the input, each of which may fail; `got` is how much of the buffer is filled, `saved` the local `saved_pos`; `start`, `seekFailed` are history. `Containers!Detect` is the decision |
| `BitIO` | both bit orders' writers and readers | bits in stream order, so the two orders run the same steps except where a wide word is split; `acc`, `avail`, `bytePos` are the fields; a `Write*`/`Read*`/`Peek`/`Skip`/`Align*` is a whole call, several refills and shifts included |
| `BitStream` | the abstract stream of bits | `BitIO` implements it; the position is `byte_pos * 8 - bits_in_acc` |
| `Rationals`, `Rescale` | `rational.rs`; `rescale*`, tick arithmetic of `time.rs`, `Packet::end_pts` | operators over a signed word of magnitude `Half`, with intermediates of twice the width; `Rescale`'s client picks two fractions and makes one call |
| `PixelFormats`, `ChannelLayouts`, `Formats` | `format.rs` | a format is a family and a depth, a layout a variant and a count; the tables are sets and functions of these. `Formats`' client asks for one size or names one layout |
| `WireFormats` | bytes of colour signals, layers and blob lists; code points; blob kinds | sequences over `Byte`, a decoder's `None` is the empty set; the client encodes, decodes arbitrary bytes, or names a kind |
| `MediaValues` | the pure clients and `CodecSetup` side by side | one call of a pure client, or a sequence of calls that set up an encoder; the two never mix |
| `CodecSetup` | `CodecOptions`, `parse_options`, `CodecCapabilities` | `entries` is the bag, `caps` the capabilities, `stated` the history of what the client said; the struct's `Default` (`Defaults`) is not the default a schema documents |
| `SyncArenaProofs`, `ArenaPoolProofs`, `OutputParamsProofs`, `VideoFrameProofs`, `RuntimeContextProofs`, `ProbeInputProofs`, `BitIOProofs`, `MediaValuesProofs` | theorems about the module of the same name | section 6 |

`MC*` modules hold only the constants of the runs. Operators whose comment
begins with "Bug:" are faulty variants of the definition next to them; nothing
uses them except mutation tests that substitute them to see a property fail.

## 3. Runs

Runs that pass:

| run | distinct states | properties and what they show |
|---|---|---|
| `sync_arena` | 96,714 | three threads race `alloc`: `SlicesDisjoint`, `SlicesWellPlaced`, `CountExact` (the counter is the slices out plus the calls in flight), `SuccessesWithinCap`, `ZeroAboveCursor` (until a reset the next slice is zero), `AllocReturns` (no call loops for ever), `ImplementsBump` |
| `arena_pool` | 13,046 | three lessees, two slots, frames cloned and dropped, the pool dying at any step: `OneOwner`, `HeapAccounted` (no leak, nothing dangling), `LeaseAvailable`, `NoStaleBytes`, `PlanesInUsedRegion`, `FrameFrozen`, `DropCompletes`, `ImplementsSemaphore` |
| `output_params` | 432,190 | every way of watching an audio or a video stream: `StreamDescribesFrame`, `LayoutConsistent`, `FieldsAccountedFor` (in every state, every field is what the last description that stated it said, however many later ones were silent, or the container's; a layout may instead be open, when a later count left it out), `ChangesReportedOnce` |
| `video_frame` | 21,599 | `OthersKept` (a call touches no image plane and no record but its own), `ImplementsRecords` |
| `runtime_context` | 113,931 | after any four registrations: `BestAnswer` (tags, payload magics, probes, extensions), `ListedOpens` (codecs, sources and filters: what is listed opens and what opens is listed), `NewcomerOnly` (a registration changes what a tag or a payload means only in its own favour), `PlacesKept` (what opens once keeps opening the same codec implementation; a container name or a scheme registered again keeps its place) |
| `probe_input` | 20,000 | `CursorRestored` on every path where no seek failed, `ChunkingInvisible` (short and interrupted reads change no answer), `ProbeReturns` |
| `bit_io` | 340,538 | `ImplementsStream` |
| `media_values` | 990,755 | `ExactOrNone`, `ValueOrder` (a total preorder with infinities, reversed by negation), `RoundsToTick` (against a definition without division), `OrderKept` (of timestamps, of differences, and of a packet's moved parts against its moved end), `RoundTrip`; `SizesExact` (a frame's bytes are those of its samples, counted pixel by pixel), `LabelsAgree`; `NamesIdentify`; `WireRoundTrip`; `OptionsAsStated` (the codec sees each key as last stated and the others as the struct's `Default`, or refuses), `RateKeepsBandwidth` |

Type correctness is part of the invariants proved (section 6). The runs that
end in a violation are in section 7.

`CHECK_DEADLOCK FALSE` appears where a client may rightly stop: a pool whose
handles are gone, an arena whose caps are used up, a bounded number of calls.

## 4. Bounds

- `SyncArena`: three bytes, so that a padded pair, a byte and an empty slice
  compete and one of them fails; `UsizeMod` 5, so that both the product of a
  size and the end of a range overflow; a count cap of 2 below three threads,
  so that a refused reservation is in flight while others decide; a counter of
  3 bits with room above the cap. Three threads are enough for one to lose to a
  winner while a third rolls back. The proofs remove all these bounds.
- `ArenaPool`: two slots for three arenas make a lease fail and a buffer come
  round; two handles and two clones make "the last one" differ from "one of
  them". One byte distinguishes written from zeroed. `MaxHandles`, `MaxClones`
  bound counters that only matter as zero, one, or more.
- `OutputParams`: three shapes of an audio stream that state count, layout or
  both, and three of a video stream that state parts of the colour signal,
  layers, a tag, a blob; two frames queued, so that one change waits behind another; `GenMod` 4 wraps. The
  assumption on `GenMod` says that the counter does not come full circle between
  two looks, which a 64-bit counter does not.
- `VideoFrame`: one empty frame and one with every irregularity that
  the getters treat specially; a fixed-length encoding of two bytes; five calls
  (`MaxCalls`), enough to attach, repeat, damage and detach a record with
  another one present.
- `RuntimeContext`: four calls (`MaxCalls`) put three competitors and a repeated
  one into one registry, enough for every pair of tie-breaks; ties are between
  equal priorities and equal confidences, with a NaN and a refusal among them.
  Schemes include a drive letter and a malformed one, filter names two prefixes.
- `ProbeInput`: a buffer of three bytes and inputs shorter, equal and longer;
  one interruption per call (`MaxInterrupts`); probes whose answer changes with
  every byte they are shown.
- `CodecSetup`: three calls (`MaxCalls`); a schema with one field of each kind, two of them documenting a default that is not the struct's;
  documents that repeat, null, nest and are no object; three rates of which the
  middle one is closer to the lower.
- `Formats`: every format of the enum at sides 0 to 9, past a macropixel, a byte
  of mono pixels and a 4:1:1 block; `UsizeMax` 127, so that a row, a plane and
  the sum overflow in turn; every layout and every spelling.
- `WireFormats`: bytes of two bits, one-byte lengths, blob lists of up to two
  blobs, and every string of up to six bytes for the decoder (`MaxBytes`).
- `BitIO`: bytes of two bits, an accumulator of six, calls of four: the code's
  8, 64 and 32 with what matters kept: a call and a byte fit the accumulator
  together, and a refill finds bits in hand and more bytes than room. Ten bits
  (`MaxBits`) fill the accumulator nearly twice.
- `Rescale`: `Half` 8, a 4-bit `i64` and an 8-bit `i128`, keeps every
  inequality the comments of the code rely on (a product of two terms fits with
  a bit to spare, one of three does not). Terms include both ends, zero, one,
  negatives and common factors; tick counts are all sixteen. It is too small to
  show every effect of a wide product: that the difference of two timestamps
  needs the exception of section 7 is visible from `Half` 16 on, where a run takes
  too long. The proofs need no bound.

## 5. Fairness

Three components have liveness properties.

- `SyncArena`: weak fairness of each thread's steps inside `alloc`. The code
  runs on preemptively scheduled threads, and `compare_exchange_weak` is assumed
  not to fail spuriously for ever. Calling `alloc`, writing and resetting are
  choices of the client and are not fair. `AllocReturns` is then a fact about
  the loop: it holds because each failure is somebody's success and space is
  finite.
- `ArenaPool`: weak fairness of the steps of a running destructor. Leasing,
  freezing and dropping are not fair, and `DropCompletes` speaks only of
  destructors that started.
- `ProbeInput`: weak fairness of `Progress`, the steps of the loop that succeed.
  The call runs on the caller's thread; an input is assumed not to interrupt for
  ever, which the bound on interruptions says. Nothing obliges an input to fail
  or a caller to probe. `ProbeReturns` then depends on the loop counting the end
  of the input as the end.

The other specifications are safety only.

## 6. Proofs

All for arbitrary constants, from the named assumptions of the modules
(finitely many threads and arenas, a request fits a `usize`, and so on).

`SyncArenaProofs`. `SlicesDisjoint` is not inductive: it does not say where the
next slice comes. `ClaimInv` adds that slices are handed out in address
order (`SlicesOrdered`), that each ends at or below the cursor
(`SlicesWellPlaced`), and that the range a thread is about to claim, computed
from the cursor it has seen, fits (`CasReady`). A CAS succeeds only when that
cursor is still current, so its slice starts above all others. From it:
`TypeCorrect`, `WellPlaced`, `Disjointness`. `CountIsExact` is inductive beside
it, modulo the counter's width. `WithinCap` and `Refinement` need `CapInv`: no
more calls hold an accepted reservation than the cap. It holds only under
`Headroom`, cap plus threads below 2^32; `sync_arena_wrap` shows that without it
the statement is false. `Refinement` maps `CasWin` to the abstract `alloc`,
`Reset` to `reset`, and everything else to a stutter. `ZeroUntilReset` rests on
`SlicesWellPlaced`: a thread writes only into slices it holds, and these end
below the cursor. Under all of it lies `AlignUpBounds`: aligning up gives the
multiple at or above, less than one alignment away.

`ArenaPoolProofs`. `PoolInv` strengthens `OneOwner`, `HeapAccounted` and
`NoStaleBytes` with: a frame exists exactly while it has clones; the buffer
about to be pushed has been zeroed; while the pool lives the buffers allocated
are exactly `1 .. total`; once it is dead its idle list is empty and no upgrade
succeeds. The last two decide the race of a destructor with the pool's death:
an upgraded handle keeps the pool alive until after the push, a failed upgrade
stays failed. From it: `PoolTypeCorrect`, `SingleOwner`, `NoLeakNoDangling`,
`NoStale`, `PlanesInside`, `FrozenFrames`, `NoSpuriousExhaustion` (by counting:
buffers in use and idle are disjoint and make up `1 .. total`) and
`PoolIsSemaphore`.

`ProbeInputProofs`. `ProbeInv`: while a call runs, its bookmark is the caller's
position and no seek has failed (`Bookmarked`); while it reads, the buffer holds
exactly the bytes in front of the cursor (`BufferIsPrefix`); when it stops
reading, that is the whole buffer or the whole input (`BufferComplete`). How the
bytes were cut up leaves no trace in it, which gives `ChunksDoNotShow`;
`InputRestored` needs the bookmark only.

`OutputParamsProofs`. The consumer may be behind the decoder, so
`StreamDescribesFrame` is not inductive. `ParamsInv` says by how much: the
counter has moved since the consumer's watch read it by no more than the changes
a reset can have skipped and the one in its hands (`CounterTells`), so that an
equal counter means an equal description; a consumer of events has been told of
all but the event in its hands (`EventsTell`); an event stays in front of its
frame (`Announced`); and every field of the stream is what was last said of it
(`Accounted`), which a merge keeps for the fields the new description states and
for those it is silent on (`MergeTells`); an item that covers the stream has said
nothing else (`CoveredTells`). The theorems about frames and fields assume `Served`,
which excludes exactly the consumers of events whose decoder emits none or has
the default `reset`; the last is the run `output_params_reset`. `ChannelsAgree`
and `ReportedOnce` hold for them too. The lemmas about `Merge` (`MergePair`,
`MergeCovers`, `MergeAgain`) say what `merge_output_params` does to any two
descriptions.

`RuntimeContextProofs`. `ContextInv`: the indices of tags and of payload
prefixes hold exactly the claims of the registrations, and no index is out of
their bounds (`TagsIndexed`, `MagicsIndexed`); the ids listed are those with
implementations, each once, and every list of implementations is in order of
age (`ImplementationsListed`); extension claims are in the order they were made
(`ExtensionsOrdered`); every table of the container registry has one entry per
name; the schemes listed are those with an opener, each once. Besides what the
types say of the constants it assumes that a NaN is no number, that a probe
scores with a `u8` and that priorities are integers. `PlacesStay` follows for
container names from what `Replace` does to a table (`ReplaceIs`), for schemes from
a listing that grows only at the end (`SchemeStep`), and for codecs from lists of
implementations that do and look-ups that take the first (`FirstStays`).

`BestAnswer` reads the first element of a sort whose comparison ties, and
`NewcomerOnly` compares two such sorts. `SortedIs` says what `InOrder` yields for
any finite set and any total order on it, given as a set of pairs: a bijection
from places to elements that respects the order. With the places as tie-breaker
each rule is total (`StableTotal`), so the first element is the one nobody
precedes (`LeastFirst`), whatever NaN or zero confidence was filtered out
(`TagAnswer`, `MagicAnswer`, `ProbeAnswer`). The walk that implements the extension
rule a second time keeps the latest claim of the least priority so far
(`WinnerStep`, `WalkIs`), which is the first of the sort (`ExtensionsAgree`).
`NewcomersOnly` compares the claimants before and after: a new one precedes all or
changes nothing (`TagNewcomer`, `MagicNewcomer`). `ListingsOpen` needs that lists
built by filtering and flattening hold each element once (`KeptIs`, `ListingIs`).

`MediaValuesProofs`. The specification is that of the run: any value may be asked
anything, and a step about another component changes neither the operands nor the
answer judged (`Steps`). Each answer about fractions comes from one call, so
there is nothing inductive but that the operands stay; the work is in the
operators, for every width. A division that rounds a magnitude by mode and sign
yields the tick that the mode asks for, defined without a division (`AnswerIs`,
giving `RescaleRounds`). Ticks so defined are ordered as the values are and a
whole multiple is its own tick (`TickOrder`, `TickExact`), and cutting off at both
ends keeps the order; start, duration and end of a packet, each half a tick or less
off, are less than two ticks apart, so one (`PartsMoved`, giving
`RescaleKeepsOrder`). Back in a base no finer the nearest
tick is the old one, since the error of the first rounding is at most half of it
(`BackTick`, giving `RescaleReturns`). `FractionsOrdered` compares by cross
products where denominators are positive, and by rank where one is zero.
`ResultsExact` says what the checked operations answer. `gcd_i128` is a recursion,
modelled as a recursive function; that the greatest common divisor is its only
solution follows by well-founded induction from the step that keeps all divisors
(`StepKeepsDivisors`, `GcdIs`). Dividing by it leaves the fraction of the least
terms with that value (`LeastTerms`), so when those do not fit an `i64` no
fraction does.

The setup of an encoder is a sequence of calls. `SetupInv`: the bag holds each key
once, with what was last said of it (`Holds`), and the declared rates are rates.
`insert` keeps that (`InsertHolds`); a JSON object is walked member by member
(`MemberHolds`, `CollectedHolds`). It assumes that an object has a key once, as a
parsed one has, and a schema a field once. `parse_options` is followed turn by
turn: after `n` entries there is no struct if one of them was refused, else
`T::default()` with these fields set (`TurnParses`, `ParseIs`),
which gives `OptionsSeen`. `PickIs` says of the rate picked that it is the one
asked for, the least above or the greatest, which gives `BandwidthKept`.

`LabelsTrue` goes through the variants: a format is a family and its bits
(`VariantIs`), the named sets are families (`FamiliesAre`), and each family has
its components (`ComponentsAre`).

`SizesTrue` counts the samples instead of enumerating them. The grid of a component
is where the pixels of the picture fall when their coordinates are divided by the
spacing, and that is a block of rounded-up width and height (`GridIs`); so the samples
of a format are two products, one for the components at full resolution and one for
chroma (`TwoGrids`, `SamplesAre`). On the code's side the loop over the planes ends
with their sum, or with nothing when one was refused or the sum passed `usize::MAX`
(`FrameIs`), so what remains is to compare bytes and samples class by class
(`PlanesMakeFrame`): packed, one bit per pixel, macropixels, semi-planar, planes at
full resolution and planes with chroma (`PackedSize`, `MonoSize`, `MacropixelSize`,
`SemiPlanarSize`, `FullSize`, `ChromaSize`).

`BitIOProofs`. `Inv`: between two calls a writer holds whole bytes in its data,
less than one byte in its accumulator, and nothing but zeros behind the bits
that it holds (`ZeroBehind`); the bits in a reader's accumulator are those that
stand at their place in its data (`InPlace`), `avail` of them in front of
`bytePos`. A call may turn through several refills; each loop is a recursive
function whose existence and invariant are shown once for all (`LoopExists`,
`LoopStays`) and used for unary codes, byte runs and skips. After a refill `n` bits are at
hand exactly when `n` are left (`EnsureIs`), which rests on
`ByteBits + MaxCall <= AccBits`. `StreamImplemented` maps every call to one step
of `BitStream`, whole words, padding and failures included.

`VideoFrameProofs`. Only that entries stay entries is inductive (`FrameTyped`):
the vector is whatever a producer built, and the work is in the operators. What
a filter keeps is numbered by an increasing enumeration of the places it takes
from (`PickedIs`), and there is only one such enumeration (`OneNumbering`), so
two filters that take the same entries in the same order are equal
(`PickedAgain`, `FrontKept`). The backward scans for the run of records and for
the last record of a kind are pinned down by what they leave behind
(`RunStartIs`, `IndexIs`). From these, removal takes the records of one kind and
leaves everything else in order (`RemoveIs`), an entry pushed at the end joins
the run and is the one that is reported (`PushIs`, `PutIs`). `OthersSpared` and
`FrameImplemented`, one lemma per family of calls, follow.

Only model-checked, and why:

- liveness (`AllocReturns`, `DropCompletes`, `ProbeReturns`): the prover does not
  treat `ENABLED`;
- `NamesIdentify` and `WireRoundTrip`: texts and byte strings are built with folds
  over sequences, and decoding is a recursion over data.

## 7. Statements that fail

Four are runs that end in a counterexample.

- `sync_arena_dirty`: `alloc` documents zero-filled slices. `reset` rewinds
  without clearing, so a slice allocated afterwards shows old bytes. Before the
  first reset the statement holds (`ZeroAboveCursor`).
- `sync_arena_wrap`: with `max_alloc_count` = `u32::MAX` the `fetch_add` of a
  call that will be refused wraps the counter to 0, and calls before its
  `fetch_sub` pass a cap that is used up. The single-threaded arena guards the
  same step with `checked_add`.
- `output_params_reset`: the default `reset` drains `receive_frame` and drops a
  queued parameter change with the frames; a consumer of events then keeps the
  old shape. Decoders that override `reset`, and consumers that watch the
  counter, are not affected; that is why `output_params` leaves out this one
  combination.
- `rescale_wide`: a comment in `rescale_rnd` says that a value whose product with
  the factor exceeds 128 bits is far outside `i64`, and the code answers an end
  of the range. The divisor may be as wide as the factor:
  `rescale(1024, 2^62/2^62, 2^62/2^62)` is `i64::MAX`. `RoundsToTick`,
  `OrderKept` of differences, and the way back in `RoundTrip` except such
  products (`Roomy`); the order of two rescaled timestamps needs no exception.

Others were met while modelling; the models follow the code.

- `codec.rs:1161`, `1222`: the trait `CodecResolver` documents that tags claimed
  with equal confidence and payload prefixes of equal length are decided by
  registration order (`stream.rs:281-283`, `304-306`). The registry, which
  implements the trait, compares priorities first, as its own methods document
  (`codec.rs:1127-1130`, `1179-1182`): of a claim at the default priority 100 and a
  later one at 50 the later answers. `BestAnswer` states the registry's rule; the
  trait's holds between claims of equal priority only. In `runtime_context` four
  infos have the default and two have 50 and 10, so both kinds of tie occur.
- `codec.rs:491`: the default `receive_arena_frame` copies records as planes,
  and they count against `MAX_PLANES` = 4: a three-plane frame with two records
  is refused, though the copy is documented as additive for every decoder.
- `rational.rs:272`: `Rational`'s operators promise the closest representable
  approximation. When only the numerator is too wide it saturates over the
  denominator that is left: `i64::MAX/1 * 2/3` gives `i64::MAX/3`, half the
  value, though `6148914691236517204/1` is representable. `ExactOrNone` is about
  results that fit.
- `time.rs:69`: `ticks_of` documents 0 for a result that exceeds `i64`; it clamps
  to the ends of `i64`.
- `stream.rs:530`: `matches_core` documents that a stream with a layout matches
  one with the count only; it compares `channels`, which the former may leave
  open.
- `format.rs:1143`: `bits_per_pixel_approx` is meant for worst-case
  preallocation, but for deep planar RGB it counts significant bits (30 for
  `Gbrp10Le`) where a frame stores 16-bit words (48), so a buffer sized by it is
  too small; `SizesExact` is about `frame_size_bytes`.
- `codec.rs:1004`: `decoder_by_impl` takes the first implementation of the name,
  so one without a decoder hides a later one of the same name that has it.
- `blob.rs:127`: a format-native kind whose producer and chunk spell a
  well-known kind (`cover`, `art`) equals it and has no producer.
- `source.rs:318`: a scheme of one letter, or one that is no scheme, can be
  registered and is listed, but no URI reaches it.

Smaller: `checked_add` refuses `MIN/MIN + MIN/MIN` although it is 2, which
`ExactOrNone` excludes explicitly (the documentation promises an answer). In
`SyncArena` a call can also be refused for the count while another call's reservation is about
to be rolled back, which the single-threaded arena never does; `BumpArena`
therefore says nothing about refusals.

## 8. Not modelled

- Memory ordering. The atomics of `arena/sync.rs` are interleaved one at a
  time; each location has a total order of modifications and slices are
  published to other threads by their own means, so no property rests on
  ordering between two locations, except that the counter may be seen before
  the cursor, which the interleaving shows too.
- `std` failures: allocation failure, poisoned mutexes (nothing that runs under
  the pool's lock unwinds), overflow of a reference count.
- Real decoders, demuxers, filters and sources: other crates. The decoder in
  `OutputParams` is the reference implementation of the repository's tests.
- `f64` conversions of `time.rs` and `rational.rs`, `vector.rs` (a tree type and
  floating-point geometry): TLC has no floating point.
- The single-threaded pool and frame of `arena/mod.rs`: their code is that of
  `arena/sync.rs` with `Rc` and `Cell`, so their behaviours are those of
  `ArenaPool` in which a destructor is not interrupted. A buffer capacity above
  `isize::MAX`, for which `buffer_layout` has no layout, is outside the models:
  the capacity of a model always has one.
- `SampleFormat` (a table of twelve formats nothing in the crate computes with),
  the look-ups by index or kind of `CodecParameters` and `LayerInfo`, and of
  `CodecCapabilities` the flags and accepted formats: no state and one
  comparison each.
- The collection of entry points at link time (`slice.rs`): what the entries do
  is `RuntimeContext`; that the linker keeps them is outside any model.
- `engine.rs`, `execution.rs`, `metadata.rs`, `subtitle.rs`, `limits.rs`,
  `error.rs`, `filter.rs`: plain data, builders and traits. What the limits bound
  is in `SyncArena` and `ArenaPool`.
- Which texts Rust's parsers accept as a number or as UTF-8, and which schemes
  are well formed: tables in the MC modules.
- The error of `read_unary` for a run of more than `u32::MAX` zeros
  (`bits.rs:208-210`), which takes a buffer of half a gigabyte, and the lowercased
  extension that container detection hands to each probe beside the bytes: a
  probe of the models scores the bytes only.
- The benchmarks and the property tests of the repository were read for what
  they promise and are not modelled.

## 9. Plan

What could still be modelled is listed in section 8 with the reason it is not.
Every safety and action property of the runs is a theorem except `NamesIdentify` and
`WireRoundTrip`, which stay with the model checker together with liveness, for the
reasons section 6 gives.
