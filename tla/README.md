# Verification of t61-fire-dept-tools

TLA+ modules, TLC configurations and TLAPS proofs about the receiver of ARIB STD-T61 SCPC/FDMA
fire-department radio in `src/`: the frame slicer, the pipe to the frame decoder, the decoder with its
super-frame, pairing and reassembly state, the convolutional decoder, and the parsers of what comes out. Paths below are relative to the repository's root
(`src/src/slicer.rs` is the Rust file).

## 1. The system

```
radio -> arib_t61_rx.py -> pi4_qpsk_demod.py -> t61_frame_slicer -> t61_fd_decoder -> JSON lines
         (GNU Radio)       2-bit symbols         48-byte frames      one record per     or CELP lines
                           four to a byte        and placeholders    frame
```

The programs are sequential and connected by pipes: each reads, changes its own state, writes. Nothing is
shared and nothing is persisted. What makes them hard is that the input is a radio channel: symbols are
damaged, frames are missing, the pipe returns as much as it likes, and all three programs carry state from
one frame to the next that the next frame may contradict.

### Components

| Component | State | Operations | What makes it correct |
|---|---|---|---|
| Frame slicer, `slicer.rs` | window `rbuf` of 3 frames, `valid`, `pending`, `eof`, `done` | `next_frame` (read, search, slide, consume, drain) | no frame with a sync word lost, none twice, none made of two; placeholders keep frame numbers; ends |
| Sync matching, `slicer.rs`, `primitives.rs` | none | `match_window`, `find_sync`, `compare_sync_byte` | both programs take a frame for the same kind |
| Dispatch, `decoder/mod.rs` | output mode | `process_frame`, `finalize_super_frame`, `emit_celp_line` | each frame to its branch, one record each |
| Super-frame, `header.rs`, `acch.rs`, `state.rs` | `sacch_count`, `sacch_buf`, `rch`, `sacch` | `proc_psc_sacch`, `proc_rch`, `proc_sacch`, `reset_idle` | a unit is put together from its own slots |
| Pairing, `mod.rs`, `acch.rs`, `voice.rs` | `psc.m`, `psc.tch` | `proc_psc_branch`, `proc_ss1_branch`, `proc_layer2`, `proc_voice` | halves of one unit are paired, and once |
| Reassembly, `state.rs`, `acch.rs` | two blocks: bytes, count, last length | init, alloc, assemble, total length | a message is made of its own units, all of them |
| Convolutional decoder, `convo.rs` | the input, flipped in place; the recursion | `deconvo26`, `deconvo29` | the nearest message within reach, input restored |
| CRC, interleaving, slicing, dewhitening, `primitives.rs` | none | pure functions | |
| Header and PICH, `header.rs` | none | `proc_t61_frame`, `proc_pich` | |
| ACCH fields, `acch.rs`, `l2_block.rs` | cursor and remaining length | `emit_acch_fields`, `emit_sacch_block_fields`, `proc_l2block_facch` | the two agree: a record shows all of the body, once |
| Layer-2 layouts, `l2_*.rs` | cursor | `proc_l2block` and the layouts | fields in their places, for every length that selects them |
| Voice codec, `voice.rs`, `tables.rs` | none | permutations, hash | |
| GPS, `gps.rs`, `gps_emit.rs` | none | coordinate conversions | the position is the sender's |
| JSON, `json.rs` | cursor, record | `FieldEmitter` | what is shown is what was taken |
| Command lines, `bin/` | frame number, a partly filled frame | read and write loops | frames stay whole and aligned on the pipe, and none waits for the next |
| Demodulator, `pi4_qpsk_demod.py` | filter and loop state | signal processing | |
| SDR flow graph, `arib_t61_rx.py` | GNU Radio blocks | configuration | |

### Interactions

The slicer reads bytes from a pipe with any granularity and hands frames to the decoder over another, with
`write_all` on one side and `read_full` on the other; neither knows of the other but by a pipe that is full,
empty or closed. What a frame is, both ask its sync word, each in its way. A lost
frame reaches the decoder as a placeholder or not at all. The decoder gives every frame to two sides that
share nothing but the frame: the super-frame side (RCH and SACCH) and the traffic side (Layer 2 and voice);
behind the frame's branch, whatever it was, `finalize_super_frame` runs. Both sides reassemble messages with
the same code on blocks of different sizes, and both call the convolutional decoder. What is reassembled
goes to parsers that trust the lengths they find in it.

`PROJECT.json` lists the hazards of this code at their lines, and for each the properties that look at it.

## 2. The modules

| Module | Models | Kind |
|---|---|---|
| `FrameSequence` | what the slicer promises its caller | abstract specification |
| `Slicer` | `slicer.rs` | component |
| `SlicerMC` | streams and sizes for TLC | instance |
| `SlicerProofs`, `SlicerSafety` | | proofs about `Slicer` |
| `SyncWords` | `slicer.rs` (`match_window`), `primitives.rs` (`compare_sync_byte`): the two comparisons | helpers |
| `FrameChannel` | what the pipe promises the two programs | abstract specification |
| `Pipeline` | `bin/`: the two `main`s and the pipe, with what `process_frame` asks of a frame first | composition, extends `SyncWords` |
| `PipelineMC` | sizes and windows for TLC | instance |
| `PipelineProofs` | | proofs about `Pipeline` |
| `BlockAssembly` | `state.rs`: the two blocks, as operators on a block | helpers |
| `SuperFrame` | `header.rs` (`proc_psc_sacch`), `mod.rs` (`finalize_super_frame`), `acch.rs` (`proc_rch`, `proc_sacch`) | component, extends `BlockAssembly` |
| `SuperFrameAir` | `SuperFrame` with a sender and a channel that damages frames | composition |
| `SuperFrameMC` | transmissions for TLC | instance |
| `SuperFrameProofs` | | proofs about `SuperFrame` and `SuperFrameAir` |
| `PscPairing` | `mod.rs` (`proc_psc_branch`, `proc_ss1_branch`), `acch.rs` (`proc_layer2`), `voice.rs` | component, extends `BlockAssembly` |
| `PairingAir` | `PscPairing` with a sender and a channel | composition |
| `PairingMC` | transmissions for TLC | instance |
| `PairingProofs` | | proofs about `PscPairing`, `PairingAir` and `BlockAssembly` |
| `Decoder` | `mod.rs` (`process_frame`): `SuperFrame` and `PscPairing` in one step, and what is written | composition |
| `DecoderMC` | frames for TLC | instance |
| `DecoderProofs` | | proofs about `Decoder` |
| `Convo` | `convo.rs`, both decoders | component |
| `ConvoMC` | the K=6 code and noisy words for TLC | instance |
| `ConvoProofs` | | proofs about `Convo` |
| `Cursor` | `primitives.rs` (`Cursor`), `json.rs` (`FieldEmitter`): taking, skipping, peeking, and what was shown | helpers |
| `AcchFields` | `acch.rs`, `l2_block.rs`: the four parsers of bodies that carry their own lengths | component, extends `Cursor` |
| `Gps` | `gps.rs`, `gps_emit.rs`, and a sender that writes positions | helpers |
| `DataFields` | `l2_block.rs`, `l2_text.rs`, `l2_binary.rs`: header and layouts of DATA bodies | component, extends `Cursor`, `Gps` |
| `FieldsMC` | bodies for TLC, both components in one instance | instance |
| `FieldsProofs` | | proofs about `AcchFields`, `DataFields` and `Gps` |

### Slicer

A symbol is its position in the input, so `rbuf` is a function from cells to positions and a frame says what
it is made of. A stream is its length and the set of positions at which a frame would be cut: `Match(i)`
says whether the window at offset `i` is such a position. One step is one iteration of the loop in
`next_frame`, so that each `read` can return anything:

| Action | Code |
|---|---|
| `TakePending` | `pending.take()`, l. 166 |
| `ReadMore(n)`, `ReadEof`, `ReadError` | `read_more` and the loop's first branch, l. 174-181, 202-214 |
| `SlideForward` | a window without a match, l. 182, 216-223 |
| `ConsumeWithNoSignal(ret)` | a match, with or without a placeholder in front, l. 225-245 |
| `DrainConsume(ret)`, `DrainFinish` | the drain phase, l. 185-198 |
| `ReturnNone` | every call after the end, l. 169 |

`find_sync` probes the expected drift first, *whatever is valid behind it*, and then scans: `Probed`, `Found`.
`Drop` is `copy_within`: the cells behind the copied ones keep what they held, and this is where the stale
symbols of the `slicer_tail` run come from. What a window must look like to match, and that a tolerated match
is patched to the canonical sync word, is in `SyncWords`.

`FrameSequence` has neither buffer nor reads: it moves through the stream, passes a step of it only if no sync
word begins there, delivers the first sync word but for the drift, and ends only when no whole frame is left.
Where placeholders stand is open where the code's choice depends on the reads. `Abstract` maps the slicer to
it: `covered` is `taken - valid`, the slots are the start positions of the frames returned and held back.

### SuperFrame and PscPairing

A slot is `[rch, part]` or `[unit, part]`: the n-th part of an RCH or of a SACCH unit. A unit decodes when the
gathered slots are its parts in order, and everything else fails: this stands for interleaving, convolutional
decoding and CRC together. The count, the repacking at 2, 10 and 18, the order (finalize behind every branch),
the blocks that are not cleared and the unsigned index of `assemble_*` are as in the code; an index below zero
sets `sacch_panic` or `l2_panic`, behind which nothing runs.

A TCH has a half that ends what the frame before began and a half that begins something. `ProcLayer2` pairs
`psc_tch` with the frame, `Effective` is `m_eff`, the kind the frame counts as. What the two halves of
different voice frames decode to is open: an error or a payload whose hash fails.

`SuperFrameAir` and `PairingAir` add the sender and the channel. The sender is external: it is modelled from
what the decoder expects (first and last flags, a count that runs down, a top frame per super-frame). A frame
may vanish (slid past), come as a placeholder, lose its header, or lose its slot or TCH.

`Decoder` instantiates both sides with the block sizes of the code, 6 and 12 bytes a cell, and takes its
frames in any order. `record` and `out` are what `process_frame` writes.

### Pipeline

A byte is `[of, at]`: the frame it was sent in and its place there, so that the decoder's buffer says where
what it holds came from. `WriteSome(n)` is one write of `write_all`, `ReadSome(n)` one read of `read_full`; `n`
is anything there is room for or that has come. `ProcessFrame` records the number, the bytes and the type.
`Killed` stops the slicer between any two writes, `WriteFails` is the broken pipe it finds, `DecoderFails` stands
for every `?` of the decoder's loop, a panic of `process_frame` included. Of a frame's content there are byte 17,
zero or not, and the 16 symbols at byte 0x17: as `FrameCut` puts them there (patched) and as `Type` reads them.

`FrameChannel` has no bytes: whole frames come out in order with consecutive numbers, the input ends only when
no whole frame is left, and a frame that was cut never comes out. `Channel` maps `Pipeline` to it.

### AcchFields, DataFields and Gps

A field is `[at, n]`, where it begins and how long it is; the record is the sequence of its fields, `cur.shown`.
`Took` outside the body is a panic, a skip outside it is not: only the next take finds out, as in the code.

`AcchFields` is four parsers over the same steps (`parser`): `acch` for a message of one unit, `block` for a
reassembled SACCH message, `facch`, and `last`, the cut of a last unit's body in `proc_layer2` and
`proc_sacch`. A step goes up to the next byte the code reads a length or a kind from. Next to the code's `len`
there are two history variables: `announced`, how long the body is said to be, and `claimed`, how much of it
the lengths read so far ask for.

In `DataFields` a layout is a sequence of steps, most of them a field of `n` bytes (`n`) or skipped bytes (`-n`);
`Gate`, `Branch`, `Peek`, `Count` and `Sized` are the early returns by length, decisions by a byte, lists and
lengths. The machine takes one step at a time from `plan`. Which layout it is follows from `kind` and `info`, two
received bytes, and the body's length. A list's items have the same keys: `Replaces` says that a field stands in a
list and that an item before it has shown its own, and then `TookAgain` takes the last field's place. A position step picks the place of a sender and what it would write for it in that format
(`Gps`, external), and stores what the code makes of it in `gps`.

### Convo

The recursion is the stack `flips`; the call's `count` is its height. `FirstFlip`, `SecondFlip` and `GiveUp`
are the three XORs of `deconvo26_sub` (1, 3, 2), `NextBudget` is the loop over `max` in `deconvo26`. The two
decoders differ in the constants, and only one of them has a CRC: `Valid` is the set of messages that pass.

## 3. The runs

Passing runs:

| Run | Instance | Shows |
|---|---|---|
| `slicer` | frame of 8 symbols, 2 a byte, drift 2; streams of 28 or 30 symbols: any two sync words anywhere, and streams with a sync word per frame within the drift; reads of any length, one failing | `NoFrameLost`, `FramesInOrder`, `FramesIntact`, `PlaceholderFillsHole`, `SyncedFraming`, `ImplementsFrameSequence`, `Terminates` |
| `superframe` | RCH of 2 slots, units of 3; three plans of up to three messages; 2 damaged frames | `GenuineMessages`, `Resynchronised`, `RchInOrder`, `RepackedFromCurrent` |
| `pairing` | four plans of runs of Layer 2, voice, idle and SS1; 3 damaged frames | `GenuineMessages`, `NoBlockOutsideLayer2`, `Resynchronised`, `NothingTwice` |
| `decoder` | 13 kinds of frames in every order, 5 frames; both output modes | `PairsAreNeighbours`, `CountsSinceTop` |
| `convo` | the real K=6 table, 8 symbols, a code word with up to 4 of its 16 bits inverted, all five searches | `OnlyOpenFlips`, `Nearest`, `CorrectsThree`, `Terminates` |
| `pipeline` | frames of 6 bytes on a pipe of 8; 2 frames, each a placeholder or a window that matches: every word, and with a bit or a symbol wrong | `FramesAligned`, `SlicerDecoderAgree`, `CompleteAtEof`, `ImplementsFrameChannel`, `EveryFrameArrives`, `NobodyIsLeft` |
| `fields` | ACCH and FACCH: all 64 announced lengths, blocks of up to 16 bytes, 14 values of every byte read; DATA: 24 body lengths, an infotype or type byte of every group that shares a layout and of those without one, counts 0 to 3 and 255, 16 places | `RecordTilesBody`, `StopsOnlyOnBadLengths`, `FieldsInOrder`, `InfoTypeIsShown`, `GatesLoseNothing`, `PositionAsSent` |

Each also checks its module's type invariant.

Runs in which the code does not do what the repository says of it:

| Run | Says | Does |
|---|---|---|
| `slicer_cadence` | one slot lost, one `no_signal` | slots lost in a row are replaced by fewer placeholders than were lost |
| `slicer_tail` | frames are stretches of the stream | the last frame can end with symbols from earlier in the window |
| `superframe_stop` | one record per frame | a message whose first unit was missed can make an index underflow |
| `decoder_no_signal` | `no_signal` is byte 0x17 | it is byte 17, and one valid header in 256 has a zero there |
| `fields_sendai` | one record per frame | a SENDAI body of 63 bytes can select a layout of 81, and the decoder stops |

The quotes and lines are in `PROJECT.json`, "findings". In `slicer_cadence` and `slicer_tail` reads are full
and the transmission has no drift: these are not effects of short reads.

Where the code and what is said of it differ in ways that are plain from the code, there is no run:

* An RCH is decoded at frame 2 of a super-frame, says `docs/en/decoder.md:28-30`; behind a header that does not
  decode the count is still 2 when `finalize_super_frame` runs, and the RCH is reported a second time
  (`mod.rs:114`). `RchInOrder` states what remains: once and in order unless a header was lost.
* A Layer-2 block is reset at the end of a block, says `docs/en/decoder.md:269`; it stays until the next reset or
  first unit (`acch.rs:68`). `NoBlockOutsideLayer2` states what remains.
* Voice whose hash fails is silent in CELP mode, says `README.md:147-148`; its payload is written (`voice.rs:147`).
* `docs/en/json-output.md:208-211` shows lists of fields; the items of a list have one key, and only the last stays.
* Positions are WGS84, say `docs/en/decoder.md:244-246` and `docs/en/json-output.md:177-178`; a SENDAI body's is shown
  as it was sent, which is the Tokyo datum everywhere else (`l2_binary.rs:51-53`). `PositionAsSent` states both.
* 5 and 8 are given as the most errors the convolutional decoders correct; the loops are over `0..5` and `0..8`,
  so 4 and 7 flips are the most that are tried.
* The slicer's tolerance is given in symbols; `match_window` counts bits.

### Bounds, and why they are enough

* Slicer. What matters of the sizes is their order: a byte is not larger than the drift, three times the
  drift is not more than a frame, the window is three frames. 8, 2 and 2 keep it. 30 symbols are nearly four frames: the
  window fills, slides, cuts a frame with a placeholder in front and drains, in every phase of the sync words
  to the reads. Two sync words at every pair of positions cover every distance, drifting and false ones
  included; more than two only occur in the synced streams. One failing read may come at any of the reads.
  All of the run's safety properties and the refinement are proved for all sizes, streams and reads (section 5).
* Super-frame. Units of 3 slots, more than the 2 damaged frames: losses shift the slots of a unit and never
  swap two units (the code's units have 8 slots). The plans put a long message
  behind a short one, at both halves of a super-frame, and single units in between. For every plan whose messages fit
  into the block and any number of damaged frames the properties are proved.
* Pairing. Three damaged frames can take the last unit of a message and the first of the next, or the
  boundary between two runs. Here too the properties are proved for every plan and any number of damaged frames.
* Decoder. Five frames are enough for a super-frame (of three here), a reset and a new one, and for every
  triple of kinds with something in front and behind. Both properties are proved for every sequence of frames.
* Pipeline. What matters is that a frame does not fit into the pipe twice, that it has bytes before, in and
  behind the sync word, and that frames are cut by reads and writes at every place: all offsets occur. Two frames
  are one and its successor; alignment, order, the types and the channel are proved for all sizes and any number of
  frames, and all windows.
* Fields. The body lengths are those on both sides of every length the layouts compare with and of their ends; a
  byte takes the values the code compares with, and lengths that fit, just do not, and reach far outside. Layouts
  do not depend on one another, so one body a behaviour is enough. What TLC does for these bytes is proved for all
  256 for the length-driven parsers, for every body length and type byte for the DATA layouts, and for every place
  in Japan for the positions.
* Convo. Eight symbols are two message bits, a bit of parity and the five tail bits. Four inverted bits
  include words two of whose errors are in one symbol, which the search cannot undo, words that decode to
  another message, and words out of reach. `OnlyOpenFlips` and `Nearest` are proved for words of every length, every
  table, every CRC and every number of errors, `CorrectsThree` for every code that keeps `FreeDistance`.

### Fairness

`Slicer!FairSpec` assumes weak fairness of `NextFrame`: the consumer, `main` of `t61_frame_slicer`, calls
`next_frame` until it returns `None`, `next_frame` loops without waiting for anything but `read`, and a read
of a finite stream returns. `MaxErrors` bounds the reads that fail; `main` stops at the first, a library
caller need not. `Convo!FairSpec` is sequential code running on. `Pipeline!FairSpec` assumes that each program's
loop goes on where it can: a writer with room in the pipe, or without a reader, and a reader with bytes or at the
end of the input. Pulling a frame is not fair, a silent radio owes the slicer nothing; nor does anything fail or
stop by fairness. So `EveryFrameArrives` is about a frame after which no other ever comes, and `NobodyIsLeft` lets a
slicer that waits for its input live on without a decoder until it has a frame to write, as the code does. No
other module claims liveness.

## 4. Properties worth explaining

* `NoFrameLost` is about the seams of three searches: the fast path at the expected drift, the scan that stops
  where a whole frame is still valid, and the slide by a frame less the drift. A sync word inside what a frame
  consumed is accounted for by that frame: the slicer does not look at it.
* `SyncedFraming` is the promise of `docs/en/frame-slicer.md:110-112` on read granularity; the header comment of
  `slicer.rs` only says that framing may differ. It needs the first sync word within the first step.
* `PlaceholderFillsHole` says what is true of placeholders, next to `OnePlaceholderPerLostSlot`, which is what is
  said of them: a hole gets one placeholder at most and only when it is more than a slot. With `FramesInOrder` it
  means that the frame numbers never run ahead of the slots on the air.
* `GenuineMessages` (both sides) is what the pairing, counting and resetting are for. On the super-frame side it
  needs the damage to be noticed: a frame that vanishes, or a header that fails, can join units of two messages.
  On the traffic side only lost headers can, since a pair that does not fit resets the block.
* `Resynchronised` says that no damage lasts: one super-frame later, or one run later, messages come through.
* `Nearest` compares the backtracking search, which never flips a symbol it has not failed on, with the set of
  all messages within reach. Reach is what the search can undo: one wrong bit per symbol. `CorrectsThree`
  holds all the same of any three errors in different symbols, since code words are eight bits apart.
* `FramesAligned` and `CompleteAtEof` are about one buffer that is never cleared and a stream without delimiters:
  one byte kept, lost or read twice would shift every frame behind it, for good.
* `SlicerDecoderAgree` compares two tolerances, in bits and in symbols, and two orders of the words. It holds
  because what the slicer tolerates it patches, and any two words differ in more than three of the first ten symbols.
* `RecordTilesBody` compares the count with the cursor: the code keeps both, adjusts each in its own line, and
  hands out what the one says from where the other is. `StopsOnlyOnBadLengths` is the other half: the panics there
  are, are those of lengths that contradict each other, never of the parser's own arithmetic. It names the lengths
  nobody checks: `acch.rs:63`, `:245`, and the second length everywhere.
* `InfoTypeIsShown` and `GatesLoseNothing` are about numbers in the layouts that have to agree with sums of others,
  far apart in the code: absolute places against the cursor, lengths against the fields so far.
* `PositionAsSent` starts from a place and goes through sender and decoder: exactly the nearest millionth of a degree
  (`Millionths`) from three formats with different roundings, and exactly what the documented formula (`Wgs84`, written
  from `docs/en/decoder.md:250-251` and not from the code) makes of it, but for SENDAI; and no place sent is lost as 0.

## 5. The proofs

All are checked by TLAPS for every value of the constants that satisfies the named assumptions.

| Theorem | Statement | From |
|---|---|---|
| `SlicerProofs!BufferMirrorsInput` | `Spec => []Inv` | `SizesAssumption`, `StreamsAssumption` |
| `SlicerProofs!TypeCorrect` | `Spec => []TypeOK` | |
| `SlicerProofs!SlicerImplementsFrameSequence` | `Spec => ImplementsFrameSequence` | |
| `SlicerSafety!NoFrameIsLost` | `Spec => []NoFrameLost` | |
| `SlicerSafety!FramesAreInOrder` | `Spec => []FramesInOrder` | |
| `SlicerSafety!PlaceholdersFillHoles` | `Spec => []PlaceholderFillsHole` | |
| `SlicerSafety!FramesAreIntact` | `Spec => []FramesIntact` | |
| `SlicerSafety!SyncedStreamsAreFramed` | `Spec => []SyncedFraming` | |
| `PipelineProofs!BytesInOrder` | `Spec => []Inv` | `PipelineAssumption` |
| `PipelineProofs!PipelineTypeCorrect` | `Spec => []TypeOK` | |
| `PipelineProofs!FramesStayAligned` | `Spec => []FramesAligned` | |
| `PipelineProofs!SlicerAndDecoderAgree` | `Spec => []SlicerDecoderAgree` | |
| `PipelineProofs!CompleteAtTheEnd` | `Spec => []CompleteAtEof` | |
| `PipelineProofs!PipeIsAChannel` | `Spec => ImplementsFrameChannel` | |
| `SuperFrameProofs!SuperFrameTypeCorrect` | `SFSpec => []SFTypeOK` | `CountsAssumption`, `BlockAssumption` |
| `SuperFrameProofs!RepackedIsCurrent` | `SFSpec => []RepackedFromCurrent` | |
| `SuperFrameProofs!AirCorrect` | `SuperFrameAir`: `Spec => []AirInv` | and `PlansAssumption`, `SlotsAssumption` |
| `SuperFrameProofs!AirTypeCorrect` | `Spec => [](SFTypeOK /\ RepackedFromCurrent)` | |
| `SuperFrameProofs!OnlyGenuineMessages` | `Spec => []GenuineMessages` | |
| `SuperFrameProofs!DecoderResynchronises` | `Spec => []Resynchronised` | |
| `SuperFrameProofs!RchsReportedInOrder` | `Spec => []RchInOrder` | |
| `PairingProofs!PairingTypeCorrect` | `PPSpec => []PPTypeOK` | `BlockAssumption` |
| `PairingProofs!ReportsFit` | what is reported is in the buffer it is sliced from | |
| `PairingProofs!UnitGoesIntoItsCell` | what `assemble_*` writes, of every block and unit | |
| `PairingProofs!AirCorrect` | `PairingAir`: `Spec => []AirInv` | and `ThingsAssumption`, `PlansAssumption` |
| `PairingProofs!AirTypeCorrect` | `Spec => []PPTypeOK` | |
| `PairingProofs!OnlyGenuineMessages` | `Spec => []GenuineMessages` | |
| `PairingProofs!NoBlockLeft` | `Spec => []NoBlockOutsideLayer2` | |
| `PairingProofs!DecoderResynchronises` | `Spec => []Resynchronised` | |
| `PairingProofs!NothingReportedTwice` | `Spec => []NothingTwice` | |
| `DecoderProofs!DecoderTypeCorrect` | `Spec => []TypeOK` | `DecoderAssumption` |
| `DecoderProofs!DecoderRunsBothSides` | `Spec => SF!SFSpec /\ PP!PPSpec` | |
| `DecoderProofs!PairsNeighbours` | `Spec => []PairsAreNeighbours` | |
| `DecoderProofs!CountIsSinceTop` | `Spec => []CountsSinceTop` | |
| `ConvoProofs!SearchTypeCorrect` | `Spec => []TypeOK` | `ConvoAssumption` |
| `ConvoProofs!InputIsRestored` | `Spec => []OnlyOpenFlips` | |
| `ConvoProofs!NearestIsFound` | `Spec => []Nearest` | |
| `ConvoProofs!FewErrorsCorrected` | `Spec => []CorrectsFew(Few)`, for every `Few < MaxEc` with `FarApart(Few)` | |
| `ConvoProofs!ThreeErrorsCorrected` | `Spec => []CorrectsThree` | and `FreeDistance` |
| `FieldsProofs!CountFollowsCursor` | `AcchSpec => []AcchInv` | `AcchAssumption` |
| `FieldsProofs!AcchTypeCorrect` | `AcchSpec => []AcchTypeOK` | |
| `FieldsProofs!RecordsTileBodies` | `AcchSpec => []RecordTilesBody` | |
| `FieldsProofs!OnlyBadLengthsStop` | `AcchSpec => []StopsOnlyOnBadLengths` | |
| `FieldsProofs!BcdDecodesToNearest`, `RawDecodesToNearest` | the two decoders, of every number a sender writes | |
| `FieldsProofs!EveryPlaceAsSent` | the three formats, of every place in Japan, against `Millionths` and `Wgs84` | |
| `FieldsProofs!DataInvariant` | `DataSpec => []DataInv` | `DataAssumption` |
| `FieldsProofs!DataTypeCorrect` | `DataSpec => []DataTypeOK` | |
| `FieldsProofs!FieldsStayInOrder` | `DataSpec => []FieldsInOrder` | |
| `FieldsProofs!PositionsAsSent` | `DataSpec => []PositionAsSent` | |
| `FieldsProofs!TypeIsShown` | `DataSpec => []InfoTypeIsShown` | |
| `FieldsProofs!NothingIsLost` | `DataSpec => []GatesLoseNothing` | |
| `FieldsProofs!TypeCorrect` | both parsers side by side: `Spec => []TypeOK` | and `AcchAssumption` |

A row without an assumption rests on the row above it.

`SizesAssumption` is what the code's constants (192, 4, 92, 10, 4) satisfy and the arguments need, a drift of at most
a third of a frame among it; streams are a whole number of bytes long. `CountsAssumption` is 0 < 2 < 10 < 18 with
units of equal length. `SlotsAssumption`, `ThingsAssumption` and what `DecoderAssumption` adds to them only say that
things with different names are different. `PlansAssumption` is the sender: units of a message in order and no more
than the block has cells (64), a last length of at most a cell, and on the traffic side no SS1 frame where half a unit
is still due. There is no bound on the length of a plan or on the frames damaged. `DataAssumption` has body lengths
and infotypes of any size, type bytes that are not digits, and senders between 20 and 46 degrees north and 122 and
154 degrees east.

**The slicer's invariant.** `TypeOK` is not inductive: that a match is at a sync word of the stream, and that a
read fits, depend on what the window holds. `Inv` adds `Mirror`, the valid cells are the input from
`taken - valid` on, in order, and `ReadAll`, at end of file the input is used up, with `taken` and the stream a
whole number of bytes (so that a read of nothing means the end). Reads extend the mirror, `Drop` shifts it. From it follow that
a read never leaves the window and that a match is a sync word at `Covered + ret`.

**The refinement.** Under `Inv` a read changes nothing abstract, `SlideForward` is `Skip(Step)` as the search
has seen the whole step, a match is `Deliver`, `TakePending` leaves the slots alone since `Slots` counts the
frame held back, and `DrainFinish` is `Finish`.

**Safety from the refinement.** `NoFrameLost`, `FramesInOrder` and `PlaceholderFillsHole` are proved from the
abstract steps, not from the code's: a step passes no sync word it does not account for, what is covered only
grows past the last frame cut, and a placeholder comes only with a frame more than a step behind what is covered,
or last. `FramesIntact` follows from the mirror: a frame is cut where all of it is valid, or where the input is at
its end.

**A synced stream.** `SyncedFraming` compares whole behaviours by counting, and is inductive only with `FramedAt`:
the frames so far are cut at the first sync words of the stream, one each, and what is covered is at most a frame and
the drift behind the last. So the next sync word is before the end of the next search, no step is passed without one,
and a frame cut is the next in line. Were the drift more than a third of a frame, a drifting sync word could be more
than a step ahead and a search end without it.

**The pipe.** `TypeOK` and `FramesAligned` are not inductive: that a frame is whole depends on the bytes under
way. `Inv` says that what is written and not processed is the buffer's filled part and then the pipe, byte by byte.
A write appends to it, a read moves its front from the pipe to the buffer, `ProcessFrame` takes a whole frame off
it. That the programs agree on the type is a fact about words: a patched window has its word, and no other
within three symbols.

**The channel.** Under `Inv`, `ProcessFrame` is `Receive`, `PullFrame` is `Send`, `Killed` is a `Stop` that cuts,
`ReadEof` finds nothing whole left and is `End`; reads and writes stutter.

**The parsers.** `AcchInv` says that the cursor and the remaining length add up to what was announced, and that
the cursor is at what was claimed, wherever in the code the parser is. A parser that returns has used up the
length, so the cursor is at the end of the body; one that panics had claimed more than announced, or the body was
too short.

**DATA bodies.** `DataInv` says that the steps left are of the few kinds the layouts consist of, with their lengths,
and that the cursor is behind every field taken. It is inductive since the layouts, and what `Gate`, `Branch`,
`Count` and `Sized` put in front of the plan, consist of nothing else (`HeaderLayout` to `BodyLayout`): one lemma per
layout. For `InfoTypeIsShown`, `InfoInv` follows a body up to its type: until then every body of a kind is taken
apart at the same offsets, whatever its layout (`Approaching`); afterwards the field is in the record, and stays, as
a list that could replace a field begins behind it (`Shown`).

For `GatesLoseNothing`, `GateInv` says what a gate finds. A layout is `Measured` when it is a first part, of fields and
gates whose offsets are known (`Metered`), and steps whose offsets are not, as lists and lengths come first, but whose
gates all lead to plans that take the rest of the body (`Free`). At a gate of the first part the offset is the sum of
the lengths in front of it, and for the lengths of a body it asks for, what it leads to `Closes` the body: it takes the
rest, or reaches the end with the bytes it is left with. Once a gate is taken, every step of what it led to keeps that
(`TakingKeepsGates`, `BranchKeepsGates`), and with nothing left to do the cursor is at the end. `BodyMeasured` adds up
the offsets, layout by layout; three types of bodies have a gate behind the common ones that counts on its offset
(`ReportMeasured`, `BinaryMeasured`).

**Positions.** Integer arithmetic, split by degree: decimal digits and 24-bit numbers of one place decode to the
same millionth, the nearest one, and the shift of the datum is north-west everywhere between 20 and 46 degrees
north and 122 and 154 degrees east.

**The pairing.** The announced length has six bits and the block 64 cells (here: `len < MaxCells`), so that a block
never has more cells than the buffer; with a last length of at most a cell the slice for a report is in the buffer.
The hypothesis on the last unit is the sender's (`Fragments`): `fields` shows what happens without it.

**The traffic side on air.** None of the properties of `PairingAir` is inductive: each is about what was reported, and
what is reported next depends on the half kept, the block, and where the sender is. `AirInv` relates the three.
`KeptHalf` says of which kind the half kept is, whatever was lost. `HeadersKept` holds while every header came: the
units before the half kept are in their cells or no message is under way (`KeptMessage`), so the last unit completes a
message that was sent, or none. `Followed` is about the undamaged frames alone: behind the damage the decoder has the
sender's kind, half and units, so the message comes out when its last unit is in. `ReportsInOrder` says that what was
reported lies before the frame on air.

**The super-frame side on air.** Here the count can be wrong, so `Recognised` says that unless a frame vanished or a
header was lost the count is the sender's place or none, and every slot counted is the sender's or garbled
(`CountedOrNot`); then a unit that decodes is the one sent in that place, and the block holds the message sent up to
there, or is empty (`BlockSent`). `Followed` is the same of the undamaged super-frames, whatever was lost before: an S2
frame begins the count anew, so that the first undamaged super-frame is gathered whole (`Gathering`), and a message that
begins in one is followed unit by unit (`Following`). `RchsInOrder` needs the headers only.

**The decoder's types.** The two sides' are proved again for cells of 6 and 12 bytes, as a theorem of an instance cannot
be cited; next to them a record has at most one voice payload (`VoiceOK`), and at most one line is written for every
frame read (`OutOK`).

**Both sides in one step.** `OneStepEach`: each branch of `process_frame` is exactly one action of `SuperFrame` and
one of `PscPairing`, with the frame's slot, TCH and M-field: the two sides' specifications are refined, with no
mapping but the sizes of their cells, and what is proved of them holds of the decoder. `PairsAreNeighbours` follows
from it and `LastHalf`, what is kept is what the last frame read said, or nothing; `CountsSinceTop` from the
gathering, once it is known that between frames the count is below 18.

**The super-frame.** `sacch_count < 18` between frames is what keeps the next slot in the buffer; it holds
because `finalize_super_frame` runs behind every frame. `RepackedFromCurrent` needs that slots below the count
are not rewritten while it grows.

**The convolutional search.** `OnlyOpenFlips` is inductive only with the order of the stack: a call is behind
the flips of its callers, so the open flips are at different symbols and the walk is not before the last one.
`Nearest` needs two more invariants. `Path`: up to where the walk is, the buffer is what the encoder sends for the
bits put out, and every open call remembers the state the encoder was in. `NonePassed`: every accepted message within
reach of the budget is still ahead (`Here`: it agrees with the buffer so far), or it leaves the walk where a call has not
yet come to its second flip (`Later`). When the walk fails it can only be the second, so a search that gives up with
no call open had no message to find. Where the walk stops, the symbol is one bit from both the state may send, since
these are complements: so the two flips are all there is to try. What the encoder does is defined along the word, and
is proved along it from the first place where it would fail (`FirstPlace`, from the well-foundedness of finite
subsets in the library), since an induction rule cannot be cited. `CorrectsThree` follows by counting bits: two messages within
three errors of one word would have code words at most six bits apart. `FreeDistance` says that there are none: it is a
fact of the table, assumed in `ConvoMC` and evaluated by TLC in the `convo` run.

Only model-checked: the liveness properties, which are out of the prover's reach, and what the runs that expect a
violation refute.

## 6. Not modelled, and the plan

Not modelled, and why:

* CRC, interleaving, slicing and dewhitening (`primitives.rs`): loops over bits without a case of their own; a model
  would repeat them. In the other modules a unit decodes when all its parts are there, in order.
* Voice permutations, the hash and the tables: fixed data that a model would repeat. What a failed hash does is in
  `PscPairing` and `Decoder`.
* Header fields of the record (`proc_t61_frame`, `proc_pich`): names of values. Whether they decode, the M-field, and
  what each failure changes is in `Decoder`.
* Bytes in a position that are not digits (`gps.rs:34`), whose subtraction wraps in the release build and stops
  the program in others: nothing says what should come of them.
* The demodulator: floating-point signal processing, whose lock cannot be told from the arithmetic. The GNU Radio
  flow graph: configuration of blocks that are not in the repository.
* JSON formatting, and names of commands, types and services.

What the models could still be extended by, in this order:

1. `PscPairing` with a header lost: the weakest condition on the headers under which `GenuineMessages` holds.
2. `Decoder` on `FrameChannel`: the frame number of a record against the slot on the air, with the slicer's
   placeholders in between.

## 7. Running it

`tlc -config Slicer.cfg SlicerMC.tla`, and likewise for the other configurations with the module
`PROJECT.json` names; `tlapm SlicerProofs.tla`, and likewise for the other proof modules. The slowest run
takes about a minute, the slowest proof a few.
