# A TLA+ model of Dreamcast Media Center

Dreamcast Media Center (DCMC) plays music, videos and pictures on a Sega
Dreamcast under KallistiOS (KOS).  Its own code is `main.c`, `libdcmc/`,
`libadx/`, `libavi/`, `libmpeg/` and the `player/` directory of each codec; the
rest are its OpenGL in `GL/` and vendored decoders.  What is hard in it is not the
decoding but the threads: a decoder, a thread that feeds the sound hardware and
one that shows the pictures share buffers, wait for each other by spinning on
plain variables, and are told to stop but never joined.

These modules are translated from the source, the TLC runs check them on small
instances, and the proof modules prove part of it for every instance.

## 1. Inventory

| component | state | operations | interacts with |
|---|---|---|---|
| handle based sound driver (`snddrv.c`) | `stat`, `shnd` in a heap handle | `snddrv_hnd_start`, `_cb`, `_exit` | runs in a thread of each library; calls the library's callback |
| thread-and-status driver (`snddrv.c`) | global `snddrv_status` | `snddrv_start_cb_thd`, `snddrv_thread`, `snddrv_exit` | LibA52 only |
| LibMPG123, LibFAAD, LibFLAC, LibADX | PCM buffer with a size, a "decoder runs" flag, some a "wait for start" flag | init, decode a chunk, callback, exit | decoder thread adds, driver's callback takes |
| LibA52 (`liba52/player`) | the same, on the other driver | init, `decode_chunk`, callback, exit | also released by the render thread |
| music players (`dcmc-audio.c`, `LibFAAD_Decode`, `LibFLAC_Decode`) | position in the file, `cont.st` | read, wait for room, decode, draw, drain, close | controller, library |
| render routine (`render.c`) | FIFO, `RENDER_ACTIVE` | init, start, push, thread, destroy | pushes come from the video decoder; starts the sound |
| video FIFO (`fifo_buffer.c`) | ring of packets, `num`, `push`, `pos` | has room/packet, push, top, remove | decoder and render thread, under one mutex |
| video players (`LibXVID.c`, `LibMPEG2*.c`) | stream state | init, decode loop, destroy | render routine, an audio library |
| program stream demultiplexer (`LibMPEG2.c`, `LibMPEG2SFD.c`) | static `state`, `state_bytes`, `head_buf`, which outlive the film | read a buffer, find and complete a header, pass payload on | MPEG video decoder, LibMPG123 or LibADX |
| sequence header search (`LibMPEG.c`) | file position | seek, parse | thumbnails, MPEG player |
| menus (`main.c`, `dcmc.c`), paths (`cstring.c`), listings (`fs.c`, `container.c`) | `FDIR`, a path for each menu, the listing | choose, open, play, back | calls a player and waits for it |
| OpenGL (`GL/`) | vertex buffer, two lists of nodes, texture table, a ring of flags | textures, blending, primitives from vertices or arrays, frames | every component that draws; the graphics chip |
| AVI container (`LibAVI.c`) | file position, the chunk header read last | open, read a chunk | the XviD player |
| pictures, textures, thumbnails, font, controller, timer, volume | texture names, device registers | load, draw | everything that draws |

What is hard to test and what the properties are aimed at: the test of a buffer
outside the mutex and its use inside; a status that one thread sets and another
may see too late; the wait for a buffer that nobody fills any more; a thread left
over from the file before; flags that survive from one file to the next; a path
that several operations count differently.  `PROJECT.json` lists each hazard at
its line.

What makes each component correct:

- a PCM buffer never gives more than it holds and never holds more than it has
  room for; a callback in progress is not robbed of its memory;
- a driver's thread has ended when its handle is freed;
- the player comes back to the menu whatever the user and the file do;
- the FIFO shows every frame once, whole and in order, and sound starts with the
  picture and not before;
- a header that is reported is one, and the search ends;
- the decoders get exactly the payload of their packets, wherever a buffer cuts
  the file;
- what the graphics chip is sent is what the program drew, with the textures it
  bound, and no table is written past its end;
- the path always names the listing on the screen, and a decoder gets a file of
  its own kind.

## 2. Modules

| module | models |
|---|---|
| `FifoBuffer` | `fifo_buffer.c` and its two users in `render.c`, every access of shared memory a step |
| `PacketQueue` | the abstract queue that `FifoBuffer` implements |
| `AvPlayer` | videos one after another: `LibXVID_Decode` with the chunks `LibAVI_read_chunk` gives it and MPEG or AC3 sound, `LibMPEG2_Decode` and `LibMPEG2_DecodeSFD` with `decode_mpeg_dc`; `RenderThread`, one thread for each video, none joined |
| `SndHnd` | the handle based driver, its thread and its exit, with sleeps and time |
| `PcmBuffer` | the buffer between decoder and callback (extends `SndHnd`) |
| `LibMPG123`, `Mp3Player` | the MP3 library and `DCMC_LibMPG123_Decode` that drives it |
| `LibFAAD` | an AAC or MP4 file: `decodeAACfile`, `decodeMP4file` and their driver |
| `LibFLAC` | FLAC files one after another, whose driver threads may be left over |
| `AdxPlayer` | LibADX, driven by `DCMC_LibADX_Decode` or by a Sofdec video |
| `LibA52`, `Ac3Player` | the AC3 library on the other driver, driven by music files and videos one after another |
| `GlRender` | `gl-render.c` and `gl-vertex.h`: textures, blending, primitives, frames |
| `DisplayList` | the abstract display list that `GlRender` implements |
| `SeqHeader` | `LibMPEG_SeekSequenceHeader` |
| `Demux` | `ps_loop` and `demux` of the MPEG player and of its copy for Sofdec |
| `DirNav` | the menus, the paths and the filter of a listing |
| `FifoBufferProofs`, `AvPlayerProofs`, `Mp3PlayerProofs`, `AdxPlayerProofs`, `Ac3PlayerProofs`, `GlRenderProofs` | theorems about the modules they extend |
| `FaadFlacProofs`, `OneThreadProofs` | theorems about `LibFAAD` and `LibFLAC`, and about `DirNav`, `SeqHeader` and `Demux` |
| `MC...` | the instance that TLC checks |

Each module has one action per operation or, where threads meet, per access that
another thread can see; its variables carry the source's names.  `mainPc`, `drv`
and `renderPc` say where a thread is.  Data is abstract: a packet is its number, a
sample block a unit of the buffer's size, a chunk something that decodes to any
number of blocks up to a bound, a name a model value with a length and a kind.  Only
`Demux` and `SeqHeader` work on bytes, since what they do depends on them; `Demux`
knows a decoded byte by its position in the file.  In `GlRender` a vertex is one
value and an image an address; what is kept are the slots, flags and nodes that
the calls of OpenGL write and the chip reads.  `Demux`'s static variables
survive a film, and the time stamps of a packet, which are parsed and never used,
are left out.  A definition marked "fault" is a wrong version of a later one that
shows that a property notices it; no specification contains it.

**Time.**  `thd_sleep` matters because the driver's exit relies on it.  Sleeps are counted
in units of 10 ms (`FifoBuffer`, `AvPlayer`, `Demux`, `GlRender`, `SeqHeader` and `DirNav`
do without time).  `Tick` lets a unit pass only when every thread is asleep, gone or
spinning: threads are fast compared with 10 ms.  A race that exists only when a thread is
slower than that is not in these modules.

**Freed memory.**  A handle that was freed may read as anything
(`StatReadsNull`, `StatReadsStreaming` both hold), and so may a path whose text
was lost in `StringSetLen`.

**What is external.**  KOS threads and sleeps, `snd_stream_poll` (which asks the
callback for samples or not) and the codec cores (a chunk gives between nothing
and a bound) are modelled from how the code uses them.

## 3. Runs

| run | instance | what it shows |
|---|---|---|
| `fifo` | 3 slots, 7 frames | no slot is overwritten while it is displayed (`NoOverwrite`), the unlocked tests for room and for a packet never go stale (`ChecksHold`), nothing is shown or heard before the FIFO was full (`SilentUntilFull`), the ring implements `PacketQueue` (`QueueSpec`), every frame is shown (`AllShown`); `Inv` is the inductive invariant of the proofs and contains the type invariant and `FramesInOrder` |
| `av` | 2 slots, 2 videos of up to 4 chunks or pictures, each by any of three players, a count modulo 10 | sound waits for the picture also when a thread of the video before is left over (`SoundWaitsForPicture`); in the first video the count is right (`Inv`), a full FIFO releases the sound of that video's kind (`SoundStarts`), and the decoder gets back, from an AVI file if it has an index behind the chunks and no AC3 sound (`PlayerReturns`) |
| `av_destroy` | 2 slots, 1 video | a violation: `RenderDestroy` does not end a thread that waits (`DestroyEndsThread`) |
| `mp3` | files of half a chunk, two and three and a half chunks, up to 2 blocks a chunk, requests of 1 or 2, up to 2 driver threads | with one driver no sample is taken that is not there though the size is tested outside the mutex, decoding runs at most a chunk ahead of its bound and reads nothing past the file (`Inv`); the player comes back from a file of a chunk or more, with one driver or with two, as long as the two have not taken the size below zero (`FileEnds`) |
| `faad` | 5 access units of up to 2 blocks | the buffer is bounded (`FaadInv`) and the player comes back unless the driver has refused the file's channels (`FileEnds`); nothing is taken that is not there until the driver is stopped (`PlaysWhatThereIs`); the thread has ended when the handle is freed (`DriverGoneBeforeFree`) |
| `flac` | 2 files of up to 3 blocks of up to 2 measures, 2 driver threads | the size stays within 0 and its bound unless a thread of the first file is left, no more is decoded than the file says it holds (`FlacInv`); a file that holds what its header says comes to its end, unless the size went below zero (`FlacFileEnds`) |
| `adx` | 4 chunks of up to 5 bytes, blocks of 2 or 4, a file or the sound of a video | the size stays within 0 and its bound though bytes are carried from chunk to chunk (`Inv`); the player comes back whether or not the sound was started, and a callback that waits is let go (`FileEnds`) |
| `ac3` | 2 files or videos of up to 4 chunks | one driver thread runs at a time and no music file waits for a picture (`Inv`), the status is NULL exactly when no thread uses the stream (`StatusTellsThread`), samples outlive every callback and a callback takes those of its own file (`SamplesOutliveDriver`), and the exit returns once the sound was started (`StartedExitReturns`) |
| `gl` | 2 frames, 8 vertices, 2 nodes a list, 2 textures one of which is loaded again | names, nodes, rings and vertices fit together (`Inv`), the nodes share no slot and each ends its strips (`StandApart`), every frame shows what was drawn (`Shows`, the refinement of `DisplayList`) |
| `seqheader` | every stream of up to 7 bytes over 4 values | what is found is a header (`FoundIsHeader`), one that no partial match precedes is found (`CleanFound`), the search ends (`Returns`) |
| `demux` | 1728 films of two packets with a resynchronisation before and an end behind them, each followed by a second film, buffers of 15, 16 and 17 bytes, both players | what is kept at the end of a buffer says where it cut the file (`DemuxInv`); the decoders have got all the payload so far and nothing else (`PayloadExact`); the Sofdec player decodes whole packets of sound only (`SofdecWhole`); all three of a film opened with nothing kept from its first byte, of any other from the first packet that `demux` finds in it |
| `dirnav` | 5 directories, 6 files, 4 menus | the path follows the listing (`ListingIsOfPath`), a decoder gets a file of the menu's kind (`PlaysFileOfMenu`), B leads up (`BackLeadsUp`), a listing is always found (`ShowsSomething`) |

`Inv` (`FaadInv`, `FlacInv`, `DemuxInv`) is a module's invariant with its type invariant; in
`FifoBuffer`, `AvPlayer` and `GlRender` it is the inductive one, elsewhere the proof
module adds what it needs.  `dirnav` (`TypeOK`) and `seqheader` (`SeekTypeOK`)
check the types by themselves.

**Why the bounds are enough.**  The FIFO wraps twice with 7 frames in 3 slots (30
in the code), and its proofs are for every size.  Two videos are the fewest with a
thread left over, and a FIFO of two slots the smallest in which both threads can
pass the unlocked test for the same packet.  In the players the longest file is longer
than the thresholds, so that the wait for room, the wait for samples and the drain
all happen; requests of two sizes let the buffer be too small for one and not for
the other.  Seven bytes hold a header after every partial match, and a
partial match at the end.  A buffer of `demux` must hold the longest header
of its films, as the 4096 bytes of the code hold the longest there is (264); three
sizes next to each other put the cut before, inside and behind every header, in a
payload and exactly between two packets, and the films are long enough for three
buffers.  In `mp3` unsigned numbers wrap at 8, the first power of
two behind the longest file, and the shortest file is shorter than a chunk; a size of
-1 or -2, the least that two drivers reach, is read as 7 or 6, more than both
thresholds, in `flac` as well.  Two
files in `flac` and `ac3` are the fewest in which a thread, a flag or a buffer of
one can reach the next.  In `gl` the first frame fills slots that the second then
uses otherwise; eight vertices are two quads, or a quad and a strip, or
two triangles with a rest; its action constraints fix what the program does where its
order does not matter (which point is drawn, when textures are loaded), and the
proofs are without them.
In `adx` the chunks are no multiple of either block, so that a rest is carried.
The tree of `dirnav` has a path short enough for the
test of `Size` after a file was played and one too long for it.

**Deadlock** is not checked where the program really stops: after the file, when
the video's decoder has stopped and the display waits for packets, or in a spin;
`gl` stops after its frames.  It is checked in `dirnav`, where the program never stops.

**Fairness.**  KOS schedules round robin with priorities equal, so a thread that
can run does (weak fairness for each thread's next step), and time passes.  The
drivers have strong fairness for entering the callback: a stream that is polled
again and again asks for samples again and again, since the hardware uses them
up.  The user is never obliged to press a button, and nothing says that a video
fills its FIFO.  `DirNav` has fairness only for `DCMC_ParseDirectory` itself.

## 4. What does not hold

One run shows that the code does not do what a comment says of it:

- `render.h:32` "Stop the Render Routine and destroy the Render Thread":
  `RenderDestroy` clears `RENDER_ACTIVE`, which a thread in the prefill or in the
  wait for a packet never looks at.

The properties of the other runs are stated with the condition under which they
hold, and the modules reach the states outside it:

- `SeqHeader` misses a header in `00 00 00 01 B3`: after a byte that does not match
  the search starts afresh with the next.  `CleanFound` is about a header that no byte
  00 or 01 precedes.
- `DirNav` takes a directory below a mount point, such as `/cd/a/`, for a root once a file
  was played from it: `Size` then no longer counts the final zero, and the test is
  `Size <= 6`.  `BackLeadsUp` therefore allows "/" besides the parent.
- `AvPlayer`: `LibAVI_read_chunk` compares `fread` with EOF, which `fread` never
  returns.  At the end of the file it finds the last header again: a film whose last
  chunk is a picture, without an index behind it, decodes that picture for ever and is
  left by nothing (start is looked at after chunks of sound only).  `PlayerReturns`
  is about films with an index; and not about AC3 sound, whose exit may wait for ever
  for a start that no longer comes (see `LibA52` below).
- `AvPlayer`: with a thread left over, two threads remove packets, both test outside
  the mutex, and the unsigned count wraps; `SoundStarts`, `PlayerReturns` and the
  count in `Inv` are about the first video, `SoundWaitsForPicture` about the first two.
- `Mp3Player`: the loop's `flen-CHUNK_SIZE` is unsigned.  A file shorter than a chunk is
  decoded for 4 GB of old buffer, and as `fdone` wraps before it gets there, until
  start is pressed.  `FileEnds` is about files of a chunk or more.
- `Mp3Player` with a stream whose format changes has two driver threads and reaches a
  negative size.  The size is an `int`, and `LibMPG123_PcmHave` returns it as `unsigned
  int`: both waits of the player (`dcmc-audio.c:32`, `:68`) read about 4 GB and spin for
  ever, while the drivers wait for samples.  (Before that, `memmove` is called with the
  negative length.)  `FileEnds` ends where the size is negative; it also needs
  `MPG123_WAIT_START` clear at the start, which a video that never started its sound
  leaves set.
- `LibFLAC`: only samples end the callback's wait, so the thread of a file may be
  left over freed memory and take the samples of the next one; the bound below in
  `FlacInv` is about files with no thread left from before.  Once the two have taken more
  than there was, `LibFLAC_PcmHave` (`:179-182`) returns the negative size as about 4 GB, and
  nothing is decoded again (`TakenTwice` in `FlacFileEnds`).  A file without stream
  information never reaches the input; one without a length, or shorter than it
  says, ends only by start.
- `LibA52`: after a video that is left before it started, `snddrv_exit` spins for a
  thread that waits for `LibA52_Start`; and a thread that is started while the exit
  waits writes STREAMING over the DONE it should have seen.  `StartedExitReturns` is
  about a sound that was started before the exit.
- `AdxPlayer`: `LibADX_Exit` frees the samples and the mutex before it stops the
  driver, so that a callback can find them gone (`CallbackFreed`).  In a video nothing
  bounds what is decoded ahead; the upper bound in `Inv` is for a file.
- `DriverGoneBeforeFree` holds for the 30 ms of `LibFAAD`.  It fails for the 80 ms
  of `LibMPG123`, and for `LibFLAC` (whose thread sleeps as long as the exit waits, and
  whose callback waits for samples whatever happens).
- `LibFAAD`: `snddrv_hnd_start` refuses a stream of more than two channels
  (`snddrv.c:269-273`), and libfaad's down-mix, which the player asks for, makes two of five
  or six only (`libfaad/decoder.c:1022`).  For a file of 3, 4, 7 or 8 channels the driver's
  thread ends at once, the buffer fills to half, and the loop goes on without decoding until
  start is pressed (`Refused` in `FileEnds`).
- `PlaysWhatThereIs` of `LibFAAD` ends with the driver's stop: a waiting callback
  then copies samples that are not there.
- `Demux`: `state`, `state_bytes` and `head_buf` are static (`LibMPEG2.c:163-169`), and
  `demux` does not clear them when it has completed a packet that a buffer cut
  (`:216-246`).  A film leaves them set not only when it is left inside a packet: the last
  cut decides, and one that ends at its end code has nearly always been cut somewhere.  The
  next film's first `state_bytes` bytes are then taken for the rest of a packet, or behind
  those of a header, of the film before, and may go to a decoder.  From where on it is right
  again is what `since` says: the first place between two of its packets at which `demux`
  looks for a header, if it comes to one.  `DemuxInv`, `PayloadExact` and `SofdecWhole` are
  about what follows that place, in a film opened with nothing kept the whole of it; of the
  bytes before it they say nothing.

What `GL/` shows beyond the properties of `GlRender`, which are about a program that
stays within the tables and draws whole primitives:

- nothing tests that `VERTEX_BUFFER[32768]`, `VERT_LIST[2][16384]` and `TexArr[256]` have
  room, and no texture name is ever given back;
- a textured primitive in the transparent list gets a header of the opaque one;
- a `GL_TRIANGLE_STRIP` given by `glBegin` sets no flags, so it ends where the iterator
  an earlier primitive left happens to end: right for up to four vertices after a
  quad, which is how far the module's program goes;
- `glDrawArrays` of a strip takes `count - 1` of an unsigned count, and a stride of 0
  makes some of its variants step over every other vertex (the module gives it arrays
  of at least one vertex, one after another).

## 5. Proofs

TLAPS checks every theorem below for all values of the constants that satisfy the
named assumptions.

`FifoBufferProofs` (assumption: at least one slot).  The inductive invariant `Inv`
relates the count, the two indices and the position of each thread: which slots
hold which frames, that the decoder is the only one to add and the display the
only one to remove, and that what one of them has tested only gets truer by the
other's steps.  `TypeOK` alone is not enough to show that a test made outside the
mutex still holds inside.  From it follow `ChecksNeverStale`, `NeverOverwritten`,
`NothingBeforeFull`, `InOrder` and, with a refinement mapping that
takes the ring's contents to a sequence, `RefinesQueue`.

`AvPlayerProofs` (assumption: the count's type holds more than the FIFO).
`ThreadsAndCount`: each session creates the thread of its number; with one thread
nobody removes a packet between its test and its update, so the unsigned count never
wraps.  `SoundWaits` needs to know of a second session that until its FIFO is full
nobody is past the prefill except a thread left in its loop, and that this one removes
only what it has seen (`NotFilledInv`): only then can no step release the sound.  An
MPEG player makes its FIFO at the first picture; that no thread moves before
(`ThreadsInv`), and that the thread starts the library of this video's sound
(`CodecInv`), are parts of the invariant too.

`Mp3PlayerProofs`, `AdxPlayerProofs`: `SamplesInRange`.  With one driver a callback
that has found its samples still has them when it subtracts (`CopyingHas`), since
decoding only adds; the loop's tests bound what is decoded, and in the MP3 player the
unsigned comparison keeps the position inside a file of at least a chunk.  The loop tests the
unsigned size; what reads as less than the bound is less, since a size of at least zero is
read as it is (`ModSmall`) and one below zero is less anyway.  In the ADX
player the bytes carried over are the remainder of a division, with the lemmas on
`\div` and `%` that this takes.

`FaadFlacProofs`.  Of `LibFAAD`, `BufferBounded` is `FaadInv`, the types (`TypeCorrect`)
and the bound, which is inductive with the fact that the first frame finds the buffer
empty.  `DriverGone` assumes only `PollSleep < ExitSleep`: its invariant compares, in
every phase of `snddrv_hnd_exit`, what is left of the driver's sleep with what is left of
the player's; a driver that waits for samples is let go by the status, one that sleeps
wakes before the player does.  `TakesWhatThereIs` is about a size that is tested before
the mutex is taken and used after: `TakesInv` says that there is one driver thread and
that what its callback has found is still there until the stop, since decoding only adds.
Of `LibFLAC`, `FlacBuffer` is `FlacInv` for any number of files of any length: `BufferInv`
counts the blocks that are decoded against those of the file (`ReadsLess`: a block is
decoded only if the size, unsigned, is below the bound), and keeps for every driver that
has found its samples that they are still there, as long as no thread of the file before
is left.

`Ac3PlayerProofs`.  For any number of files: `StatusTells` and `SamplesOutlive` are
inductive only together, with the facts that at most one thread is active, that the
status is NULL or DONE only at the end of a file, and that samples are counted only
while they are allocated.  So the thread of a new file cannot meet that of the one
before, though both write the one status.

`OneThreadProofs` is about the parts where what is hard is the data.

*The search.*  `FoundHolds` has the invariant that the bytes before the position are
the part of the header matched so far (`MatchInv`): it is what shows that a read past the
end, which leaves the last byte in the buffer, completes no match.  For `CleanHolds`,
`CleanInv` says that a header behind neither 00 nor 01 has not been passed, and that from
its first byte on the match is exactly as long as what was read of it.

*The menus.*  `ListingHolds`, `PlaysHolds` and `BackHolds` rest on one invariant,
`NavInv`: a path that is not lost names no file unless one is being played, its `Size` is
at most its text with the final zero, whichever operation counted it, and what is shown is
the listing of a directory, filtered for the menu, whose path is the menu's.  They hold
for every tree (`TreeAssumption`: the parent of an entry is a directory) that has a mount
point which every menu lists, and whose mount points have names of at most three letters
(`RootAssumption`).  The last is needed: `Size <= 6` stands for "a mount point", and a
longer one is its own parent by the other branch: B would lead nowhere.

*The demultiplexer.*  What has to be shown is that cutting the file into buffers makes no
difference, at whatever byte a buffer ends and however many a header takes.

1. A header grows from its front.  `HeaderLenFirm`: if `h` is as much as there is of `g`,
   then `HeaderLen(g) >= HeaderLen(h)`, and the two are equal once `h` is that long: what a
   part of a header says of its length is never too much, and is right when it is there.
   The proof goes through every kind of header, and through the stuffing of an MPEG-1
   packet, whose end is the least place with another byte (`LeastOf`, by the well-foundedness
   of the natural numbers).
2. What is wanted of a file is stated with the whole of it in view (`Splits`): where
   packets begin and which bytes are whose.  `FilmsAssumption` says that the labels of the
   files are of this kind.  It leaves no file out: every string of bytes has such labels, for
   they are what reading it without buffers gives.  The films of the run are labelled in
   another way, from the packets they are made of, and TLC finds that the two agree.
3. The inductive invariant is `Types /\ InStep`.  `InStep` says that the place where a
   header is being read begins a packet and that the bytes gathered are the file's there
   (`InHeader`, `KeepsHeader`), that the count kept of a cut payload leads to the end of its
   packet and all bytes up to there are of its track (`KeepsCount`), and what the decoders
   have got up to `buf` (`Given`, `GivenWhole`).  Each depends on the others: a header that
   was put together wrongly would end at the wrong byte, and the next would begin there.
4. A film opened with something kept begins out of step.  `Forward` (`since` is no further
   than `buf`, and what was given to the decoders lies before it) holds of it all the same,
   and `GetsInStep` shows that a step which sets `since` establishes `InStep`: from there on
   it is kept as in any other film.

`DemuxHolds`, `PayloadHolds` and `SofdecHolds` follow, for every file, every size of the
buffer (4096 in the code) and any number of films.  The first attempt at step 1 failed, and
rightly so: the model took the length of a header from its fourth byte before it had seen
that the first three are a start code, which the code does not do.

`GlRenderProofs`.  `FrameIsKept`: between primitives the rings stand at their
beginnings, inside one they are where the number of vertices says; of an open
primitive every vertex is in its place (for a quad not the place it was given at) with
the flag of that place.  `NodesStandApart` follows from the order in which nodes take
the buffer, and `FramesShowWhatIsDrawn` maps nodes to the primitives of `DisplayList`:
each `glEnd` adds the faces that the strips between its flags spell out, and no later
step writes into them.

Only model-checked: liveness (`FileEnds`, `FlacFileEnds`, `StartedExitReturns`,
`SoundStarts`, `PlayerReturns`, `AllShown`, `Returns`, `ShowsSomething`), which is out of
the prover's reach with the fairness it needs.  Every invariant and every action property
that a run checks is also a theorem.

## 6. Not modelled

- The time stamps that `demux` parses, and the aspect of the picture.
- An ADX file without an ADX header, and a Sofdec video left before its first
  packet of sound (`LibADX_Exit` then frees what was never allocated); an ADX file of
  other than one or two channels, of which `LibADX_DecodeChunk` decodes nothing.
- What a player does when its file cannot be opened: it goes on with a null pointer.
- The bytes of an AC3 frame: one cut by the end of a file is continued by the
  next file (`LibA52.c:125`).
- A sample of an MP4 file that cannot be read leaves its driver running:
  `LibFAAD` has the step (`ReadFails`), no property speaks of it.
- Of the OpenGL: clipping, `glTexImage2D`, points, matrices, the environment, shade and
  depth modes, and the bits of the polygon header.  A vertex is one value, so that
  nothing is said of where it appears.
- Pictures, textures, thumbnails, font: one call after another without shared state
  but the texture names, which `GlRender` has.
- The controller, the timer and the volume registers: inputs are choices.
- The order of samples in a PCM buffer: only the size is kept.
- The codec cores.  They are vendored, sequential and arithmetic, and with their
  tables by far the most of the repository's lines; a call of one is a choice of
  what it may give back, and no property of control depends on more.  For this
  reason the modules cover a small share of all lines, and most of those of the
  program's own threads, buffers and menus.

## 7. Plan

Done: FIFO, drivers, buffers and music players, videos, header search,
demultiplexer, menus, OpenGL; proofs of every invariant and action property that the
runs check, and of the two refinements.

What could follow:

1. `AvPlayer` with more than two videos: what is left of the count and of the sound with
   two threads left over.
2. `FsLoadDirectoryFiltered` entry by entry against the filter that `DirNav` states.
3. `DriverGone` for the driver of LibMPG123 after its stop, with the condition on sleeps
   under which it holds.
