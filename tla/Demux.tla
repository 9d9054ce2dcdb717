-------------------------------- MODULE Demux ---------------------------------
(***************************************************************************)
(* The program stream demultiplexer of the MPEG players: ps_loop and demux *)
(* of libmpeg2/player/LibMPEG2.c and of its copy LibMPEG2SFD.c for Sofdec  *)
(* files.  The file is read buffer by buffer; a header or a payload that a *)
(* buffer cuts is continued in the next through state, state_bytes and     *)
(* head_buf, which are static: they also outlive the file.                 *)
(*                                                                         *)
(* Bytes are read as they are in the file; time stamps, which nothing      *)
(* uses, are left out.  A definition marked "fault" is a wrong version of  *)
(* a later one.                                                            *)
(***************************************************************************)
EXTENDS Integers, Sequences, SequencesExt

CONSTANTS Films,        \* the files: [byte, track, packet, start], see Splits
          FilmsAfter,   \* the files that may be played after the first
          BufferSizes,  \* buffer_size: 4096
          Sessions,     \* how many files are played one after another
          Players       \* of "mpeg" (LibMPEG2_Decode) and "sofdec" (LibMPEG2_DecodeSFD)

ASSUME DemuxAssumption ==
    /\ Players \subseteq {"mpeg", "sofdec"} /\ BufferSizes \subseteq Nat \ {0}
    /\ Sessions \in Nat \ {0}

VARIABLES player, session, file, buffer_size,
          demuxPc,           \* where ps_loop or demux is
          odd,          \* frame%2: the controller is read in every other turn
          full,         \* end == buffer + buffer_size
          buf, end,     \* the part of the file that demux has still to look at
          state, state_bytes, head_buf,
          inHead,       \* header == head_buf, rather than header == buf
          bytes,        \* bytes of the header in head_buf
          video, audio, \* positions in the file given to the decoders
          since         \* history: the place in the file from which demux has kept
                        \* step with its packets, or -1, see Follow

fileVars == <<player, session, file, buffer_size>>
loopVars == <<odd, full, end>>
kept == <<state, state_bytes, head_buf>>
out == <<video, audio>>
demuxVars == <<fileVars, since, demuxPc, loopVars, buf, kept, inHead, bytes, out>>

MpegInit == player \in Players /\ session = 0 /\ file \in Films
            /\ buffer_size \in BufferSizes /\ since = 0

DemuxInit ==
    /\ MpegInit
    /\ demuxPc = "menu" /\ odd = FALSE /\ full = FALSE /\ buf = 0 /\ end = 0
    /\ state = "SKIP" /\ state_bytes = 0 /\ head_buf = <<>>
    /\ inHead = FALSE /\ bytes = 0
    /\ video = <<>> /\ audio = <<>>

-----------------------------------------------------------------------------
(* Headers.                                                                *)

In(h, n) == Len(h) >= n

StartCode(h) == h[1] = 0 /\ h[2] = 0 /\ h[3] = 1

Kind(code) ==
    CASE code = 185          -> "end"        \* 0xb9
      [] code = 186          -> "pack"       \* 0xba
      [] code \in 192 .. 223 -> "audio"      \* 0xc0 .. 0xdf
      [] code = 224          -> "video"      \* demux_track, 0xe0
      [] code < 185          -> "elementary"
      [] OTHER               -> "other"

\* How far the header h is known to reach: more than Len(h) when h must be
\* completed first.
PackLen(h) ==
    IF ~In(h, 5) THEN 5
    ELSE IF h[5] \div 64 = 1 THEN IF In(h, 14) THEN 14 + (h[14] % 8) ELSE 14
    ELSE IF h[5] \div 16 = 2 THEN 12 ELSE 5

mpeg1_skip_table(b) == CASE b \div 16 = 2 -> 4 [] b \div 16 = 3 -> 9 [] OTHER -> 0

\* The first byte from the 7th on that is not stuffing, but no further than most.
Stuffed(h, most) ==
    CHOOSE n \in 7 .. most :
        /\ n = most \/ ~In(h, n) \/ h[n] # 255
        /\ \A m \in 7 .. n - 1 : In(h, m) /\ h[m] = 255

Mpeg1Len(h, most) ==
    LET n == Stuffed(h, most)
        m == IF In(h, n) /\ h[n] \div 64 = 1 THEN n + 2 ELSE n
    IN  IF In(h, m) THEN m + mpeg1_skip_table(h[m]) ELSE m

PesLen(h, most) ==
    IF ~In(h, 7) THEN 7
    ELSE IF h[7] \div 64 = 2 THEN IF In(h, 9) THEN 9 + h[9] ELSE 9
    ELSE Mpeg1Len(h, most)

HeaderLen(h) ==
    IF ~In(h, 4) \/ ~StartCode(h) THEN 4
    ELSE CASE Kind(h[4]) = "pack"  -> PackLen(h)
           [] Kind(h[4]) = "audio" -> PesLen(h, 23)
           [] Kind(h[4]) = "video" -> PesLen(h, 24)
           [] Kind(h[4]) = "other" -> 6
           [] OTHER                -> 4

\* What follows the header: the rest of the packet, whose length it tells.
PayloadLen(h) == 6 + 256 * h[5] + h[6] - HeaderLen(h)

-----------------------------------------------------------------------------
(* The files.  Of every byte a film tells the track it belongs to and the  *)
(* packet it is in, and where a packet, or a byte between two, begins:     *)
(* what one would see who had the whole of it in one buffer.               *)

Rest(f, p) == SubSeq(f.byte, p + 1, Len(f.byte))

Track(kind) == IF kind \in {"audio", "video"} THEN kind ELSE "none"

\* The packet that begins behind p bytes with a header up to headEnd.
SplitsPacket(f, p, headEnd, payload, kind) ==
    LET packetEnd == IF payload > 0 THEN headEnd + payload ELSE headEnd IN
    /\ packetEnd <= Len(f.byte) => packetEnd \in f.start
    /\ \A i \in headEnd + 1 .. packetEnd : i \in DOMAIN f.byte => f.track[i] = Track(kind)
    /\ \A i \in DOMAIN f.byte : f.packet[i] = f.packet[headEnd] <=> i \in p + 1 .. packetEnd

SplitsAt(f, p) ==
    LET h == Rest(f, p)
        headEnd == p + HeaderLen(h)
    IN  /\ \A i \in p + 1 .. headEnd : i \in DOMAIN f.byte => f.track[i] = "none"
        /\ headEnd <= Len(f.byte) =>
             IF ~StartCode(h) THEN p + 1 \in f.start
             ELSE CASE Kind(h[4]) = "pack" -> headEnd \in f.start
                    [] Kind(h[4]) \in {"audio", "video", "other"} ->
                          SplitsPacket(f, p, headEnd, PayloadLen(h), Kind(h[4]))
                    [] OTHER -> TRUE

Splits(f) ==
    /\ f.byte \in Seq(0 .. 255)
    /\ DOMAIN f.track = DOMAIN f.byte /\ DOMAIN f.packet = DOMAIN f.byte
    /\ f.start \subseteq 0 .. Len(f.byte) /\ 0 \in f.start
    /\ \A p \in f.start : SplitsAt(f, p)

ASSUME FilmsAssumption == \A f \in Films \cup FilmsAfter : Splits(f)

-----------------------------------------------------------------------------
header == IF inHead THEN SubSeq(head_buf, 1, bytes) ELSE SubSeq(file.byte, buf + 1, end)

-----------------------------------------------------------------------------
(* What leaves demux.                                                      *)

Positions(from, to) == [i \in 1 .. to - from |-> from + i]

ToVideo(from, to) == video' = video \o Positions(from, to) /\ UNCHANGED audio
ToAudio(from, to) == audio' = audio \o Positions(from, to) /\ UNCHANGED video

\* History: demux, out of step with the packets of the file, looks for a header
\* where one begins.
Follow(at) == since' = IF since < 0 /\ at \in file.start THEN at ELSE since

\* "return 0": the next buffer is read.
Return0 == demuxPc' = "while" /\ buf' = end /\ inHead' = FALSE /\ UNCHANGED since

\* The loop of demux goes on behind a packet.
GoOn(at) == demuxPc' = "header" /\ buf' = at /\ inHead' = FALSE /\ Follow(at)

-----------------------------------------------------------------------------
(* demux, called with a new buffer.                                        *)

EnterHeader ==
    /\ demuxPc = "demux" /\ state = "HEADER"
    /\ demuxPc' = "header"
    /\ inHead' = (state_bytes > 0)
    /\ bytes' = state_bytes
    /\ UNCHANGED <<fileVars, since, loopVars, buf, kept, out>>

ContinueDrops(to) ==                                                 \* fault
    IF state = "DATA" THEN ToVideo(buf, to) ELSE UNCHANGED out

\* The Sofdec player has its calls for continued sound commented out.
Continue(to) ==
    CASE state = "DATA" -> ToVideo(buf, to)
      [] state = "MPA_DATA" /\ player = "mpeg" -> ToAudio(buf, to)
      [] OTHER -> UNCHANGED out

EnterPayload ==
    /\ demuxPc = "demux" /\ state # "HEADER"
    /\ \/ /\ state_bytes > end - buf
          /\ Continue(end) /\ state_bytes' = state_bytes - (end - buf)
          /\ Return0
       \/ /\ state_bytes <= end - buf
          /\ Continue(buf + state_bytes) /\ GoOn(buf + state_bytes)
          /\ UNCHANGED state_bytes
    /\ UNCHANGED <<fileVars, loopVars, state, head_buf, bytes>>

\* NEEDBYTES: the header is completed from the buffer, or what there is of it
\* is kept for the next one.
NeedBytes ==
    /\ demuxPc = "header" /\ HeaderLen(header) > Len(header)
    /\ LET missing == HeaderLen(header) - bytes IN
       \/ /\ inHead /\ missing <= end - buf
          /\ head_buf' = header \o SubSeq(file.byte, buf + 1, buf + missing)
          /\ buf' = buf + missing /\ bytes' = HeaderLen(header)
          /\ UNCHANGED <<since, demuxPc, state, state_bytes, inHead>>
       \/ /\ inHead /\ missing > end - buf
          /\ head_buf' = header \o SubSeq(file.byte, buf + 1, end)
          /\ state_bytes' = bytes + (end - buf)
          /\ Return0 /\ UNCHANGED <<state, bytes>>
       \/ /\ ~inHead
          /\ head_buf' = header
          /\ state' = "HEADER" /\ state_bytes' = Len(header)
          /\ Return0 /\ UNCHANGED bytes
    /\ UNCHANGED <<fileVars, loopVars, out>>

HeaderThere == demuxPc = "header" /\ HeaderLen(header) <= Len(header)

\* No start code: the first byte is dropped and the rest tried again.
Resync ==
    /\ HeaderThere /\ ~StartCode(header)
    /\ \/ inHead /\ head_buf' = SubSeq(header, 2, 4) /\ bytes' = 3 /\ UNCHANGED <<since, buf>>
       \/ ~inHead /\ buf' = buf + 1 /\ Follow(buf + 1) /\ UNCHANGED <<head_buf, bytes>>
    /\ UNCHANGED <<fileVars, demuxPc, loopVars, state, state_bytes, inHead, out>>

HeaderOf(kinds) == HeaderThere /\ StartCode(header) /\ Kind(header[4]) \in kinds

\* DONEBYTES: a header in head_buf has already been taken from the buffer.
DoneBytes == IF inHead THEN buf ELSE buf + HeaderLen(header)

\* Program end, or an elementary stream: the film is over.
Stop ==
    /\ HeaderOf({"end", "elementary"})
    /\ demuxPc' = "closed"
    /\ UNCHANGED <<fileVars, since, loopVars, buf, kept, inHead, bytes, out>>

Pack ==
    /\ HeaderOf({"pack"})
    /\ GoOn(DoneBytes)
    /\ UNCHANGED <<fileVars, loopVars, kept, bytes, out>>

\* A payload goes on behind the buffer, or lies in it.
Cut == PayloadLen(header) > end - DoneBytes

CutPayloadWhole(st) ==                                               \* fault
    Cut /\ state' = st /\ state_bytes' = PayloadLen(header) /\ Return0

CutPayload(st) ==
    /\ Cut
    /\ state' = st /\ state_bytes' = PayloadLen(header) - (end - DoneBytes)
    /\ Return0

PayloadEnd == IF PayloadLen(header) > 0 THEN DoneBytes + PayloadLen(header) ELSE DoneBytes

WholePayload == ~Cut /\ GoOn(PayloadEnd) /\ UNCHANGED <<state, state_bytes>>

VideoPacket ==
    /\ HeaderOf({"video"})
    /\ \/ CutPayload("DATA") /\ ToVideo(DoneBytes, end)
       \/ WholePayload /\ ToVideo(DoneBytes, PayloadEnd)
    /\ UNCHANGED <<fileVars, loopVars, head_buf, bytes>>

MpegAudioPacket ==
    /\ player = "mpeg" /\ HeaderOf({"audio"})
    /\ \/ CutPayload("MPA_DATA") /\ ToAudio(DoneBytes, end)
       \/ WholePayload /\ ToAudio(DoneBytes, PayloadEnd)
    /\ UNCHANGED <<fileVars, loopVars, head_buf, bytes>>

SofdecAudioPacketCut ==                                              \* fault
    /\ player = "sofdec" /\ HeaderOf({"audio"})
    /\ \/ CutPayload("MPA_DATA") /\ ToAudio(DoneBytes, end)
       \/ WholePayload /\ ToAudio(DoneBytes, PayloadEnd)
    /\ UNCHANGED <<fileVars, loopVars, head_buf, bytes>>

\* A packet that a buffer cuts is not decoded.
SofdecAudioPacket ==
    /\ player = "sofdec" /\ HeaderOf({"audio"})
    /\ \/ CutPayload("MPA_DATA") /\ UNCHANGED out
       \/ WholePayload /\ ToAudio(DoneBytes, PayloadEnd)
    /\ UNCHANGED <<fileVars, loopVars, head_buf, bytes>>

OtherPacket ==
    /\ HeaderOf({"other"})
    /\ CutPayload("SKIP") \/ WholePayload
    /\ UNCHANGED <<fileVars, loopVars, head_buf, bytes, out>>

demux == \/ EnterHeader \/ EnterPayload \/ NeedBytes \/ Resync \/ Stop \/ Pack
         \/ VideoPacket \/ MpegAudioPacket \/ SofdecAudioPacket \/ OtherPacket

-----------------------------------------------------------------------------
(* ps_loop.                                                                *)

\* A file with a sequence header is opened; demux's static variables stay.
Open ==
    /\ demuxPc = "menu" \/ (demuxPc = "closed" /\ session < Sessions)
    /\ session' = session + 1
    /\ file' \in IF session = 0 THEN {file} ELSE FilmsAfter
    /\ since' = IF state_bytes = 0 THEN 0 ELSE -1
    /\ demuxPc' = "loop" /\ odd' = TRUE /\ full' = FALSE /\ buf' = 0 /\ end' = 0
    /\ inHead' = FALSE /\ video' = <<>> /\ audio' = <<>>
    /\ UNCHANGED <<player, buffer_size, kept, bytes>>

UserLeaves ==
    /\ demuxPc = "loop" /\ ~odd
    /\ demuxPc' = "closed"
    /\ UNCHANGED <<fileVars, since, loopVars, buf, kept, inHead, bytes, out>>

Read ==
    /\ demuxPc = "loop"
    /\ demuxPc' = "demux" /\ odd' = ~odd
    /\ full' = (Len(file.byte) - end >= buffer_size)
    /\ end' = IF full' THEN end + buffer_size ELSE Len(file.byte)
    /\ UNCHANGED <<fileVars, since, buf, kept, inHead, bytes, out>>

While ==
    /\ demuxPc = "while"
    /\ demuxPc' = IF full THEN "loop" ELSE "closed"
    /\ UNCHANGED <<fileVars, since, loopVars, buf, kept, inHead, bytes, out>>

ps_loop == UserLeaves \/ Read \/ While

DemuxNext == Open \/ ps_loop \/ demux

DemuxSpec == DemuxInit /\ [][DemuxNext]_demuxVars
-----------------------------------------------------------------------------
(* Properties.                                                             *)

DemuxTypeOK ==
    /\ player \in Players /\ session \in 0 .. Sessions /\ buffer_size \in BufferSizes
    /\ file.byte \in Seq(0 .. 255)
    /\ demuxPc \in {"menu", "loop", "demux", "header", "while", "closed"}
    /\ buf \in 0 .. end /\ end \in 0 .. Len(file.byte)
    /\ state \in {"HEADER", "DATA", "SKIP", "MPA_DATA"} /\ state_bytes \in Nat
    /\ bytes \in Nat /\ head_buf \in Seq(0 .. 255) /\ Len(head_buf) <= 264

\* demux is in step with the packets of the file.  A file opened with nothing
\* kept is followed from its beginning.  Any other begins with state_bytes bytes
\* taken for the rest of a payload, or of a header, of the file before, and is
\* followed from the first place between two of its packets where demux looks for
\* a header, if there is one.  That is what a film leaves behind that is stopped
\* within a packet, but also one that ends at its end code, when its last cut was
\* in a packet: demux completes the packet without clearing state_bytes.
Synced == since >= 0

PacketOf(p) == {q \in DOMAIN file.packet : file.packet[q] = file.packet[p]}

\* While demux is in step, what it keeps says where the buffer cut the file: head_buf is the last
\* bytes before the cut, though it may have been put together over many buffers
\* and searched for a start code in between, and state_bytes is what the file
\* still has of the packet.
KeptIsCut ==
    Synced /\ demuxPc = "while" =>
        IF state = "HEADER"
        THEN SubSeq(head_buf, 1, state_bytes) = SubSeq(file.byte, end - state_bytes + 1, end)
        ELSE PacketOf(end) \ (1 .. end) = (end + 1 .. end + state_bytes) \cap DOMAIN file.packet

\* The types of the variables, and that demux keeps what it needs to go on.
DemuxInv == DemuxTypeOK /\ since \in -1 .. buf /\ KeptIsCut

InOrder(positions) ==
    \A i, j \in DOMAIN positions : i < j => positions[i] < positions[j]

AllOf(positions, track) ==
    /\ InOrder(positions)
    /\ Range(positions) \cap (since + 1 .. buf)
           = {p \in since + 1 .. buf : file.track[p] = track}

\* At the end of every buffer, wherever it cuts the file, the decoders have got
\* the bytes of the packets so far that are theirs, all of them and in order: of
\* a film opened with nothing kept, from its first byte on, and of a film whose
\* first bytes were taken for what is left of another, from the first packet that
\* demux finds on.  What the decoders get before that is not theirs.
PayloadExact ==
    Synced /\ demuxPc = "while" =>
        /\ AllOf(video, "video")
        /\ player = "mpeg" => AllOf(audio, "audio")

\* A Sofdec player's sound comes in order, and in whole packets from the first
\* one that demux finds on: a part of a packet is never decoded, for the rest of
\* it will not be.
SofdecWhole ==
    Synced /\ player = "sofdec" =>
        /\ InOrder(audio)
        /\ \A i \in DOMAIN audio, p \in DOMAIN file.byte :
              audio[i] > since /\ file.packet[p] = file.packet[audio[i]] /\ file.track[p] = "audio"
                  => p \in Range(audio)
=============================================================================
