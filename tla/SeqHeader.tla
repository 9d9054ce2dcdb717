------------------------------ MODULE SeqHeader -------------------------------
(***************************************************************************)
(* LibMPEG_SeekSequenceHeader (libmpeg/LibMPEG.c): the search for the code *)
(* 00 00 01 B3 in an MPEG stream, one byte at a time.  A byte that breaks  *)
(* a match is not looked at again.                                         *)
(*                                                                         *)
(* A definition marked "fault" is a wrong version of a later one, used to  *)
(* see that a property notices it; no specification contains it.           *)
(***************************************************************************)
EXTENDS Integers, Sequences

CONSTANTS Bytes, MaxSize

ASSUME StreamAssumption == {0, 1, 179} \subseteq Bytes /\ MaxSize \in Nat

SEQHDR == <<0, 0, 1, 179>>

VARIABLES ins,          \* the stream
          pos,          \* ftell( ins )
          buf0,         \* buf[0]; any value before the first read
          matched,      \* how many bytes of SEQHDR the match has
          seekPc,       \* "search" or "returned"
          result        \* what has been returned

seekVars == <<ins, pos, buf0, matched, seekPc, result>>

SeekInit ==
    /\ ins \in UNION {[1 .. n -> Bytes] : n \in 0 .. MaxSize}
    /\ pos = 0 /\ buf0 \in Bytes
    /\ matched = 0 /\ seekPc = "search" /\ result = 0

Return(n) == seekPc' = "returned" /\ result' = n

NotFoundEarly ==                                                     \* fault
    /\ seekPc = "search" /\ matched = 0 /\ pos + 4 >= Len(ins)
    /\ Return(-1)
    /\ UNCHANGED <<ins, pos, buf0, matched>>

NotFoundNever ==                                                     \* fault
    /\ seekPc = "search" /\ matched = 0 /\ pos > Len(ins)
    /\ Return(-1)
    /\ UNCHANGED <<ins, pos, buf0, matched>>

\* while( ftell(ins) < size ): only between two matches.
NotFound ==
    /\ seekPc = "search" /\ matched = 0 /\ pos >= Len(ins)
    /\ Return(-1)
    /\ UNCHANGED <<ins, pos, buf0, matched>>

freadPast ==                                                         \* fault
    /\ pos' = pos + 1
    /\ buf0' = IF pos < Len(ins) THEN ins[pos + 1] ELSE buf0

\* At the end of the stream fread leaves buf as it is.
fread ==
    /\ pos' = IF pos < Len(ins) THEN pos + 1 ELSE pos
    /\ buf0' = IF pos < Len(ins) THEN ins[pos + 1] ELSE buf0

ByteEither ==                                                        \* fault
    /\ seekPc = "search" /\ (matched > 0 \/ pos < Len(ins))
    /\ fread
    /\ IF buf0' \in {SEQHDR[matched + 1], 0}
       THEN IF matched = 3 THEN Return(pos') /\ UNCHANGED matched
                           ELSE matched' = matched + 1 /\ UNCHANGED <<seekPc, result>>
       ELSE matched' = 0 /\ UNCHANGED <<seekPc, result>>
    /\ UNCHANGED ins

Byte ==
    /\ seekPc = "search" /\ (matched > 0 \/ pos < Len(ins))
    /\ fread
    /\ IF buf0' = SEQHDR[matched + 1]
       THEN IF matched = 3 THEN Return(pos') /\ UNCHANGED matched
                           ELSE matched' = matched + 1 /\ UNCHANGED <<seekPc, result>>
       ELSE matched' = 0 /\ UNCHANGED <<seekPc, result>>
    /\ UNCHANGED ins

SeekNext == NotFound \/ Byte

SeekSpec == SeekInit /\ [][SeekNext]_seekVars

SeekFairSpec == SeekSpec /\ WF_seekVars(SeekNext)
-----------------------------------------------------------------------------
(* Properties.                                                             *)

SeekTypeOK ==
    /\ ins \in Seq(Bytes)
    /\ pos \in 0 .. Len(ins) /\ buf0 \in Bytes /\ matched \in 0 .. 3
    /\ seekPc \in {"search", "returned"} /\ result \in -1 .. Len(ins)

\* A header begins after the first p bytes.
HeaderAt(p) == p + 4 <= Len(ins) /\ \A i \in 1 .. 4 : ins[p + i] = SEQHDR[i]

\* A position that is returned stands right behind a header: a stale byte left
\* in buf by a read past the end completes no match.
FoundIsHeader ==
    seekPc = "returned" /\ result # -1 => result >= 4 /\ HeaderAt(result - 4)

\* The search passes no header but one that follows a byte 00 or 01, which
\* may be the tail of a match that failed.
CleanFound ==
    seekPc = "returned" =>
        \A p \in 0 .. Len(ins) :
            HeaderAt(p) /\ (p = 0 \/ ins[p] \notin {0, 1}) =>
                result # -1 /\ result <= p + 4

\* The search comes to an end, at the end of the stream too.
Returns == <>(seekPc = "returned")

=============================================================================
