----------------------------- MODULE Utf8Decoder -----------------------------
(***************************************************************************)
(* _Utf8ByteDecoder (npm_environment/streaming): the incremental decoder   *)
(* every assembler stream goes through.  A stream is fed in pieces cut     *)
(* anywhere, also inside a character.  An item of the output is the        *)
(* character, named by its bytes, or the replacement, named <<>>, and the  *)
(* number of source bytes it stands for.                                   *)
(***************************************************************************)
EXTENDS Integers, Sequences, FiniteSets, SequencesExt, FiniteSetsExt

CONSTANTS Bytes,        \* the bytes a stream may hold
          MaxStream     \* bound on its length

ASSUME DecoderAssumption == Bytes \subseteq 0..255 /\ MaxStream \in Nat

VARIABLES ufed, uheld, udecoded, ufinished
decoderVars == <<ufed, uheld, udecoded, ufinished>>

Replacement(width) == [char |-> <<>>, width |-> width]
Character(bytes) == [char |-> bytes, width |-> Len(bytes)]

\* The length a first byte announces, 0 if it begins no sequence.
Announced(first) == CASE first < 128 -> 1 [] first < 194 -> 0 [] first < 224 -> 2
                      [] first < 240 -> 3 [] first < 245 -> 4 [] OTHER -> 0

SecondByteRange(first) == CASE first = 224 -> 160..191 [] first = 237 -> 128..159
                            [] first = 240 -> 144..191 [] first = 244 -> 128..143
                            [] OTHER -> 128..191

\* A possible bug: any continuation byte will do for the second one.
ConsumedLoosely(buffer, i) ==
  LET length == Announced(buffer[i])
  IN Max({c \in 1..length : i + c - 1 <= Len(buffer) /\ \A k \in 1..c - 1 : buffer[i + k] \in 128..191})

\* How many bytes from i on are the start of one sequence.
Consumed(buffer, i) ==
  LET length == Announced(buffer[i])
      Continues(k) == buffer[i + k] \in (IF k = 1 THEN SecondByteRange(buffer[i]) ELSE 128..191)
  IN Max({c \in 1..length : i + c - 1 <= Len(buffer) /\ \A k \in 1..c - 1 : Continues(k)})

\* feed: the items of the buffer, and what is held of a sequence it cuts.
Decode(buffer) ==
  LET rest[i \in 1..Len(buffer) + 1] ==
        IF i > Len(buffer) THEN [items |-> <<>>, held |-> <<>>]
        ELSE LET length == Announced(buffer[i])
                 consumed == IF length = 0 THEN 1 ELSE Consumed(buffer, i)
                 With(item) == [rest[i + consumed] EXCEPT !.items = <<item>> \o @]
             IN CASE consumed = length -> With(Character(SubSeq(buffer, i, i + length - 1)))
                  [] length = 0 \/ (consumed < length /\ i + consumed <= Len(buffer)) ->
                       With(Replacement(consumed))
                  [] OTHER -> [items |-> <<>>, held |-> SubSeq(buffer, i, Len(buffer))]
  IN rest[1]

DecoderInit == ufed = <<>> /\ uheld = <<>> /\ udecoded = <<>> /\ ufinished = FALSE

FeedBytes(piece) ==
  /\ ~ ufinished /\ Len(ufed) + Len(piece) <= MaxStream
  /\ ufed' = ufed \o piece
  /\ LET result == Decode(uheld \o piece)
     IN uheld' = result.held /\ udecoded' = udecoded \o result.items
  /\ UNCHANGED ufinished

FinishDecoding ==
  /\ ~ ufinished /\ ufinished' = TRUE
  /\ udecoded' = udecoded \o (IF uheld = <<>> THEN <<>> ELSE <<Replacement(Len(uheld))>>)
  /\ uheld' = <<>>
  /\ UNCHANGED ufed

DecoderNext == FinishDecoding \/ \E n \in 1..MaxStream : \E piece \in [1..n -> Bytes] : FeedBytes(piece)
DecoderSpec == DecoderInit /\ [][DecoderNext]_decoderVars

----------------------------------------------------------------------------
(* What UTF-8 is, by the numbers the sequences stand for. *)

\* The scalar values of a sequence completed by bytes b, as one number.
ValueWith(s, length, b) ==
  LET payload == CASE length = 1 -> s[1] [] length = 2 -> s[1] - 192
                   [] length = 3 -> s[1] - 224 [] length = 4 -> s[1] - 240
      value[k \in 1..length] == IF k = 1 THEN payload
                                ELSE value[k - 1] * 64 + (IF k <= Len(s) THEN s[k] ELSE b) - 128
  IN value[length]

\* The lead byte says the length by its high bits alone.
LengthOf(first) == CASE first < 128 -> 1 [] first \in 192..223 -> 2
                     [] first \in 224..239 -> 3 [] first \in 240..247 -> 4 [] OTHER -> 0

\* s begins some shortest encoding of a scalar value.
BeginsCharacter(s) ==
  LET length == LengthOf(s[1])
      lowest == ValueWith(s, length, 128)   highest == ValueWith(s, length, 191)
      Scalars == CASE length = 1 -> {<<0, 127>>} [] length = 2 -> {<<128, 2047>>}
                   [] length = 3 -> {<<2048, 55295>>, <<57344, 65535>>}
                   [] length = 4 -> {<<65536, 1114111>>}
  IN /\ length > 0 /\ Len(s) <= length
     /\ \A k \in 2..Len(s) : s[k] \in 128..191
     /\ \E range \in Scalars : lowest <= range[2] /\ highest >= range[1]

\* bytes.decode("utf-8", errors="replace"): of what is not a character the
\* longest start of one is replaced, one byte if there is none.
Decoded(stream) ==
  LET rest[i \in 1..Len(stream) + 1] ==
        IF i > Len(stream) THEN <<>>
        ELSE LET starts == {n \in 1..Len(stream) - i + 1 : BeginsCharacter(SubSeq(stream, i, i + n - 1))}
                 n == Max(starts \cup {1})
                 bytes == SubSeq(stream, i, i + n - 1)
             IN <<IF starts # {} /\ n = LengthOf(stream[i]) THEN Character(bytes) ELSE Replacement(n)>>
                \o rest[i + n]
  IN rest[1]

\* However a stream is cut, what comes out is what the standard decoder makes
\* of the whole of it, and every source byte is counted once: so far nothing
\* that later bytes could still complete has been replaced, and at most three
\* bytes are held.
DecodedAsWhole ==
  /\ ufinished => udecoded = Decoded(ufed)
  /\ ~ ufinished => /\ Decoded(ufed) = udecoded \o (IF uheld = <<>> THEN <<>> ELSE <<Replacement(Len(uheld))>>)
                    /\ uheld # <<>> => BeginsCharacter(uheld) /\ Len(uheld) < LengthOf(uheld[1])
=============================================================================
