------------------------------ MODULE AudioData ------------------------------
(***************************************************************************)
(* Audio as text and as a WAV file: encode_audio_to_base64 (encode_base64  *)
(* of utils.c computes the same), decode_base64_audio, play_audio_data and *)
(* play_audio_from_base64 of doll-replica-c/audio.c.  The program does not *)
(* call them yet; the model is of a call of play_audio_from_base64 with    *)
(* what the encoder made of a sound.                                       *)
(*                                                                         *)
(* A character of base64 is its index in base64_chars, and '=' is Pad.     *)
(* The functions are given by what they compute at each position, not by   *)
(* their loops, so that they can be reasoned about without induction.      *)
(***************************************************************************)
EXTENDS Integers, Sequences

CONSTANTS Sounds,              \* the sounds that are encoded, none of them empty
          FRAMES_PER_BUFFER,   \* bytes of one Pa_WriteStream (512)
          INT_MAX,             \* the largest int (2^31 - 1)
          SIZE_MAX,            \* size_t counts modulo this (2^64)
          UINT32_MAX,          \* and uint32_t modulo this (2^32)
          Junk                 \* strchr(base64_chars, '=') - base64_chars, a
                               \* null pointer less an address, as one byte

Byte == 0..255

\* A sound is raw samples, or a WAV file: its fmt chunk, perhaps a chunk of
\* information, the samples, perhaps a chunk behind them.
Sound == [wav : BOOLEAN, fmt : Seq(Byte), info : Seq(Byte), pcm : Seq(Byte),
          tail : Seq(Byte)]

ASSUME AudioDataAssumption ==
    /\ Sounds \subseteq {s \in Sound : s.wav \/ s.pcm # <<>>}
    /\ FRAMES_PER_BUFFER \in Nat \ {0}
    /\ INT_MAX \in Nat
    /\ SIZE_MAX \in Nat \ {0} /\ UINT32_MAX \in Nat \ {0}
    /\ Junk \in Byte

------------------------------------------------------------------------------
(* Base64 *)

Pad == 64
Char == 0..64

\* audio_data[i], 0 after the end.
At(data, k) == IF k <= Len(data) THEN data[k] ELSE 0

\* Mutant: the last group of two bytes is padded as if it had one.
EncodedShort(data, q) ==
    LET i == 3 * q
        byte1 == At(data, i + 1)
        byte2 == At(data, i + 2)
        byte3 == At(data, i + 3)
    IN  <<byte1 \div 4,
          16 * (byte1 % 4) + (byte2 \div 16),
          IF i + 2 < Len(data) THEN 4 * (byte2 % 16) + (byte3 \div 64) ELSE Pad,
          IF i + 2 < Len(data) THEN byte3 % 64 ELSE Pad>>

\* The four characters made of the three bytes of group q.
Encoded(data, q) ==
    LET i == 3 * q
        byte1 == At(data, i + 1)
        byte2 == At(data, i + 2)
        byte3 == At(data, i + 3)
    IN  <<byte1 \div 4,
          16 * (byte1 % 4) + (byte2 \div 16),
          IF i + 1 < Len(data) THEN 4 * (byte2 % 16) + (byte3 \div 64) ELSE Pad,
          IF i + 2 < Len(data) THEN byte3 % 64 ELSE Pad>>

\* The first n characters.
Characters(data, n) ==
    [k \in 1..n |-> Encoded(data, (k - 1) \div 4)[((k - 1) % 4) + 1]]

encode_audio_to_base64(data) == Characters(data, 4 * ((Len(data) + 2) \div 3))

\* The same text without its padding, as other encoders may write it.
Unpadded(data) == Characters(data, (4 * Len(data) + 2) \div 3)

\* The size is computed as an int: input_length * 3 may be too large for one.
Overflows(base64) == 3 * Len(base64) > INT_MAX

\* *output_size: three bytes for four characters, less one for each of the
\* last two that is '=', for a text that does not overflow.  (The code looks in
\* front of an empty text.)
OutputSize(text) ==
    LET n == Len(text)
        padding(k) == IF text[k] = Pad THEN 1 ELSE 0
    IN  ((3 * n) \div 4) - padding(n) - padding(n - 1)

\* The three bytes made of the four characters of group q.  A byte made from
\* an '=' is junk.
Decoded(text, q) ==
    LET i == 4 * q
        byte(k) == IF i + k <= Len(text) THEN text[i + k] ELSE 0
        from(k, value) == IF byte(k) = Pad \/ byte(k + 1) = Pad THEN Junk ELSE value
    IN  <<from(1, 4 * byte(1) + (byte(2) \div 16)),
          from(2, 16 * (byte(2) % 16) + (byte(3) \div 4)),
          from(3, 64 * (byte(3) % 4) + byte(4))>>

decode_base64_audio(text) ==
    [j \in 1..OutputSize(text) |-> Decoded(text, (j - 1) \div 3)[((j - 1) % 3) + 1]]

------------------------------------------------------------------------------
(* WAV files *)

\* The characters of RIFF, WAVE, "fmt ", LIST and data.
RIFF == <<82, 73, 70, 70>>
WAVE == <<87, 65, 86, 69>>
FMT  == <<102, 109, 116, 32>>
LIST == <<76, 73, 83, 84>>
DATA == <<100, 97, 116, 97>>

\* Four bytes, the low one first.
LittleEndian(n) == <<n % 256, (n \div 256) % 256, (n \div 65536) % 256,
                     (n \div 16777216) % 256>>

\* A chunk is padded to an even length; the padding is not in its size.
Padding(body) == IF Len(body) % 2 = 1 THEN <<0>> ELSE <<>>
Chunk(id, body) == id \o LittleEndian(Len(body)) \o body \o Padding(body)
Optional(id, body) == IF body = <<>> THEN <<>> ELSE Chunk(id, body)

Chunks(s) == Chunk(FMT, s.fmt) \o Optional(LIST, s.info) \o Chunk(DATA, s.pcm)
                 \o Optional(LIST, s.tail)

\* The bytes of a sound.
Bytes(s) == IF s.wav
            THEN RIFF \o LittleEndian(4 + Len(Chunks(s))) \o WAVE \o Chunks(s)
            ELSE s.pcm

\* A sound is in memory, so that its size is a size_t.
ASSUME SizeAssumption == \A s \in Sounds : Len(Bytes(s)) < SIZE_MAX

------------------------------------------------------------------------------
(* play_audio_from_base64 *)

VARIABLES sound,        \* what was encoded
          text,         \* base64_audio
          pc,           \* "decode", "scan", "write"; "done" returned 1, "failed"
                        \* returned 0, "fault" read outside of the data,
                        \* "overflow" wrote outside of the buffer
          audio_data,   \* the decoded bytes
          pcm_offset,   \* where the samples start
          data_size,    \* how many there are
          offset,       \* how many of them are written
          played        \* what the device was given

vars == <<sound, text, pc, audio_data, pcm_offset, data_size, offset, played>>

TypeOK ==
    /\ sound \in Sounds
    /\ text \in Seq(Char)
    /\ pc \in {"decode", "scan", "write", "done", "failed", "fault", "overflow"}
    /\ audio_data \in Seq(Byte)
    /\ pcm_offset \in Nat
    /\ data_size \in Nat
    /\ offset \in Nat
    /\ played \in Seq(Byte)

Init ==
    /\ sound \in Sounds
    /\ text \in {encode_audio_to_base64(Bytes(sound)), Unpadded(Bytes(sound))}
    /\ pc = "decode"
    /\ audio_data = <<>>
    /\ pcm_offset = 0 /\ data_size = 0 /\ offset = 0
    /\ played = <<>>

\* A malloc, a device or a Pa_WriteStream that fails: the call returns 0.
Fail ==
    /\ pc = "decode" \/ (pc = "write" /\ offset < data_size)
    /\ pc' = "failed"
    /\ UNCHANGED <<sound, text, audio_data, pcm_offset, data_size, offset, played>>

\* The text is decoded; a file that starts with RIFF is scanned for its samples.
Decode ==
    /\ pc = "decode" /\ ~Overflows(text)
    /\ audio_data' = decode_base64_audio(text)
    /\ data_size' = Len(audio_data')
    /\ IF data_size' > 12 /\ SubSeq(audio_data', 1, 4) = RIFF
       THEN pc' = "scan" /\ pcm_offset' = 12
       ELSE pc' = "write" /\ pcm_offset' = 0
    /\ UNCHANGED <<sound, text, offset, played>>

\* The product overflows: as a size it is so large that malloc fails, or so
\* small that the loop, which stores the first byte of every group whatever the
\* size is, runs out of the buffer.
DecodeOverflow ==
    /\ pc = "decode" /\ Overflows(text)
    /\ pc' \in {"failed", "overflow"}
    /\ UNCHANGED <<sound, text, audio_data, pcm_offset, data_size, offset, played>>

\* chunk_size of the chunk at pcm_offset.
ChunkSize == audio_data[pcm_offset + 5] + 256 * audio_data[pcm_offset + 6]
             + 65536 * audio_data[pcm_offset + 7] + 16777216 * audio_data[pcm_offset + 8]

IsData == SubSeq(audio_data, pcm_offset + 1, pcm_offset + 4) = DATA

\* The samples are what follows pcm_offset.
Samples(from) ==
    /\ pcm_offset' = from
    /\ data_size' = (data_size - from) % SIZE_MAX
    /\ pc' = "write"

\* Mutant: the scan steps over the size of a chunk but not over its header.
ScanNoHeader ==
    /\ pc = "scan"
    /\ IF pcm_offset + 8 < data_size
       THEN IF IsData
            THEN Samples(pcm_offset + 8)
            ELSE pcm_offset' = pcm_offset + ChunkSize /\ UNCHANGED <<data_size, pc>>
       ELSE Samples(pcm_offset)
    /\ UNCHANGED <<sound, text, audio_data, offset, played>>

\* One turn of the search for the data chunk: found, not this chunk, or no
\* room for another header.
Scan ==
    /\ pc = "scan"
    /\ IF pcm_offset + 8 < data_size
       THEN IF IsData
            THEN Samples(pcm_offset + 8)
            ELSE /\ pcm_offset' = pcm_offset + ((8 + ChunkSize) % UINT32_MAX)
                 /\ UNCHANGED <<data_size, pc>>
       ELSE Samples(pcm_offset)
    /\ UNCHANGED <<sound, text, audio_data, offset, played>>

\* One Pa_WriteStream.
Write ==
    /\ pc = "write" /\ offset < data_size
    /\ LET n == IF offset + FRAMES_PER_BUFFER > data_size
                THEN data_size - offset ELSE FRAMES_PER_BUFFER
           first == pcm_offset + offset + 1
       IN  IF first + n - 1 > Len(audio_data)
           THEN pc' = "fault" /\ UNCHANGED <<offset, played>>
           ELSE /\ played' = played \o SubSeq(audio_data, first, first + n - 1)
                /\ offset' = offset + n
                /\ UNCHANGED pc
    /\ UNCHANGED <<sound, text, audio_data, pcm_offset, data_size>>

\* Everything is written and the device has taken it.
Finish ==
    /\ pc = "write" /\ offset >= data_size
    /\ pc' = "done"
    /\ UNCHANGED <<sound, text, audio_data, pcm_offset, data_size, offset, played>>

Next == Decode \/ DecodeOverflow \/ Scan \/ Write \/ Finish \/ Fail

Spec == Init /\ [][Next]_vars

------------------------------------------------------------------------------
(* Properties *)

\* decode_base64_audio gives back what encode_audio_to_base64 was given,
\* whatever its length and whether or not the text is padded, when the size of
\* the text fits into an int; the junk that an '=' decodes to never gets into
\* the sound.
RoundTrip == pc \in {"scan", "write", "done", "fault"} => audio_data = Bytes(sound)

\* The four bytes of a size can hold it.
Fits(n) == n \div 16777216 < 256

\* The scan steps over a chunk: it has no padding, and its size fits into its
\* field, with the header into a uint32_t.
SteppedOver(body) ==
    /\ Len(body) % 2 = 0
    /\ Fits(Len(body)) /\ 8 + Len(body) < UINT32_MAX

\* The scan finds its way: over the chunks in front of the samples, to a data
\* chunk that is not empty.  Samples without a file that look like one are
\* taken for one.
Scannable ==
    IF sound.wav
    THEN SteppedOver(sound.fmt) /\ SteppedOver(sound.info) /\ sound.pcm # <<>>
    ELSE Len(sound.pcm) <= 12 \/ SubSeq(sound.pcm, 1, 4) # RIFF

\* Nothing comes behind the samples, no padding and no further chunk.
SamplesLast == ~sound.wav \/ (Padding(sound.pcm) = <<>> /\ sound.tail = <<>>)

\* play_audio_data starts with the first sample, goes on in order to the last
\* one without leaving a byte out or writing one twice at the seams of the
\* buffers, and never reads outside of the file; and it stops with the last
\* sample when the file does.  What a file has behind its samples is played as
\* sound, because the size of the data chunk is not used (line 332), and a file
\* that is not Scannable is not played at all or wrongly: both disagree with
\* "Properly parse WAV file to find PCM data" (audio.c line 297).
PlaysFromFirstSample ==
    Scannable =>
        /\ pc # "fault"
        /\ \A i \in DOMAIN played \cap DOMAIN sound.pcm : played[i] = sound.pcm[i]
        /\ pc = "done" => /\ Len(played) >= Len(sound.pcm)
                          /\ SamplesLast => Len(played) = Len(sound.pcm)
==============================================================================
