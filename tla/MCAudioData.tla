----------------------------- MODULE MCAudioData -----------------------------
(***************************************************************************)
(* Small sounds: raw ones with every remainder of their length modulo 3    *)
(* and 4 and with the bits of a byte that cross a character set and clear, *)
(* and WAV files with and without chunks around the samples.               *)
(***************************************************************************)
EXTENDS AudioData

Values == {0, 3, 48, 63, 192, 252, 255}

Raw(n) == [wav : {FALSE}, fmt : {<<>>}, info : {<<>>}, pcm : [1..n -> Values],
           tail : {<<>>}]

Ramp(n) == [i \in 1..n |-> i]

Wav == [wav : {TRUE}, fmt : {Ramp(2), Ramp(3)}, info : {Ramp(n) : n \in {0, 1, 2}},
        pcm : {Ramp(n) : n \in {0, 1, 3, 4, 6}}, tail : {Ramp(n) : n \in {0, 1, 4}}]

\* Samples that look like a file.
Alike == [wav : {FALSE}, fmt : {<<>>}, info : {<<>>},
          pcm : {RIFF \o Ramp(n) : n \in {8, 9, 20}}, tail : {<<>>}]

MCSounds == (UNION {Raw(n) : n \in 1..4}) \cup Wav \cup Alike
==============================================================================
