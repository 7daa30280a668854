-------------------------- MODULE AudioData_proof ----------------------------
(***************************************************************************)
(* Base64 of the doll loses nothing, and a sound is played from its first  *)
(* sample: proofs for sounds of every length.                              *)
(***************************************************************************)
EXTENDS AudioData, SequenceTheorems, TLAPS

\* Positions are a group and a place in it.
LEMMA Group ==
    ASSUME NEW q \in Nat, NEW r \in Nat
    PROVE  /\ r < 3 => (3 * q + r) \div 3 = q /\ (3 * q + r) % 3 = r
           /\ r < 4 => (4 * q + r) \div 4 = q /\ (4 * q + r) % 4 = r
  OBVIOUS

LEMMA InGroup ==
    ASSUME NEW j \in Nat \ {0}
    PROVE  \E q \in Nat, r \in {0, 1, 2} : j = 3 * q + r + 1
  <1>1. j - 1 = 3 * ((j - 1) \div 3) + ((j - 1) % 3) /\ (j - 1) \div 3 \in Nat
        /\ (j - 1) % 3 \in {0, 1, 2}
    OBVIOUS
  <1> QED BY <1>1

\* A byte of the data, or the zero behind its end.
LEMMA AtByte ==
    ASSUME NEW data \in Seq(Byte), NEW k \in Nat \ {0}
    PROVE  At(data, k) \in Byte /\ (k <= Len(data) => At(data, k) = data[k])
  <1>1. 0 \in Byte
    BY DEF Byte
  <1> QED BY <1>1 DEF At

\* A byte is its upper and its lower bits, wherever it is cut.
LEMMA Cut ==
    ASSUME NEW a \in Byte
    PROVE  /\ a = 4 * (a \div 4) + (a % 4) /\ a \div 4 \in 0..63 /\ a % 4 \in 0..3
           /\ a = 16 * (a \div 16) + (a % 16) /\ a \div 16 \in 0..15 /\ a % 16 \in 0..15
           /\ a = 64 * (a \div 64) + (a % 64) /\ a \div 64 \in 0..3 /\ a % 64 \in 0..63
  <1>1. a \in Nat /\ a < 256
    BY DEF Byte
  <1>2. a = 4 * (a \div 4) + (a % 4) /\ a \div 4 \in 0..63 /\ a % 4 \in 0..3
    BY <1>1
  <1>3. a = 16 * (a \div 16) + (a % 16) /\ a \div 16 \in 0..15 /\ a % 16 \in 0..15
    BY <1>1
  <1>4. a = 64 * (a \div 64) + (a % 64) /\ a \div 64 \in 0..3 /\ a % 64 \in 0..63
    BY <1>1
  <1> QED BY <1>2, <1>3, <1>4

\* Bits that were shifted in front of others come out again.
LEMMA Joined16 ==
    ASSUME NEW x \in 0..3, NEW y \in 0..15
    PROVE  /\ (16 * x + y) \div 16 = x /\ (16 * x + y) % 16 = y
           /\ 16 * x + y \in 0..63
  OBVIOUS

LEMMA Joined4 ==
    ASSUME NEW x \in 0..15, NEW y \in 0..3
    PROVE  /\ (4 * x + y) \div 4 = x /\ (4 * x + y) % 4 = y
           /\ 4 * x + y \in 0..63
  OBVIOUS

\* Shifting out and in again.
LEMMA Bits ==
    ASSUME NEW a \in Byte, NEW b \in Byte, NEW c \in Byte
    PROVE  /\ 4 * (a \div 4) + ((16 * (a % 4) + (b \div 16)) \div 16) = a
           /\ 16 * ((16 * (a % 4) + (b \div 16)) % 16)
                + ((4 * (b % 16) + (c \div 64)) \div 4) = b
           /\ 64 * ((4 * (b % 16) + (c \div 64)) % 4) + (c % 64) = c
           /\ a \div 4 \in 0..63 /\ 16 * (a % 4) + (b \div 16) \in 0..63
           /\ 4 * (b % 16) + (c \div 64) \in 0..63 /\ c % 64 \in 0..63
  <1> DEFINE ah == a \div 4   al == a % 4
             bh == b \div 16  bl == b % 16
             ch == c \div 64  cl == c % 64
  <1>1. a = 4 * ah + al /\ ah \in 0..63 /\ al \in 0..3
    BY Cut
  <1>2. b = 16 * bh + bl /\ bh \in 0..15 /\ bl \in 0..15
    BY Cut
  <1>3. c = 64 * ch + cl /\ ch \in 0..3 /\ cl \in 0..63
    BY Cut
  <1> HIDE DEF ah, al, bh, bl, ch, cl
  <1>4. /\ (16 * al + bh) \div 16 = al /\ (16 * al + bh) % 16 = bh
        /\ 16 * al + bh \in 0..63
    BY <1>1, <1>2, Joined16
  <1>5. /\ (4 * bl + ch) \div 4 = bl /\ (4 * bl + ch) % 4 = ch
        /\ 4 * bl + ch \in 0..63
    BY <1>2, <1>3, Joined4
  <1>6. /\ 4 * ah + ((16 * al + bh) \div 16) = a
        /\ 16 * ((16 * al + bh) % 16) + ((4 * bl + ch) \div 4) = b
        /\ 64 * ((4 * bl + ch) % 4) + cl = c
    <2>1. 4 * ah + al = a /\ 16 * bh + bl = b /\ 64 * ch + cl = c
      BY <1>1, <1>2, <1>3
    <2> QED BY <1>4, <1>5, <2>1
  <1> QED BY <1>1, <1>3, <1>4, <1>5, <1>6 DEF ah, al, bh, bl, ch, cl

\* No sextet is the padding character.
LEMMA NoPad ==
    ASSUME NEW a \in Byte, NEW b \in Byte, NEW c \in Byte
    PROVE  /\ a \div 4 # Pad /\ 16 * (a % 4) + (b \div 16) # Pad
           /\ 4 * (b % 16) + (c \div 64) # Pad /\ c % 64 # Pad
  <1>1. \A n \in 0..63 : n # Pad
    BY DEF Pad
  <1>2. /\ a \div 4 \in 0..63 /\ 16 * (a % 4) + (b \div 16) \in 0..63
        /\ 4 * (b % 16) + (c \div 64) \in 0..63 /\ c % 64 \in 0..63
    BY Bits
  <1> QED BY <1>1, <1>2

\* Enough characters of a sound decode to each of its bytes.
LEMMA Decoding ==
    ASSUME NEW data \in Seq(Byte), NEW n \in Nat, 3 * n >= 4 * Len(data),
           NEW q \in Nat, NEW r \in {0, 1, 2}, 3 * q + r + 1 <= Len(data)
    PROVE  Decoded(Characters(data, n), q)[r + 1] = data[3 * q + r + 1]
  <1> DEFINE t == Characters(data, n)
             a == At(data, 3 * q + 1)
             b == At(data, 3 * q + 2)
             c == At(data, 3 * q + 3)
  <1>1. a \in Byte /\ b \in Byte /\ c \in Byte
    BY AtByte
  <1>2. Len(t) = n /\ \A k \in 1..n :
                         t[k] = Encoded(data, (k - 1) \div 4)[((k - 1) % 4) + 1]
    BY DEF Characters
  <1>3. ASSUME NEW s \in {0, 1, 2, 3}, 4 * q + s + 1 <= n
        PROVE  t[4 * q + (s + 1)] = Encoded(data, q)[s + 1]
    <2>1. 4 * q + (s + 1) \in 1..n /\ (4 * q + (s + 1)) - 1 = 4 * q + s
      BY <1>3
    <2>2. (4 * q + s) \div 4 = q /\ (4 * q + s) % 4 = s
      BY Group
    <2> QED BY <1>2, <2>1, <2>2
  <1> HIDE DEF t
  <1>4. /\ Encoded(data, q)[1] = a \div 4
        /\ Encoded(data, q)[2] = 16 * (a % 4) + (b \div 16)
        /\ 3 * q + 1 < Len(data) => Encoded(data, q)[3] = 4 * (b % 16) + (c \div 64)
        /\ 3 * q + 2 < Len(data) => Encoded(data, q)[4] = c % 64
    BY DEF Encoded
  <1> HIDE DEF a, b, c
  <1>5. /\ 4 * (a \div 4) + ((16 * (a % 4) + (b \div 16)) \div 16) = a
        /\ 16 * ((16 * (a % 4) + (b \div 16)) % 16)
             + ((4 * (b % 16) + (c \div 64)) \div 4) = b
        /\ 64 * ((4 * (b % 16) + (c \div 64)) % 4) + (c % 64) = c
    BY <1>1, Bits
  <1>6. /\ a \div 4 # Pad /\ 16 * (a % 4) + (b \div 16) # Pad
        /\ 4 * (b % 16) + (c \div 64) # Pad /\ c % 64 # Pad
    BY <1>1, NoPad
  <1>7. CASE r = 0
    <2>1. 4 * q + 1 <= n /\ 4 * q + 2 <= n
      BY <1>7
    <2>2. t[4 * q + 1] = a \div 4 /\ t[4 * q + 2] = 16 * (a % 4) + (b \div 16)
      BY <1>3, <1>4, <2>1
    <2>3. t[4 * q + 1] # Pad /\ t[4 * q + 2] # Pad
      BY <1>6, <2>2
    <2>4. Decoded(t, q)[1] = 4 * t[4 * q + 1] + (t[4 * q + 2] \div 16)
      BY <1>2, <2>1, <2>3 DEF Decoded
    <2>5. a = data[3 * q + 1]
      BY <1>7, AtByte DEF a
    <2> QED BY <1>5, <1>7, <2>2, <2>4, <2>5 DEF t
  <1>8. CASE r = 1
    <2>1. 4 * q + 2 <= n /\ 4 * q + 3 <= n
      BY <1>8
    <2>2. /\ t[4 * q + 2] = 16 * (a % 4) + (b \div 16)
          /\ t[4 * q + 3] = 4 * (b % 16) + (c \div 64)
      BY <1>3, <1>4, <1>8, <2>1
    <2>3. t[4 * q + 2] # Pad /\ t[4 * q + 3] # Pad
      BY <1>6, <2>2
    <2>4. Decoded(t, q)[2] = 16 * (t[4 * q + 2] % 16) + (t[4 * q + 3] \div 4)
      BY <1>2, <2>1, <2>3 DEF Decoded
    <2>5. b = data[3 * q + 2]
      BY <1>8, AtByte DEF b
    <2> QED BY <1>5, <1>8, <2>2, <2>4, <2>5 DEF t
  <1>9. CASE r = 2
    <2>1. 4 * q + 3 <= n /\ 4 * q + 4 <= n
      BY <1>9
    <2>2. t[4 * q + 3] = 4 * (b % 16) + (c \div 64) /\ t[4 * q + 4] = c % 64
      BY <1>3, <1>4, <1>9, <2>1
    <2>3. t[4 * q + 3] # Pad /\ t[4 * q + 4] # Pad
      BY <1>6, <2>2
    <2>4. Decoded(t, q)[3] = 64 * (t[4 * q + 3] % 4) + t[4 * q + 4]
      BY <1>2, <2>1, <2>3 DEF Decoded
    <2>5. c = data[3 * q + 3]
      BY <1>9, AtByte DEF c
    <2> QED BY <1>5, <1>9, <2>2, <2>4, <2>5 DEF t
  <1> QED BY <1>7, <1>8, <1>9

\* The characters of the last group tell how many bytes it holds.
LEMMA Padded ==
    ASSUME NEW data \in Seq(Byte), NEW g \in Nat, NEW r \in {0, 1, 2},
           Len(data) = 3 * g + r + 1
    PROVE  LET e == Encoded(data, g)
           IN  /\ e[1] # Pad /\ e[2] # Pad
               /\ e[3] = Pad <=> r = 0
               /\ e[4] = Pad <=> r < 2
  <1> DEFINE a == At(data, 3 * g + 1)
             b == At(data, 3 * g + 2)
             c == At(data, 3 * g + 3)
  <1>1. a \in Byte /\ b \in Byte /\ c \in Byte
    BY AtByte
  <1>2. /\ Encoded(data, g)[1] = a \div 4
        /\ Encoded(data, g)[2] = 16 * (a % 4) + (b \div 16)
        /\ Encoded(data, g)[3] = IF 3 * g + 1 < Len(data)
                                 THEN 4 * (b % 16) + (c \div 64) ELSE Pad
        /\ Encoded(data, g)[4] = IF 3 * g + 2 < Len(data) THEN c % 64 ELSE Pad
    BY DEF Encoded
  <1> HIDE DEF a, b, c
  <1>3. /\ a \div 4 # Pad /\ 16 * (a % 4) + (b \div 16) # Pad
        /\ 4 * (b % 16) + (c \div 64) # Pad /\ c % 64 # Pad
    BY <1>1, NoPad
  <1> QED BY <1>2, <1>3

\* The size of the output is the size of the sound.
LEMMA Sizes ==
    ASSUME NEW data \in Seq(Byte), data # <<>>
    PROVE  /\ OutputSize(encode_audio_to_base64(data)) = Len(data)
           /\ OutputSize(Unpadded(data)) = Len(data)
  <1>1. Len(data) \in Nat \ {0}
    OBVIOUS
  <1>2. PICK g \in Nat, r \in {0, 1, 2} : Len(data) = 3 * g + r + 1
    BY <1>1, InGroup
  <1> DEFINE e == Encoded(data, g)
             n == 4 * g + 4
             u == 4 * g + r + 2
  <1>3. (Len(data) + 2) \div 3 = g + 1 /\ (4 * Len(data) + 2) \div 3 = u
    BY <1>2
  <1>4. e[1] # Pad /\ e[2] # Pad /\ (e[3] = Pad <=> r = 0) /\ (e[4] = Pad <=> r < 2)
    BY <1>2, Padded
  <1>5. ASSUME NEW m \in Nat, NEW s \in {0, 1, 2, 3}, 4 * g + s + 1 <= m
        PROVE  Characters(data, m)[4 * g + (s + 1)] = e[s + 1]
    <2>1. 4 * g + (s + 1) \in 1..m /\ (4 * g + (s + 1)) - 1 = 4 * g + s
      BY <1>5
    <2>2. (4 * g + s) \div 4 = g /\ (4 * g + s) % 4 = s
      BY Group
    <2> QED BY <2>1, <2>2 DEF Characters
  <1>6. \A m \in Nat : Len(Characters(data, m)) = m
    BY DEF Characters
  <1> HIDE DEF e
  <1>7. OutputSize(Characters(data, n)) = Len(data)
    <2> DEFINE t == Characters(data, n)
    <2>1. Len(t) = n
      BY <1>6
    <2>2. t[4 * g + (3 + 1)] = e[3 + 1] /\ t[4 * g + (2 + 1)] = e[2 + 1]
      BY <1>5
    <2>3. t[n] = e[4] /\ t[n - 1] = e[3]
      BY <2>2
    <2> HIDE DEF t
    <2>4. OutputSize(t) = Len(data)
      BY <1>2, <1>4, <2>1, <2>3 DEF OutputSize
    <2> QED BY <2>4 DEF t
  <1>8. OutputSize(Characters(data, u)) = Len(data)
    <2> DEFINE t == Characters(data, u)
    <2>1. Len(t) = u
      BY <1>6
    <2>2. t[4 * g + ((r + 1) + 1)] = e[(r + 1) + 1] /\ t[4 * g + (r + 1)] = e[r + 1]
      <3>1. /\ u \in Nat /\ r + 1 \in {0, 1, 2, 3} /\ r \in {0, 1, 2, 3}
            /\ 4 * g + (r + 1) + 1 <= u /\ 4 * g + r + 1 <= u
        OBVIOUS
      <3> HIDE DEF u
      <3>2. t[4 * g + ((r + 1) + 1)] = e[(r + 1) + 1]
        BY <1>5, <3>1
      <3>3. t[4 * g + (r + 1)] = e[r + 1]
        BY <1>5, <3>1
      <3> QED BY <3>2, <3>3
    <2>3. t[u] = e[r + 2] /\ t[u - 1] = e[r + 1]
      BY <2>2
    <2>4. e[r + 2] # Pad /\ e[r + 1] # Pad
      BY <1>4
    <2> HIDE DEF t
    <2>5. OutputSize(t) = (3 * u) \div 4
      BY <2>1, <2>3, <2>4 DEF OutputSize
    <2>6. (3 * u) \div 4 = Len(data)
      BY <1>2
    <2> QED BY <2>5, <2>6 DEF t
  <1> QED BY <1>3, <1>7, <1>8 DEF encode_audio_to_base64, Unpadded

\* Decoding gives the sound back.
LEMMA DecodingInverts ==
    ASSUME NEW data \in Seq(Byte), data # <<>>,
           NEW chars \in {encode_audio_to_base64(data), Unpadded(data)}
    PROVE  decode_base64_audio(chars) = data
  <1>1. OutputSize(chars) = Len(data)
    BY Sizes
  <1>2. PICK n \in Nat : chars = Characters(data, n) /\ 3 * n >= 4 * Len(data)
    <2>1. Len(data) \in Nat
      OBVIOUS
    <2>2. /\ 4 * ((Len(data) + 2) \div 3) \in Nat
          /\ 3 * (4 * ((Len(data) + 2) \div 3)) >= 4 * Len(data)
          /\ (4 * Len(data) + 2) \div 3 \in Nat
          /\ 3 * ((4 * Len(data) + 2) \div 3) >= 4 * Len(data)
      BY <2>1
    <2> QED BY <2>2 DEF encode_audio_to_base64, Unpadded
  <1>3. ASSUME NEW j \in 1..Len(data)
        PROVE  Decoded(chars, (j - 1) \div 3)[((j - 1) % 3) + 1] = data[j]
    <2>0. j \in Nat \ {0}
      OBVIOUS
    <2>1. PICK q \in Nat, r \in {0, 1, 2} : j = 3 * q + r + 1
      BY <2>0, InGroup
    <2>2. (3 * q + r) \div 3 = q /\ (3 * q + r) % 3 = r
      BY Group
    <2>3. (j - 1) \div 3 = q /\ (j - 1) % 3 = r
      BY <2>1, <2>2
    <2>4. 3 * q + r + 1 <= Len(data)
      BY <2>1
    <2>5. Decoded(chars, q)[r + 1] = data[3 * q + r + 1]
      BY <1>2, <2>4, Decoding
    <2> QED BY <2>1, <2>3, <2>5
  <1>4. data = [j \in 1..Len(data) |-> data[j]]
    OBVIOUS
  <1> QED BY <1>1, <1>3, <1>4 DEF decode_base64_audio

------------------------------------------------------------------------------
(* The bytes of a sound *)

LEMMA Concatenation ==
    ASSUME NEW a \in Seq(Byte), NEW b \in Seq(Byte)
    PROVE  a \o b \in Seq(Byte) /\ Len(a \o b) = Len(a) + Len(b)
           /\ Len(a) \in Nat /\ Len(b) \in Nat
  OBVIOUS

LEMMA LittleEndianType ==
    ASSUME NEW n \in Nat
    PROVE  LittleEndian(n) \in Seq(Byte) /\ Len(LittleEndian(n)) = 4
  <1>1. /\ n % 256 \in Byte /\ (n \div 256) % 256 \in Byte
        /\ (n \div 65536) % 256 \in Byte /\ (n \div 16777216) % 256 \in Byte
    BY DEF Byte
  <1> QED BY <1>1 DEF LittleEndian

LEMMA ChunkType ==
    ASSUME NEW id \in Seq(Byte), NEW body \in Seq(Byte)
    PROVE  Chunk(id, body) \in Seq(Byte) /\ Optional(id, body) \in Seq(Byte)
  <1>1. Padding(body) \in Seq(Byte)
    <2>1. 0 \in Byte
      BY DEF Byte
    <2>2. <<0>> \in Seq(Byte) /\ <<>> \in Seq(Byte)
      BY <2>1
    <2> QED BY <2>2 DEF Padding
  <1>2. LittleEndian(Len(body)) \in Seq(Byte)
    BY LittleEndianType
  <1> QED BY <1>1, <1>2 DEF Chunk, Optional

LEMMA BytesType ==
    ASSUME NEW s \in Sounds
    PROVE  Bytes(s) \in Seq(Byte) /\ Bytes(s) # <<>>
  <1>1. s \in Sound /\ (s.wav \/ s.pcm # <<>>)
    BY AudioDataAssumption
  <1>2. /\ s.wav \in BOOLEAN /\ s.fmt \in Seq(Byte) /\ s.info \in Seq(Byte)
        /\ s.pcm \in Seq(Byte) /\ s.tail \in Seq(Byte)
    BY <1>1 DEF Sound
  <1>3. /\ RIFF \in Seq(Byte) /\ WAVE \in Seq(Byte) /\ FMT \in Seq(Byte)
        /\ LIST \in Seq(Byte) /\ DATA \in Seq(Byte) /\ Len(RIFF) = 4
    BY DEF RIFF, WAVE, FMT, LIST, DATA, Byte
  <1>4. /\ Chunk(FMT, s.fmt) \in Seq(Byte) /\ Optional(LIST, s.info) \in Seq(Byte)
        /\ Chunk(DATA, s.pcm) \in Seq(Byte) /\ Optional(LIST, s.tail) \in Seq(Byte)
    BY <1>2, <1>3, ChunkType
  <1>5. Chunks(s) \in Seq(Byte)
    BY <1>4 DEF Chunks
  <1>6. CASE s.wav
    <2> DEFINE size == LittleEndian(4 + Len(Chunks(s)))
    <2>1. size \in Seq(Byte) /\ Len(size) = 4
      BY <1>5, LittleEndianType
    <2> HIDE DEF size
    <2> DEFINE file == RIFF \o size \o WAVE \o Chunks(s)
    <2>2. file \in Seq(Byte) /\ Len(file) >= 4
      <3> DEFINE head == RIFF \o size
      <3>1. head \in Seq(Byte) /\ Len(head) = 8
        <4>1. RIFF \in Seq(Byte) /\ size \in Seq(Byte)
          BY <1>3, <2>1
        <4>2. head \in Seq(Byte) /\ Len(head) = Len(RIFF) + Len(size)
          BY <4>1, Concatenation
        <4> QED BY <1>3, <2>1, <4>2
      <3> HIDE DEF head
      <3> DEFINE start == head \o WAVE
      <3>2. start \in Seq(Byte) /\ Len(start) = Len(head) + Len(WAVE) /\ Len(WAVE) \in Nat
        <4>1. WAVE \in Seq(Byte) /\ head \in Seq(Byte)
          BY <1>3, <3>1
        <4> QED BY <4>1, Concatenation
      <3> HIDE DEF start
      <3>3. start \o Chunks(s) \in Seq(Byte)
            /\ Len(start \o Chunks(s)) = Len(start) + Len(Chunks(s))
            /\ Len(Chunks(s)) \in Nat
        BY <1>5, <3>2, Concatenation
      <3>4. file = start \o Chunks(s)
        BY DEF start, head
      <3> QED BY <3>1, <3>2, <3>3, <3>4
    <2>3. file # <<>>
      BY <2>2
    <2>4. Bytes(s) = file
      BY <1>6 DEF Bytes, size
    <2> QED BY <2>2, <2>3, <2>4
  <1>7. CASE ~ s.wav
    BY <1>1, <1>2, <1>7 DEF Bytes
  <1> QED BY <1>6, <1>7

------------------------------------------------------------------------------
(* The theorem *)

\* The text is one of the two the encoder can have made, and once it is
\* decoded the sound is there.
AudioInv ==
    /\ sound \in Sounds
    /\ text \in {encode_audio_to_base64(Bytes(sound)), Unpadded(Bytes(sound))}
    /\ RoundTrip

LEMMA AudioInvStep == AudioInv /\ [Next]_vars => AudioInv'
  <1> SUFFICES ASSUME AudioInv, [Next]_vars PROVE AudioInv'
    OBVIOUS
  <1> USE DEF AudioInv, RoundTrip
  <1>1. CASE Decode
    <2>1. Bytes(sound) \in Seq(Byte) /\ Bytes(sound) # <<>>
      BY BytesType
    <2>2. decode_base64_audio(text) = Bytes(sound)
      BY <2>1, DecodingInverts
    <2> QED BY <1>1, <2>2 DEF Decode
  <1>2. CASE Scan
    BY <1>2 DEF Scan
  <1>3. CASE Write
    BY <1>3 DEF Write
  <1>4. CASE Finish
    BY <1>4 DEF Finish
  <1>5. CASE Fail
    BY <1>5 DEF Fail
  <1>6. CASE UNCHANGED vars
    BY <1>6 DEF vars
  <1>7. CASE DecodeOverflow
    BY <1>7 DEF DecodeOverflow
  <1> QED BY <1>1, <1>2, <1>3, <1>4, <1>5, <1>6, <1>7 DEF Next

\* decode_base64_audio inverts encode_audio_to_base64 for every sound with every
\* byte in it, padded or not, as long as three times the length of the text is
\* an int: what play_audio_data scans and writes is what was encoded.  A longer
\* text is never taken for a sound.
THEOREM AudioRoundTrip == Spec => []RoundTrip
  <1>1. Init => AudioInv
    BY DEF Init, AudioInv, RoundTrip
  <1>2. AudioInv => RoundTrip
    BY DEF AudioInv
  <1> QED BY <1>1, <1>2, AudioInvStep, PTL DEF Spec

------------------------------------------------------------------------------
(* The layout of a file *)

\* The four bytes of a size give it back.
SizeOf(b1, b2, b3, b4) == b1 + 256 * b2 + 65536 * b3 + 16777216 * b4

LEMMA SizeBack ==
    ASSUME NEW n \in Nat, Fits(n)
    PROVE  SizeOf(n % 256, (n \div 256) % 256, (n \div 65536) % 256,
                  (n \div 16777216) % 256) = n
  <1> DEFINE a == n \div 256
             b == n \div 65536
             c == n \div 16777216
  <1>1. a \in Nat /\ b \in Nat /\ c \in Nat /\ n = 256 * a + (n % 256)
    BY SMT
  <1>2. a \div 256 = b
    BY SMT
  <1>3. b \div 256 = c
    BY SMT
  <1>4. c % 256 = c
    BY <1>1, SMT DEF Fits
  <1> HIDE DEF a, b, c
  <1>5. a = 256 * b + (a % 256)
    BY <1>1, <1>2, SMT
  <1>6. b = 256 * c + (b % 256)
    BY <1>1, <1>3, SMT
  <1>7. /\ n % 256 \in Nat /\ a % 256 \in Nat /\ b % 256 \in Nat
    BY <1>1, SMT
  <1>8. n = (n % 256) + 256 * (a % 256) + 65536 * (b % 256) + 16777216 * c
    BY <1>1, <1>5, <1>6, <1>7, SMT
  <1> QED BY <1>4, <1>8, SMT DEF SizeOf, a, b, c

LEMMA LittleEndianBack ==
    ASSUME NEW n \in Nat, Fits(n)
    PROVE  LET size == LittleEndian(n)
           IN  SizeOf(size[1], size[2], size[3], size[4]) = n
  <1> DEFINE size == LittleEndian(n)
  <1>1. /\ size[1] = n % 256 /\ size[2] = (n \div 256) % 256
        /\ size[3] = (n \div 65536) % 256 /\ size[4] = (n \div 16777216) % 256
    BY SMT DEF LittleEndian
  <1> HIDE DEF size
  <1>2. SizeOf(n % 256, (n \div 256) % 256, (n \div 65536) % 256,
               (n \div 16777216) % 256) = n
    BY SizeBack, SMT
  <1>3. SizeOf(size[1], size[2], size[3], size[4]) = n
    BY <1>1, <1>2, SMT
  <1> QED BY <1>3, SMT DEF size

\* Behind a first part, a sequence is the second one.
LEMMA Behind ==
    ASSUME NEW a \in Seq(Byte), NEW b \in Seq(Byte)
    PROVE  /\ a \o b \in Seq(Byte) /\ Len(a \o b) = Len(a) + Len(b)
           /\ Len(a) \in Nat /\ Len(b) \in Nat
           /\ \A i \in 1..Len(a) : (a \o b)[i] = a[i]
           /\ \A i \in 1..Len(b) : (a \o b)[Len(a) + i] = b[i]
  <1>1. /\ a \o b \in Seq(Byte) /\ Len(a \o b) = Len(a) + Len(b)
        /\ \A i \in 1..(Len(a) + Len(b)) :
               (a \o b)[i] = IF i <= Len(a) THEN a[i] ELSE b[i - Len(a)]
    BY ConcatProperties
  <1>2. Len(a) \in Nat /\ Len(b) \in Nat
    OBVIOUS
  <1>3. \A i \in 1..Len(a) : i \in 1..(Len(a) + Len(b)) /\ i <= Len(a)
    BY <1>2
  <1>4. \A i \in 1..Len(b) : /\ Len(a) + i \in 1..(Len(a) + Len(b))
                             /\ ~ (Len(a) + i <= Len(a)) /\ (Len(a) + i) - Len(a) = i
    BY <1>2
  <1>5. \A i \in 1..Len(a) : (a \o b)[i] = a[i]
    BY <1>1, <1>3
  <1>6. \A i \in 1..Len(b) : (a \o b)[Len(a) + i] = b[i]
    BY <1>1, <1>4
  <1> QED BY <1>1, <1>2, <1>5, <1>6

\* A part of a sequence, told by its elements.
LEMMA PartIs ==
    ASSUME NEW s \in Seq(Byte), NEW t \in Seq(Byte), NEW m \in Nat, m + Len(t) <= Len(s),
           \A i \in 1..Len(t) : s[m + i] = t[i]
    PROVE  SubSeq(s, m + 1, m + Len(t)) = t
  <1>1. Len(t) \in Nat /\ Len(s) \in Nat
    OBVIOUS
  <1> DEFINE l == m + 1
             r == m + Len(t)
             u == SubSeq(s, l, r)
  <1>2. \A i \in l..r : s[i] \in Byte
    BY <1>1
  <1>3. l \in Int /\ r \in Int
    BY <1>1
  <1> HIDE DEF l, r
  <1>4. /\ u \in Seq(Byte) /\ Len(u) = IF l <= r THEN r - l + 1 ELSE 0
        /\ \A i \in 1..(r - l + 1) : u[i] = s[l + i - 1]
    BY <1>2, <1>3, SubSeqProperties
  <1> HIDE DEF u
  <1>5. r - l + 1 = Len(t) /\ \A i \in 1..Len(t) : l + i - 1 = m + i
    BY <1>1 DEF l, r
  <1>6. Len(u) = Len(t)
    BY <1>1, <1>4, <1>5 DEF l, r
  <1>7. \A i \in 1..Len(t) : u[i] = t[i]
    BY <1>4, <1>5
  <1>8. u = t
    <2>1. Len(u) \in Nat /\ Len(t) \in Nat /\ u \in Seq(Byte)
      BY <1>1, <1>4, <1>6
    <2>2. u = [i \in 1..Len(u) |-> u[i]] /\ t = [i \in 1..Len(t) |-> t[i]]
      BY <2>1
    <2> QED BY <1>6, <1>7, <2>2
  <1> QED BY <1>8 DEF u, l, r

\* What the scan reads at a position: the name of a chunk, and its size.
NameAt(file, p) == SubSeq(file, p + 1, p + 4)
SizeAt(file, p) == SizeOf(file[p + 5], file[p + 6], file[p + 7], file[p + 8])

\* In file, p bytes are in front of a chunk header, and rest is behind it.
Headed(file, p, id, n, rest) ==
    /\ file \in Seq(Byte) /\ Len(file) = p + 8 + Len(rest)
    /\ p \in Nat /\ Len(rest) \in Nat
    /\ NameAt(file, p) = id
    /\ Fits(n) => SizeAt(file, p) = n
    /\ \A i \in 1..Len(rest) : file[(p + 8) + i] = rest[i]

LEMMA HeaderAt ==
    ASSUME NEW pre \in Seq(Byte), NEW id \in Seq(Byte), Len(id) = 4, NEW n \in Nat,
           NEW rest \in Seq(Byte), NEW file,
           file = pre \o (id \o (LittleEndian(n) \o rest))
    PROVE  Headed(file, Len(pre), id, n, rest)
  <1> DEFINE size == LittleEndian(n)
             b == size \o rest
             c == id \o b
             p == Len(pre)
  <1>1. /\ size \in Seq(Byte) /\ Len(size) = 4
        /\ Fits(n) => SizeOf(size[1], size[2], size[3], size[4]) = n
    <2>1. size \in Seq(Byte) /\ Len(size) = 4
      BY LittleEndianType
    <2>2. Fits(n) => SizeOf(size[1], size[2], size[3], size[4]) = n
      BY LittleEndianBack, Zenon
    <2> QED BY <2>1, <2>2
  <1> HIDE DEF size
  <1>2. /\ b \in Seq(Byte) /\ Len(b) = 4 + Len(rest) /\ Len(rest) \in Nat
        /\ \A i \in 1..4 : b[i] = size[i]
        /\ \A i \in 1..Len(rest) : b[4 + i] = rest[i]
    <2>1. /\ b \in Seq(Byte) /\ Len(b) = Len(size) + Len(rest) /\ Len(rest) \in Nat
          /\ \A i \in 1..Len(size) : b[i] = size[i]
          /\ \A i \in 1..Len(rest) : b[Len(size) + i] = rest[i]
      BY <1>1, Behind, Zenon
    <2> HIDE DEF b
    <2> QED BY <1>1, <2>1
  <1> HIDE DEF b
  <1>3. /\ c \in Seq(Byte) /\ Len(c) = 4 + Len(b)
        /\ \A i \in 1..4 : c[i] = id[i]
        /\ \A i \in 1..Len(b) : c[4 + i] = b[i]
    <2>1. /\ c \in Seq(Byte) /\ Len(c) = Len(id) + Len(b)
          /\ \A i \in 1..Len(id) : c[i] = id[i]
          /\ \A i \in 1..Len(b) : c[Len(id) + i] = b[i]
      BY <1>2, Behind, Zenon
    <2> HIDE DEF c
    <2> QED BY <2>1
  <1>4. /\ file \in Seq(Byte) /\ Len(file) = p + Len(c) /\ p \in Nat
        /\ \A i \in 1..Len(c) : file[p + i] = c[i]
    <2>1. file = pre \o c
      BY DEF c, b, size
    <2> HIDE DEF c
    <2>2. pre \o c \in Seq(Byte) /\ Len(pre \o c) = Len(pre) + Len(c) /\ Len(pre) \in Nat
          /\ \A i \in 1..Len(c) : (pre \o c)[Len(pre) + i] = c[i]
      BY <1>3, Behind, Zenon
    <2> QED BY <2>1, <2>2, Zenon
  <1> HIDE DEF p, c
  <1>5. Len(c) = 8 + Len(rest) /\ Len(file) = p + 8 + Len(rest)
    BY <1>2, <1>3, <1>4
  <1>6. \A i \in 1..4 : file[p + i] = id[i]
    <2>1. \A i \in 1..4 : i \in 1..Len(c)
      BY <1>2, <1>5
    <2> QED BY <1>3, <1>4, <2>1
  <1>7. \A i \in 1..4 : file[p + 4 + i] = size[i]
    <2>1. \A i \in 1..4 : /\ 4 + i \in 1..Len(c) /\ i \in 1..Len(b)
                          /\ p + (4 + i) = p + 4 + i
      BY <1>2, <1>4, <1>5
    <2>2. \A i \in 1..4 : file[p + (4 + i)] = size[i]
      BY <1>2, <1>3, <1>4, <2>1
    <2> QED BY <2>1, <2>2
  <1>8. \A i \in 1..Len(rest) : file[(p + 8) + i] = rest[i]
    <2>1. \A i \in 1..Len(rest) : /\ 4 + (4 + i) \in 1..Len(c) /\ 4 + i \in 1..Len(b)
                                  /\ p + (4 + (4 + i)) = (p + 8) + i
      BY <1>2, <1>4, <1>5
    <2>2. ASSUME NEW i \in 1..Len(rest) PROVE file[p + (4 + (4 + i))] = rest[i]
      <3>1. file[p + (4 + (4 + i))] = c[4 + (4 + i)]
        BY <1>4, <2>1, Zenon
      <3>2. c[4 + (4 + i)] = b[4 + i]
        BY <1>3, <2>1, Zenon
      <3> QED BY <1>2, <3>1, <3>2, Zenon
    <2> QED BY <2>1, <2>2
  <1>9. NameAt(file, p) = id
    <2>1. p + Len(id) <= Len(file)
      BY <1>2, <1>4, <1>5
    <2>2. /\ file \in Seq(Byte) /\ p \in Nat
          /\ \A i \in 1..Len(id) : file[p + i] = id[i]
      BY <1>4, <1>6
    <2>3. SubSeq(file, p + 1, p + Len(id)) = id
      BY <2>1, <2>2, PartIs, Zenon
    <2> QED BY <2>3 DEF NameAt
  <1>10. Fits(n) => SizeAt(file, p) = n
    <2>1. /\ p + 4 + 1 = p + 5 /\ p + 4 + 2 = p + 6 /\ p + 4 + 3 = p + 7
          /\ p + 4 + 4 = p + 8
      BY <1>4
    <2>2. /\ file[p + 4 + 1] = size[1] /\ file[p + 4 + 2] = size[2]
          /\ file[p + 4 + 3] = size[3] /\ file[p + 4 + 4] = size[4]
      <3>1. 1 \in 1..4 /\ 2 \in 1..4 /\ 3 \in 1..4 /\ 4 \in 1..4
        OBVIOUS
      <3> QED BY <1>7, <3>1, Zenon
    <2>3. /\ file[p + 5] = size[1] /\ file[p + 6] = size[2] /\ file[p + 7] = size[3]
          /\ file[p + 8] = size[4]
      BY <2>1, <2>2, Zenon
    <2> QED BY <1>1, <2>3, Zenon DEF SizeAt
  <1> QED BY <1>2, <1>4, <1>5, <1>8, <1>9, <1>10 DEF Headed, p

\* The bytes behind the header of the data chunk, and where the second and the
\* last chunk in front of them start.
After(s) == s.pcm \o (IF s.wav THEN Padding(s.pcm) \o Optional(LIST, s.tail)
                      ELSE <<>>)
Second(s) == 20 + Len(s.fmt)
Last(s) == Second(s) + (IF s.info = <<>> THEN 0 ELSE 8 + Len(s.info))

LEMMA SoundType ==
    ASSUME NEW s \in Sounds
    PROVE  /\ s.wav \in BOOLEAN /\ s.fmt \in Seq(Byte) /\ s.info \in Seq(Byte)
           /\ s.pcm \in Seq(Byte) /\ s.tail \in Seq(Byte)
  <1>1. s \in Sound
    BY AudioDataAssumption
  <1> QED BY <1>1 DEF Sound

LEMMA Positions ==
    ASSUME NEW s \in Sounds
    PROVE  /\ Second(s) \in Nat /\ Last(s) \in Nat
           /\ 12 <= Second(s) /\ Second(s) <= Last(s)
  <1> DEFINE m == Len(s.fmt)
             n == IF s.info = <<>> THEN 0 ELSE 8 + Len(s.info)
  <1>1. m \in Nat /\ n \in Nat
    <2>1. s.fmt \in Seq(Byte) /\ s.info \in Seq(Byte)
      BY SoundType
    <2>2. Len(s.fmt) \in Nat /\ Len(s.info) \in Nat
      BY <2>1
    <2> QED BY <2>2
  <1>2. Second(s) = 20 + m /\ Last(s) = Second(s) + n
    BY DEF Second, Last
  <1> HIDE DEF m, n
  <1> QED BY <1>1, <1>2

LEMMA NameType ==
    /\ RIFF \in Seq(Byte) /\ WAVE \in Seq(Byte) /\ FMT \in Seq(Byte)
    /\ LIST \in Seq(Byte) /\ DATA \in Seq(Byte) /\ Len(RIFF) = 4 /\ Len(WAVE) = 4
    /\ Len(FMT) = 4 /\ Len(LIST) = 4 /\ Len(DATA) = 4
    /\ FMT # DATA /\ LIST # DATA
  BY DEF RIFF, WAVE, FMT, LIST, DATA, Byte

LEMMA PaddingType ==
    ASSUME NEW body \in Seq(Byte)
    PROVE  Padding(body) \in Seq(Byte) /\ (Len(body) % 2 = 0 => Padding(body) = <<>>)
  <1>1. 0 \in Byte
    BY DEF Byte
  <1>2. <<0>> \in Seq(Byte) /\ <<>> \in Seq(Byte)
    BY <1>1
  <1> QED BY <1>2 DEF Padding

Grouping(a, b, c) == (a \o b) \o c = a \o (b \o c)

LEMMA Associative ==
    ASSUME NEW a \in Seq(Byte), NEW b \in Seq(Byte), NEW c \in Seq(Byte)
    PROVE  Grouping(a, b, c)
  BY ConcatAssociative DEF Grouping

\* A chunk in front of other bytes is a header in front of its body.
LEMMA ChunkThen ==
    ASSUME NEW id \in Seq(Byte), NEW body \in Seq(Byte), NEW rest \in Seq(Byte)
    PROVE  /\ body \o (Padding(body) \o rest) \in Seq(Byte)
           /\ Chunk(id, body) \o rest
                = id \o (LittleEndian(Len(body)) \o (body \o (Padding(body) \o rest)))
  <1> DEFINE n == LittleEndian(Len(body))
             e == Padding(body)
  <1>1. n \in Seq(Byte) /\ e \in Seq(Byte)
    BY LittleEndianType, PaddingType
  <1> HIDE DEF n, e
  <1>2. /\ id \o n \in Seq(Byte) /\ e \o rest \in Seq(Byte)
        /\ body \o (e \o rest) \in Seq(Byte) /\ (id \o n) \o body \in Seq(Byte)
    BY <1>1
  <1> DEFINE x == id \o n
             y == e \o rest
             z == body \o y
             v == x \o body
  <1>3. x \in Seq(Byte) /\ y \in Seq(Byte) /\ z \in Seq(Byte) /\ v \in Seq(Byte)
    BY <1>2
  <1>4. Grouping(x, body, y) /\ Grouping(id, n, z) /\ Grouping(v, e, rest)
    <2> HIDE DEF x, y, z, v
    <2> QED BY <1>1, <1>3, Associative, Zenon
  <1>5. /\ (x \o body) \o y = x \o (body \o y)
        /\ (id \o n) \o (body \o y) = id \o (n \o (body \o y))
        /\ ((x \o body) \o e) \o rest = (x \o body) \o y
    BY <1>4, Zenon DEF Grouping
  <1>6. Chunk(id, body) = (x \o body) \o e
    BY DEF Chunk, n, e
  <1>7. Chunk(id, body) \o rest = id \o (n \o (body \o y))
    BY <1>5, <1>6, Zenon
  <1> QED BY <1>2, <1>7 DEF n, e

\* A chunk behind some bytes and in front of others.
LEMMA ChunkAt ==
    ASSUME NEW pre \in Seq(Byte), NEW id \in Seq(Byte), Len(id) = 4,
           NEW body \in Seq(Byte), NEW rest \in Seq(Byte), NEW file, NEW behind,
           file = pre \o (Chunk(id, body) \o rest),
           behind = body \o (Padding(body) \o rest)
    PROVE  behind \in Seq(Byte) /\ Headed(file, Len(pre), id, Len(body), behind)
  <1>1. /\ behind \in Seq(Byte)
        /\ Chunk(id, body) \o rest = id \o (LittleEndian(Len(body)) \o behind)
    BY ChunkThen
  <1>2. Len(body) \in Nat
    OBVIOUS
  <1>3. file = pre \o (id \o (LittleEndian(Len(body)) \o behind))
    BY <1>1
  <1>4. behind \in Seq(Byte)
    BY <1>1
  <1>5. Headed(file, Len(pre), id, Len(body), behind)
    BY <1>2, <1>3, <1>4, HeaderAt, Zenon
  <1> QED BY <1>4, <1>5

\* A chunk without padding is its header and its body.
LEMMA ChunkLength ==
    ASSUME NEW id \in Seq(Byte), Len(id) = 4, NEW body \in Seq(Byte), Len(body) % 2 = 0
    PROVE  Chunk(id, body) \in Seq(Byte) /\ Len(Chunk(id, body)) = 8 + Len(body)
  <1> DEFINE n == LittleEndian(Len(body))
  <1>1. n \in Seq(Byte) /\ Len(n) = 4 /\ Padding(body) = <<>>
    <2>1. Len(body) \in Nat
      OBVIOUS
    <2>2. n \in Seq(Byte) /\ Len(n) = 4
      BY <2>1, LittleEndianType
    <2> HIDE DEF n
    <2>3. Padding(body) = <<>>
      BY PaddingType
    <2> QED BY <2>2, <2>3
  <1>2. Chunk(id, body) = ((id \o n) \o body) \o <<>>
    BY <1>1 DEF Chunk
  <1> HIDE DEF n
  <1> DEFINE x == id \o n
             y == x \o body
  <1>3. x \in Seq(Byte) /\ Len(x) = Len(id) + Len(n)
    BY <1>1, Concatenation
  <1> HIDE DEF x
  <1>4. y \in Seq(Byte) /\ Len(y) = Len(x) + Len(body)
    BY <1>3, Concatenation
  <1> HIDE DEF y
  <1>5. y \o <<>> = y
    BY <1>4
  <1>6. Chunk(id, body) = y
    BY <1>2, <1>5 DEF x, y
  <1> QED BY <1>1, <1>3, <1>4, <1>6

\* The three ways to cut a file, in front of each of its chunks.
Cuts(a, b, c, d, e) ==
    /\ a \o (((b \o c) \o d) \o e) = a \o (b \o (c \o (d \o e)))
    /\ a \o (((b \o c) \o d) \o e) = (a \o b) \o (c \o (d \o e))
    /\ a \o (((b \o c) \o d) \o e) = ((a \o b) \o c) \o (d \o e)

LEMMA Regrouped ==
    ASSUME NEW a \in Seq(Byte), NEW b \in Seq(Byte), NEW c \in Seq(Byte),
           NEW d \in Seq(Byte), NEW e \in Seq(Byte)
    PROVE  Cuts(a, b, c, d, e)
  <1> DEFINE x == b \o c   y == d \o e   z == c \o y   w == a \o b
  <1>1. x \in Seq(Byte) /\ y \in Seq(Byte) /\ w \in Seq(Byte)
    OBVIOUS
  <1>2. z \in Seq(Byte)
    BY <1>1
  <1>3. Grouping(x, d, e) /\ Grouping(b, c, y) /\ Grouping(a, b, z) /\ Grouping(w, c, y)
    <2> HIDE DEF x, y, z, w
    <2> QED BY <1>1, <1>2, Associative, Zenon
  <1>4. (x \o d) \o e = x \o (d \o e) /\ (b \o c) \o y = b \o (c \o y)
    BY <1>3, Zenon DEF Grouping
  <1>5. (a \o b) \o z = a \o (b \o z) /\ (w \o c) \o y = w \o (c \o y)
    BY <1>3, Zenon DEF Grouping
  <1>7. (x \o d) \o e = b \o z
    BY <1>4
  <1>8. a \o (b \o z) = w \o z /\ w \o z = (w \o c) \o y
    BY <1>5
  <1> HIDE DEF x, y, z, w
  <1>9. /\ a \o ((x \o d) \o e) = a \o (b \o z)
        /\ a \o ((x \o d) \o e) = w \o z
        /\ a \o ((x \o d) \o e) = (w \o c) \o y
    BY <1>7, <1>8
  <1> QED BY <1>9 DEF Cuts, x, y, z, w

\* Where the chunks of a file are, for a file that the scan can step through.
LEMMA Layout ==
    ASSUME NEW s \in Sounds, s.wav, SteppedOver(s.fmt), SteppedOver(s.info), NEW file,
           file = Bytes(s)
    PROVE  /\ SubSeq(file, 1, 4) = RIFF
           /\ \E rest : Headed(file, 12, FMT, Len(s.fmt), rest)
           /\ s.info # <<>> => \E rest : Headed(file, Second(s), LIST, Len(s.info), rest)
           /\ Headed(file, Last(s), DATA, Len(s.pcm), After(s))
  <1> DEFINE f == Chunk(FMT, s.fmt)
             l == Optional(LIST, s.info)
             d == Chunk(DATA, s.pcm)
             t == Optional(LIST, s.tail)
             size == LittleEndian(4 + Len(Chunks(s)))
             head == (RIFF \o size) \o WAVE
             all == ((f \o l) \o d) \o t
  <1>1. /\ s.fmt \in Seq(Byte) /\ s.info \in Seq(Byte)
        /\ s.pcm \in Seq(Byte) /\ s.tail \in Seq(Byte)
    BY SoundType
  <1>2. f \in Seq(Byte) /\ l \in Seq(Byte) /\ d \in Seq(Byte) /\ t \in Seq(Byte)
    BY <1>1, NameType, ChunkType
  <1>3. file = head \o all
    BY DEF Bytes, Chunks
  <1>4. Len(f) = 8 + Len(s.fmt)
    <2>1. FMT \in Seq(Byte) /\ Len(FMT) = 4 /\ Len(s.fmt) % 2 = 0
      BY NameType DEF SteppedOver
    <2> QED BY <1>1, <2>1, ChunkLength, Zenon
  <1>5. Len(l) = IF s.info = <<>> THEN 0 ELSE 8 + Len(s.info)
    <2>1. CASE s.info = <<>>
      BY <2>1 DEF Optional
    <2>2. CASE s.info # <<>>
      <3>1. l = Chunk(LIST, s.info)
        BY <2>2 DEF Optional
      <3>2. Len(Chunk(LIST, s.info)) = 8 + Len(s.info)
        <4>1. LIST \in Seq(Byte) /\ Len(LIST) = 4 /\ Len(s.info) % 2 = 0
          BY NameType DEF SteppedOver
        <4> QED BY <1>1, <4>1, ChunkLength, Zenon
      <3> QED BY <2>2, <3>1, <3>2
    <2> QED BY <2>1, <2>2
  <1>6. size \in Seq(Byte) /\ Len(size) = 4
    <2>1. Chunks(s) \in Seq(Byte)
      BY <1>2 DEF Chunks
    <2>2. 4 + Len(Chunks(s)) \in Nat
      BY <2>1
    <2> QED BY <2>2, LittleEndianType
  <1>7. all \in Seq(Byte)
    BY <1>2
  <1> HIDE DEF size, all
  <1>8. /\ head \in Seq(Byte) /\ Len(head) = 12 /\ Len(file) >= 12
        /\ file \in Seq(Byte)
        /\ \A i \in 1..4 : file[i] = RIFF[i]
    <2> DEFINE x == RIFF \o size
    <2>0. RIFF \in Seq(Byte) /\ WAVE \in Seq(Byte)
      BY NameType
    <2>1. /\ x \in Seq(Byte) /\ Len(x) = Len(RIFF) + Len(size)
          /\ \A i \in 1..Len(RIFF) : x[i] = RIFF[i]
      BY <1>6, <2>0, Behind
    <2> HIDE DEF x
    <2> DEFINE y == x \o WAVE
    <2>2. /\ y \in Seq(Byte) /\ Len(y) = Len(x) + Len(WAVE)
          /\ \A i \in 1..Len(x) : y[i] = x[i]
      BY <2>0, <2>1, Behind
    <2> HIDE DEF y
    <2>3. /\ y \o all \in Seq(Byte) /\ Len(y \o all) = Len(y) + Len(all)
          /\ Len(all) \in Nat
          /\ \A i \in 1..Len(y) : (y \o all)[i] = y[i]
      BY <1>7, <2>2, Behind, Zenon
    <2>4. head = y /\ file = y \o all
      BY <1>3 DEF x, y
    <2>5. Len(x) = 8 /\ Len(y) = 12
      BY <1>6, <2>1, <2>2, NameType
    <2>6. ASSUME NEW i \in 1..4 PROVE file[i] = RIFF[i]
      <3>1. i \in 1..Len(RIFF) /\ i \in 1..Len(x) /\ i \in 1..Len(y)
        BY <2>5, NameType
      <3> QED BY <2>1, <2>2, <2>3, <2>4, <3>1, Zenon
    <2>7. Len(file) >= 12
      BY <2>3, <2>4, <2>5
    <2> QED BY <2>2, <2>3, <2>4, <2>5, <2>6, <2>7
  <1>9. SubSeq(file, 1, 4) = RIFF
    <2>1. 0 + Len(RIFF) <= Len(file) /\ \A i \in 1..Len(RIFF) : file[0 + i] = RIFF[i]
      BY <1>8, NameType
    <2>2. SubSeq(file, 0 + 1, 0 + Len(RIFF)) = RIFF
      BY <1>8, <2>1, NameType, PartIs
    <2> QED BY <2>2, NameType
  <1> HIDE DEF head, f, l, d, t
  <1>10. /\ file = head \o (f \o (l \o (d \o t)))
         /\ file = (head \o f) \o (l \o (d \o t))
         /\ file = ((head \o f) \o l) \o (d \o t)
    <2>1. file = head \o (((f \o l) \o d) \o t)
      BY <1>3 DEF all
    <2>2. head \in Seq(Byte)
      BY <1>8
    <2>3. Cuts(head, f, l, d, t)
      BY <1>2, <2>2, Regrouped, Zenon
    <2> QED BY <2>1, <2>3, Zenon DEF Cuts
  <1>11. /\ head \o f \in Seq(Byte) /\ Len(head \o f) = Second(s)
         /\ (head \o f) \o l \in Seq(Byte) /\ Len((head \o f) \o l) = Last(s)
    <2> DEFINE x == head \o f
    <2>1. x \in Seq(Byte) /\ Len(x) = Len(head) + Len(f)
      BY <1>2, <1>8, Concatenation, Zenon
    <2> HIDE DEF x
    <2>2. x \o l \in Seq(Byte) /\ Len(x \o l) = Len(x) + Len(l)
      BY <1>2, <2>1, Concatenation, Zenon
    <2>3. Len(s.fmt) \in Nat /\ Len(s.info) \in Nat
      BY <1>1
    <2>4. Len(x) = Second(s)
      BY <1>4, <1>8, <2>1, <2>3 DEF Second
    <2>5. Len(x \o l) = Last(s)
      BY <1>5, <2>2, <2>3, <2>4 DEF Last
    <2> QED BY <2>1, <2>2, <2>4, <2>5 DEF x
  <1>12. l \o (d \o t) \in Seq(Byte) /\ d \o t \in Seq(Byte)
    BY <1>2
  <1>13. \E rest : Headed(file, 12, FMT, Len(s.fmt), rest)
    <2> DEFINE r == l \o (d \o t)
    <2>1. r \in Seq(Byte) /\ file = head \o (Chunk(FMT, s.fmt) \o r)
      BY <1>10, <1>12 DEF f
    <2> HIDE DEF r
    <2>2. FMT \in Seq(Byte) /\ Len(FMT) = 4 /\ head \in Seq(Byte)
      BY <1>8, NameType
    <2>3. Headed(file, Len(head), FMT, Len(s.fmt), s.fmt \o (Padding(s.fmt) \o r))
      BY <1>1, <2>1, <2>2, ChunkAt, Zenon
    <2> QED BY <1>8, <2>3, Zenon
  <1>14. ASSUME s.info # <<>>
         PROVE  \E rest : Headed(file, Second(s), LIST, Len(s.info), rest)
    <2> DEFINE r == d \o t
               pre == head \o f
    <2>1. /\ r \in Seq(Byte) /\ file = pre \o (Chunk(LIST, s.info) \o r)
          /\ pre \in Seq(Byte) /\ Len(pre) = Second(s)
      BY <1>10, <1>11, <1>12, <1>14 DEF l, Optional
    <2> HIDE DEF r, pre
    <2>2. Headed(file, Len(pre), LIST, Len(s.info), s.info \o (Padding(s.info) \o r))
      <3>1. LIST \in Seq(Byte) /\ Len(LIST) = 4
        BY NameType
      <3> QED BY <1>1, <2>1, <3>1, ChunkAt, Zenon
    <2> QED BY <2>1, <2>2, Zenon
  <1>15. Headed(file, Last(s), DATA, Len(s.pcm), After(s))
    <2> DEFINE pre == (head \o f) \o l
    <2>1. /\ file = pre \o (Chunk(DATA, s.pcm) \o t)
          /\ pre \in Seq(Byte) /\ Len(pre) = Last(s)
      BY <1>10, <1>11 DEF d
    <2>2. After(s) = s.pcm \o (Padding(s.pcm) \o t)
      BY DEF After, t
    <2> HIDE DEF pre
    <2>3. Headed(file, Len(pre), DATA, Len(s.pcm), After(s))
      <3>1. DATA \in Seq(Byte) /\ Len(DATA) = 4
        BY NameType
      <3> QED BY <1>1, <1>2, <2>1, <2>2, <3>1, ChunkAt, Zenon
    <2> QED BY <2>1, <2>3, Zenon
  <1> QED BY <1>9, <1>13, <1>14, <1>15

------------------------------------------------------------------------------
(* Types *)

LEMMA CharactersType ==
    ASSUME NEW data \in Seq(Byte), NEW n \in Nat
    PROVE  Characters(data, n) \in Seq(Char)
  <1>1. ASSUME NEW q \in Nat, NEW r \in {0, 1, 2, 3}
        PROVE  Encoded(data, q)[r + 1] \in Char
    <2> DEFINE a == At(data, 3 * q + 1)
               b == At(data, 3 * q + 2)
               c == At(data, 3 * q + 3)
    <2>1. a \in Byte /\ b \in Byte /\ c \in Byte
      BY AtByte
    <2>2. /\ Encoded(data, q)[1] = a \div 4
          /\ Encoded(data, q)[2] = 16 * (a % 4) + (b \div 16)
          /\ Encoded(data, q)[3] \in {4 * (b % 16) + (c \div 64), Pad}
          /\ Encoded(data, q)[4] \in {c % 64, Pad}
      BY DEF Encoded
    <2> HIDE DEF a, b, c
    <2>3. /\ a \div 4 \in 0..63 /\ 16 * (a % 4) + (b \div 16) \in 0..63
          /\ 4 * (b % 16) + (c \div 64) \in 0..63 /\ c % 64 \in 0..63
      BY <2>1, Bits
    <2>4. \A k \in 0..63 : k \in Char
      BY DEF Char
    <2>5. Pad \in Char
      BY DEF Pad, Char
    <2>6. /\ Encoded(data, q)[1] \in Char /\ Encoded(data, q)[2] \in Char
          /\ Encoded(data, q)[3] \in Char /\ Encoded(data, q)[4] \in Char
      BY <2>2, <2>3, <2>4, <2>5
    <2> QED BY <2>6
  <1>2. ASSUME NEW k \in 1..n
        PROVE  Encoded(data, (k - 1) \div 4)[((k - 1) % 4) + 1] \in Char
    <2>1. (k - 1) \div 4 \in Nat /\ (k - 1) % 4 \in {0, 1, 2, 3}
      OBVIOUS
    <2> QED BY <1>1, <2>1
  <1> QED BY <1>2 DEF Characters

\* A part of a sequence within its bounds.
LEMMA PartOf ==
    ASSUME NEW s \in Seq(Byte), NEW m \in Nat, NEW n \in Nat, m + n <= Len(s)
    PROVE  /\ SubSeq(s, m + 1, m + n) \in Seq(Byte)
           /\ Len(SubSeq(s, m + 1, m + n)) = n
           /\ \A i \in 1..n : SubSeq(s, m + 1, m + n)[i] = s[m + i]
  <1> DEFINE l == m + 1
             r == m + n
             u == SubSeq(s, l, r)
  <1>1. \A i \in l..r : s[i] \in Byte
    OBVIOUS
  <1>2. l \in Int /\ r \in Int /\ r - l + 1 = n /\ (l <= r \/ n = 0)
        /\ \A i \in 1..n : l + i - 1 = m + i
    OBVIOUS
  <1>3. (l <= r => r - l + 1 = n) /\ (~ (l <= r) => n = 0)
    OBVIOUS
  <1> HIDE DEF l, r
  <1>4. /\ u \in Seq(Byte) /\ Len(u) = IF l <= r THEN r - l + 1 ELSE 0
        /\ \A i \in 1..(r - l + 1) : u[i] = s[l + i - 1]
    BY <1>1, <1>2, SubSeqProperties
  <1> HIDE DEF u
  <1>5. Len(u) = n
    BY <1>3, <1>4
  <1>6. \A i \in 1..n : u[i] = s[m + i]
    BY <1>2, <1>4
  <1> QED BY <1>4, <1>5, <1>6 DEF u, l, r

\* While the scan runs, data_size is the size of the whole file.
TypeInv ==
    /\ TypeOK /\ AudioInv
    /\ pc = "scan" => data_size = Len(audio_data)

LEMMA TypeInvInit == Init => TypeInv
  <1> SUFFICES ASSUME Init PROVE TypeInv
    OBVIOUS
  <1>1. sound \in Sounds /\ Bytes(sound) \in Seq(Byte)
    BY BytesType DEF Init
  <1>2. text \in Seq(Char)
    <2> DEFINE n == Len(Bytes(sound))
    <2>1. n \in Nat
      BY <1>1
    <2>2. 4 * ((n + 2) \div 3) \in Nat /\ (4 * n + 2) \div 3 \in Nat
      BY <2>1
    <2> QED BY <1>1, <2>2, CharactersType DEF Init, encode_audio_to_base64, Unpadded
  <1>3. TypeOK
    BY <1>1, <1>2 DEF Init, TypeOK
  <1>4. AudioInv
    BY DEF Init, AudioInv, RoundTrip
  <1> QED BY <1>3, <1>4 DEF Init, TypeInv

LEMMA Remainders ==
    ASSUME NEW m \in Nat \ {0}, NEW x \in Int
    PROVE  x % m \in Nat /\ (0 <= x /\ x < m => x % m = x)
  BY SMT

\* One Pa_WriteStream gives the device the next n bytes, n > 0, or faults.
LEMMA WriteStep ==
    ASSUME TypeInv, Write
    PROVE  /\ UNCHANGED <<sound, text, audio_data, pcm_offset, data_size>>
           /\ pc = "write" /\ audio_data \in Seq(Byte)
           /\ \E n \in Nat :
                 /\ n > 0 /\ offset + n <= data_size
                 /\ \/ /\ pc' = "fault" /\ UNCHANGED <<offset, played>>
                       /\ pcm_offset + offset + n > Len(audio_data)
                    \/ /\ pcm_offset + offset + n <= Len(audio_data)
                       /\ played' = played \o SubSeq(audio_data, (pcm_offset + offset) + 1,
                                                     (pcm_offset + offset) + n)
                       /\ offset' = offset + n /\ pc' = pc
  <1> DEFINE n == IF offset + FRAMES_PER_BUFFER > data_size
                  THEN data_size - offset ELSE FRAMES_PER_BUFFER
             first == pcm_offset + offset + 1
  <1>1. /\ pcm_offset \in Nat /\ data_size \in Nat /\ offset \in Nat
        /\ FRAMES_PER_BUFFER \in Nat \ {0} /\ offset < data_size
        /\ audio_data \in Seq(Byte) /\ Len(audio_data) \in Nat
    BY AudioDataAssumption DEF TypeInv, TypeOK, Write
  <1>2. n \in Nat /\ n > 0 /\ offset + n <= data_size
    BY <1>1
  <1>3. /\ UNCHANGED <<sound, text, audio_data, pcm_offset, data_size>> /\ pc = "write"
        /\ IF first + n - 1 > Len(audio_data)
           THEN pc' = "fault" /\ UNCHANGED <<offset, played>>
           ELSE /\ played' = played \o SubSeq(audio_data, first, first + n - 1)
                /\ offset' = offset + n /\ UNCHANGED pc
    BY DEF Write
  <1> HIDE DEF n
  <1>4. first = (pcm_offset + offset) + 1 /\ first + n - 1 = (pcm_offset + offset) + n
        /\ first \in Nat /\ first + n - 1 \in Nat
    BY <1>1, <1>2
  <1> HIDE DEF first
  <1>5. first + n - 1 > Len(audio_data) \/ first + n - 1 <= Len(audio_data)
    BY <1>1, <1>4
  <1>6. CASE first + n - 1 > Len(audio_data)
    BY <1>1, <1>2, <1>3, <1>4, <1>6
  <1>7. CASE ~ (first + n - 1 > Len(audio_data))
    <2>1. first + n - 1 <= Len(audio_data)
      BY <1>5, <1>7
    <2>2. /\ played' = played \o SubSeq(audio_data, first, first + n - 1)
          /\ offset' = offset + n /\ pc' = pc
      BY <1>3, <1>7
    <2>3. /\ played' = played \o SubSeq(audio_data, (pcm_offset + offset) + 1,
                                        (pcm_offset + offset) + n)
          /\ pcm_offset + offset + n <= Len(audio_data)
      BY <1>4, <2>1, <2>2
    <2> QED BY <1>1, <1>2, <1>3, <2>2, <2>3
  <1> QED BY <1>6, <1>7

LEMMA TypeInvStep == TypeInv /\ [Next]_vars => TypeInv'
  <1> SUFFICES ASSUME TypeInv, [Next]_vars PROVE TypeInv'
    OBVIOUS
  <1>0. AudioInv'
    BY AudioInvStep DEF TypeInv
  <1>1. /\ sound \in Sounds /\ Bytes(sound) \in Seq(Byte)
        /\ Len(Bytes(sound)) \in Nat
    <2>1. sound \in Sounds
      BY DEF TypeInv, TypeOK
    <2>2. Bytes(sound) \in Seq(Byte)
      BY <2>1, BytesType
    <2> QED BY <2>1, <2>2
  <1>2. CASE Decode
    <2>1. sound' = sound /\ pc' \in {"scan", "write"}
      BY <1>2 DEF Decode
    <2>2. audio_data' = Bytes(sound)
      BY <1>0, <2>1 DEF AudioInv, RoundTrip
    <2>3. data_size' = Len(audio_data')
      BY <1>2 DEF Decode
    <2>4. pcm_offset' \in Nat /\ UNCHANGED <<sound, text, offset, played>>
      BY <1>2 DEF Decode
    <2>5. TypeOK'
      BY <1>1, <2>1, <2>2, <2>3, <2>4 DEF TypeInv, TypeOK
    <2> QED BY <1>0, <2>3, <2>5 DEF TypeInv
  <1>3. CASE Scan
    <2>1. /\ pc = "scan" /\ data_size = Len(audio_data) /\ audio_data \in Seq(Byte)
          /\ pcm_offset \in Nat /\ data_size \in Nat
      BY <1>3 DEF Scan, TypeInv, TypeOK
    <2>2. SIZE_MAX \in Nat \ {0} /\ UINT32_MAX \in Nat \ {0}
      BY AudioDataAssumption
    <2>3. ASSUME NEW k \in Nat, Samples(k)
          PROVE  pcm_offset' \in Nat /\ data_size' \in Nat /\ pc' = "write"
      <3>1. data_size - k \in Int
        BY <2>1
      <3>2. (data_size - k) % SIZE_MAX \in Nat
        BY <2>2, <3>1, Remainders
      <3> QED BY <2>3, <3>2 DEF Samples
    <2>4. ASSUME pcm_offset + 8 < data_size
          PROVE  pcm_offset + ((8 + ChunkSize) % UINT32_MAX) \in Nat
      <3>1. /\ pcm_offset + 5 \in 1..Len(audio_data) /\ pcm_offset + 6 \in 1..Len(audio_data)
            /\ pcm_offset + 7 \in 1..Len(audio_data) /\ pcm_offset + 8 \in 1..Len(audio_data)
        BY <2>1, <2>4
      <3>2. /\ audio_data[pcm_offset + 5] \in Byte /\ audio_data[pcm_offset + 6] \in Byte
            /\ audio_data[pcm_offset + 7] \in Byte /\ audio_data[pcm_offset + 8] \in Byte
        BY <2>1, <3>1
      <3>3. ASSUME NEW a \in Byte, NEW b \in Byte, NEW c \in Byte, NEW d \in Byte
            PROVE  a + 256 * b + 65536 * c + 16777216 * d \in Int
        BY SMT DEF Byte
      <3>4. ChunkSize \in Int
        BY <3>2, <3>3, SMT DEF ChunkSize
      <3>5. 8 + ChunkSize \in Int
        BY <3>4
      <3>6. (8 + ChunkSize) % UINT32_MAX \in Nat
        BY <2>2, <3>5, Remainders
      <3> QED BY <2>1, <3>6
    <2>5. pcm_offset + 8 \in Nat
      BY <2>1
    <2>6. \/ \E k \in Nat : Samples(k)
          \/ pcm_offset' \in Nat /\ data_size' = data_size /\ pc' = pc
      <3>1. CASE pcm_offset + 8 < data_size /\ IsData
        BY <1>3, <2>5, <3>1 DEF Scan
      <3>2. CASE pcm_offset + 8 < data_size /\ ~ IsData
        BY <1>3, <2>4, <3>2 DEF Scan
      <3>3. CASE ~ (pcm_offset + 8 < data_size)
        BY <1>3, <2>1, <3>3 DEF Scan
      <3> QED BY <3>1, <3>2, <3>3
    <2>7. /\ pcm_offset' \in Nat /\ data_size' \in Nat
          /\ pc' = "write" \/ (pc' = pc /\ data_size' = data_size)
      BY <2>1, <2>3, <2>6
    <2>8. UNCHANGED <<sound, text, audio_data, offset, played>>
      BY <1>3 DEF Scan
    <2>9. TypeOK'
      BY <2>1, <2>7, <2>8 DEF TypeInv, TypeOK
    <2> QED BY <1>0, <2>1, <2>7, <2>8, <2>9 DEF TypeInv
  <1>4. CASE Write
    <2>1. /\ UNCHANGED <<sound, text, audio_data, pcm_offset, data_size>>
          /\ pc' \in {"write", "fault"} /\ offset' \in Nat /\ played' \in Seq(Byte)
      <3>1. PICK n \in Nat :
               \/ pc' = "fault" /\ UNCHANGED <<offset, played>>
               \/ /\ pcm_offset + offset + n <= Len(audio_data)
                  /\ played' = played \o SubSeq(audio_data, (pcm_offset + offset) + 1,
                                                (pcm_offset + offset) + n)
                  /\ offset' = offset + n /\ pc' = pc
        BY <1>4, WriteStep
      <3>2. /\ UNCHANGED <<sound, text, audio_data, pcm_offset, data_size>>
            /\ pc = "write" /\ audio_data \in Seq(Byte)
        BY <1>4, WriteStep
      <3>3. pcm_offset + offset \in Nat /\ offset \in Nat /\ played \in Seq(Byte)
        BY DEF TypeInv, TypeOK
      <3>4. CASE pc' = "fault" /\ UNCHANGED <<offset, played>>
        BY <3>2, <3>3, <3>4
      <3>5. CASE /\ pcm_offset + offset + n <= Len(audio_data)
                 /\ played' = played \o SubSeq(audio_data, (pcm_offset + offset) + 1,
                                               (pcm_offset + offset) + n)
                 /\ offset' = offset + n /\ pc' = pc
        <4> DEFINE u == SubSeq(audio_data, (pcm_offset + offset) + 1, (pcm_offset + offset) + n)
        <4>1. u \in Seq(Byte)
          BY <3>2, <3>3, <3>5, PartOf
        <4>2. played' = played \o u
          BY <3>5
        <4> HIDE DEF u
        <4>3. played' \in Seq(Byte)
          BY <3>3, <4>1, <4>2
        <4>4. offset' \in Nat
          BY <3>3, <3>5
        <4> QED BY <3>2, <3>5, <4>3, <4>4
      <3> QED BY <3>1, <3>4, <3>5
    <2>2. TypeOK'
      BY <2>1 DEF TypeInv, TypeOK
    <2> QED BY <1>0, <2>1, <2>2 DEF TypeInv
  <1>5. CASE Finish
    BY <1>0, <1>5 DEF Finish, TypeInv, TypeOK
  <1>6. CASE Fail
    BY <1>0, <1>6 DEF Fail, TypeInv, TypeOK
  <1>7. CASE UNCHANGED vars
    BY <1>0, <1>7 DEF vars, TypeInv, TypeOK
  <1>8. CASE DecodeOverflow
    BY <1>0, <1>8 DEF DecodeOverflow, TypeInv, TypeOK
  <1> QED BY <1>2, <1>3, <1>4, <1>5, <1>6, <1>7, <1>8 DEF Next

\* The positions of the scan stay natural numbers, whatever sizes the chunks
\* of a file claim, and every byte that is read or written is a byte.
THEOREM AudioTypeCorrect == Spec => []TypeOK
  <1>1. TypeInv => TypeOK
    BY DEF TypeInv
  <1> QED BY <1>1, TypeInvInit, TypeInvStep, PTL DEF Spec

------------------------------------------------------------------------------
(* Playing *)

\* The bytes of s from position p on are those to be played.
Located(s, p) ==
    /\ p + Len(After(s)) = Len(Bytes(s))
    /\ \A i \in 1..Len(After(s)) : Bytes(s)[p + i] = After(s)[i]

\* Of a sound that the scan can find its way through: the scan is always at the
\* start of a chunk and never beyond the data chunk; where it ends is where the
\* samples are; and what the device was given is the first part of them.
PlayInv ==
    Scannable =>
        /\ pc # "fault"
        /\ offset = Len(played) /\ offset <= Len(After(sound))
        /\ \A i \in 1..offset : played[i] = After(sound)[i]
        /\ pc = "decode" => offset = 0
        /\ pc = "scan" => /\ sound.wav /\ offset = 0
                          /\ pcm_offset \in {12, Second(sound), Last(sound)}
        /\ pc \in {"write", "done"} => /\ Located(sound, pcm_offset)
                                       /\ data_size = Len(After(sound))
        /\ pc = "done" => offset = data_size

LEMMA AfterType ==
    ASSUME NEW s \in Sounds
    PROVE  After(s) \in Seq(Byte) /\ Len(After(s)) \in Nat
  <1>1. s.pcm \in Seq(Byte) /\ s.tail \in Seq(Byte) /\ LIST \in Seq(Byte)
    BY SoundType, NameType
  <1>2. Padding(s.pcm) \in Seq(Byte) /\ Optional(LIST, s.tail) \in Seq(Byte)
    BY <1>1, PaddingType, ChunkType
  <1>3. After(s) \in Seq(Byte)
    BY <1>1, <1>2 DEF After
  <1> QED BY <1>3

\* The samples come first in what follows the header.
LEMMA AfterStarts ==
    ASSUME NEW s \in Sounds
    PROVE  /\ s.pcm \in Seq(Byte) /\ Len(s.pcm) \in Nat
           /\ Len(s.pcm) <= Len(After(s))
           /\ \A i \in 1..Len(s.pcm) : After(s)[i] = s.pcm[i]
           /\ ~s.wav \/ (Padding(s.pcm) = <<>> /\ s.tail = <<>>) => After(s) = s.pcm
  <1> DEFINE rest == IF s.wav THEN Padding(s.pcm) \o Optional(LIST, s.tail) ELSE <<>>
             pcm == s.pcm
  <1>1. s.pcm \in Seq(Byte) /\ s.tail \in Seq(Byte) /\ LIST \in Seq(Byte)
    BY SoundType, NameType
  <1>2. Padding(s.pcm) \in Seq(Byte) /\ Optional(LIST, s.tail) \in Seq(Byte)
    BY <1>1, PaddingType, ChunkType
  <1>3. pcm \in Seq(Byte) /\ rest \in Seq(Byte) /\ After(s) = pcm \o rest
    BY <1>1, <1>2 DEF After
  <1>4. ~s.wav \/ (Padding(s.pcm) = <<>> /\ s.tail = <<>>) => rest = <<>>
    BY DEF Optional
  <1> HIDE DEF rest
  <1>5. /\ Len(pcm) \in Nat /\ Len(rest) \in Nat /\ Len(pcm \o rest) = Len(pcm) + Len(rest)
        /\ \A i \in 1..Len(pcm) : (pcm \o rest)[i] = pcm[i]
        /\ rest = <<>> => pcm \o rest = pcm
    BY <1>3
  <1> QED BY <1>3, <1>4, <1>5

LEMMA AfterNotEmpty == ASSUME NEW s \in Sounds, s.pcm # <<>> PROVE After(s) # <<>>
  <1>1. Len(s.pcm) > 0
    BY AfterStarts
  <1>2. Len(After(s)) > 0
    BY <1>1, AfterStarts, AfterType
  <1> QED BY <1>2

LEMMA ScannableKept == ASSUME sound' = sound PROVE Scannable' <=> Scannable
  BY DEF Scannable

\* What the scan reads is what Layout speaks of.
LEMMA ScanReads ==
    /\ IsData <=> NameAt(audio_data, pcm_offset) = DATA
    /\ ChunkSize = SizeAt(audio_data, pcm_offset)
  BY SMT DEF IsData, NameAt, ChunkSize, SizeAt, SizeOf

LEMMA PlayInvInit == Init => PlayInv
  <1> SUFFICES ASSUME Init PROVE PlayInv
    OBVIOUS
  <1>1. Len(After(sound)) \in Nat
    BY AfterType DEF Init
  <1> QED BY <1>1 DEF Init, PlayInv

\* A file is scanned from its first chunk; other samples are written as they are.
LEMMA DecodePlays ==
    ASSUME TypeInv, TypeInv', PlayInv, Decode
    PROVE  PlayInv'
  <1> SUFFICES ASSUME Scannable PROVE PlayInv'
    BY ScannableKept DEF Decode, PlayInv
  <1>1. /\ UNCHANGED <<sound, text, offset, played>> /\ pc = "decode"
        /\ data_size' = Len(audio_data')
        /\ IF data_size' > 12 /\ SubSeq(audio_data', 1, 4) = RIFF
           THEN pc' = "scan" /\ pcm_offset' = 12
           ELSE pc' = "write" /\ pcm_offset' = 0
    BY DEF Decode
  <1>2. audio_data' = Bytes(sound) /\ sound \in Sounds
    BY <1>1 DEF TypeInv, TypeOK, AudioInv, RoundTrip
  <1>3. offset = 0 /\ Len(played) = 0 /\ Len(After(sound)) \in Nat
    BY <1>1, <1>2, AfterType DEF PlayInv
  <1>4. CASE sound.wav
    <2>1. SteppedOver(sound.fmt) /\ SteppedOver(sound.info)
      BY <1>4 DEF Scannable
    <2>2. /\ SubSeq(Bytes(sound), 1, 4) = RIFF
          /\ \E rest : Headed(Bytes(sound), 12, FMT, Len(sound.fmt), rest)
      BY <1>2, <1>4, <2>1, Layout, Zenon
    <2>3. Len(Bytes(sound)) > 12
      BY <2>2 DEF Headed
    <2>4. pc' = "scan" /\ pcm_offset' = 12
      BY <1>1, <1>2, <2>2, <2>3
    <2> QED BY <1>1, <1>3, <1>4, <2>4 DEF PlayInv
  <1>5. CASE ~ sound.wav
    <2>1. Bytes(sound) = sound.pcm /\ After(sound) = sound.pcm /\ sound.pcm \in Seq(Byte)
      <3>1. sound.pcm \in Seq(Byte)
        BY <1>2, SoundType
      <3>2. After(sound) = sound.pcm \o <<>>
        BY <1>5 DEF After
      <3> QED BY <1>5, <3>1, <3>2 DEF Bytes
    <2>2. Len(sound.pcm) <= 12 \/ SubSeq(sound.pcm, 1, 4) # RIFF
      BY <1>5 DEF Scannable
    <2>3. pc' = "write" /\ pcm_offset' = 0
      <3>1. Len(sound.pcm) \in Nat
        BY <2>1
      <3> QED BY <1>1, <1>2, <2>1, <2>2, <3>1
    <2>4. Located(sound, 0)
      BY <2>1 DEF Located
    <2>5. data_size' = Len(After(sound))
      BY <1>1, <1>2, <2>1
    <2> QED BY <1>1, <1>3, <2>3, <2>4, <2>5 DEF PlayInv
  <1> QED BY <1>4, <1>5

\* From chunk to chunk until the data chunk.
LEMMA ScanPlays ==
    ASSUME TypeInv, TypeInv', PlayInv, Scan
    PROVE  PlayInv'
  <1> SUFFICES ASSUME Scannable PROVE PlayInv'
    BY ScannableKept DEF Scan, PlayInv
  <1>1. /\ UNCHANGED <<sound, text, audio_data, offset, played>> /\ pc = "scan"
        /\ IF pcm_offset + 8 < data_size
           THEN IF IsData
                THEN Samples(pcm_offset + 8)
                ELSE /\ pcm_offset' = pcm_offset + ((8 + ChunkSize) % UINT32_MAX)
                     /\ UNCHANGED <<data_size, pc>>
           ELSE Samples(pcm_offset)
    BY DEF Scan
  <1>2. /\ audio_data = Bytes(sound) /\ sound \in Sounds /\ data_size = Len(Bytes(sound))
        /\ pcm_offset \in Nat
    BY <1>1 DEF TypeInv, TypeOK, AudioInv, RoundTrip
  <1>3. /\ sound.wav /\ offset = 0 /\ Len(played) = 0
        /\ pcm_offset \in {12, Second(sound), Last(sound)}
    BY <1>1 DEF PlayInv
  <1>4. SteppedOver(sound.fmt) /\ SteppedOver(sound.info) /\ After(sound) # <<>>
    BY <1>2, <1>3, AfterNotEmpty DEF Scannable
  <1> DEFINE file == Bytes(sound)
  <1>5. /\ \E rest : Headed(file, 12, FMT, Len(sound.fmt), rest)
        /\ sound.info # <<>>
             => \E rest : Headed(file, Second(sound), LIST, Len(sound.info), rest)
        /\ Headed(file, Last(sound), DATA, Len(sound.pcm), After(sound))
    BY <1>2, <1>3, <1>4, Layout, Zenon
  <1> HIDE DEF file
  <1>6. /\ Len(sound.fmt) \in Nat /\ Len(sound.info) \in Nat
        /\ After(sound) \in Seq(Byte) /\ Len(After(sound)) \in Nat
        /\ Len(After(sound)) > 0
    <2>1. sound.fmt \in Seq(Byte) /\ sound.info \in Seq(Byte)
      BY <1>2, SoundType
    <2>2. After(sound) \in Seq(Byte)
      BY <1>2, AfterType
    <2> QED BY <1>4, <2>1, <2>2
  <1>7. /\ Last(sound) \in Nat /\ Len(file) = Last(sound) + 8 + Len(After(sound))
        /\ 12 + 8 < Len(file) /\ Second(sound) + 8 < Len(file) /\ Last(sound) + 8 < Len(file)
    <2>1. Last(sound) \in Nat /\ Len(file) = Last(sound) + 8 + Len(After(sound))
      BY <1>5 DEF Headed
    <2>2. 12 <= Second(sound) /\ Second(sound) <= Last(sound) /\ Second(sound) \in Nat
      BY <1>2, Positions
    <2> QED BY <1>6, <2>1, <2>2
  <1>8. pcm_offset + 8 < data_size
    BY <1>2, <1>3, <1>7 DEF file
  \* The step over a chunk that is not the data chunk.
  <1>9. ASSUME NEW p \in Nat, pcm_offset = p, NEW id, id # DATA,
               NEW body, SteppedOver(body), Len(body) \in Nat,
               \E rest : Headed(file, p, id, Len(body), rest)
        PROVE  pcm_offset' = p + 8 + Len(body) /\ data_size' = data_size /\ pc' = pc
    <2>1. NameAt(file, p) = id /\ SizeAt(file, p) = Len(body)
      BY <1>9 DEF Headed, SteppedOver
    <2>2. ~ IsData /\ ChunkSize = Len(body)
      <3>1. file = audio_data
        BY <1>2 DEF file
      <3> QED BY <1>9, <2>1, <3>1, ScanReads, Zenon
    <2>3. /\ pcm_offset' = pcm_offset + ((8 + ChunkSize) % UINT32_MAX)
          /\ data_size' = data_size /\ pc' = pc
      BY <1>1, <1>8, <2>2
    <2>4. (8 + Len(body)) % UINT32_MAX = 8 + Len(body)
      <3>1. /\ UINT32_MAX \in Nat \ {0} /\ 8 + Len(body) \in Int
            /\ 0 <= 8 + Len(body) /\ 8 + Len(body) < UINT32_MAX
        BY <1>9, AudioDataAssumption DEF SteppedOver
      <3> QED BY <3>1, Remainders
    <2>5. pcm_offset' = p + (8 + Len(body))
      BY <1>9, <2>2, <2>3, <2>4
    <2> QED BY <1>9, <2>3, <2>5
  <1>10. CASE pcm_offset = 12
    <2>1. FMT # DATA
      BY NameType
    <2>2. /\ pcm_offset' = 12 + 8 + Len(sound.fmt) /\ data_size' = data_size
          /\ pc' = pc
      BY <1>4, <1>5, <1>6, <1>9, <1>10, <2>1
    <2>3. pcm_offset' = Second(sound)
      BY <1>6, <2>2 DEF Second
    <2> QED BY <1>1, <1>3, <1>6, <2>2, <2>3 DEF PlayInv
  <1>11. CASE pcm_offset = Second(sound) /\ sound.info # <<>>
    <2>1. LIST # DATA /\ Second(sound) \in Nat
      BY <1>2, <1>11, NameType
    <2>2. /\ pcm_offset' = Second(sound) + 8 + Len(sound.info) /\ data_size' = data_size
          /\ pc' = pc
      BY <1>4, <1>5, <1>6, <1>9, <1>11, <2>1
    <2>3. pcm_offset' = Last(sound)
      BY <1>6, <1>11, <2>1, <2>2 DEF Last
    <2> QED BY <1>1, <1>3, <1>6, <2>2, <2>3 DEF PlayInv
  <1>12. CASE pcm_offset = Last(sound)
    <2>1. NameAt(file, Last(sound)) = DATA
      BY <1>5 DEF Headed
    <2>2. IsData
      <3>1. file = audio_data
        BY <1>2 DEF file
      <3> QED BY <1>12, <2>1, <3>1, ScanReads
    <2>3. Samples(Last(sound) + 8)
      BY <1>1, <1>8, <1>12, <2>2
    <2>4. data_size - (Last(sound) + 8) = Len(After(sound))
      BY <1>2, <1>6, <1>7 DEF file
    <2>5. Len(After(sound)) % SIZE_MAX = Len(After(sound))
      <3>1. Len(file) < SIZE_MAX /\ SIZE_MAX \in Nat \ {0}
        BY <1>2, SizeAssumption, AudioDataAssumption DEF file
      <3>2. Len(After(sound)) < SIZE_MAX /\ Len(After(sound)) \in Int
            /\ 0 <= Len(After(sound))
        BY <1>6, <1>7, <3>1
      <3> QED BY <3>1, <3>2, Remainders
    <2>6. pcm_offset' = Last(sound) + 8 /\ data_size' = Len(After(sound)) /\ pc' = "write"
      BY <2>3, <2>4, <2>5 DEF Samples
    <2>7. Located(sound, Last(sound) + 8)
      BY <1>5, <1>7 DEF Located, Headed, file
    <2> QED BY <1>1, <1>3, <1>6, <2>6, <2>7 DEF PlayInv
  <1>13. Second(sound) = Last(sound) \/ sound.info # <<>>
    <2>1. Second(sound) \in Nat
      BY <1>6 DEF Second
    <2> QED BY <2>1 DEF Last
  <1> QED BY <1>3, <1>10, <1>11, <1>12, <1>13

\* The next buffer continues where the last one ended.
LEMMA WritePlays ==
    ASSUME TypeInv, TypeInv', PlayInv, Write
    PROVE  PlayInv'
  <1>1. /\ UNCHANGED <<sound, text, audio_data, pcm_offset, data_size>>
        /\ pc = "write" /\ audio_data \in Seq(Byte)
    BY WriteStep
  <1> SUFFICES ASSUME Scannable PROVE PlayInv'
    BY <1>1, ScannableKept DEF PlayInv
  <1>2. PICK n \in Nat :
           /\ n > 0 /\ offset + n <= data_size
           /\ \/ /\ pc' = "fault" /\ UNCHANGED <<offset, played>>
                 /\ pcm_offset + offset + n > Len(audio_data)
              \/ /\ pcm_offset + offset + n <= Len(audio_data)
                 /\ played' = played \o SubSeq(audio_data, (pcm_offset + offset) + 1,
                                               (pcm_offset + offset) + n)
                 /\ offset' = offset + n /\ pc' = pc
    BY WriteStep
  <1> DEFINE file == Bytes(sound)
             after == After(sound)
  <1>3. audio_data = file
    BY <1>1 DEF TypeInv, AudioInv, RoundTrip
  <1>4. /\ pcm_offset \in Nat /\ offset \in Nat /\ data_size \in Nat
        /\ played \in Seq(Byte) /\ sound \in Sounds
    BY DEF TypeInv, TypeOK
  <1>5. /\ data_size = Len(after) /\ pcm_offset + Len(after) = Len(file)
        /\ \A i \in 1..Len(after) : file[pcm_offset + i] = after[i]
        /\ offset = Len(played) /\ \A i \in 1..offset : played[i] = after[i]
    BY <1>1 DEF PlayInv, Located
  <1>6. Located(sound, pcm_offset)
    BY <1>1 DEF PlayInv
  <1> HIDE DEF file, after
  <1> DEFINE k == pcm_offset + offset
  <1>7. k \in Nat /\ k + n <= Len(audio_data)
    BY <1>2, <1>3, <1>4, <1>5
  <1>8. /\ played' = played \o SubSeq(audio_data, k + 1, k + n)
        /\ offset' = offset + n /\ pc' = pc
    <2>1. ~ (pcm_offset + offset + n > Len(audio_data))
      <3>1. Len(audio_data) \in Nat
        BY <1>1
      <3> QED BY <1>4, <1>7, <3>1
    <2> QED BY <1>2, <2>1
  <1> DEFINE u == SubSeq(audio_data, k + 1, k + n)
  <1>9. /\ u \in Seq(Byte) /\ Len(u) = n
        /\ \A i \in 1..n : u[i] = audio_data[k + i]
    BY <1>1, <1>7, PartOf
  <1> HIDE DEF u
  <1>10. played' = played \o u
    BY <1>8 DEF u
  <1>11. /\ Len(played \o u) = Len(played) + Len(u)
         /\ \A i \in 1..Len(played) : (played \o u)[i] = played[i]
         /\ \A i \in 1..Len(u) : (played \o u)[Len(played) + i] = u[i]
    BY <1>4, <1>9, Behind
  <1>12. offset' = Len(played') /\ offset' <= Len(after)
    BY <1>2, <1>5, <1>8, <1>9, <1>10, <1>11
  <1>13. ASSUME NEW i \in 1..(offset + n) PROVE played'[i] = after[i]
    <2>1. CASE i \in 1..offset
      <3>1. (played \o u)[i] = played[i] /\ played[i] = after[i]
        BY <1>5, <1>11, <2>1
      <3> QED BY <1>10, <3>1
    <2>2. CASE ~ (i \in 1..offset)
      <3> DEFINE j == i - offset
      <3>1. j \in 1..n /\ i = offset + j
        BY <1>4, <2>2
      <3> HIDE DEF j
      <3>2. (played \o u)[offset + j] = u[j] /\ u[j] = audio_data[k + j]
        BY <1>5, <1>9, <1>11, <3>1
      <3>3. k + j = pcm_offset + (offset + j) /\ offset + j \in 1..Len(after)
        BY <1>2, <1>4, <1>5, <3>1
      <3>4. file[pcm_offset + (offset + j)] = after[offset + j]
        BY <1>5, <3>3
      <3>5. u[j] = after[i]
        BY <1>3, <3>1, <3>2, <3>3, <3>4
      <3>6. played'[i] = u[j]
        BY <1>10, <3>1, <3>2
      <3> QED BY <3>5, <3>6
    <2> QED BY <2>1, <2>2
  <1>14. \A i \in 1..offset' : played'[i] = after[i]
    BY <1>8, <1>13
  <1> QED BY <1>1, <1>5, <1>6, <1>8, <1>12, <1>14 DEF PlayInv, after

LEMMA PlayInvStep == TypeInv /\ TypeInv' /\ PlayInv /\ [Next]_vars => PlayInv'
  <1> SUFFICES ASSUME TypeInv, TypeInv', PlayInv, [Next]_vars PROVE PlayInv'
    OBVIOUS
  <1>1. CASE Decode
    BY <1>1, DecodePlays
  <1>2. CASE Scan
    BY <1>2, ScanPlays
  <1>3. CASE Write
    BY <1>3, WritePlays
  <1>4. CASE Finish
    <2>1. /\ UNCHANGED <<sound, text, audio_data, pcm_offset, data_size, offset, played>>
          /\ pc = "write" /\ pc' = "done" /\ offset >= data_size
      BY <1>4 DEF Finish
    <2>2. offset \in Nat /\ data_size \in Nat
      BY DEF TypeInv, TypeOK
    <2> QED BY <2>1, <2>2, ScannableKept DEF PlayInv
  <1>5. CASE Fail
    <2>1. /\ UNCHANGED <<sound, text, audio_data, pcm_offset, data_size, offset, played>>
          /\ pc' = "failed"
      BY <1>5 DEF Fail
    <2> QED BY <2>1, ScannableKept DEF PlayInv
  <1>6. CASE UNCHANGED vars
    BY <1>6, ScannableKept DEF vars, PlayInv
  <1>7. CASE DecodeOverflow
    <2>1. /\ UNCHANGED <<sound, text, audio_data, pcm_offset, data_size, offset, played>>
          /\ pc' \in {"failed", "overflow"}
      BY <1>7 DEF DecodeOverflow
    <2> QED BY <2>1, ScannableKept DEF PlayInv
  <1> QED BY <1>1, <1>2, <1>3, <1>4, <1>5, <1>6, <1>7 DEF Next

LEMMA PlayInvPlays == TypeInv /\ PlayInv => PlaysFromFirstSample
  <1> SUFFICES ASSUME TypeInv, PlayInv, Scannable
               PROVE  /\ pc # "fault"
                      /\ \A i \in DOMAIN played \cap DOMAIN sound.pcm :
                             played[i] = sound.pcm[i]
                      /\ pc = "done" => /\ Len(played) >= Len(sound.pcm)
                                        /\ SamplesLast => Len(played) = Len(sound.pcm)
    BY DEF PlaysFromFirstSample
  <1> DEFINE after == After(sound)
             pcm == sound.pcm
  <1>1. sound \in Sounds /\ played \in Seq(Byte) /\ Len(played) \in Nat
    BY DEF TypeInv, TypeOK
  <1>2. /\ pcm \in Seq(Byte) /\ Len(pcm) \in Nat /\ Len(after) \in Nat
        /\ Len(pcm) <= Len(after)
        /\ \A i \in 1..Len(pcm) : after[i] = pcm[i]
        /\ SamplesLast => after = pcm
    BY <1>1, AfterType, AfterStarts DEF SamplesLast
  <1>3. /\ pc # "fault" /\ Len(played) <= Len(after)
        /\ \A i \in 1..Len(played) : played[i] = after[i]
        /\ pc = "done" => Len(played) = Len(after)
    BY DEF PlayInv
  <1> HIDE DEF after, pcm
  <1>4. DOMAIN played = 1..Len(played) /\ DOMAIN pcm = 1..Len(pcm)
    BY <1>1, <1>2
  <1>5. \A i \in DOMAIN played \cap DOMAIN pcm : played[i] = pcm[i]
    BY <1>2, <1>3, <1>4
  <1>6. pc = "done" => /\ Len(played) >= Len(pcm)
                       /\ SamplesLast => Len(played) = Len(pcm)
    BY <1>1, <1>2, <1>3
  <1> QED BY <1>3, <1>5, <1>6 DEF pcm

\* play_audio_from_base64 plays the samples of a sound from the first to the
\* last, in order, with none left out, written twice or read from outside of the
\* file, however long its chunks are and however the buffers cut them, as long
\* as the scan can step over the chunks in front of the samples; and nothing
\* more when the file ends with them.
THEOREM PlayedFromFirstSample == Spec => []PlaysFromFirstSample
  <1>1. Init => TypeInv /\ PlayInv
    BY TypeInvInit, PlayInvInit
  <1>2. TypeInv /\ PlayInv /\ [Next]_vars => (TypeInv /\ PlayInv)'
    BY TypeInvStep, PlayInvStep
  <1> QED BY <1>1, <1>2, PlayInvPlays, PTL DEF Spec
==============================================================================
