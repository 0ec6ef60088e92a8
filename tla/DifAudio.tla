---------------------------------- MODULE DifAudio ----------------------------------
(***************************************************************************)
(* The audio of a DIF frame (dif.c, dif_audio.c): where each sample is kept *)
(* in the frame, how 16-bit samples become 12-bit codes, and how many       *)
(* samples a frame has.                                                     *)
(*                                                                          *)
(* The audio part of a frame is a record: pack says which AAUX pack each    *)
(* audio block has, count_code, quant and rate_code are the fields of the   *)
(* AS pack, and data holds the samples (or pairs of codes) of each block.   *)
(* A block is <<seq, block_n>>.                                             *)
(***************************************************************************)
EXTENDS Integers, Sequences

PCM_CHANNELS == 2

dv_audio_shuffle_625_50 ==
  << << 0,  36,  72,  26,  62,  98,  16,  52,  88>>, << 6,  42,  78,  32,  68, 104,  22,  58,  94>>,
     <<12,  48,  84,   2,  38,  74,  28,  64, 100>>, <<18,  54,  90,   8,  44,  80,  34,  70, 106>>,
     <<24,  60,  96,  14,  50,  86,   4,  40,  76>>, <<30,  66, 102,  20,  56,  92,  10,  46,  82>>,
     << 1,  37,  73,  27,  63,  99,  17,  53,  89>>, << 7,  43,  79,  33,  69, 105,  23,  59,  95>>,
     <<13,  49,  85,   3,  39,  75,  29,  65, 101>>, <<19,  55,  91,   9,  45,  81,  35,  71, 107>>,
     <<25,  61,  97,  15,  51,  87,   5,  41,  77>>, <<31,  67, 103,  21,  57,  93,  11,  47,  83>> >>

dv_audio_shuffle_525_60 ==
  << << 0, 30, 60, 20, 50, 80, 10, 40, 70>>, << 6, 36, 66, 26, 56, 86, 16, 46, 76>>,
     <<12, 42, 72,  2, 32, 62, 22, 52, 82>>, <<18, 48, 78,  8, 38, 68, 28, 58, 88>>,
     <<24, 54, 84, 14, 44, 74,  4, 34, 64>>, << 1, 31, 61, 21, 51, 81, 11, 41, 71>>,
     << 7, 37, 67, 27, 57, 87, 17, 47, 77>>, <<13, 43, 73,  3, 33, 63, 23, 53, 83>>,
     <<19, 49, 79,  9, 39, 69, 29, 59, 89>>, <<25, 55, 85, 15, 45, 75,  5, 35, 65>> >>

\* The numbers of samples of a frame at 48 kHz and at 32 kHz: the least and the greatest,
\* and the cycle in which they keep step with the video.
dv_system_625_50 ==
  [frame_rate_numer |-> 25, frame_rate_denom |-> 1, seq_count |-> 12,
   audio_shuffle |-> dv_audio_shuffle_625_50,
   at48k |-> [min |-> 1896, max |-> 1944, std_cycle |-> <<1920>>],
   at32k |-> [min |-> 1264, max |-> 1296, std_cycle |-> <<1280>>]]

dv_system_525_60 ==
  [frame_rate_numer |-> 30000, frame_rate_denom |-> 1001, seq_count |-> 10,
   audio_shuffle |-> dv_audio_shuffle_525_60,
   at48k |-> [min |-> 1580, max |-> 1620, std_cycle |-> <<1600, 1602, 1602, 1602, 1602>>],
   at32k |-> [min |-> 1053, max |-> 1080,
              std_cycle |-> <<1068, 1067, 1068, 1068, 1068, 1067, 1068, 1068, 1068, 1067,
                              1068, 1068, 1068, 1067, 1068>>]]

System     == {dv_system_625_50, dv_system_525_60}
SampleRate == {48000, 32000}

audio_frame_counts(system, rate) == IF rate = 48000 THEN system.at48k ELSE system.at32k

\* The place of a sample among the interleaved samples of the frame, by the block
\* that holds it and its number i in the block.
position(system, seq, block_n, i) ==
  system.audio_shuffle[seq + 1][block_n + 1] + i * system.seq_count * 9
--------------------------------------------------------------------------------
\* 12-bit companding.

\* (sample is not negative here)
get_12bit_scale(sample) ==
  LET four == IF (sample \div 4096) % 8 # 0 THEN 4 ELSE 0
      s1   == sample \div 2^four
      two  == IF (s1 \div 1024) % 4 # 0 THEN 2 ELSE 0
      s2   == s1 \div 2^two
  IN  four + two + ((s2 \div 512) % 2)

\* Slip: for the negative half, the companding is that of the positive half.
decode_12bit_mirrored(code) ==
  IF code < 512 THEN code
  ELSE IF code < 2048 THEN ((code % 256) + 256) * 2^(code \div 256 - 1)
  ELSE IF code = 2048 THEN 0
  ELSE IF code < 3584 THEN ((code % 256) - 256) * 2^(14 - code \div 256)
  ELSE code - 4096

decode_12bit(code) ==
  IF code < 512 THEN code
  ELSE IF code < 2048 THEN ((code % 256) + 256) * 2^(code \div 256 - 1)
  ELSE IF code = 2048 THEN 0
  ELSE IF code < 3584 THEN ((code % 256) - 512) * 2^(14 - code \div 256)
  ELSE code - 4096

encode_12bit(sample) ==
  IF sample \in -512..512 THEN sample % 4096
  ELSE IF sample > 0
  THEN LET scale == get_12bit_scale(sample)
       IN  (scale + 1) * 256 + ((sample \div 2^scale) % 256)
  ELSE LET scale == get_12bit_scale(-sample - 1)
       IN  (14 - scale) * 256 + (((sample - 1) \div 2^scale + 1) % 256)
--------------------------------------------------------------------------------
\* Setting and getting the audio of a frame.

Blocks(system) == (0..system.seq_count - 1) \X (0..8)

\* The pack of each audio block: one AS and one ASC pack in each sequence.
aaux_pack(seq, block_n) ==
  IF block_n = (IF seq % 2 = 1 THEN 0 ELSE 3) THEN "as"
  ELSE IF block_n = (IF seq % 2 = 1 THEN 1 ELSE 4) THEN "asc"
  ELSE "blank"

\* samples is a function from 0..2*frame_count-1, or <<>> for silence. The rate code is
\* the number of the enumeration constant.
dv_buffer_set_audio(system, rate, frame_count, samples) ==
  LET use_12bit     == rate = 32000
      half          == system.seq_count \div 2
      at(pos)       == IF pos < frame_count * PCM_CHANNELS THEN samples[pos] ELSE 0
      code(s, b, i) == encode_12bit(at(position(system, s, b, i)))
      block(s, b)   ==
        IF samples = <<>> \/ (use_12bit /\ s >= half) THEN <<>>
        ELSE IF use_12bit THEN [i \in 0..23 |-> <<code(s, b, i), code(s + half, b, i)>>]
        ELSE [i \in 0..35 |-> at(position(system, s, b, i))]
  IN  [pack       |-> [b \in Blocks(system) |-> aaux_pack(b[1], b[2])],
       count_code |-> frame_count - audio_frame_counts(system, rate).min,
       quant      |-> IF use_12bit THEN 1 ELSE 0,
       rate_code  |-> IF rate = 48000 THEN 0 ELSE 1,
       data       |-> [b \in Blocks(system) |-> block(b[1], b[2])]]

dv_buffer_get_sample_rate(audio) ==
  CASE audio.pack[<<0, 3>>] = "as" /\ audio.rate_code = 0 -> 48000
    [] audio.pack[<<0, 3>>] = "as" /\ audio.rate_code = 2 -> 32000
    [] OTHER -> -2

\* The samples as pairs of a position and a value, and none when the frame's audio is of
\* a kind that cannot be read. Blocks that are silent (<<>>) give zeros.
dv_buffer_get_audio(system, audio) ==
  LET rate         == dv_buffer_get_sample_rate(audio)
      sample_count == PCM_CHANNELS * (audio_frame_counts(system, rate).min + (audio.count_code % 64))
      half         == system.seq_count \div 2
      datum(b, i)  == IF audio.data[b] = <<>> THEN <<0, 0>> ELSE audio.data[b][i]
      linear(b, i) == IF audio.data[b] = <<>> \/ audio.data[b][i] = -32768 THEN 0
                      ELSE audio.data[b][i]
      got          ==
        IF audio.quant = 1
        THEN {<<position(system, b[1] + h * half, b[2], i), decode_12bit(datum(b, i)[h + 1])>> :
                b \in {x \in Blocks(system) : x[1] < half}, i \in 0..23, h \in 0..1}
        ELSE {<<position(system, b[1], b[2], i), linear(b, i)>> :
                b \in Blocks(system), i \in 0..35}
  IN  IF rate < 0 \/ audio.quant > 1 THEN {}
      ELSE {pair \in got : pair[1] < sample_count}

\* The number of samples of a frame without sound follows the cycle.
silence_count(system, rate, serial_num) ==
  LET cycle == audio_frame_counts(system, rate).std_cycle
  IN  cycle[(serial_num % Len(cycle)) + 1]

dv_buffer_silence_audio(system, rate, serial_num) ==
  dv_buffer_set_audio(system, rate, silence_count(system, rate, serial_num), <<>>)

\* Every audio block of the source with its pack.
dv_buffer_dub_audio(system, dest, source) ==
  [dest EXCEPT !.pack = [b \in Blocks(system) |-> source.pack[b]],
               !.count_code = source.count_code, !.quant = source.quant,
               !.rate_code = source.rate_code,
               !.data = [b \in Blocks(system) |-> source.data[b]]]
=================================================================================
