----------------------------- MODULE AlsaSource ------------------------------
(* dvsource-alsa.c: sound from a capture device, put into dummy frames at the
   pace of the frames' sample counts and held back by a delay.              *)
EXTENDS Naturals, Sequences

CONSTANTS
  std_cycle,         \* sample counts of successive frames
  hw_frame_count,    \* samples the device is asked for at a time
  delay_size,        \* samples held back
  MinBuffer          \* room for the samples of one frame

ASSUME AlsaAssumption ==
  /\ std_cycle \in Seq(1..MinBuffer) /\ std_cycle # <<>>
  /\ hw_frame_count \in Nat \ {0}
  /\ delay_size \in Nat /\ MinBuffer \in Nat

VARIABLES
  avail_count,       \* samples in the buffer
  serial_num         \* of the frame being filled, within the cycle

vars == <<avail_count, serial_num>>

\* Slip: there is no room to read beyond what is wanted.
buffer_size_exact == IF delay_size >= MinBuffer THEN delay_size ELSE MinBuffer

buffer_size == (IF delay_size >= MinBuffer THEN delay_size ELSE MinBuffer)
               + (hw_frame_count - 1)

frame_count == std_cycle[serial_num + 1]

Wanting == avail_count < delay_size \/ avail_count < frame_count

Init == avail_count = 0 /\ serial_num = 0

(* snd_pcm_readi may return less than was asked for; after an overrun (EPIPE)
   the device is prepared again and nothing was read.                       *)
Read ==
  /\ Wanting
  /\ \E rc \in 1..hw_frame_count : avail_count' = avail_count + rc
  /\ UNCHANGED serial_num

(* dv_buffer_set_audio, write, memmove.                                     *)
Send ==
  /\ ~Wanting
  /\ avail_count' = avail_count - frame_count
  /\ serial_num' = (serial_num + 1) % Len(std_cycle)

Next == Read \/ Send

Spec == Init /\ [][Next]_vars

----------------------------------------------------------------------------
\* Slip: the audio blocks are counted among the video blocks.
dummy_block_uncounted(seq_num, block_num) ==
  LET id(first_byte, number) == <<first_byte, seq_num * 16 + 7, number>>
  IN  CASE block_num = 0 -> id(31, 0)
        [] block_num \in 1..2 -> id(63, block_num - 1)
        [] block_num \in 3..5 -> id(86, block_num - 3)
        [] block_num > 5 /\ block_num % 16 = 6 -> id(118, block_num \div 16)
        [] OTHER -> id(150, block_num - 7)

(* dv_buffer_fill_dummy: the ID of a block of the dummy frame - its section,
   its sequence and its number within the section.                          *)
dummy_block(seq_num, block_num) ==
  LET id(first_byte, number) == <<first_byte, seq_num * 16 + 7, number>>
      video == block_num - 7
  IN  CASE block_num = 0 -> id(31, 0)
        [] block_num \in 1..2 -> id(63, block_num - 1)
        [] block_num \in 3..5 -> id(86, block_num - 3)
        [] block_num > 5 /\ block_num % 16 = 6 -> id(118, block_num \div 16)
        [] OTHER -> id(150, video - (video \div 16))

----------------------------------------------------------------------------
TypeOK == avail_count \in 0..buffer_size /\ serial_num \in 0..(Len(std_cycle) - 1)

(* Whatever the device returns, and for every delay, the buffer has room for
   the whole of the next read.                                              *)
ReadsFit == Wanting => avail_count + hw_frame_count <= buffer_size
=============================================================================
