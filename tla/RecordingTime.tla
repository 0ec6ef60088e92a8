-------------------------------- MODULE RecordingTime --------------------------------
(***************************************************************************)
(* set_times of mixer.cpp: the timecode of a mixed frame, and where the     *)
(* packs with times are written in the frame. A sequence of the frame is    *)
(* known by the writes made to it, in order; a write is a record of its     *)
(* block, its offset in the block and what it writes.                       *)
(***************************************************************************)
EXTENDS Integers, Sequences, DifAudio

DIF_PACK_SIZE == 5

\* The number of the frame that the timecode counts.
nominal_frame_num(system, serial_num) ==
  IF system = dv_system_625_50 THEN serial_num
  ELSE serial_num + (2 * serial_num) \div (60 * 30 - 2)
         - (2 * (serial_num + 2)) \div (10 * 60 * 30 - 18)

nominal_frame_rate(system) == IF system = dv_system_625_50 THEN 25 ELSE 30

bcd(v) == (v \div 10) * 16 + (v % 10)

timecode(system, serial_num) ==
  LET frame_num  == nominal_frame_num(system, serial_num)
      frame_rate == nominal_frame_rate(system)
  IN  [frame  |-> bcd(frame_num % frame_rate),
       second |-> bcd((frame_num \div frame_rate) % 60),
       minute |-> bcd((frame_num \div (60 * frame_rate)) % 60),
       hour   |-> bcd((frame_num \div (60 * 60 * frame_rate)) % 24)]

Write(block, offset, pack) == [block |-> block, offset |-> offset, pack |-> pack]

\* The k-th write goes to a block, and there to a section of 24 (of 45) bytes.
SubcodeWrites(seq_num) ==
  IF seq_num < 6 THEN <<>>
  ELSE [k \in 1..18 |->
          Write(1 + (k - 1) \div 6, (((k - 1) \div 3) % 2) * 24 + ((k - 1) % 3) * 8 + 6,
                <<"timecode", "video date", "video time">>[((k - 1) % 3) + 1])]

VauxWrites ==
  [k \in 1..12 |->
     Write(3 + (k - 1) \div 4, (((k - 1) \div 2) % 2) * 45 + ((k - 1) % 2) * 5 + 13,
           <<"video date", "video time">>[((k - 1) % 2) + 1])]

AauxWrites(seq_num) ==
  << Write(IF seq_num % 2 = 1 THEN 38 ELSE 86, 3, "audio date"),
     Write(IF seq_num % 2 = 1 THEN 54 ELSE 102, 3, "audio time") >>

\* Slip: the subcode is written last.
set_times_subcode_last(seq_num) == VauxWrites \o AauxWrites(seq_num) \o SubcodeWrites(seq_num)

set_times(seq_num) == SubcodeWrites(seq_num) \o VauxWrites \o AauxWrites(seq_num)

\* The VSC pack, which has the aspect, and the AS pack of a sequence.
vsc_pack(seq_num) == IF seq_num % 2 = 1 THEN Write(3, 8, "VSC") ELSE Write(5, 53, "VSC")
as_pack(seq_num)  ==
  LET block_n == CHOOSE b \in 0..8 : aaux_pack(seq_num, b) = "as"
  IN  Write(6 + 16 * block_n, 3, "AS")
--------------------------------------------------------------------------------
Overlap(w1, w2) == /\ w1.block = w2.block
                   /\ w1.offset < w2.offset + DIF_PACK_SIZE
                   /\ w2.offset < w1.offset + DIF_PACK_SIZE

\* What the writes leave of the i-th of them is whole.
Whole(writes, i) == \A j \in i + 1..Len(writes) : ~Overlap(writes[i], writes[j])

Untouched(pack, writes) == \A i \in DOMAIN writes : ~Overlap(pack, writes[i])
=================================================================================
