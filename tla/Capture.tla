------------------------------- MODULE Capture -------------------------------
(* dvsource-firewire.cpp and DVVideoStreamFramer.cpp: from a camera's packets
   to frames.  The source fills the buffer it is given with whole packets and
   keeps what does not fit; the framer joins such chunks into frames and moves
   a chunk to its place when packets were lost before it.

   A DIF block is its place in the frame.  The camera sends the blocks in
   order, Packet at a time, and some packets are lost.                        *)
EXTENDS Naturals, Sequences, FiniteSets

CONSTANTS
  Packet,         \* CIF_PACKET_SIZE, in blocks
  Sequence,       \* DV_NUM_BLOCKS_PER_SEQUENCE
  Header,         \* blocks that getProfile must see to know a sequence
  FrameBlocks,    \* dvFrameSize of the camera's profile
  Smallest,       \* DV_SMALLEST_POSSIBLE_FRAME_SIZE
  MaxFrame,       \* DIF_MAX_FRAME_SIZE: room of the reader, and for overspill_
  MaxPackets,     \* packets one raw1394_loop_iterate handles
  NoData, Garbage \* filler, and what the saved blocks hold beyond what was read

VARIABLES
  camera,         \* the next block the camera sends
  overspill_, handle_open,
  fOurProfile,    \* whether it is known
  fInitialBlocksPresent, fSavedInitialBlocks,
  buffer,         \* what lies before fTo: the frame so far
  reading,        \* who waits for data: "profile", "frame" or nobody
  delivered,      \* the last frame
  sound           \* whether every chunk of buffer, of delivered, came in one
                  \* piece, with the profile known, and ended in its frame

source_vars == <<camera, overspill_, handle_open>>
saved_vars == <<fInitialBlocksPresent, fSavedInitialBlocks>>
frame_vars == <<fOurProfile, buffer, delivered, sound>>
vars == <<source_vars, saved_vars, frame_vars, reading>>

DV_SAVED_INITIAL_BLOCKS_SIZE == Sequence + Header - 1

Init ==
  /\ camera \in {b \in 0..(FrameBlocks - 1) : b % Packet = 0}
  /\ overspill_ = <<>> /\ handle_open = FALSE
  /\ fOurProfile = FALSE
  /\ fInitialBlocksPresent = FALSE /\ fSavedInitialBlocks = <<>>
  /\ buffer = <<>> /\ reading = "profile"
  /\ delivered = <<>> /\ sound = [now |-> TRUE, then |-> FALSE]

----------------------------------------------------------------------------
(* The firewire source.                                                     *)
totFrameSize == IF fOurProfile THEN FrameBlocks ELSE Smallest
Least(a, b) == IF a < b THEN a ELSE b

(* How much the framer asks for.                                            *)
fMaxSize ==
  IF reading = "profile" THEN DV_SAVED_INITIAL_BLOCKS_SIZE
  ELSE Least(totFrameSize, MaxFrame) - Len(buffer)

(* The blocks of n packets; lost are those that another was lost before.  The
   i-th comes after ahead(lost, i) - 1 others, lost or not.                   *)
ahead(lost, i) == i + Cardinality(lost \intersect (1..i))
packets(n, lost) ==
  [k \in 1..(n * Packet) |->
     (camera + Packet * (ahead(lost, ((k - 1) \div Packet) + 1) - 1) + ((k - 1) % Packet))
       % FrameBlocks]

(* receive, for the packets of one raw1394_loop_iterate.                    *)
Room(max) == max - (max % Packet)
received(blocks) == SubSeq(blocks, 1, Least(Len(blocks), Room(fMaxSize)))
rest(blocks) == SubSeq(blocks, Len(received(blocks)) + 1, Len(blocks))
spilled(blocks) == SubSeq(rest(blocks), 1, Least(Len(rest(blocks)), Room(MaxFrame)))

InOnePiece(blocks) ==
  \A i \in DOMAIN blocks : blocks[i] = (blocks[1] + i - 1) % FrameBlocks

----------------------------------------------------------------------------
(* The framer.  position is where a chunk belongs, by its first block or, as
   long as the profile is not known, from the start.                        *)
HeaderIn(chunk) ==
  \E i \in 1..Sequence : chunk[i] % Sequence = 0

Long(chunk) == Len(chunk) >= DV_SAVED_INITIAL_BLOCKS_SIZE

position(chunk) ==
  IF ~fOurProfile /\ Long(chunk)
  THEN IF HeaderIn(chunk) THEN 0 ELSE Len(buffer)
  ELSE IF chunk = <<>> THEN Len(buffer) ELSE chunk[1]

(* The place of a block in its frame, from the three bytes of its ID (150 for
   an ID that no block has).                                                *)
block_place(id) ==
  LET seqNum == id[2] \div 16
      n == id[3]
      blockNum == CASE id[1] \div 32 = 0 /\ n = 0   -> 0
                    [] id[1] \div 32 = 1 /\ n < 2   -> 1 + n
                    [] id[1] \div 32 = 2 /\ n < 3   -> 3 + n
                    [] id[1] \div 32 = 3 /\ n < 9   -> 6 + n * 16
                    [] id[1] \div 32 = 4 /\ n < 135 -> 7 + n + (n \div 15)
                    [] OTHER -> 150
  IN  seqNum * 150 + blockNum

\* Slip: what the new frame lacks is taken to follow the old one.
RealignedBehind(pos) == buffer \o [i \in 1..(pos - Len(buffer)) |-> NoData]

(* Realigning leaves the frame so far, or starts afresh when the chunk is of
   the next frame, and fills the gap.                                       *)
Realigned(pos) ==
  LET kept == IF pos < Len(buffer) THEN <<>> ELSE buffer
  IN  kept \o [i \in 1..(pos - Len(kept)) |-> NoData]

afterGettingFrame(chunk, truncated) ==
  LET pos == position(chunk)
      known == fOurProfile \/ (Long(chunk) /\ HeaderIn(chunk))
      total == IF known THEN FrameBlocks ELSE Smallest
      fits == pos + Len(chunk) <= total
      moved == pos # Len(buffer) /\ fits
      joined == (IF moved THEN Realigned(pos) ELSE buffer) \o chunk
      more == Len(joined) < total /\ Len(joined) < MaxFrame /\ ~truncated
      good == /\ (sound.now \/ (moved /\ pos < Len(buffer)))
              /\ fOurProfile /\ InOnePiece(chunk) /\ fits
  IN  /\ fOurProfile' = known
      /\ IF more
         THEN /\ buffer' = joined
              /\ sound' = [sound EXCEPT !.now = good]
              /\ UNCHANGED <<delivered, reading>>
         ELSE /\ buffer' = <<>>
              /\ delivered' = joined
              /\ sound' = [now |-> TRUE, then |-> good]
              /\ reading' = "nobody"
      /\ UNCHANGED saved_vars

(* The data getProfile asked for.  The amount is not kept.                  *)
afterGettingProfile(chunk) ==
  /\ fSavedInitialBlocks' =
       chunk \o [i \in 1..(DV_SAVED_INITIAL_BLOCKS_SIZE - Len(chunk)) |-> Garbage]
  /\ fOurProfile' = (Long(chunk) /\ HeaderIn(chunk))
  /\ fInitialBlocksPresent' = TRUE
  /\ reading' = "nobody"
  /\ UNCHANGED <<buffer, delivered, sound>>

(* The reader asks for a frame; the saved blocks come first.                *)
doGetNextFrame ==
  /\ reading = "nobody"
  /\ reading' = "frame"
  /\ buffer' = IF fInitialBlocksPresent THEN fSavedInitialBlocks ELSE <<>>
  /\ sound' = [sound EXCEPT !.now = ~fInitialBlocksPresent]
  /\ fInitialBlocksPresent' = FALSE
  /\ UNCHANGED <<source_vars, fSavedInitialBlocks, fOurProfile, delivered>>

----------------------------------------------------------------------------
Got(chunk, truncated) ==
  IF reading = "profile" THEN afterGettingProfile(chunk)
  ELSE afterGettingFrame(chunk, truncated)

try_open ==
  /\ ~handle_open /\ reading # "nobody"
  /\ handle_open' = TRUE
  /\ UNCHANGED <<camera, overspill_, saved_vars, frame_vars, reading>>

Overspilled ==
  /\ handle_open /\ reading # "nobody" /\ overspill_ # <<>>
  /\ Got(SubSeq(overspill_, 1, Least(Len(overspill_), fMaxSize)),
         Len(overspill_) > fMaxSize)
  /\ overspill_' = <<>>
  /\ UNCHANGED <<camera, handle_open>>

(* Each packet comes after some, or no, lost ones.                          *)
poll ==
  /\ handle_open /\ reading # "nobody" /\ overspill_ = <<>>
  /\ \E n \in 1..MaxPackets : \E lost \in SUBSET (1..n) :
       LET blocks == packets(n, lost)
       IN  /\ Got(received(blocks), spilled(blocks) # rest(blocks))
           /\ overspill_' = spilled(blocks)
           /\ camera' = (camera + Packet * ahead(lost, n)) % FrameBlocks
  /\ UNCHANGED handle_open

Next == try_open \/ doGetNextFrame \/ Overspilled \/ poll

----------------------------------------------------------------------------
(* Realignment works: in a frame made of sound chunks every block is at its
   place, or lost, whatever packets were lost between the chunks; and no frame
   is longer than the reader's buffer.                                      *)
FramesPlaced ==
  /\ Len(delivered) <= MaxFrame /\ Len(buffer) <= MaxFrame
  /\ sound.then =>
       /\ Len(delivered) <= FrameBlocks
       /\ \A i \in DOMAIN delivered : delivered[i] \in {i - 1, NoData}
=============================================================================
