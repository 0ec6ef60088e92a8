----------------------------------- MODULE MCSignal -----------------------------------
(***************************************************************************)
(* The calculations of the program, checked against reference definitions:  *)
(* audio and times in DIF frames, video effects, the timed fade and the     *)
(* clock. A behaviour is about one subject. That of a pure function is its  *)
(* input, chosen at the start; the fade and the clock take steps.           *)
(***************************************************************************)
EXTENDS TimedFade, RecordingTime, DisplayGeometry

CONSTANTS Drift, FirstTick, Stall, LastUpset, MaxTicks

DriftBothWays == {-10, 5}

VARIABLES
  input,
  source, ages, until_next, held, frame_interval, average_frame_interval,
  audio_source_system, ticks, calm, upset, missed, dropped

clock_vars == <<source, ages, until_next, held, frame_interval, average_frame_interval,
                audio_source_system, ticks, calm, upset, missed, dropped>>

VideoSystem == {[frame_rate_numer |-> s.frame_rate_numer, frame_rate_denom |-> s.frame_rate_denom] :
                  s \in System}

Clock == INSTANCE FrameClock

\* Sources are off by up to one part in a hundred, and the clock ticks first before the next
\* frame comes.
ASSUME ClockAssumption ==
  /\ Drift \subseteq -10..10
  /\ \A t \in FirstTick, s \in Clock!Sources : t \in 0..s.period - 1

Counts(system, rate) ==
  LET c == audio_frame_counts(system, rate) IN {c.min, c.max, c.std_cycle[1]}

Sample16 == -32768..32767
Samples  == [subject : {"sample"}, sample : Sample16]
Audio   == UNION {[subject : {"audio"}, system : {s}, rate : {r}, frame_count : Counts(s, r)] :
                    s \in System, r \in SampleRate}
Silent  == [subject : {"silence"}, system : System, rate : SampleRate, serial_num : 0..30]

\* The first twenty minutes, and the end of a day.
SerialNum == 0..36100 \cup 2159900..2160100 \cup 2589300..2592100
Times == [subject : {"time"}, system : System, serial_num : SerialNum]
Sequences_ == [subject : {"sequence"}, seq_num : 0..11]

Blends == [subject : {"blend"}, d : {17 * k : k \in 0..15}, s : {17 * k : k \in 0..15}]

\* Pictures with one bright pixel, of which all others are sums. full is the size of the
\* first plane; the plane scaled is that, or a chroma plane.
Scalings ==
  {x \in [subject : {"scaling"}, full : [s_width : {2, 4, 8}, s_height : {2, 4},
                                         d_width : {2, 4}, d_height : {2, 4}],
          shift : {[horiz |-> 0, vert |-> 0], Yuv420, Yuv411}, bright : (0..7) \X (0..3)] :
     /\ x.full.d_width <= x.full.s_width /\ x.full.d_height <= x.full.s_height
     /\ x.full.d_width % 2^x.shift.horiz = 0 /\ x.full.s_width % 2^x.shift.horiz = 0
     /\ x.bright[1] < x.full.s_width \div 2^x.shift.horiz
     /\ x.bright[2] < x.full.s_height \div 2^x.shift.vert}

Edges == {r \in [left : 0..2, top : {0, 1}, right : 0..2, bottom : {0, 1}] :
            r.left <= r.right /\ r.top <= r.bottom}
Rectangles == [subject : {"rectangles"}, rect : Edges, other : Edges]

Borders == [subject : {"border"}, height : {480, 576}, shift : {Yuv420, Yuv411}]

\* The mouse is pressed at a sixth of the display, and moved within it or out of it.
Drags   == [subject : {"drag"}, region : DisplayRegion, start : (0..6) \X (0..6),
            point : (-2..8) \X (-2..8)]
Presets == [subject : {"preset"}, region : DisplayRegion, sel_type : SelectionType]

Thumbs == [subject : {"thumb"}, region : DisplayRegion]

FadeIdle == /\ ms = 255 /\ timed_ = TRUE /\ scale_ = 0 /\ bucketsize_ = 1 /\ modulo_ = 0
            /\ ms_per_frame_ = 0 /\ applied = 0
ClockIdle == /\ source = Clock!NoSystem /\ ages = <<>> /\ until_next = 0 /\ held = 0
             /\ frame_interval = 0 /\ average_frame_interval = 0
             /\ audio_source_system = Clock!NoSystem /\ ticks = 0 /\ calm = 0
             /\ upset = FALSE /\ missed = FALSE /\ dropped = FALSE

SignalInit ==
  \/ /\ input \in UNION {Samples, Audio, Silent, Times, Sequences_, Blends, Scalings,
                         Rectangles, Borders, Drags, Presets, Thumbs}
     /\ FadeIdle /\ ClockIdle
  \/ input = [subject |-> "fade"] /\ Init /\ ClockIdle
  \/ input = [subject |-> "clock"] /\ FadeIdle /\ Clock!Init

FadeStep  == input.subject = "fade" /\ Next /\ UNCHANGED <<input, clock_vars>>
ClockStep == input.subject = "clock" /\ Clock!Next /\ UNCHANGED <<input, vars>>

SignalNext == FadeStep \/ ClockStep

SignalSpec == SignalInit /\ [][SignalNext]_<<input, vars, clock_vars>>
--------------------------------------------------------------------------------
\* Audio.

Abs(v) == IF v < 0 THEN -v ELSE v

\* Samples of which no two near each other are equal, and which 12 bits hold exactly.
Sound(frame_count) == [pos \in 0..PCM_CHANNELS * frame_count - 1 |-> (pos % 1023) - 511]
PairsOf(samples)   == {<<pos, samples[pos]>> : pos \in DOMAIN samples}

\* A frame with the rate code that is read: at 32 kHz it is the one other equipment writes, since
\* of the frame that dv_buffer_set_audio leaves nothing is got (RateKept).
Readable(audio) == [audio EXCEPT !.rate_code = 2 * @]

\* What is set in a frame is what is got from it, and from any frame it is dubbed to.
SoundKept(system, rate, frame_count) ==
  LET audio == Readable(dv_buffer_set_audio(system, rate, frame_count, Sound(frame_count)))
      other == dv_buffer_silence_audio(system, 48000, 0)
  IN  /\ dv_buffer_get_audio(system, audio) = PairsOf(Sound(frame_count))
      /\ dv_buffer_get_audio(system, dv_buffer_dub_audio(system, other, audio))
           = dv_buffer_get_audio(system, audio)

\* The codes just below the lower end of a segment of the companding, whose carry is lost,
\* and the one code that stands for an error.
CarryLost(sample) ==
  sample = -32768 \/ \E k \in 1..6 : sample \in (-256 * 2^k - 2^k + 1)..(-256 * 2^k - 1)

\* A sample comes back within the step of its segment, and on the same side of zero.
SampleKept(sample) ==
  LET code == encode_12bit(sample)
      back == decode_12bit(code)
      step == 2^get_12bit_scale(IF sample < 0 THEN -sample - 1 ELSE sample)
  IN  /\ code \in 0..4095
      /\ ~CarryLost(sample) => /\ Abs(back - sample) < step
                               /\ Abs(back) <= Abs(sample)
                               /\ encode_12bit(back) = code

\* The samples of all frames before one.
SilenceBefore(system, rate, serial_num) ==
  LET sum[k \in 0..serial_num] ==
        IF k = 0 THEN 0 ELSE sum[k - 1] + silence_count(system, rate, k - 1)
  IN  sum[serial_num]

\* Silence keeps step with the video: exactly over each cycle, to two samples within it.
SilenceInStep(system, rate, serial_num) ==
  LET n     == Len(audio_frame_counts(system, rate).std_cycle)
      error == SilenceBefore(system, rate, serial_num) * system.frame_rate_numer
                 - rate * serial_num * system.frame_rate_denom
      audio == dv_buffer_silence_audio(system, rate, serial_num)
  IN  /\ serial_num % n = 0 => error = 0
      /\ Abs(error) < 2 * system.frame_rate_numer
      /\ dv_buffer_get_audio(system, Readable(audio))
           = {<<pos, 0>> : pos \in 0..2 * silence_count(system, rate, serial_num) - 1}

\* Sound that the mixer puts in a frame, in 16 bits or 12, is what a player gets from it (at
\* 32 kHz, of a frame with the right rate code), each sample at its place (the shuffle tables
\* and the two halves of the frame), with no more loss than the companding is made for but
\* where a carry is lost, and sound that is missing leaves the frames' counts of samples in
\* step with the video.
AudioSurvives ==
  /\ input.subject = "audio" => SoundKept(input.system, input.rate, input.frame_count)
  /\ input.subject = "sample" => SampleKept(input.sample)
  /\ input.subject = "silence" => SilenceInStep(input.system, input.rate, input.serial_num)

--------------------------------------------------------------------------------
\* Times.

\* The frame that a timecode stands for, counted from midnight.
Unbcd(v) == 10 * (v \div 16) + (v % 16)
FrameOf(code, frame_rate) ==
  Unbcd(code.frame)
    + frame_rate * (Unbcd(code.second) + 60 * (Unbcd(code.minute) + 60 * Unbcd(code.hour)))

\* Its digits are those of the frame's number in its day; at 25 frames a second that is the
\* number of the frame itself, at 30 (of 29.97) one that never goes back.
TimeKept(system, serial_num) ==
  LET n    == nominal_frame_num(system, serial_num)
      rate == nominal_frame_rate(system)
  IN  /\ FrameOf(timecode(system, serial_num), rate) = n % (24 * 60 * 60 * rate)
      /\ IF system = dv_system_625_50 THEN n = serial_num
         ELSE nominal_frame_num(system, serial_num + 1) >= n

\* The packs that the comment at mixer.cpp:527 lists for a sequence, at their places: "DIFs 1
\* and 2 (subcode) of sequence 6 onward", "DIFs 3, 4 and 5 (VAUX) of even sequences", and two of
\* AAUX.
SubcodePacks(b, i) == {Write(b, 24 * i + 6, "timecode"), Write(b, 24 * i + 14, "video date"),
                       Write(b, 24 * i + 22, "video time")}
VauxPacks(b, i)    == {Write(b, 45 * i + 13, "video date"), Write(b, 45 * i + 18, "video time")}

AauxPacks(even)    == {Write(IF even THEN 86 ELSE 38, 3, "audio date"),
                       Write(IF even THEN 102 ELSE 54, 3, "audio time")}

Documented(seq_num) ==
  LET even == seq_num % 2 = 0
  IN  UNION {IF seq_num < 6 THEN {} ELSE UNION {SubcodePacks(b, i) : b \in 1..2, i \in 0..1},
             IF even THEN UNION {VauxPacks(b, i) : b \in 3..5, i \in 0..1} ELSE {},
             AauxPacks(even)}

\* Each of them is written and not written over; and so are the settings left alone that the
\* program itself reads in a frame: those of the sound, and the aspect in even sequences.
PacksKept(seq_num) ==
  LET writes == set_times(seq_num)
  IN  /\ \A w \in Documented(seq_num) : \E i \in DOMAIN writes : writes[i] = w /\ Whole(writes, i)
      /\ Untouched(as_pack(seq_num), writes)
      /\ seq_num % 2 = 0 => Untouched(vsc_pack(seq_num), writes)

\* The recording time of a frame can be read back from it and never goes back; and every pack
\* with a time that is meant for a sequence is whole in it, as are the settings of sound and
\* aspect that the program reads there.
TimesRecorded ==
  /\ input.subject = "time" => TimeKept(input.system, input.serial_num)
  /\ input.subject = "sequence" => PacksKept(input.seq_num)

--------------------------------------------------------------------------------
\* Video effects.

\* A picture scaled down is the mean of the area that each of its pixels stands for.
Overlap1(x, X, s_size, d_size) ==
  Greatest(0, Least((x + 1) * d_size, (X + 1) * s_size) - Greatest(x * d_size, X * s_size))

\* The value of the bright pixel, and the unit of the weights: 2^32 in the code.
Bright == 235
Unit   == 65536

\* A picture with one bright pixel.
BrightPicture(s_width, s_height, bright, value) ==
  [p \in (0..s_width - 1) \X (0..s_height - 1) |-> IF p = bright THEN value ELSE 0]

\* The area of the bright pixel that a pixel of the scaled plane stands for, with its value.
Area(X, Y, bright, value, s_width, s_height, d_width, d_height) ==
  (value * Overlap1(bright[1], X, s_width, d_width)) * Overlap1(bright[2], Y, s_height, d_height)

IsMeans(scaled, bright, value, s_width, s_height, d_width, d_height) ==
  LET pixels == s_width * s_height
  IN  /\ Len(scaled) = d_height
      /\ \A X \in 0..d_width - 1, Y \in 0..d_height - 1 :
           2 * Abs(scaled[Y + 1][X] * pixels
                     - Area(X, Y, bright, value, s_width, s_height, d_width, d_height)) <= pixels

ScaledToMeans(full, shift, bright) ==
  LET s_width  == full.s_width \div 2^shift.horiz   s_height == full.s_height \div 2^shift.vert
      d_width  == full.d_width \div 2^shift.horiz   d_height == full.d_height \div 2^shift.vert
  IN  IsMeans(video_effect_pic_in_pic(BrightPicture(s_width, s_height, bright, Bright),
                                      s_width, s_height, d_width, d_height, full, Unit),
              bright, Bright, s_width, s_height, d_width, d_height)

Points(rect) == (rect.left..rect.right - 1) \X (rect.top..rect.bottom - 1)
Proper(rect) == rect.left <= rect.right /\ rect.top <= rect.bottom

RectanglesRight(rect, other) ==
  LET clip == rectangle_clip(rect, other)   extend == rectangle_extend(rect, other)
  IN  /\ Points(clip) = Points(rect) \cap Points(other) /\ Proper(clip)
      /\ Points(rect) \cup Points(other) \subseteq Points(extend)
      /\ \A r \in Edges : Points(rect) \cup Points(other) \subseteq Points(r)
                            => Points(extend) \subseteq Points(r)

\* Each value of a fade lies between those of the two pictures, in step with the scale.
Fades(d, s) ==
  \A scale \in 0..255 :
    LET v == video_effect_fade(d, s, scale)
    IN  /\ v \in Least(d, s)..Greatest(d, s)
        /\ 256 * Abs(v - d) <= scale * Abs(s - d) + 255
        /\ 256 * Abs(v - d) >= scale * Abs(s - d) - 255

\* Colour and brightness are darkened over the same area, to the pixel.
SameArea(height, shift) ==
  \A p \in (0..(720 \div 2^shift.horiz) - 1) \X (0..(height \div 2^shift.vert) - 1) :
    (p \in Darkened(720, height, shift.horiz, shift.vert))
      <=> (<<p[1] * 2^shift.horiz, p[2] * 2^shift.vert>> \in Darkened(720, height, 0, 0))

\* The effects are what they are meant to be in every plane of a picture: a picture in a
\* picture is the mean of what it covers, by whole-number weights without a gap or an
\* overlap; a fade never leaves the range of the two pictures, although its products are
\* kept in unsigned 16 bits; rectangles clipped or extended stay proper.
EffectsRight ==
  /\ input.subject = "scaling" => ScaledToMeans(input.full, input.shift, input.bright)
  /\ input.subject = "blend" => Fades(input.d, input.s)
  /\ input.subject = "rectangles" => RectanglesRight(input.rect, input.other)
  /\ input.subject = "border" => SameArea(input.height, input.shift)
--------------------------------------------------------------------------------
\* Displays.

\* A thumbnail fits in its image and is scaled up evenly, by whole source pixels.
ThumbFits(region) ==
  \A i \in {1, 2} :
    LET size == thumb_size(region)[i]   source_size == thumb_source_size(region)[i]
        scaling == thumb_scaling(source_size, size)
    IN  /\ source_size <= size /\ size <= thumb_image[i]
        /\ \A d \in 0..size - 1 : /\ scaling[d] < source_size
                                  /\ Abs(scaling[d] * size - d * source_size) < size

AtSixth(region, sixths) ==
  window_to_frame_coords(region, Quot(sixths[1] * (dest_width(region) - 1), 6),
                                 Quot(sixths[2] * (dest_height(region) - 1), 6))

\* Whether a picture of the system of the region can be put in the selection.
Insertable(selection, region) ==
  LET height == region.bottom
      shift  == IF height = 576 THEN Yuv420 ELSE Yuv411
  IN  RectanglesFit(Rounded(selection, shift), height,
                    Rounded([left |-> region.left, top |-> region.top,
                             right |-> region.right, bottom |-> region.bottom], shift), height, 720)

Within(selection, region) ==
  /\ Proper(selection)
  /\ selection.left >= region.left /\ selection.right <= region.right
  /\ selection.top >= region.top /\ selection.bottom <= region.bottom

InAspect(selection, region) ==
  Abs(WidthOf(selection) * HeightOf(region) - HeightOf(selection) * WidthOf(region))
    < WidthOf(region)

\* The selection is a proper rectangle within the picture and in the aspect of the picture to
\* a pixel, so that the assertions of pic-in-pic hold for it after its rounding; and so does
\* what is left of it when the video system has changed.
SelectionFits(selection, region) ==
  /\ Within(selection, region) /\ InAspect(selection, region)
  /\ Insertable(selection, region)
  /\ \A other \in DisplayRegion :
       LET clipped == put_frame_buffer(other, selection)
       IN  /\ Proper(clipped) /\ Insertable(clipped, other)
           /\ rectangle_is_empty(clipped) \/ Within(clipped, other)

\* However the operator drags, and for each preset, the selection fits in the picture on the
\* display, and in the one of another video system that comes after it. Thumbnails of every
\* video system fit in the image that was made before any was known.
DisplayFits ==
  /\ input.subject = "thumb" => ThumbFits(input.region)
  /\ input.subject = "drag" =>
       SelectionFits(update_selection(input.region, AtSixth(input.region, input.start),
                                      AtSixth(input.region, input.point)), input.region)
  /\ input.subject = "preset" =>
       SelectionFits(set_selection_type(input.region, input.sel_type), input.region)
--------------------------------------------------------------------------------
\* A source whose clock is a little off, at any phase, never makes the clock miss a frame nor
\* the mixer drop one, except within 30 ticks of a stall of the network or a change of the
\* audio source; and 50 ticks after it the delay is the one aimed at, to a twentieth of a frame.
ClockKeepsStep ==
  input.subject = "clock" =>
    /\ (missed \/ dropped) => upset /\ calm < 30
    /\ calm >= 50 => Clock!OnTarget
--------------------------------------------------------------------------------
\* What the comments and the manual promise, and the code does not keep.

\* "Set sample rate and audio data in buffer" (dif.h:100): the rate that is set is the rate
\* that is read back. 32 kHz is written as 1 and read as 2.
RateKept(system, rate, frame_count) ==
  dv_buffer_get_sample_rate(dv_buffer_set_audio(system, rate, frame_count, <<>>)) = rate

\* "Skip the first 2 frame numbers of each minute, except in minutes divisible by 10"
\* (mixer.cpp:450): the numbers of a ten-minute period are those of 17982 frames, 1800 of its
\* first minute and 1798 of each of the other nine.
drop_frame_num(n) ==
  LET tens == n \div 17982
      rest == n % 17982
  IN  n + 18 * tens + IF rest > 1 THEN 2 * ((rest - 2) \div 1798) ELSE 0

\* The code skips one number at each half minute.
DropFrame(serial_num) ==
  nominal_frame_num(dv_system_525_60, serial_num) = drop_frame_num(serial_num)

\* The times are written where the comment at mixer.cpp:527 says, and nowhere else. The
\* subcode's go to block 3 as well, and those of VAUX to odd sequences.
OnlyListed(seq_num) ==
  LET writes == set_times(seq_num)
  IN  {writes[i] : i \in DOMAIN writes} \subseteq Documented(seq_num)

\* What is set in a frame is what these comments say, and a fade ends within a frame of the
\* time asked for, as the manual says. Each of the four is refuted.
AsDocumented ==
  /\ input.subject = "audio" => RateKept(input.system, input.rate, input.frame_count)
  /\ input.subject = "time" /\ input.system = dv_system_525_60 => DropFrame(input.serial_num)
  /\ input.subject = "sequence" => OnlyListed(input.seq_num)
  /\ input.subject = "fade" => FadeOnTime
=================================================================================
