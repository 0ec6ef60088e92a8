--------------------------------- MODULE VideoEffect ---------------------------------
(***************************************************************************)
(* Video effects on raw frames (video_effect.c, geometry.h). A plane of a   *)
(* picture is a function from <<x, y>> to a value; a rectangle is a record  *)
(* of its left, top, right and bottom edges, the last two exclusive. Shifts *)
(* are a record of the horizontal and vertical chroma shift of the format.  *)
(***************************************************************************)
EXTENDS Integers, Sequences

Yuv420 == [horiz |-> 1, vert |-> 1]
Yuv411 == [horiz |-> 2, vert |-> 0]

rectangle_is_empty(rect) == rect.left = rect.right \/ rect.bottom = rect.top

Least(a, b)    == IF a < b THEN a ELSE b
Greatest(a, b) == IF a > b THEN a ELSE b

rectangle_extend(rect, other) ==
  IF rectangle_is_empty(other) THEN rect
  ELSE IF rectangle_is_empty(rect) THEN other
  ELSE [left |-> Least(rect.left, other.left), right |-> Greatest(rect.right, other.right),
        top |-> Least(rect.top, other.top), bottom |-> Greatest(rect.bottom, other.bottom)]

\* Slip: an empty overlap is left with its edges the wrong way round.
rectangle_clip_inverted(rect, other) ==
  [left |-> Greatest(rect.left, other.left), right |-> Least(rect.right, other.right),
   top |-> Greatest(rect.top, other.top), bottom |-> Least(rect.bottom, other.bottom)]

rectangle_clip(rect, other) ==
  LET right  == Least(rect.right, other.right)
      bottom == Least(rect.bottom, other.bottom)
  IN  [left |-> Least(Greatest(rect.left, other.left), right), right |-> right,
       top |-> Least(Greatest(rect.top, other.top), bottom), bottom |-> bottom]
--------------------------------------------------------------------------------
\* The fade of one value d of the primary picture to one of the secondary picture, s: the
\* product is kept in 16 bits, and so is the sum in 8.

\* Slip: the product of the difference is taken for a positive number.
video_effect_fade_unsigned(d, s, scale) ==
  LET tmp == IF s > d THEN scale * (s - d) ELSE scale * (d - s)
  IN  (d + tmp \div 256) % 256

video_effect_fade(d, s, scale) ==
  LET tmp == (scale * (s - d)) % 65536
  IN  (d + tmp \div 256) % 256
--------------------------------------------------------------------------------
\* The title-safe area: the pixels of a plane that are darkened. The outer tenth is.

title_safe_darkened(width, height, border_horiz, border_vert) ==
  {p \in (0..width - 1) \X (0..height - 1) :
     \/ p[1] < border_horiz
     \/ p[1] >= width - border_horiz
     \/ ~(p[2] >= border_vert /\ p[2] < height - border_vert)}

Darkened(width, height, shift_horiz, shift_vert) ==
  title_safe_darkened(width \div 2^shift_horiz, height \div 2^shift_vert,
                      ((width + 5) \div 10) \div 2^shift_horiz,
                      ((height + 5) \div 10) \div 2^shift_vert)
--------------------------------------------------------------------------------
\* Picture in picture.

\* Coordinates rounded to whole chroma pixels.
RoundDown(v, shift) == v - (v % 2^shift)
Rounded(rect, shift) ==
  [left |-> RoundDown(rect.left, shift.horiz), right |-> RoundDown(rect.right, shift.horiz),
   top |-> RoundDown(rect.top, shift.vert), bottom |-> RoundDown(rect.bottom, shift.vert)]

\* The assertions about the rectangles, after rounding.
RectanglesFit(d_rect, dest_height, s_rect, source_height, frame_width) ==
  /\ s_rect.left >= 0 /\ s_rect.left < s_rect.right /\ s_rect.right <= frame_width
  /\ s_rect.top >= 0 /\ s_rect.top < s_rect.bottom /\ s_rect.bottom <= source_height
  /\ d_rect.left >= 0 /\ d_rect.left <= d_rect.right /\ d_rect.right <= frame_width
  /\ d_rect.top >= 0 /\ d_rect.top <= d_rect.bottom /\ d_rect.bottom <= dest_height
  /\ rectangle_is_empty(d_rect) \/ /\ d_rect.right - d_rect.left <= s_rect.right - s_rect.left
                                   /\ d_rect.bottom - d_rect.top <= s_rect.bottom - s_rect.top

\* Slip: a source column that ends a destination column exactly is taken to spill.
weights_spilling(s_size, d_size) ==
  LET e[x \in 0..s_size] == IF x = 0 THEN 0 ELSE (e[x - 1] + d_size) % s_size
  IN  [x \in 0..s_size - 1 |->
         IF e[x] + d_size > s_size
         THEN [cur |-> d_size - e[x + 1], spill |-> 1 + e[x + 1]]
         ELSE [cur |-> d_size, spill |-> 0]]

\* The scaling table for one direction: how much each source column adds to the current
\* destination column and, plus 1 if it is the last one of it, to the next.
weights(s_size, d_size) ==
  LET e[x \in 0..s_size] ==
        IF x = 0 THEN 0
        ELSE LET sum == e[x - 1] + d_size IN IF sum >= s_size THEN sum - s_size ELSE sum
  IN  [x \in 0..s_size - 1 |->
         IF e[x] + d_size >= s_size
         THEN [cur |-> d_size - e[x + 1], spill |-> 1 + e[x + 1]]
         ELSE [cur |-> d_size, spill |-> 0]]

\* One pass over the columns of a source row: adds the row, by its weight, to the
\* destination row in row_buffer. row_p is the destination column the pass is at. What is
\* read past the end of the row after its last column is not used.
AddRow(value, row_weight, col_weights, s_width, row_buffer) ==
  LET at(buffer, i) == IF i \in DOMAIN buffer THEN buffer[i] ELSE 0
      pass[x \in 0..s_width] ==
        IF x = 0 THEN [sum |-> at(row_buffer, 0), row_p |-> 0, buffer |-> row_buffer]
        ELSE LET p   == pass[x - 1]
                 w   == col_weights[x - 1]
                 rw  == value[x - 1] * row_weight
                 sum == p.sum + rw * w.cur
             IN  IF w.spill = 0 THEN [p EXCEPT !.sum = sum]
                 ELSE [sum |-> at(row_buffer, p.row_p + 1) + rw * (w.spill - 1),
                       row_p |-> p.row_p + 1,
                       buffer |-> [p.buffer EXCEPT ![p.row_p] = sum]]
  IN  pass[s_width].buffer

\* A plane of the source, s_width wide and s_height high, scaled to d_width by d_height.
\* The tables are those of the first plane (full), also for the smaller chroma planes.
\* one is the fixed-point unit of the weights, 2^32 in the code.
video_effect_pic_in_pic(source, s_width, s_height, d_width, d_height, full, one) ==
  LET col_weights  == weights(full.s_width, full.d_width)
      row_weights  == weights(full.s_height, full.d_height)
      pixels       == full.s_width * full.s_height
      weight_scale == (one + pixels \div 2) \div pixels
      zero         == [x \in 0..d_width - 1 |-> 0]
      row(y)       == [x \in 0..s_width - 1 |-> source[<<x, y>>]]
      scaled(v)    == (v * weight_scale + one \div 2) \div one
      rows[y \in 0..s_height] ==
        IF y = 0 THEN [buffer |-> zero, out |-> <<>>]
        ELSE LET w   == row_weights[y - 1]
                 sum == AddRow(row(y - 1), w.cur, col_weights, s_width, rows[y - 1].buffer)
             IN  IF w.spill = 0 THEN [rows[y - 1] EXCEPT !.buffer = sum]
                 ELSE [buffer |-> AddRow(row(y - 1), w.spill - 1, col_weights, s_width, zero),
                       out |-> Append(rows[y - 1].out, [x \in 0..d_width - 1 |-> scaled(sum[x])])]
  IN  rows[s_height].out
=================================================================================
