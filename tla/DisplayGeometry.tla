------------------------------- MODULE DisplayGeometry -------------------------------
(***************************************************************************)
(* The geometry of the displays (dv_display_widget.cpp): the region for a   *)
(* picture in the picture, as the operator selects it on the main display   *)
(* with the mouse or by a preset, and the scaling of thumbnails. A region   *)
(* of the display is a rectangle with the width and height of its pixels.   *)
(***************************************************************************)
EXTENDS Integers, VideoEffect

active_region_625_50 == [left |-> 9, top |-> 0, right |-> 711, bottom |-> 576]
active_region_525_60 == [left |-> 4, top |-> 0, right |-> 716, bottom |-> 480]

Region(rect, pixel_width, pixel_height) ==
  [left |-> rect.left, top |-> rect.top, right |-> rect.right, bottom |-> rect.bottom,
   pixel_width |-> pixel_width, pixel_height |-> pixel_height]

\* The active regions of the video systems with their two frame aspects.
DisplayRegion == {Region(active_region_625_50, 59, 54), Region(active_region_625_50, 118, 81),
                  Region(active_region_525_60, 10, 11), Region(active_region_525_60, 40, 33)}

WidthOf(rect)  == rect.right - rect.left
HeightOf(rect) == rect.bottom - rect.top

\* Division of C, towards zero.
Quot(a, b) == IF a < 0 THEN -((-a) \div b) ELSE a \div b

div_round_nearest(numer, denom) == Quot(numer + denom \div 2, denom)

\* The size at which a region is displayed: the longer side of a pixel is stretched.
dest_width(region) ==
  IF region.pixel_width > region.pixel_height
  THEN div_round_nearest(WidthOf(region) * region.pixel_width, region.pixel_height)
  ELSE WidthOf(region)
dest_height(region) ==
  IF region.pixel_width > region.pixel_height THEN HeightOf(region)
  ELSE div_round_nearest(HeightOf(region) * region.pixel_height, region.pixel_width)

window_to_frame_coords(region, x, y) ==
  <<region.left + div_round_nearest(x * WidthOf(region), dest_width(region)),
    region.top + div_round_nearest(y * HeightOf(region), dest_height(region))>>
--------------------------------------------------------------------------------
\* One direction of a selection from start to point: where it is held, which way it goes, its
\* extent and the greatest one, both times the size of the frame in the other direction.
Extent(start, point, low, high, other_size) ==
  IF point < start
  THEN [hold |-> start + 1, dir |-> -1, scale |-> (start + 1 - point) * other_size,
        most |-> (start + 1 - low) * other_size]
  ELSE [hold |-> start, dir |-> 1, scale |-> (point + 1 - start) * other_size,
        most |-> (high - start) * other_size]

Span(extent, size) ==
  IF extent.dir < 0 THEN [from |-> extent.hold - size, to |-> extent.hold]
  ELSE [from |-> extent.hold, to |-> extent.hold + size]

\* Slip: the selection is shrunk to fit in one direction only.
update_selection_wide(region, start, point) ==
  LET h     == Extent(start[1], point[1], region.left, region.right, HeightOf(region))
      v     == Extent(start[2], point[2], region.top, region.bottom, WidthOf(region))
      scale == Least(Greatest(h.scale, v.scale), h.most)
      x     == Span(h, Quot(scale, HeightOf(region)))
      y     == Span(v, Quot(scale, WidthOf(region)))
  IN  [left |-> x.from, right |-> x.to, top |-> y.from, bottom |-> y.to]

update_selection(region, start, point) ==
  LET h     == Extent(start[1], point[1], region.left, region.right, HeightOf(region))
      v     == Extent(start[2], point[2], region.top, region.bottom, WidthOf(region))
      scale == Least(Greatest(h.scale, v.scale), Least(h.most, v.most))
      x     == Span(h, Quot(scale, HeightOf(region)))
      y     == Span(v, Quot(scale, WidthOf(region)))
  IN  [left |-> x.from, right |-> x.to, top |-> y.from, bottom |-> y.to]

\* The presets. sel_width_ is 160, and the padding 10.
SelectionType == {"North_West", "North_East", "South_East", "South_West"}

set_selection_type(region, sel_type) ==
  LET fw     == WidthOf(region)
      height == (160 * HeightOf(region)) \div fw
      left   == IF sel_type \in {"North_West", "South_West"} THEN 10 + region.left
                ELSE region.right - 10 - 160
      top    == IF sel_type \in {"North_West", "North_East"} THEN 10 + region.top
                ELSE ((region.bottom - 10) * fw - 160 * HeightOf(region)) \div fw
  IN  [left |-> left, top |-> top, right |-> left + 160, bottom |-> top + height]

\* A frame with another region comes on the display, and the selection is clipped to it.
put_frame_buffer(region, selection) == rectangle_clip(selection, region)
--------------------------------------------------------------------------------
\* Thumbnails: decoded at an eighth of the size, and scaled up to a quarter.

thumb_size(region) ==
  <<div_round_nearest(WidthOf(region) * region.pixel_width, region.pixel_height * 4),
    div_round_nearest(HeightOf(region), 4)>>
thumb_source_size(region) == <<WidthOf(region) \div 8, HeightOf(region) \div 8>>

\* The size of the image they are drawn in.
thumb_image == <<div_round_nearest(720 * 118, 81 * 4), div_round_nearest(576, 4)>>

\* Slip: the error starts at the full size, so that the first step comes too soon.
thumb_scaling_early(source_size, dest_size) ==
  [d \in 0..dest_size - 1 |-> (source_size + d * source_size) \div dest_size]

\* Bresenham's algorithm in one direction: the source pixel of each destination pixel. The
\* error is carried when it reaches dest_size, once in a step as it grows by no more.
thumb_scaling(source_size, dest_size) ==
  [d \in 0..dest_size - 1 |-> ((source_size \div 2) + d * source_size) \div dest_size]
=================================================================================
