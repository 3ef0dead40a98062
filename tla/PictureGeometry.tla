--------------------------- MODULE PictureGeometry ---------------------------
(* Where a picture comes from and where a point on it goes: the sizes of     *)
(* previews (screenshot_image.rs), the regions masked in them               *)
(* (observation_policy.rs), the transform a picture is answered with, and    *)
(* the point of the desktop that a click on it reaches                      *)
(* (pointer_coordinates.rs).  One axis: the code does the same on the other. *)
(* Two monitors of one scale stand side by side and one window is looked at. *)
(* Real numbers are exact here: what is not a whole pixel is in quarters.    *)
EXTENDS Integers, FiniteSets

CONSTANTS
    MonitorWidth,   \* of each monitor, in logical pixels
    Across,         \* the other edge of whatever is captured, in physical pixels
    Quarters,       \* scale factors, in quarters
    Edges           \* max_edge of the requests

ASSUME GeometryAssumption ==
    /\ {MonitorWidth, Across} \subseteq Nat \ {0}
    /\ Quarters \subseteq Nat \ {0} /\ Edges \subseteq Nat \ {0}
    \* A monitor has a pixel.
    /\ \A q \in Quarters : MonitorWidth * q >= 2

VARIABLES
    scale,          \* scale_factor of the monitors
    window,         \* client surface, and the width of its decoration on either side
    picture,        \* the picture answered last
    black,          \* columns of its file that were masked
    click           \* the column a client clicked on and where that went

pictureVars == <<scale, window, picture, black, click>>

NoPicture == [kind |-> "none"]
NoClick == [column |-> -1]

\* Half away from zero, as f64::round does.
Rounded(a, b) == (2 * a + b) \div (2 * b)
Upward(a, b) == -((-a) \div b)
Larger(a, b) == IF a > b THEN a ELSE b
Smaller(a, b) == IF a < b THEN a ELSE b

Origins == {0, MonitorWidth}

\* scaled_physical_origin()
PhysicalOrigin(origin) == Rounded(origin * scale, 4)
PhysicalWidth == PhysicalOrigin(MonitorWidth)

\* The compositor's picture of both monitors.
DesktopWidth == 2 * PhysicalWidth

\* logical_point_on_monitor_to_physical(), in quarters of a pixel
OnMonitor(origin, x) == 4 * PhysicalOrigin(origin) + (x - origin) * scale

\* The window with its decoration, as KWin and the bridge report it.
Outline == [x |-> window.x - window.deco, w |-> window.w + 2 * window.deco]

Overlap(origin) == Smaller(Outline.x + Outline.w, origin + MonitorWidth) - Larger(Outline.x, origin)

\* window_monitor_id(): of two equal overlaps the last.
HomeMonitor == IF Overlap(MonitorWidth) >= Overlap(0) THEN MonitorWidth ELSE 0

-----------------------------------------------------------------------------
(* Sizes.                                                                  *)

Scaled(v, edge, largest) == Larger(Rounded(v * edge, largest), 1)

\* DynamicImage::resize() keeps the proportions within the size asked for.
Resized(width, asked, askedAcross) ==
    IF asked * Across <= askedAcross * width THEN asked
    ELSE Larger(Rounded(width * askedAcross, Across), 1)

\* write_preview_or_copy() answers the size it asked for.
Preview(width, edge) ==
    LET largest == Larger(width, Across)
        out == Scaled(width, edge, largest)
    IN IF largest <= edge THEN [out |-> width, file |-> width]
       ELSE [out |-> out, file |-> Resized(width, out, Scaled(Across, edge, largest))]

\* write_tile_preview() and crop_visible_window() answer that of the file.
TilePreview(width, edge) ==
    LET made == Preview(width, edge).file IN [out |-> made, file |-> made]

\* write_window_png() resizes to the very size.
WindowPreview(width, edge) ==
    LET made == Preview(width, edge).out IN [out |-> made, file |-> made]

-----------------------------------------------------------------------------
(* Masks.                                                                  *)

\* Plausible bug: the left edge is rounded to the nearest pixel.
BugRegion(origin) ==
    LET left == Larger(Outline.x, origin)
        right == Smaller(Outline.x + Outline.w, origin + MonitorWidth)
    IN IF right <= left THEN {}
       ELSE {[from |-> Rounded(OnMonitor(origin, left), 4),
              to |-> Upward(OnMonitor(origin, right), 4)]}

\* logical_window_region(), normalized_region(): the desktop begins at 0.
Region(origin) ==
    LET left == Larger(Outline.x, origin)
        right == Smaller(Outline.x + Outline.w, origin + MonitorWidth)
    IN IF right <= left THEN {}
       ELSE {[from |-> OnMonitor(origin, left) \div 4,
              to |-> Upward(OnMonitor(origin, right), 4)]}

\* output_redaction_rect(): the columns of the file
Columns(p, region) ==
    LET left == Larger(region.from, p.from) - p.from
        right == region.to - p.from
    IN {c \in 0..(p.file - 1) :
            /\ (left * p.out) \div p.extent <= c
            /\ c < Upward(right * p.out, p.extent)}

\* apply_screenshot_redactions() with protected_window_redactions()
Masked(p) == UNION {Columns(p, region) : region \in UNION {Region(o) : o \in Origins}}

-----------------------------------------------------------------------------
(* Pictures.  `from` and `extent` are what the transform says of the source, *)
(* `at` and `wide` what the file really shows, in quarters of a pixel.       *)

Answered(p) ==
    /\ picture' = p
    /\ black' = IF p.space = "physical" THEN Masked(p) ELSE {}
    /\ click' = NoClick
    /\ UNCHANGED <<scale, window>>

\* capture_screenshot(): Spectacle's or the portal's picture of the desktop
TakeDesktop(edge) ==
    LET size == Preview(DesktopWidth, edge)
    IN Answered([kind |-> "desktop", space |-> "physical", from |-> 0, extent |-> DesktopWidth,
               out |-> size.out, file |-> size.file, at |-> 0, wide |-> 4 * DesktopWidth])

\* capture_screenshot_tile(), within validate_tile_bounds()
TakeTile(edge, x, width) ==
    LET size == TilePreview(width, edge)
    IN /\ width > 0 /\ x + width <= DesktopWidth
       /\ Answered([kind |-> "tile", space |-> "physical", from |-> x, extent |-> width,
                  out |-> size.out, file |-> size.file, at |-> 4 * x, wide |-> 4 * width])

\* monitor_containing_window()
Containing == {o \in Origins : o <= Outline.x /\ Outline.x + Outline.w <= o + MonitorWidth}

\* capture_visible_window_crop(), visible_window_crop_rect()
TakeCrop(edge) ==
    \E origin \in Containing :
        LET x == Rounded(OnMonitor(origin, Outline.x), 4)
            width == Rounded(Outline.w * scale, 4)
            size == TilePreview(width, edge)
        IN /\ width > 0 /\ x + width <= DesktopWidth
           /\ Answered([kind |-> "crop", space |-> "frame", from |-> 0, extent |-> width,
                      out |-> size.out, file |-> size.file, at |-> 4 * x, wide |-> 4 * width])

\* Plausible bug: the extent stays in native pixels.
BugExtent(native) == native

\* annotate_exact_window_capture_transform()
Extent(native) == Larger(Rounded(native * 4, scale), 1)

\* capture_kwin_window(): the client surface in native resolution
TakeWindow(edge) ==
    LET native == Larger(Rounded(window.w * scale, 4), 1)
        size == WindowPreview(native, edge)
    IN Answered([kind |-> "window", space |-> "client", from |-> 0, extent |-> Extent(native),
               out |-> size.out, file |-> size.file,
               at |-> OnMonitor(HomeMonitor, window.x), wide |-> window.w * scale])

-----------------------------------------------------------------------------
(* Clicks.                                                                 *)

\* output_to_source_point(), times the width answered
SourcePoint(c) == picture.from * picture.out + c * picture.extent

\* agent_click_pointer(): the plugin adds the client surface's place.
ClickThroughSeat(c) ==
    /\ picture.kind = "window"
    /\ click' = [column |-> c, path |-> "seat",
                 at |-> OnMonitor(HomeMonitor, window.x) * picture.out + SourcePoint(c) * scale]
    /\ UNCHANGED <<scale, window, picture, black>>

\* active_window_local_to_physical_point() for a point in a window, and the
\* point as it is for one of the desktop; validate_physical_pointer_point()
ClickThroughPointer(c) ==
    LET at == IF picture.space = "physical" THEN SourcePoint(c) * 4
              ELSE OnMonitor(HomeMonitor, Outline.x) * picture.out + SourcePoint(c) * scale
    IN /\ picture.kind # "none"
       /\ picture.space # "physical" => SourcePoint(c) < Outline.w * picture.out
       /\ 0 <= at /\ at <= 4 * (DesktopWidth - 1) * picture.out
       /\ click' = [column |-> c, path |-> "pointer", at |-> at]
       /\ UNCHANGED <<scale, window, picture, black>>

InitPicture ==
    /\ scale \in Quarters
    /\ \E x \in 0..(2 * MonitorWidth - 1), w \in 1..(MonitorWidth + 1), deco \in {0, 1} :
           /\ x >= deco /\ x + w + deco <= 2 * MonitorWidth
           /\ window = [x |-> x, w |-> w, deco |-> deco]
    /\ picture = NoPicture /\ black = {} /\ click = NoClick

NextPicture ==
    \/ \E edge \in Edges :
          \/ TakeDesktop(edge) \/ TakeCrop(edge) \/ TakeWindow(edge)
          \/ \E x \in {1, MonitorWidth} : TakeTile(edge, x, MonitorWidth)
    \/ /\ picture.kind # "none" /\ click = NoClick
       /\ \E c \in 0..(picture.out - 1) : ClickThroughSeat(c) \/ ClickThroughPointer(c)

SpecPicture == InitPicture /\ [][NextPicture]_pictureVars

-----------------------------------------------------------------------------
\* Column c of the file shows some of the pixels between two places.
Shows(c, from, to) ==
    /\ c * picture.wide < (to - picture.at) * picture.file
    /\ (c + 1) * picture.wide > (from - picture.at) * picture.file

AsAnswered == picture.kind # "none" /\ picture.out = picture.file

(* Every column of a masked picture that shows a part of the protected       *)
(* window is black, at every scale and size, for a window on either monitor  *)
(* or on both, as long as the file has the size that is answered             *)
(* (screenshot_image.rs:128, observation_policy.rs:159).                     *)
MaskCovers ==
    AsAnswered /\ picture.space = "physical" =>
        \A c \in 0..(picture.file - 1) :
            (\E o \in Origins :
                LET left == Larger(Outline.x, o)
                    right == Smaller(Outline.x + Outline.w, o + MonitorWidth)
                IN left < right /\ Shows(c, OnMonitor(o, left), OnMonitor(o, right)))
            => c \in black

\* The click lands within a pixel of what its column shows.
Lands ==
    LET shown == picture.at * picture.file + click.column * picture.wide
    IN /\ click.at > shown - 4 * picture.file
       /\ click.at < shown + picture.wide + 4 * picture.file

(* A click on a preview goes to what the preview shows there, fractional     *)
(* scales and previews included (mcp-tools.md:176): through the agent seat,  *)
(* and through the pointer but for windows with a decoration and crops at    *)
(* another scale than one.                                                   *)
ClicksLand ==
    AsAnswered /\ click # NoClick =>
        \/ Lands
        \/ click.path = "pointer" /\ picture.kind = "window" /\ window.deco # 0
        \/ picture.kind = "crop" /\ scale # 4
=============================================================================
