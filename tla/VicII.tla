------------------------------- MODULE VicII -------------------------------
(***************************************************************************)
(* The VIC as MOS6569::EmulateLine has it: where the raster is, which row  *)
(* of the screen a line shows, which line of a sprite, and when it         *)
(* interrupts.  It drives the interrupts of CpuInterrupts, whose chips are *)
(* otherwise quiet here.                                                   *)
(*                                                                         *)
(* The picture is not made of pixels: `shown` says what a line is made of. *)
(* A row of the screen, 40 bytes of the video matrix, is a number, and a   *)
(* line of a sprite, 3 bytes, is a number too.  Left out are the colours,  *)
(* the horizontal positions, the modes and the cycles that are stolen.     *)
(***************************************************************************)
EXTENDS CpuInterrupts, Integers

CONSTANTS
    RowLines, Rows,             \* 8 lines to a row, 25 rows
    TOTAL_RASTERS,              \* 0x138
    HighLine,                   \* 0x100: bit 8 of a line is in control register 1
    RASTER_VALUES,              \* 0x10000: raster_y has sixteen bits
    FIRST_DISP_LINE, LAST_DISP_LINE,
    FIRST_DMA_LINE,
    ROW25_YSTART, ROW25_YSTOP, ROW24_YSTART, ROW24_YSTOP,
    Sprites, SpriteLines,       \* 21
    Collisions,                 \* those that the shapes of the sprites may bring
    Frequencies,                \* of drawn frames: ThePrefs.SkipFrames
    Controls, LowLines, Ys,     \* what the program writes to 0x11, 0x12, 0x01 to 0x0f
    Masks,                      \* and to 0x19 and 0x1a
    MaxAccesses                 \* bound: accesses to registers and preferences

LAST_DMA_LINE == FIRST_DMA_LINE + Rows * RowLines - 1

ASSUME VicAssumption ==
    /\ {"raster", "background", "sprite", "lightpen"} \subseteq Sources
    /\ Collisions \subseteq {"background", "sprite"}
    /\ RowLines \in Nat \ {0} /\ Rows \in Nat \ {0} /\ SpriteLines \in Nat \ {0}
    /\ TOTAL_RASTERS \in Nat /\ HighLine \in 1 .. TOTAL_RASTERS - 1
    /\ RASTER_VALUES \in Nat /\ TOTAL_RASTERS < RASTER_VALUES
    /\ FIRST_DMA_LINE > 0 /\ LAST_DMA_LINE < LAST_DISP_LINE /\ LAST_DISP_LINE < TOTAL_RASTERS
    /\ Controls \subseteq [y_scroll : 0 .. RowLines - 1, den : BOOLEAN, rows25 : BOOLEAN,
                           high : BOOLEAN]
    /\ FIRST_DMA_LINE \in Nat /\ FIRST_DISP_LINE \in Nat /\ LAST_DISP_LINE \in Nat
    /\ LowLines \subseteq 0 .. HighLine - 1 /\ Ys \subseteq 0 .. HighLine - 1
    /\ Masks \subseteq SUBSET Sources
    /\ Frequencies \subseteq Nat \ {0} /\ MaxAccesses \in Nat

\* The lower eight bits come twice in a frame at most, and a sprite is over, though it is
\* expanded, before its next frame; both numbers of lines are even
ASSUME SpriteAssumption ==
    /\ TOTAL_RASTERS <= 2 * HighLine /\ 2 * SpriteLines <= TOTAL_RASTERS
    /\ TOTAL_RASTERS % 2 = 0 /\ HighLine % 2 = 0

\* The window opens within the first row and closes within the last, wherever the rows are
\* scrolled to, and has their height
ASSUME WindowAssumption ==
    /\ ROW25_YSTART \in Nat /\ ROW24_YSTART \in Nat
    /\ ROW25_YSTOP \in Nat /\ ROW24_YSTOP \in Nat
    /\ FIRST_DISP_LINE <= FIRST_DMA_LINE
    /\ FIRST_DMA_LINE <= ROW25_YSTART /\ ROW25_YSTART <= ROW24_YSTART
    /\ ROW24_YSTART < FIRST_DMA_LINE + RowLines /\ ROW24_YSTART < ROW24_YSTOP
    /\ LAST_DMA_LINE <= ROW24_YSTOP /\ ROW24_YSTOP < ROW25_YSTOP
    /\ ROW25_YSTOP <= LAST_DISP_LINE /\ LAST_DMA_LINE + RowLines <= LAST_DISP_LINE
    /\ ROW25_YSTOP = ROW25_YSTART + Rows * RowLines

\* What the snapshots hold of the VIC, saved between any two lines of a frame
ASSUME SavedVicAssumption ==
    \A s \in Saved :
        /\ s.raster_y \in Nat /\ s.irq_raster \in Nat
        /\ s.vc_base \in Nat /\ s.lp_triggered \in BOOLEAN /\ s.rc \in 0 .. RowLines - 1
        /\ s.display_state \in BOOLEAN /\ s.border_on \in BOOLEAN
        /\ s.bad_lines_enabled \in BOOLEAN /\ s.frame_skipped \in BOOLEAN
        /\ s.y_scroll \in 0 .. RowLines - 1 /\ s.den \in BOOLEAN /\ s.rows25 \in BOOLEAN
        /\ s.me \subseteq Sprites /\ s.my \in [Sprites -> 0 .. HighLine - 1]
        /\ s.mc \in [Sprites -> 0 .. SpriteLines]
        /\ s.sprite_on = {n \in Sprites : s.mc[n] # SpriteLines}

VARIABLES
    raster_y, irq_raster,
    y_scroll, den, rows25,          \* ctrl1: bits 0 to 2, 4 and 3
    bad_lines_enabled, display_state, border_on,
    rc, vc_base,                    \* line of the row, and row
    matrix_line,                    \* the row that the last bad line has fetched
    me, mye, my,                    \* sprites: enabled, expanded, and where
    mc, sprite_on,                  \* their next line, SpriteLines if there is none
    clx,                            \* clx_spr and clx_bgr, if they are not 0
    lp_triggered,
    frame_skipped, skip_counter,
    BordersOn, SkipFrames,          \* ThePrefs
    shown,                          \* what the line that has been emulated shows
    turn,                           \* "vic", "vblank"; "others": the line is emulated
    steady,                         \* history: frames since the registers changed
    resumed,                        \* history: a snapshot's rows go on in this frame
    accesses

video   == <<bad_lines_enabled, display_state, border_on, rc, vc_base, matrix_line>>
ctrl1   == <<y_scroll, den, rows25>>
sprites == <<mc, sprite_on>>
prefs   == <<BordersOn, SkipFrames>>
frames  == <<lp_triggered, frame_skipped, skip_counter>>
regs    == <<irq_raster, ctrl1, me, mye, my>>
vicChip == <<raster_y, regs, video, sprites, clx, frames, prefs, shown, turn>>
vicVars == <<vars, vicChip, steady, resumed, accesses>>

Nothing == [what |-> "nothing"]

\* The constructor; bad_lines_enabled is not initialized
VicInit ==
    /\ Init
    /\ raster_y = TOTAL_RASTERS - 1 /\ irq_raster = 0
    /\ y_scroll = 0 /\ den = FALSE /\ rows25 = FALSE
    /\ bad_lines_enabled \in BOOLEAN /\ display_state = FALSE /\ border_on = FALSE
    /\ rc = RowLines - 1 /\ vc_base = 0 /\ matrix_line = 0
    /\ me = {} /\ mye = {} /\ my = [s \in Sprites |-> 0]
    /\ mc = [s \in Sprites |-> SpriteLines] /\ sprite_on = {}
    /\ clx = {} /\ lp_triggered = FALSE
    /\ frame_skipped = FALSE /\ skip_counter = 1
    /\ BordersOn \in BOOLEAN /\ SkipFrames \in Frequencies
    /\ shown = Nothing /\ turn = "vic" /\ steady = 0 /\ accesses = 0
    /\ resumed = FALSE

-----------------------------------------------------------------------------
(* A line *)

\* Line 0x30 decides whether the frame has bad lines
Enabled(raster) == IF raster = FIRST_DMA_LINE THEN den ELSE bad_lines_enabled

Scrolled(raster) ==
    raster \in FIRST_DMA_LINE .. LAST_DMA_LINE /\ raster % RowLines = y_scroll

BadLine(raster) == Scrolled(raster) /\ Enabled(raster)

dy_start == IF rows25 THEN ROW25_YSTART ELSE ROW24_YSTART
dy_stop  == IF rows25 THEN ROW25_YSTOP ELSE ROW24_YSTOP

\* The frame is skipped, or the line, which is not visible without borders
Skipped(raster) ==
    \/ frame_skipped
    \/ ~BordersOn /\ raster \notin ROW25_YSTART .. ROW25_YSTOP - 1

Drawn(raster) == ~Skipped(raster) /\ raster \in FIRST_DISP_LINE .. LAST_DISP_LINE

\* Broken variant: the border opens although the picture is off
BorderOpens(raster) ==
    CASE raster = dy_start -> FALSE
      [] raster = dy_stop -> TRUE
      [] OTHER -> border_on

Border(raster) ==
    CASE raster = dy_start /\ den -> FALSE
      [] raster = dy_stop -> TRUE
      [] OTHER -> border_on

\* The line is drawn, and the counters go on.  Under the border vc stays as it is.
DrawLine(raster) ==
    LET bad     == BadLine(raster)
        display == display_state \/ bad
        row     == IF bad THEN 0 ELSE rc
        fetched == IF bad THEN vc_base ELSE matrix_line
        border  == Border(raster)
        last    == row = RowLines - 1
    IN  /\ border_on' = border /\ matrix_line' = fetched
        /\ display_state' = (display /\ ~last)
        /\ vc_base' = IF last /\ display /\ ~border THEN vc_base + 1 ELSE vc_base
        /\ rc' = IF Scrolled(raster + 1) /\ Enabled(raster) THEN 0
                 ELSE IF last THEN row ELSE row + 1
        /\ shown' = IF border THEN [what |-> "border"]
                    ELSE [what |-> IF display THEN "row" ELSE "idle",
                          row |-> vc_base, text |-> fetched, line |-> row,
                          sprites |-> [s \in sprite_on |-> mc[s]]]

\* el_sprites: both collisions interrupt, in every line with sprites and whether there
\* has been a collision or not, until the register has been found different from 0
Collide(raster) ==
    IF Drawn(raster) /\ ~Border(raster) /\ sprite_on # {}
    THEN {"background", "sprite"} \ clx ELSE {}

\* Broken variant: an expanded sprite goes on in the wrong lines
GoesOnOutOfStep(s, raster) == s \notin mye \/ (raster - my[s]) % 2 = 1

\* A line of an expanded sprite is shown twice
GoesOn(s, raster) == s \notin mye \/ (raster - my[s]) % 2 = 0

\* el_update_mc, with the lower eight bits of the raster
UpdateMc(raster) ==
    LET Starts(s) == s \in me /\ my[s] = raster % HighLine IN
    /\ mc' = [s \in Sprites |->
                 IF Starts(s) THEN 0
                 ELSE IF mc[s] # SpriteLines /\ GoesOn(s, raster % HighLine) THEN mc[s] + 1
                 ELSE mc[s]]
    /\ sprite_on' = {s \in Sprites :
                        IF Starts(s) THEN TRUE
                        ELSE s \in sprite_on /\ (mc'[s] = mc[s] \/ mc'[s] # SpriteLines)}

\* The raster interrupt, and those of the collisions
Events(raster) == (IF raster = irq_raster THEN {"raster"} ELSE {}) \cup Collide(raster)

EmulateRaster(raster) ==
    /\ VicEvent(Events(raster))
    /\ bad_lines_enabled' = Enabled(raster)
    /\ IF Drawn(raster)
       THEN DrawLine(raster)
       ELSE shown' = Nothing
            /\ UNCHANGED <<display_state, border_on, rc, vc_base, matrix_line>>
    /\ \E found \in SUBSET Collisions :
          clx' = IF Collide(raster) # {} THEN clx \cup found ELSE clx
    /\ IF me \cup sprite_on # {} THEN UpdateMc(raster) ELSE UNCHANGED sprites
    /\ UNCHANGED <<regs, frames, prefs, steady, resumed, accesses>>

\* EmulateLine, but for the end of the screen, which is not found from a line beyond it
NextLine ==
    /\ pc = "chips" /\ turn = "vic" /\ raster_y # TOTAL_RASTERS - 1
    /\ raster_y' = (raster_y + 1) % RASTER_VALUES
    /\ EmulateRaster(raster_y + 1)
    /\ turn' = "others"

\* Broken variant: the rows are counted on in the next frame
VBlankKeepsCounting ==
    /\ pc = "chips" /\ turn = "vic" /\ raster_y = TOTAL_RASTERS - 1
    /\ raster_y' = 0 /\ lp_triggered' = FALSE
    /\ frame_skipped' = (skip_counter # 1)
    /\ skip_counter' = IF skip_counter = 1 THEN SkipFrames ELSE skip_counter - 1
    /\ steady' = IF steady = 0 \/ (~frame_skipped /\ steady = 1) THEN steady + 1 ELSE steady
    /\ turn' = "vblank" /\ resumed' = FALSE
    /\ UNCHANGED <<vars, regs, video, sprites, clx, prefs, shown, accesses>>

\* vblank: from here to the first line the machine may be paused
VBlank ==
    /\ pc = "chips" /\ turn = "vic" /\ raster_y = TOTAL_RASTERS - 1
    /\ raster_y' = 0 /\ vc_base' = 0 /\ lp_triggered' = FALSE
    /\ frame_skipped' = (skip_counter # 1)
    /\ skip_counter' = IF skip_counter = 1 THEN SkipFrames ELSE skip_counter - 1
    /\ steady' = IF steady = 0 \/ (~frame_skipped /\ steady = 1) THEN steady + 1 ELSE steady
    /\ turn' = "vblank" /\ resumed' = FALSE
    /\ UNCHANGED <<vars, regs, bad_lines_enabled, display_state, border_on, rc,
                   matrix_line, sprites, clx, prefs, shown, accesses>>

\* The rest of EmulateLine, with raster 0 whatever raster_y has become
FirstLine ==
    /\ pc = "chips" /\ turn = "vblank"
    /\ EmulateRaster(0)
    /\ turn' = "others"
    /\ UNCHANGED raster_y

\* The other chips, the CPU, and the instructions that matter
Others ==
    /\ turn = "others"
    /\ \/ EmulateLine \/ BeginLine \/ SetI \/ ClearI
       \/ \E flags \in Masks : AckVic(flags)
    /\ UNCHANGED <<vicChip, steady, resumed, accesses>>

LineEnds ==
    /\ EndLine
    /\ turn = "others" /\ turn' = "vic" /\ shown' = Nothing
    /\ UNCHANGED <<raster_y, regs, video, sprites, clx, frames, prefs, steady, resumed,
                   accesses>>

-----------------------------------------------------------------------------
(* Registers *)

\* Broken variant: the compare is looked at although it has not changed
CompareAgain(new) ==
    /\ irq_raster' = new
    /\ VicEvent(IF raster_y = new THEN {"raster"} ELSE {})

\* A new line to interrupt in may be the present one
Compare(new) ==
    /\ irq_raster' = new
    /\ VicEvent(IF irq_raster # new /\ raster_y = new THEN {"raster"} ELSE {})

\* 0x11
WriteControl(c) ==
    /\ Compare((irq_raster % HighLine) + (IF c.high THEN HighLine ELSE 0))
    /\ y_scroll' = c.y_scroll /\ den' = c.den /\ rows25' = c.rows25
    /\ steady' = 0
    /\ UNCHANGED <<me, mye, my, clx, lp_triggered>>

\* 0x12
WriteRaster(low) ==
    /\ Compare((IF irq_raster >= HighLine THEN HighLine ELSE 0) + low)
    /\ UNCHANGED <<ctrl1, me, mye, my, clx, lp_triggered, steady>>

\* 0x15, 0x17 and the vertical positions
WriteSprite(s) ==
    /\ \/ me' = {s} \cup me /\ UNCHANGED <<mye, my>>
       \/ me' = me \ {s} /\ UNCHANGED <<mye, my>>
       \/ mye' = {s} \cup mye /\ UNCHANGED <<me, my>>
       \/ mye' = mye \ {s} /\ UNCHANGED <<me, my>>
       \/ \E y \in Ys : my' = [my EXCEPT ![s] = y] /\ UNCHANGED <<me, mye>>
    /\ steady' = 0
    /\ UNCHANGED <<vars, irq_raster, ctrl1, clx, lp_triggered>>

\* 0x1a
WriteMask(mask) ==
    /\ MaskVic(mask)
    /\ UNCHANGED <<regs, clx, lp_triggered, steady>>

\* 0x1e and 0x1f
ReadCollisions(which) ==
    /\ clx' = clx \ {which}
    /\ UNCHANGED <<vars, regs, lp_triggered, steady>>

\* TriggerLightpen, when CIA 1 pulls its line: once in a frame
TriggerLightpen ==
    /\ ~lp_triggered /\ lp_triggered' = TRUE
    /\ VicEvent({"lightpen"})
    /\ UNCHANGED <<regs, clx, steady>>

Access ==
    /\ pc = "run" /\ accesses < MaxAccesses /\ accesses' = accesses + 1
    /\ \/ \E c \in Controls : WriteControl(c)
       \/ \E low \in LowLines : WriteRaster(low)
       \/ \E s \in Sprites : WriteSprite(s)
       \/ \E mask \in Masks : WriteMask(mask)
       \/ \E which \in {"background", "sprite"} : ReadCollisions(which)
       \/ TriggerLightpen
    /\ UNCHANGED <<raster_y, video, sprites, frame_skipped, skip_counter, prefs, shown, turn,
                   resumed>>

-----------------------------------------------------------------------------
(* The user *)

\* NewPrefs, and the speed switch in PollKeyboard
NewPrefs(borders, skip) ==
    /\ turn = "vblank" /\ accesses < MaxAccesses /\ accesses' = accesses + 1
    /\ BordersOn' = borders /\ SkipFrames' = skip
    /\ steady' = 0
    /\ UNCHANGED <<vars, raster_y, regs, video, sprites, clx, frames, shown, turn,
                   resumed>>

\* LoadSnapshot, which may have been saved in any line of its frame: bit 8 of the raster is taken from control register 1, where it is
\* that of the line to interrupt in
LoadVic(s) ==
    /\ turn = "vblank" /\ UNCHANGED accesses
    /\ LoadSnapshot(s)
    /\ raster_y' = (s.raster_y
                     + (IF s.irq_raster >= HighLine /\ (s.raster_y \div HighLine) % 2 = 0
                        THEN HighLine ELSE 0)) % RASTER_VALUES
    /\ irq_raster' = s.irq_raster
    /\ y_scroll' = s.y_scroll /\ den' = s.den /\ rows25' = s.rows25
    /\ bad_lines_enabled' = s.bad_lines_enabled
    /\ display_state' = s.display_state /\ border_on' = s.border_on
    /\ rc' = s.rc /\ vc_base' = s.vc_base
    /\ me' = s.me /\ mye' = s.mye /\ my' = s.my
    /\ mc' = s.mc /\ sprite_on' = s.sprite_on
    /\ clx' = s.clx /\ lp_triggered' = s.lp_triggered
    /\ frame_skipped' = s.frame_skipped
    /\ steady' = 0 /\ resumed' = (s.vc_base # 0)
    /\ UNCHANGED <<matrix_line, skip_counter, prefs, shown, turn>>

VicNext ==
    \/ NextLine \/ VBlank \/ FirstLine \/ Others \/ LineEnds \/ Access
    \/ \E borders \in BOOLEAN, skip \in Frequencies : NewPrefs(borders, skip)
    \/ \E s \in Saved : LoadVic(s)

VicSpec == VicInit /\ [][VicNext]_vicVars

-----------------------------------------------------------------------------
(* What a 6569 shows *)

FirstBadLine ==
    CHOOSE l \in FIRST_DMA_LINE .. FIRST_DMA_LINE + RowLines - 1 : l % RowLines = y_scroll

\* The line of the window with these registers, when they do not change
Picture(raster) ==
    LET line == raster - FirstBadLine IN
    CASE ~den \/ raster \notin dy_start .. dy_stop - 1 -> [what |-> "border"]
      [] den /\ raster \in dy_start .. dy_stop - 1 /\ line \in 0 .. Rows * RowLines - 1 ->
            [what |-> "row", row |-> line \div RowLines, text |-> line \div RowLines,
             line |-> line % RowLines]
      [] OTHER -> [what |-> "idle"]

\* The line of a sprite that is shown, counted from the line below the last one that
\* has its number, which repeats after 256 lines and in the next frame
SpriteLine(s, raster) ==
    LET begun == {l \in 0 .. TOTAL_RASTERS - 1 : l % HighLine = my[s]}
        since == {(raster + TOTAL_RASTERS - 1 - l) % TOTAL_RASTERS : l \in begun}
        lines == CHOOSE n \in since : \A m \in since : n <= m
    IN  IF s \in mye THEN lines \div 2 ELSE lines

-----------------------------------------------------------------------------
\* Registers that have been left alone since before the last drawn frame show what they
\* say, whatever was done with them earlier in this or another frame: rc, vc_base,
\* display_state, border_on and the fetched row are left over from one line, and from
\* one frame, to the next.  Without borders the lines above and below the window are
\* skipped, bad lines and the rows they begin included, so that it is only true of
\* the usual scroll value and a picture that is on.
PictureInOrder ==
    /\ shown # Nothing /\ steady = 2
    /\ BordersOn \/ (den /\ y_scroll = ROW25_YSTART % RowLines)
    => LET picture == Picture(raster_y) IN
       \A part \in DOMAIN picture : shown[part] = picture[part]

\* A sprite shows each of its lines once, or twice when it is expanded, in order from
\* the line below its position, although it is started and counted by the lower eight
\* bits of the raster, also in frames and lines that are not drawn.  Registers are left
\* alone since before the last drawn frame, because a sprite that has been moved may be
\* shown to its end over the end of the frame.
SpritesInOrder ==
    /\ shown.what \in {"row", "idle"} /\ steady = 2
    => /\ \A s \in DOMAIN shown.sprites : s \in me /\ shown.sprites[s] = SpriteLine(s, raster_y)
       /\ \A s \in me : SpriteLine(s, raster_y) < SpriteLines => s \in DOMAIN shown.sprites

\* However the program writes the registers, in whichever lines, and whatever is skipped,
\* a bad line never fetches more than one row beyond the last one of the video matrix.
\* Not so in a frame in which the rows of a snapshot go on: it may have been saved in
\* line 200, and resumes in line 456 when bit 8 of the line to interrupt in is set.  The
\* raster then counts to the end of its sixteen bits, and the rows of the next frame are
\* counted on from those of the snapshot, because there has been no vertical blank.
RowsFit == [][matrix_line' # matrix_line => resumed \/ matrix_line' <= Rows]_vicVars

\* The interrupt of the raster is raised exactly when line and register become equal: by
\* the next line, by the vertical blank, and by a write to either register.  (Not in the
\* first line after a snapshot with another raster than 0, which is emulated as line 0,
\* and not when the sixteen bits of the raster overflow, where the line has 17 bits.)
Equal == turn # "vblank" /\ raster_y = irq_raster
RasterEdge ==
    [][/\ turn = "vblank" => turn' # "vblank" /\ raster_y = 0
       /\ raster_y # RASTER_VALUES - 1
       =>
           /\ ~Equal /\ Equal' => "raster" \in vicFlag'
           /\ "raster" \in vicFlag' \ vicFlag => ~Equal /\ Equal']_vicVars
=============================================================================
