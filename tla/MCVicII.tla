------------------------------ MODULE MCVicII ------------------------------
(* An instance for TLC: a screen of two rows with four lines each. *)
EXTENDS VicII

VicSources == {"raster", "background", "sprite", "lightpen"}

Control(scroll, on, full, bit8) ==
    [y_scroll |-> scroll, den |-> on, rows25 |-> full, high |-> bit8]

\* The usual values, those that scroll, with fewer rows, with bit 8, and off
MCControls ==
    {Control(1, TRUE, TRUE, FALSE), Control(0, TRUE, TRUE, FALSE),
     Control(3, TRUE, FALSE, FALSE), Control(2, TRUE, TRUE, TRUE),
     Control(1, FALSE, TRUE, FALSE)}

\* A program with the screen on and a sprite, saved in the vertical blank, and in the
\* second row with bit 8 of the line to interrupt in
MCSaved ==
    LET blank ==
            [vicFlag |-> {}, vicMaster |-> FALSE, vicMask |-> {"raster"},
             icr |-> [c \in {1, 2} |-> {}], ir |-> [c \in {1, 2} |-> FALSE],
             int_mask |-> [c \in {1, 2} |-> {}],
             intr |-> {}, nmi_state |-> FALSE, i_flag |-> TRUE, ignored |-> {},
             raster_y |-> 0, irq_raster |-> 6, y_scroll |-> 1, den |-> TRUE, rows25 |-> TRUE,
             bad_lines_enabled |-> TRUE, display_state |-> FALSE, border_on |-> FALSE,
             rc |-> 3, vc_base |-> 0, me |-> {"s"}, mye |-> {}, my |-> [s \in {"s"} |-> 6],
             mc |-> [s \in {"s"} |-> 2], sprite_on |-> {}, clx |-> {},
             lp_triggered |-> FALSE, frame_skipped |-> FALSE]
    IN  {blank,
         [blank EXCEPT !.raster_y = 9, !.irq_raster = 16, !.display_state = TRUE,
                       !.rc = 0, !.vc_base = 1, !.lp_triggered = TRUE]}

MCMasks == {{"raster"}, {"background", "lightpen"}}
=============================================================================
