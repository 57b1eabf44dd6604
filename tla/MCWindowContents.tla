---------------------------- MODULE MCWindowContents ----------------------------
(* A small instance of WindowContents for TLC. *)
EXTENDS WindowContents

\* A channel with a script, and one without whose header was refused.  The device
\* sends frames with longer headers too.
MCForms ==
    {[format |-> Format(<<170>>), script |-> "double"],
     [format |-> Invalid, script |-> NoScript]}

\* Two lines of a letter, drawn at y 8 .. 23 and 24 .. 39 right of x 6: in the first, right
\* of it, at its lower edge, in the second, left of where a line is looked for, and beside
\* the bubble.
MCPixels ==
    {[x |-> 7, y |-> 9], [x |-> 16, y |-> 9], [x |-> 7, y |-> 22], [x |-> 13, y |-> 25],
     [x |-> 1, y |-> 9], [x |-> 30, y |-> 0]}
=============================================================================
