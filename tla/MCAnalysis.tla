----------------------------- MODULE MCAnalysis -----------------------------
(***************************************************************************)
(* Instances of Analysis for TLC.                                          *)
(***************************************************************************)
EXTENDS Analysis, TLC

CONSTANTS poster, edit, film, clip, grab, data, extract, x, y, z

Blank(m) ==
    [picture |-> Nothing, frames |-> <<>>, sound |-> <<>>, blocks |-> <<m>>]

(* The coefficients of bits 1 to 5; bit 0 is the mean.                     *)
Coeffs(rest) == [b \in Bit |-> IF b = Mean THEN 9 ELSE rest[b]]

Still(coeffs, row, e) ==
    [coeffs |-> Coeffs(coeffs), pixels |-> <<row, <<3, 2, 1, 0>>>>,
     embedding |-> e]

(* The last frame, and the last window of the sound, are beyond what is    *)
(* sampled.                                                                *)
Frames == <<Coeffs(<<5, 4, 1, 1, 0>>), Coeffs(<<1, 5, 4, 0, 1>>),
            Coeffs(<<0, 1, 5, 1, 4>>), Coeffs(<<4, 0, 1, 5, 1>>),
            Coeffs(<<2, 2, 2, 2, 2>>)>>
Sound == <<<<0, 0, 0>>, <<1, 0, 0>>, <<1, 0, 0>>, <<3, 1, 0>>,
           <<4, 2, 0>>, <<4, 2, 0>>, <<4, 3, 0>>, <<0, 0, 0>>>>

(* A poster and an edited copy of it; a film with a clip of its end and a  *)
(* grabbed frame; data and an extract of it.                               *)
MCRaw == [m \in Media |->
    CASE m = poster ->
            [Blank(m) EXCEPT
                !.picture = Still(<<5, 4, 1, 1, 0>>, <<1, 2, 1, 2>>, "bright")]
      [] m = edit ->
            [Blank(m) EXCEPT
                !.picture = Still(<<5, 1, 4, 1, 0>>, <<2, 4, 3, 5>>, "dim")]
      [] m = grab ->
            [Blank(m) EXCEPT
                !.picture = Still(<<0, 1, 5, 1, 4>>, <<4, 3, 3, 5>>, "dim")]
      [] m = film ->
            [Blank(m) EXCEPT !.frames = Frames, !.sound = Sound]
      [] m = clip ->
            [Blank(m) EXCEPT !.frames = SubSeq(Frames, 3, 4),
                             !.sound = SubSeq(Sound, 5, 7)]
      [] m = data -> [Blank(m) EXCEPT !.blocks = <<x, y, z, x>>]
      [] m = extract -> [Blank(m) EXCEPT !.blocks = <<y, z, x>>]]

MCCosine == [e \in {"bright", "dim"} |-> [f \in {"bright", "dim"} |->
                IF e = f THEN 100 ELSE 85]]

Symmetry == Permutations(Thread)
=============================================================================
