----------------------------- MODULE MCDspParser -----------------------------
(* Instances of DspParser for TLC.                                         *)
EXTENDS DspParser

\* Plain reports, one that ends its frame in 255, and header bytes at any place:
\* 255 is the high byte of every negative number.
SomePayloads == {<<1, 0>>, <<249, 0>>, <<7, 255>>, <<0, 255, 2>>,
                 <<255, 255>>, <<255, 254, 3>>}

\* No header bytes next to each other; the second ends its frame in 255.
HeaderFree == {<<1, 0>>, <<249, 0>>, <<0, 255, 2>>}

\* Lengths that no frame has, and one a little too long.
Noise == {0, 1, 6}
=============================================================================
