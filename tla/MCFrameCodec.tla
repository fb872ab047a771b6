---------------------------- MODULE MCFrameCodec ----------------------------
(* The lengths on both sides of every boundary of the two headers.         *)
EXTENDS FrameCodec

MCLengths == {0, 1, 125, 126, 127, 128, 255, 256, 65535, 65536, 65537,
              1048575, 1048576, 1048577, 16777215, 16777216, 16777217}
=============================================================================
