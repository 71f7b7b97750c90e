--------------------------- MODULE MCArtNetMotion ---------------------------
(* Small instances of ArtNetMotion: channel 1 off and at both ends, channel *)
(* 2 at both ends of one direction and at one value of the other.            *)
EXTENDS ArtNetMotion

AllEnables == {0, 1, 255}
TwoEnables == {0, 255}
AllDirections == {0, 1, 127, 128}
EachDirection == {0, 127, 128}
=============================================================================
