--------------------------- MODULE MCSifivePLIC ---------------------------
(* An instance of SifivePLIC for TLC: two lines, in different words, driven *)
(* by the hart and by the serial input thread.                              *)
EXTENDS SifivePLIC

TwoWords == {1, 4}
BothModes == {"M", "S"}
HartAndSerial == {"hart", "serial"}
=============================================================================
