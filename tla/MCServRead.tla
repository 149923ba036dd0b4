---------------------------- MODULE MCServRead ----------------------------
(* Instances of ServRead for TLC.                                            *)
EXTENDS ServRead

AllLens == {0, 1, 2, ChunkedBody}
PlainLens == {0, 1, 2}
=============================================================================
