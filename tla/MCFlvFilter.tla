---------------------------- MODULE MCFlvFilter ----------------------------
(* FlvFilter with a few media types, for TLC.                              *)
EXTENDS FlvFilter

Type(major, sub, extra, supported) ==
  [major |-> major, sub |-> sub, extra |-> extra, supported |-> supported]

(* H.264 with no extradata, with some, and with 94 bytes: one too many.    *)
MCMediaTypes ==
  {Type("video", "FLV4", 0, TRUE), Type("video", "H264", 0, TRUE),
   Type("video", "H264", 93, TRUE), Type("video", "H264", 94, TRUE),
   Type("audio", "MP3", 0, TRUE), Type("audio", "MP3", 0, FALSE),
   Type("audio", "AAC", 2, TRUE), Type("audio", "PCM", 0, TRUE),
   Type("other", "none", 0, TRUE)}

MCStamps == {1, 2}
MCSizes == {0, 7}
=============================================================================
