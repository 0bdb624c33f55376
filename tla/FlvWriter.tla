----------------------------- MODULE FlvWriter -----------------------------
(***************************************************************************)
(* FLVWriter of src/flv_writer.cpp, as functions on the state of the       *)
(* writer: each method takes the writer w and returns what it leaves.      *)
(* CFLVMux calls them under lock_mux, so a call is one step of FlvFilter.  *)
(*                                                                         *)
(* The file the writer fills is part of its state: the tags in the order   *)
(* of their positions (the first is onMetaData), what onMetaData says, and *)
(* the last PreviousTagSize field.  Sizes are counted in bytes; of a tag   *)
(* we keep the size its header announces and the size of what was written  *)
(* after that header.  Whatever an earlier session left in the stream      *)
(* beyond the last byte written is not modelled, nor a write that fails.   *)
(***************************************************************************)
EXTENDS Integers, Sequences

VideoCodecs == {"FLV1", "FLV4", "H264"}
AudioCodecs == {"MP3", "AAC"}
NoCodec == "none"

NoTrailer == -1

(* DataSize of a tag is 24 bits wide.                                      *)
UI24(n) == n % 16777216

(***************************************************************************)
(* fault is what went wrong beyond repair: "nullRead" is the read of the   *)
(* data of a packet that has none, which ends the process.                 *)
(***************************************************************************)
NewWriter ==
  [video |-> NoCodec, audio |-> NoCodec, videoExtra |-> 0, audioExtra |-> 0,
   isFirst |-> TRUE, first |-> 0, last |-> 0, lastTag |-> 0, fileSize |-> 0,
   io |-> FALSE, pos |-> 0,
   tags |-> <<>>, meta |-> [duration |-> 0, fileSize |-> 0],
   trailer |-> NoTrailer, fault |-> "none"]

(* Faulty variant, to show that the run can fail: the codecs survive.      *)
ResetKeepsCodecs(w) ==
  [w EXCEPT !.isFirst = TRUE, !.first = 0, !.last = 0, !.lastTag = 0,
            !.fileSize = 0, !.io = FALSE]

(* Everything but the extradata, which ConfigStream reads again.           *)
Reset(w) ==
  [w EXCEPT !.video = NoCodec, !.audio = NoCodec, !.isFirst = TRUE,
            !.first = 0, !.last = 0, !.lastTag = 0, !.fileSize = 0,
            !.io = FALSE]

(***************************************************************************)
(* mt is the media type of a connected pin: its kind, its codec and the    *)
(* size of the extradata ExtraData::Read finds in it.  A codec the writer  *)
(* does not know, or a second stream of a kind, is refused.                *)
(***************************************************************************)
ConfigStream(w, mt) ==
  CASE mt.major = "video" /\ mt.sub \in VideoCodecs /\ w.video = NoCodec ->
         [w EXCEPT !.video = mt.sub, !.videoExtra = mt.extra]
    [] mt.major = "audio" /\ mt.sub \in AudioCodecs /\ w.audio = NoCodec ->
         [w EXCEPT !.audio = mt.sub, !.audioExtra = mt.extra]
    [] OTHER -> w

-----------------------------------------------------------------------------
(* Tags.                                                                   *)

(* A tag is preceded by the size of the tag before it: 4 + 11 bytes.       *)
Emit(w, kind, announced, written, time, ex) ==
  [w EXCEPT
     !.tags = Append(@, [kind |-> kind, prev |-> w.lastTag,
                         announced |-> UI24(announced), written |-> written,
                         time |-> time, ex |-> ex]),
     !.lastTag = announced + 11,
     !.pos = @ + 15 + written]

(* Faulty variant: no data rate is told of a video with no duration.       *)
MetaSizeByDuration(w) ==
  191 + (IF w.video = NoCodec THEN 0 ELSE IF w.last > 0 THEN 100 ELSE 76)
      + (IF w.audio # NoCodec THEN 85 ELSE 0)

(***************************************************************************)
(* The size of onMetaData: its name, the seven values every file has, what *)
(* is said of each stream.  It depends on which streams there are only.    *)
(***************************************************************************)
MetaSize(w) ==
  191 + (IF w.video # NoCodec THEN 100 ELSE 0)
      + (IF w.audio # NoCodec THEN 85 ELSE 0)

(* onMetaData is written where the stream stands: after the file header.   *)
WriteMetaData(w) ==
  LET tag == [kind |-> "meta", prev |-> 0, announced |-> UI24(MetaSize(w)),
              written |-> MetaSize(w), time |-> 0, ex |-> FALSE]
  IN  [w EXCEPT !.tags = IF @ = <<>> THEN <<tag>> ELSE [@ EXCEPT ![1] = tag],
                !.meta = [duration |-> w.last, fileSize |-> w.fileSize],
                !.lastTag = MetaSize(w) + 11,
                !.pos = 9 + 15 + MetaSize(w)]

(* A new file: header, onMetaData with no duration yet.                    *)
Start(w) ==
  LET v == WriteMetaData([w EXCEPT !.io = TRUE, !.fileSize = 0, !.tags = <<>>,
                                   !.trailer = NoTrailer])
  IN  [v EXCEPT !.fileSize = v.pos]

(* The last tag gets its size, and onMetaData is written again in place.   *)
Stop(w) ==
  WriteMetaData([w EXCEPT !.trailer = w.lastTag, !.fileSize = w.pos + 4])

(***************************************************************************)
(* The avcC record is seven bytes longer than the parameter sets it is     *)
(* made from and goes to a buffer of 100.  When it does not fit, MakeAVCc  *)
(* returns -1, which is taken for the size: the tag announces 5 - 1 bytes, *)
(* its five bytes of header are written, and the write of the record is    *)
(* asked for (ULONG)-1 bytes; we let the stream refuse it.                 *)
(*                                                                         *)
(* The lengths of the two sets are put together from signed chars: the     *)
(* length of a set whose low byte is 128 or more comes out negative, and   *)
(* MakeAVCc reads and copies from before its data, which may do anything.  *)
(* MediaTypesAssumption of FlvFilter leaves such extradata out.            *)
(***************************************************************************)
LargestSets == (2 + 127) + (2 + 127)

AvccFits(n) == n + 7 <= 100

MakeAVCc(n) == IF AvccFits(n) THEN n + 7 ELSE -1

WriteExtradataVideo(w) ==
  IF w.videoExtra <= 0 \/ w.video # "H264" THEN w
  ELSE LET n == MakeAVCc(w.videoExtra)
       IN  Emit(w, "videoHeader", 5 + n, IF n < 0 THEN 5 ELSE 5 + n, 0, FALSE)

WriteExtradataAudio(w) ==
  IF w.audioExtra <= 0 \/ w.audio # "AAC" THEN w
  ELSE Emit(w, "audioHeader", 2 + w.audioExtra, 2 + w.audioExtra, 0, FALSE)

(* What the tag size counts besides the packet ...                         *)
Counted(codec) ==
  CASE codec = "H264" -> 5 [] codec \in {"FLV4", "AAC"} -> 2 [] OTHER -> 1

(* Faulty variant: the second byte of the FLV4 header is forgotten.        *)
HeaderWrittenShort(kind, codec) ==
  CASE codec = "FLV4" -> 1
    [] kind = "audio" /\ codec = NoCodec -> 0
    [] OTHER -> Counted(codec)

(* ... and what is written: nothing for audio of no known codec.           *)
HeaderWritten(kind, codec) ==
  IF kind = "audio" /\ codec = NoCodec THEN 0 ELSE Counted(codec)

(* Faulty variant: every packet is taken for the first.                    *)
FirstPacketAlways(w, stamp) ==
  WriteExtradataAudio(WriteExtradataVideo([w EXCEPT !.first = stamp]))

(* The first packet sets the origin of time and brings the extradata.      *)
FirstPacket(w, stamp) ==
  IF w.isFirst
    THEN WriteExtradataAudio(WriteExtradataVideo(
           [w EXCEPT !.isFirst = FALSE, !.first = stamp]))
    ELSE w

(* Faulty variant: packets from before the origin are written too.         *)
WritePacketAnyTime(w, p, major) ==
  LET stamp == IF p.ex THEN p.dts ELSE p.start
      v == FirstPacket(w, stamp)
  IN  [Emit(v, major, p.size, p.size, stamp - v.first, p.ex) EXCEPT
         !.last = stamp - v.first]

(***************************************************************************)
(* p is the packet: its size, its start time and, when the sample carried  *)
(* extended times, its decoding time, in milliseconds.  A packet from      *)
(* before the origin is dropped.  A video packet with no data is read all  *)
(* the same, after its tag header has been written.                        *)
(***************************************************************************)
WritePacket(w, p, major) ==
  LET stamp == IF p.ex THEN p.dts ELSE p.start
      codec == IF major = "video" THEN w.video ELSE w.audio
      v == FirstPacket(w, stamp)
      t == stamp - v.first
      announced == p.size + Counted(codec)
      done == Emit(v, major, announced, p.size + HeaderWritten(major, codec),
                   t, p.ex)
  IN  CASE ~w.io \/ major \notin {"video", "audio"} -> w
        [] w.io /\ major \in {"video", "audio"} /\ t < 0 -> v
        [] w.io /\ t >= 0 /\ major = "video" /\ p.size = 0 ->
             [v EXCEPT !.last = t, !.fault = "nullRead"]
        [] OTHER -> [done EXCEPT !.last = t, !.fileSize = done.pos]
=============================================================================
