----------------------------- MODULE FlvFilter -----------------------------
(***************************************************************************)
(* CFLVMux of src/flv_filter.cpp: which streams the two input pins accept, *)
(* and what a streaming session does with the FLVWriter.                   *)
(*                                                                         *)
(* Pins connect and disconnect under lock_filter while the filter is       *)
(* stopped; the session callbacks and OnMuxPacket run under lock_mux, each *)
(* as one step.  BaseMux shows that OnMuxPacket comes only between         *)
(* OnStartStreaming and OnStopStreaming and Interleaver that the packets   *)
(* come in the order of their start times; both are assumed here.          *)
(***************************************************************************)
EXTENDS FlvWriter

CONSTANTS
  MediaTypes,  \* what upstream offers: major, sub, extra, supported
  Stamps,      \* the times of packets, in milliseconds
  Sizes,       \* the sizes of packets
  MaxPackets   \* bound on the packets of a session

ASSUME StampsAssumption == Stamps \subseteq Int
ASSUME SizesAssumption == Sizes \subseteq Nat
ASSUME MaxPacketsAssumption == MaxPackets \in Nat
ASSUME MediaTypesAssumption ==
  \A mt \in MediaTypes : /\ mt.major \in {"video", "audio", "other"}
                         /\ mt.extra \in Nat
                         /\ mt.sub = "H264" => mt.extra <= LargestSets
                         /\ mt.supported \in BOOLEAN

VARIABLES
  pinType,    \* the media type each pin is connected with, or NoType
  hasVideo,   \* has_video
  hasAudio,   \* has_audio
  outstream,  \* is the output pin connected to an IStream?
  active,     \* between OnStartStreaming and OnStopStreaming
  writer,     \* flv
  count,      \* packets of this session
  clock       \* start time of the last packet of this session

pinVars == <<pinType, hasVideo, hasAudio, outstream>>
sessionVars == <<active, writer, count, clock>>
vars == <<pinVars, sessionVars>>

(* CreatePin refuses a third pin, however often AddPin is called.          *)
Pins == {0, 1}

NoType == [major |-> "none", sub |-> NoCodec, extra |-> 0, supported |-> FALSE]

Connected(p) == pinType[p] # NoType

Packet == [start : Stamps, dts : Stamps, ex : BOOLEAN, size : Sizes]

Init ==
  /\ pinType = [p \in Pins |-> NoType]
  /\ hasVideo = FALSE
  /\ hasAudio = FALSE
  /\ outstream = FALSE
  /\ active = FALSE
  /\ writer = NewWriter
  /\ count = 0
  /\ clock = 0

-----------------------------------------------------------------------------
(* Pins.                                                                   *)

CheckInputType(mt) ==
  \/ mt.major = "video" /\ ~hasVideo /\ mt.sub \in VideoCodecs
  \/ mt.major = "audio" /\ ~hasAudio /\ mt.sub \in AudioCodecs

(* Faulty variant: the other pin is forgotten.                             *)
BreakInputConnectClears(p) ==
  /\ hasVideo' = FALSE
  /\ hasAudio' = FALSE

(* The flags are worked out again from the other pins.                     *)
BreakInputConnect(p) ==
  /\ hasVideo' = (\E q \in Pins \ {p} : pinType[q].major = "video")
  /\ hasAudio' = (\E q \in Pins \ {p} : pinType[q].major = "audio")

(* Refused by CheckInputType: the base class calls BreakConnect.           *)
ConnectRefused(p, mt) ==
  /\ ~active
  /\ ~Connected(p)
  /\ ~CheckInputType(mt)
  /\ BreakInputConnect(p)
  /\ UNCHANGED <<pinType, outstream, sessionVars>>

(***************************************************************************)
(* Accepted by CheckInputType, refused by SetInputType: audio that is not  *)
(* mono or stereo, or MP3 at a rate FLV does not have.  The flag is set by *)
(* then; BreakConnect takes it back.                                       *)
(***************************************************************************)
ConnectUnsupported(p, mt) ==
  /\ ~active
  /\ ~Connected(p)
  /\ CheckInputType(mt)
  /\ mt.major = "audio" /\ ~mt.supported
  /\ BreakInputConnect(p)
  /\ UNCHANGED <<pinType, outstream, sessionVars>>

(* SetInputType sets the flag; CompleteInputConnect finds no pin to add.   *)
Connect(p, mt) ==
  /\ ~active
  /\ ~Connected(p)
  /\ CheckInputType(mt)
  /\ mt.major = "video" \/ mt.supported
  /\ pinType' = [pinType EXCEPT ![p] = mt]
  /\ hasVideo' = (hasVideo \/ mt.major = "video")
  /\ hasAudio' = (hasAudio \/ mt.major = "audio")
  /\ UNCHANGED <<outstream, sessionVars>>

(* BreakConnect runs while the pin is still connected.                     *)
Disconnect(p) ==
  /\ ~active
  /\ Connected(p)
  /\ BreakInputConnect(p)
  /\ pinType' = [pinType EXCEPT ![p] = NoType]
  /\ UNCHANGED <<outstream, sessionVars>>

(* The output pin insists on an IStream, and lets go of it.                *)
CompleteOutputConnect ==
  /\ ~active
  /\ ~outstream
  /\ outstream' = TRUE
  /\ UNCHANGED <<pinType, hasVideo, hasAudio, sessionVars>>

BreakOutputConnect ==
  /\ ~active
  /\ outstream
  /\ outstream' = FALSE
  /\ UNCHANGED <<pinType, hasVideo, hasAudio, sessionVars>>

-----------------------------------------------------------------------------
(* Sessions.                                                               *)

ConfigPin(w, p) == IF Connected(p) THEN ConfigStream(w, pinType[p]) ELSE w

(* Without an output nothing is configured; the packets will be dropped.   *)
OnStartStreaming ==
  /\ ~active
  /\ \E p \in Pins : Connected(p)
  /\ active' = TRUE
  /\ writer' = IF outstream
                 THEN Start(ConfigPin(ConfigPin(Reset(writer), 0), 1))
                 ELSE writer
  /\ count' = 0
  /\ UNCHANGED <<pinVars, clock>>

(* The packets of a session come in the order of their start times.        *)
OnMuxPacket(p, packet) ==
  /\ active
  /\ Connected(p)
  /\ count < MaxPackets
  /\ count = 0 \/ clock <= packet.start
  /\ writer' = IF writer.io THEN WritePacket(writer, packet, pinType[p].major)
                            ELSE writer
  /\ count' = count + 1
  /\ clock' = packet.start
  /\ UNCHANGED <<pinVars, active>>

OnStopStreaming ==
  /\ active
  /\ active' = FALSE
  /\ writer' = IF writer.io THEN Reset(Stop(writer)) ELSE writer
  /\ UNCHANGED <<pinVars, count, clock>>

PinStep ==
  \/ \E p \in Pins, mt \in MediaTypes :
       ConnectRefused(p, mt) \/ ConnectUnsupported(p, mt) \/ Connect(p, mt)
  \/ \E p \in Pins : Disconnect(p)
  \/ CompleteOutputConnect
  \/ BreakOutputConnect

SessionStep ==
  \/ OnStartStreaming
  \/ \E p \in Pins, packet \in Packet : OnMuxPacket(p, packet)
  \/ OnStopStreaming

(* A read through NULL ends the process: nothing happens any more.         *)
Dead == writer.fault # "none" /\ UNCHANGED vars

Next == Dead \/ (writer.fault = "none" /\ (PinStep \/ SessionStep))

Spec == Init /\ [][Next]_vars

-----------------------------------------------------------------------------
(* What the filter can write.                                              *)
Writable(mt) ==
  \/ mt.major = "video" /\ mt.sub \in VideoCodecs
  \/ mt.major = "audio" /\ mt.sub \in AudioCodecs /\ mt.supported

(***************************************************************************)
(* has_video and has_audio say what is connected, after every sequence of  *)
(* connections, refused connections and disconnections; and so there are   *)
(* never two pins of the same kind.                                        *)
(***************************************************************************)
FlagsMatchPins ==
  /\ hasVideo <=> \E p \in Pins : pinType[p].major = "video"
  /\ hasAudio <=> \E p \in Pins : pinType[p].major = "audio"
  /\ pinType[0] # NoType => pinType[0].major # pinType[1].major

(***************************************************************************)
(* While a file is open the writer is configured for each connected pin    *)
(* with the codec and the extradata of this session, none left from an     *)
(* earlier one: every packet meets the tag header its codec needs.         *)
(***************************************************************************)
WriterKnowsPins ==
  writer.io =>
    \A p \in Pins :
      /\ pinType[p].major = "video" =>
           writer.video = pinType[p].sub /\ writer.videoExtra = pinType[p].extra
      /\ pinType[p].major = "audio" =>
           writer.audio = pinType[p].sub /\ writer.audioExtra = pinType[p].extra

BadAvcc == \E i \in DOMAIN writer.tags :
             writer.tags[i].kind = "videoHeader" /\ writer.tags[i].announced = 4

(***************************************************************************)
(* A player can walk the file both ways: every tag is as long as its       *)
(* header announces, and every PreviousTagSize, the last one included, is  *)
(* the size of the tag before it.  (Where the avcC record did not fit, see *)
(* SequenceHeaderWritten.)                                                 *)
(***************************************************************************)
Walkable ==
  LET tags == writer.tags
      size(i) == 11 + tags[i].written
  IN  ~BadAvcc =>
        /\ \A i \in DOMAIN tags :
             /\ tags[i].announced = tags[i].written
             /\ tags[i].prev = IF i = 1 THEN 0 ELSE size(i - 1)
        /\ writer.trailer # NoTrailer => writer.trailer = size(Len(tags))

IsMedia(tag) == tag.kind \in {"video", "audio"}

(* The bytes of the file as far as the tags and the trailer reach.         *)
FileBytes ==
  LET sum[i \in 0 .. Len(writer.tags)] ==
        IF i = 0 THEN 9 ELSE sum[i - 1] + 15 + writer.tags[i].written
  IN  sum[Len(writer.tags)] + 4

(***************************************************************************)
(* What onMetaData says when the session is over is true: the size of the  *)
(* file, and the time of its last tag; its second writing took exactly the *)
(* place of the first.                                                     *)
(***************************************************************************)
MetadataTrue ==
  LET tags == writer.tags
      n == Len(tags)
  IN  writer.trailer # NoTrailer =>
        /\ writer.meta.fileSize = FileBytes
        /\ writer.meta.duration = IF IsMedia(tags[n]) THEN tags[n].time ELSE 0

(***************************************************************************)
(* Time starts at zero and, for packets without extended times, never      *)
(* goes back, though the streams share one origin taken from whichever     *)
(* packet came first.                                                      *)
(***************************************************************************)
TagTimesSorted ==
  LET tags == writer.tags
  IN  \A i, j \in DOMAIN tags :
        /\ tags[i].time >= 0
        /\ (i < j /\ IsMedia(tags[i]) /\ IsMedia(tags[j])
              /\ ~tags[i].ex /\ ~tags[j].ex) => tags[i].time <= tags[j].time

(***************************************************************************)
(* AAC cannot be decoded before its sequence header: in a session with     *)
(* extradata the header comes before the first audio tag, exactly once.    *)
(***************************************************************************)
AudioHeaderFirst ==
  LET tags == writer.tags
      headers == {i \in DOMAIN tags : tags[i].kind = "audioHeader"}
  IN  (writer.io /\ writer.audio = "AAC" /\ writer.audioExtra > 0) =>
        \A j \in DOMAIN tags :
          IsMedia(tags[j]) => \E i \in headers : i < j /\ headers = {i}

(***************************************************************************)
(* What a player reads comes in an order it can play: times that do not go *)
(* back, headers before what needs them.                                   *)
(***************************************************************************)
TagsInOrder == TagTimesSorted /\ AudioHeaderFirst

(***************************************************************************)
(* "then we write extradata (only valid for H.264 and AAC)" (WritePacket): *)
(* an H.264 stream with extradata has its record in the file before its    *)
(* first frame.                                                            *)
(***************************************************************************)
SequenceHeaderWritten ==
  LET tags == writer.tags
  IN  (writer.io /\ writer.video = "H264" /\ writer.videoExtra > 0) =>
        \A j \in DOMAIN tags :
          tags[j].kind = "video" =>
            \E i \in 1 .. j - 1 : /\ tags[i].kind = "videoHeader"
                                  /\ tags[i].written > 5
=============================================================================
