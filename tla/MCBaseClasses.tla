--------------------------- MODULE MCBaseClasses ---------------------------
(***************************************************************************)
(* The parts of the base classes that do not interact in the muxer, and    *)
(* the values of its metadata, checked side by side: in each behaviour one *)
(* of them runs (part) and the others stay as they started.                *)
(***************************************************************************)
EXTENDS DynamicPin, PinConnection, SampleEnumerators, SourceStream, PullPin, TransformFilters, CommandQueue,
        AmfObjects, LinkedList

VARIABLE part

MCPositions == {<<0, 5>>, <<3, 5>>, <<4, 3>>, <<0, 2>>}

\* Every part starts in one of its initial states and the others in one that is fixed.
MCInit ==
    /\ part \in {"dynamic", "connection", "sample", "enum", "source", "pull", "transform", "video", "inplace",
                 "commands", "amf", "lists"}
    /\ DynInit /\ SampleInit /\ SourceInit /\ PullInit /\ XformInit /\ VtInit /\ TipInit /\ QueueInit /\ ListInit
    /\ IF part = "connection" THEN ConnInit
       ELSE g = Unplugged /\ graph = "rest" /\ offer = [out |-> {}, in |-> {}, partial |-> {}, mineFirst |-> TRUE]
            /\ receiving = "none" /\ flush = FALSE /\ outlived = {}
    /\ EnumInit /\ (part # "enum" => listing.items = <<>>)
    /\ AmfInit /\ (part # "amf" => doc.type = Object)
    /\ (part # "transform" => class = "video") /\ (part # "pull" => pull.sync) /\ (part # "inplace" => modifies)

pinvars == <<dvars, nvars, mvars, evars>>
streamvars == <<srcvars, pullvars, xvars, vtvars, tipvars>>
toolvars == <<qvars, doc, lvars>>

MCDynamic == part = "dynamic" /\ DynNext /\ UNCHANGED <<part, nvars, mvars, evars, streamvars, toolvars>>
MCConnection == part = "connection" /\ ConnNext /\ UNCHANGED <<part, dvars, mvars, evars, streamvars, toolvars>>
MCSample == part = "sample" /\ SampleNext /\ UNCHANGED <<part, dvars, nvars, evars, streamvars, toolvars>>
MCEnum == part = "enum" /\ EnumNext /\ UNCHANGED <<part, dvars, nvars, mvars, streamvars, toolvars>>
MCSource == part = "source" /\ SourceNext /\ UNCHANGED <<part, pinvars, pullvars, xvars, vtvars, tipvars, toolvars>>
MCPull == part = "pull" /\ PullNext /\ UNCHANGED <<part, pinvars, srcvars, xvars, vtvars, tipvars, toolvars>>
MCXform == part = "transform" /\ XformNext /\ UNCHANGED <<part, pinvars, srcvars, pullvars, vtvars, tipvars, toolvars>>
MCVideo == part = "video" /\ VtNext /\ UNCHANGED <<part, pinvars, srcvars, pullvars, xvars, tipvars, toolvars>>
MCTip == part = "inplace" /\ TipNext /\ UNCHANGED <<part, pinvars, srcvars, pullvars, xvars, vtvars, toolvars>>
MCCommands == part = "commands" /\ QueueNext /\ UNCHANGED <<part, pinvars, streamvars, doc, lvars>>
MCAmf == part = "amf" /\ AmfNext /\ UNCHANGED <<part, pinvars, streamvars, qvars, lvars>>
MCLists == part = "lists" /\ ListNext /\ UNCHANGED <<part, pinvars, streamvars, qvars, doc>>

MCNext == MCDynamic \/ MCConnection \/ MCSample \/ MCEnum \/ MCSource \/ MCPull \/ MCXform \/ MCVideo \/ MCTip
          \/ MCCommands \/ MCAmf \/ MCLists

MCSpec == MCInit /\ [][MCNext]_<<part, pinvars, streamvars, toolvars>>

\* What the parts promise, each looked at where it runs; transforms, deferred commands, samples and enumerators stay
\* safe where they do not run (TransformsSafe, CommandsSafe, SamplesSafe).

\* Sizes, bytes and reading of the AMF values agree (AmfSafe).
ValuesSafe == part = "amf" => AmfSafe
=============================================================================
