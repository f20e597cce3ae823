-------------------------------- MODULE Live --------------------------------
(***************************************************************************)
(* A remuxer thread with its muxer and its viewers: what FragmentedMp4     *)
(* writes is what Fanout sends.  Every fragment is two chunks, metadata    *)
(* and payload; the muxer goes on when the last one is sent.               *)
(***************************************************************************)
EXTENDS FragmentedMp4, Fanout

vars == <<mp4Vars, fanVars>>

\* The chunks write_fragment was or will be called with.
Offered == IF written = <<>> THEN 0 ELSE 2 * Len(written) - 1

TypeOK == Mp4TypeOK /\ FanTypeOK

Init == Mp4Init /\ FanInit

MuxerStep(t) == AddTrack(t) \/ Receive(t) \/ WriteSample(t) \/ FlushTrack(t)

WriterStep == LockToWrite \/ KeepInit \/ SendChunk

Next ==
    \/ /\ sent = Offered
       /\ (\E t \in Tracks : MuxerStep(t)) \/ EndInput
       /\ UNCHANGED fanVars
    \/ sent < Offered /\ WriterStep /\ UNCHANGED mp4Vars
    \/ \E c \in Viewers : (ViewerStep(c) \/ Leave(c)) /\ UNCHANGED mp4Vars

Spec == Init /\ [][Next]_vars
=============================================================================
