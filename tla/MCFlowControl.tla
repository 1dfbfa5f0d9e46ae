--------------------------- MODULE MCFlowControl ---------------------------
(* Small instances of FlowControl. *)
EXTENDS FlowControl

\* Streams: the first request and a unidirectional stream of the client, which the
\* peer does not allow at first.
Client == {0, 2}

FewLimits == {0, 1, 2}

Small == [StreamsBidi |-> 1, StreamsUni |-> 1, MaxData |-> 2, MaxStreamDataBidiLocal |-> 1,
          MaxStreamDataBidiRemote |-> 2, MaxStreamDataUni |-> 1]
Peer == [StreamsBidi |-> 1, StreamsUni |-> 0, MaxData |-> 2, MaxStreamDataBidiLocal |-> 2,
         MaxStreamDataBidiRemote |-> 1, MaxStreamDataUni |-> 1]

\* As GetDefaultAgents leaves it, where nobody uses SendFromQueue, and as the
\* adapter sets it.  The adapter asks for MAX_STREAM_DATA only; the agent serves
\* any FrameRequest.
Default == [DontSlideCreditWindow |-> FALSE, DisableFrameSending |-> FALSE, Requests |-> {}]
Adapter == [DontSlideCreditWindow |-> TRUE, DisableFrameSending |-> TRUE,
            Requests |-> [FrameType : {"MAX_DATA", "MAX_STREAM_DATA"}, EncryptionLevel : {"1RTT"}]
                         \cup {[FrameType |-> "DATA_BLOCKED", EncryptionLevel |-> "1RTT"]}]
DefaultAndAdapter == {Default, Adapter}

Roomy == {20}
=============================================================================
