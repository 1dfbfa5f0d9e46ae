------------------------- MODULE MCAgentLifecycle -------------------------
(* Small instances of AgentLifecycle: the agents with a part of their own and two *)
(* frame producers.                                                            *)
EXTENDS AgentLifecycle

\* The agents of GetDefaultAgents, and those the adapter adds to GetBasicAgents.
DefaultAttached == <<"SocketAgent", "SendingAgent", "FrameQueueAgent", "ClosingAgent">>
DefaultAdded == {"HandshakeAgent"}
AdapterAttached == <<"SocketAgent", "AckAgent", "FrameQueueAgent", "ClosingAgent">>
AdapterAdded == {"HandshakeAgent", "SendingAgent"}

Producers == <<"AckAgent", "FrameQueueAgent">>
OneProducer == <<"FrameQueueAgent">>
BusyAgents == {"SocketAgent", "AckAgent", "FrameQueueAgent"}
NoAgents == {}

EndingCalls == {"Stop", "Close"}
RacingCalls == {"StopAll", "CloseConnection"}
NoCalls == {}
=============================================================================
