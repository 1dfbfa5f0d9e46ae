------------------------------- MODULE MCHttp -------------------------------
EXTENDS Http

Ids == {0, 2, 3, 6, 10}
NoStreams == [s \in PeerStreams |-> <<>>]
NoCuts == [s \in PeerStreams |-> {}]

Base == [protocol |-> "h3", asks |-> TRUE, response |-> <<>>, streams |-> NoStreams, control |-> <<>>, cuts |-> NoCuts,
         finAlone |-> FALSE, reads |-> FALSE, stops |-> FALSE, DisableQPACKStreams |-> TRUE,
         requests |-> <<>>, disable |-> FALSE, spaces |-> {20}]

Bytes(frames) == FlattenSeq([i \in DOMAIN frames |-> WriteTo(frames[i])])
Base3(frames) == [Base EXCEPT !.response = frames, !.streams = [NoStreams EXCEPT ![0] = Bytes(frames)]]

Headers == NewHEADERS(<<5>>)
Data == NewDATA(<<7, 8>>)
Other == [OpaquePayload |-> <<1>>] @@ Frame("Unknown", 1)

\* The response, its cuts, and whether the caller reads it or stops the agent.
Responses ==
    {[Base3(r) EXCEPT !.cuts = [NoCuts EXCEPT ![0] = c], !.reads = reads, !.stops = stops] :
        r \in {<<Headers, Data>>, <<Headers, Data, Other, Data, Headers>>},
        c \in {{}, {4}}, reads \in BOOLEAN, stops \in BOOLEAN}
    \union {Base3(<<Headers, Data, Other>>),
            [Base3(<<Headers, Data>>) EXCEPT !.finAlone = TRUE]}

Setting(id, value) == [Identifier |-> id, Value |-> value]
\* As the server counts the length of SETTINGS.
Settings == [NewSETTINGS(<<Setting(1, 100), Setting(7, 2)>>) EXCEPT !.Length = 5]
ControlFrames == {<<Settings, NewGOAWAY(64), NewPUSH_PROMISE(1, <<5>>), Settings>>,
                  <<NewPRIORITY(1, 2, TRUE, 3, 70, 9), NewMAX_PUSH_ID(5), NewCANCEL_PUSH(2), Other>>}

\* The control stream, cut in the type, in a header and in a payload.
Controls ==
    {[Base EXCEPT !.asks = FALSE, !.control = f, !.streams = [NoStreams EXCEPT ![3] = <<0>> \o Bytes(f)],
                  !.cuts = [NoCuts EXCEPT ![3] = c]] : f \in ControlFrames, c \in {{1, 2, 9}, {3, 6, 7}}}

\* The encoder is initialised by SETTINGS, and may use the dynamic table.
Encoding == {[Base3(<<Data>>) EXCEPT !.DisableQPACKStreams = FALSE, !.disable = TRUE, !.control = <<Settings>>,
                          !.streams[3] = <<0>> \o Bytes(<<Settings>>)]}

\* Headers that wait for the encoder stream, with and without a decoder stream.
Decoding ==
    {[Base3(r) EXCEPT !.streams[7] = <<2, 70, 71>>,
                  !.cuts = [NoCuts EXCEPT ![7] = {1, 2}], !.disable = TRUE] :
        r \in {<<NewHEADERS(<<100>>), Data, Headers>>, <<NewHEADERS(<<100>>)>>}}
    \union
    {[Base3(<<NewHEADERS(<<100>>), Data>>) EXCEPT !.disable = TRUE, !.streams[7] = <<2, 70>>, !.streams[11] = <<3, 99>>,
                  !.cuts = [NoCuts EXCEPT ![11] = c]] : c \in {{}, {1}}}

Old == {[Base EXCEPT !.protocol = "hq", !.response = <<7, 8, 9>>, !.streams[0] = <<7, 8, 9>>, !.cuts = [NoCuts EXCEPT ![0] = c],
                     !.disable = disable] : c \in {{}, {1, 2}}, disable \in BOOLEAN}

\* Streams written directly, in packets with room for everything or for a part.
Writes ==
    {[Base EXCEPT !.protocol = "none", !.requests = r, !.disable = disable, !.spaces = {5, 20}] :
        r \in {<<Send(0, <<1, 2>>, FALSE), Send(0, <<3>>, TRUE), Send(2, <<4, 5, 6, 7>>, TRUE), Close(0), Send(0, <<9>>, TRUE)>>,
               <<Send(0, <<1, 2>>, FALSE), Close(0), Send(2, <<4>>, FALSE), Close(0), Reset(2), Send(2, <<5>>, TRUE)>>,
               <<StopSending(3), Close(3), Reset(3), StopSending(3), StopSending(2), StopSending(0), Reset(0), Close(0)>>,
               <<Send(0, <<1, 2, 3>>, FALSE), Close(0), Send(0, <<4, 5>>, TRUE), Reset(0)>>},
        disable \in BOOLEAN}

All == Responses \union Controls \union Encoding \union Decoding \union Old \union Writes
=============================================================================
