------------------------- MODULE TransportParameters -------------------------
(***************************************************************************)
(* The blob of transport parameters (transport_parameters.go): each one is *)
(* a type, a length and a value.  A set of parameters has the integers by  *)
(* type, the byte strings by type, the one flag, and the list of those     *)
(* whose type is not known.                                                *)
(***************************************************************************)
EXTENDS VarInts

\* IdleTimeout, MaxUDPPacketSize, InitialMaxData, the three InitialMaxStreamData, the two
\* InitialMaxStreams, AckDelayExponent, MaxAckDelay, ActiveConnectionIdLimit
IntegerTypes == {1, 3, 4, 5, 6, 7, 8, 9, 10, 11, 14}
\* OriginalDestinationConnectionId, StatelessResetToken, PreferredAddress,
\* InitialSourceConnectionId, RetrySourceConnectionId
BytesTypes == {0, 2, 13, 15, 16}

NoParameters ==
    [ints |-> [t \in IntegerTypes |-> 0], bytes |-> [t \in BytesTypes |-> <<>>],
     DisableMigration |-> FALSE, AdditionalParameters |-> <<>>]

\* NewTLSTransportParameterHandler
DefaultParameters(scid) ==
    [NoParameters EXCEPT
        !.ints = [t \in IntegerTypes |->
                     CASE t \in {5, 7} -> 16384 [] t = 4 -> 32768 [] t = 8 -> 1 [] t = 9 -> 3
                       [] t = 1 -> 172800000 [] t = 10 -> 3 [] t = 11 -> 10000 [] t = 14 -> 4
                       [] OTHER -> 0],
        !.bytes[15] = scid]

\* What is announced, in this order: the limits but InitialMaxStreamDataBidiRemote, the
\* timeout, two that have a default, and the connection ID.
Announced(p) ==
    LET Integer(t) == [ParameterType |-> t, Value |-> EncodeVarInt(p.ints[t])]
    IN  <<Integer(5), Integer(7), Integer(4), Integer(8), Integer(9), Integer(1)>>
          \o (IF p.ints[14] > 1 THEN <<Integer(14)>> ELSE <<>>)
          \o (IF p.ints[3] > 0 THEN <<Integer(3)>> ELSE <<>>)
          \o <<[ParameterType |-> 15, Value |-> p.bytes[15]]>>
          \o p.AdditionalParameters

GetExtensionData(p) ==
    LET parameters == Announced(p)
    IN  FlattenSeq([i \in DOMAIN parameters |->
            EncodeVarInts(<<parameters[i].ParameterType, Len(parameters[i].Value)>>)
                \o parameters[i].Value])

\* One parameter of the given type and value, read into p.
WithParameter(p, type, data) ==
    IF type \in IntegerTypes THEN [p EXCEPT !.ints[type] = ReadVarIntValue(data).Value]
    ELSE IF type \in BytesTypes THEN [p EXCEPT !.bytes[type] = data]
    ELSE IF type = 12 THEN [p EXCEPT !.DisableMigration = TRUE]
    ELSE [p EXCEPT !.AdditionalParameters = Append(@, [ParameterType |-> type, Value |-> data])]

\* What is left, b, does not hold the value: nRead # pLen
ValueCut(b, length) == Len(b) < length

\* The first error ends the reading, and ReceivedParameters is not set.
RECURSIVE ReceiveExtensionData(_, _)
ReceiveExtensionData(p, b) ==
    LET type  == ReadVarIntValue(b)
        len   == ReadVarIntValue(type.rest)
        value == ReadBytes(len.rest, len.Value)
        error == type.err \/ len.err \/ ValueCut(len.rest, len.Value)
                   \/ (type.Value \in IntegerTypes /\ ReadVarIntValue(value.data).err)
    IN  IF b = <<>> THEN [err |-> FALSE, ReceivedParameters |-> p]
        ELSE IF error THEN [err |-> TRUE, ReceivedParameters |-> NoParameters]
        ELSE ReceiveExtensionData(WithParameter(p, type.Value, value.data), value.rest)
=============================================================================
