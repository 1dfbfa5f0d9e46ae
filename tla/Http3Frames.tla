---------------------------- MODULE Http3Frames ----------------------------
(***************************************************************************)
(* The wire format of the HTTP/3 frames (http3/http3.go).  A frame is a    *)
(* record of its fields; Length is the one of its header, as the           *)
(* constructor computes it.  The readers ignore errors: a buffer that ends *)
(* early leaves zeros.                                                     *)
(***************************************************************************)
EXTENDS VarInts, TLC

TypeNumber == [DATA |-> 0, HEADERS |-> 1, PRIORITY |-> 2, CANCEL_PUSH |-> 3, SETTINGS |-> 4,
               PUSH_PROMISE |-> 5, GOAWAY |-> 7, MAX_PUSH_ID |-> 13, Unknown |-> 33]

Frame(type, length) == [type |-> type, Length |-> length]

NewDATA(payload) == [Payload |-> payload] @@ Frame("DATA", Len(payload))
NewHEADERS(headerBlock) == [HeaderBlock |-> headerBlock] @@ Frame("HEADERS", Len(headerBlock))
NewPRIORITY(prioritizedType, dependencyType, exclusive, prioritizedElementID, elementDependencyID, weight) ==
    [PrioritizedType |-> prioritizedType, DependencyType |-> dependencyType, Empty |-> 0, Exclusive |-> exclusive,
     PrioritizedElementID |-> prioritizedElementID, ElementDependencyID |-> elementDependencyID, Weight |-> weight]
    @@ Frame("PRIORITY", 1 + VarIntLens(<<prioritizedElementID, elementDependencyID>>) + 1)
NewCANCEL_PUSH(pushID) == [PushID |-> pushID] @@ Frame("CANCEL_PUSH", VarIntLen(pushID))
\* Two bytes are counted for each identifier, which takes one.
NewSETTINGS(settings) ==
    [Settings |-> settings] @@ Frame("SETTINGS", FoldLeft(LAMBDA n, s : n + VarIntLen(s.Value) + 2, 0, settings))
NewPUSH_PROMISE(pushID, headerBlock) ==
    [PushID |-> pushID, HeaderBlock |-> headerBlock] @@ Frame("PUSH_PROMISE", VarIntLen(pushID) + Len(headerBlock))
NewGOAWAY(streamID) == [StreamID |-> streamID] @@ Frame("GOAWAY", VarIntLen(streamID))
NewMAX_PUSH_ID(pushID) == [PushID |-> pushID] @@ Frame("MAX_PUSH_ID", VarIntLen(pushID))

WireLength(f) == VarIntLens(<<TypeNumber[f.type], f.Length>>) + f.Length

-----------------------------------------------------------------------------
PriorityByte(f) == (64 * f.PrioritizedType + 16 * f.DependencyType + 2 * f.Empty + (IF f.Exclusive THEN 1 ELSE 0)) % 256

Contents(f) ==
    CASE f.type = "DATA"         -> f.Payload
      [] f.type = "HEADERS"      -> f.HeaderBlock
      [] f.type = "PRIORITY"     -> <<PriorityByte(f)>> \o EncodeVarInts(<<f.PrioritizedElementID, f.ElementDependencyID>>)
                                      \o <<f.Weight>>
      [] f.type \in {"CANCEL_PUSH", "MAX_PUSH_ID"} -> EncodeVarInt(f.PushID)
      [] f.type = "SETTINGS"     -> FlattenSeq([i \in DOMAIN f.Settings |->
                                       EncodeVarInts(<<f.Settings[i].Identifier, f.Settings[i].Value>>)])
      [] f.type = "PUSH_PROMISE" -> EncodeVarInt(f.PushID) \o f.HeaderBlock
      [] f.type = "GOAWAY"       -> EncodeVarInt(f.StreamID)
      [] OTHER                   -> f.OpaquePayload

WriteTo(f) == EncodeVarInts(<<TypeNumber[f.type], f.Length>>) \o Contents(f)

-----------------------------------------------------------------------------
(* The readers; h is the header and b the buffer after it.                 *)

ReadDATA(h, b) == [Payload |-> ReadBytes(b, h.Length).data] @@ h
ReadHEADERS(h, b) == [HeaderBlock |-> ReadBytes(b, h.Length).data] @@ h
ReadByte(b) == IF b = <<>> THEN 0 ELSE b[1]
ReadPRIORITY(h, b) ==
    LET first == ReadByte(b)
        ids   == ReadVarIntValues(Tail(b), 2)
    IN  [PrioritizedType |-> first \div 64, DependencyType |-> (first \div 16) % 4, Empty |-> (first \div 2) % 8,
         Exclusive |-> first % 2 = 1, PrioritizedElementID |-> ids.values[1], ElementDependencyID |-> ids.values[2],
         Weight |-> ReadByte(ids.rest)] @@ h
ReadPushID(h, b) == [PushID |-> ReadVarIntValue(b).Value] @@ h
ReadSETTINGS(h, b) ==
    LET read[d \in Seq(Byte)] ==
            IF d = <<>> THEN <<>>
            ELSE LET s == ReadVarIntValues(d, 2)
                 IN  <<[Identifier |-> s.values[1], Value |-> s.values[2]]>> \o read[s.rest]
    IN  [Settings |-> read[ReadBytes(b, h.Length).data]] @@ h
\* The header block gets its length, and stays empty.
ReadPUSH_PROMISE(h, b) ==
    LET id == ReadVarIntValue(b)
    IN  [PushID |-> id.Value, HeaderBlock |-> [k \in 1 .. h.Length - id.Length |-> 0]] @@ h
ReadGOAWAY(h, b) == [StreamID |-> ReadVarIntValue(b).Value] @@ h
ReadUnknownFrame(h, b) == [OpaquePayload |-> ReadBytes(b, h.Length).data] @@ h

\* The type of a number, and the reader of a type.
TypeOf(n) == IF \E t \in DOMAIN TypeNumber : TypeNumber[t] = n
             THEN CHOOSE t \in DOMAIN TypeNumber : TypeNumber[t] = n ELSE "Unknown"

ReadHTTPFrame(b) ==
    LET type == ReadVarIntValue(b)
        length == ReadVarIntValue(type.rest)
        Read[t \in DOMAIN TypeNumber, n \in Nat, rest \in Seq(Byte)] ==
            CASE t = "DATA"         -> ReadDATA(Frame(t, n), rest)
              [] t = "HEADERS"      -> ReadHEADERS(Frame(t, n), rest)
              [] t = "PRIORITY"     -> ReadPRIORITY(Frame(t, n), rest)
              [] t \in {"CANCEL_PUSH", "MAX_PUSH_ID"} -> ReadPushID(Frame(t, n), rest)
              [] t = "SETTINGS"     -> ReadSETTINGS(Frame(t, n), rest)
              [] t = "PUSH_PROMISE" -> ReadPUSH_PROMISE(Frame(t, n), rest)
              [] t = "GOAWAY"       -> ReadGOAWAY(Frame(t, n), rest)
              [] t = "Unknown"      -> ReadUnknownFrame(Frame(t, n), rest)
    IN  Read[TypeOf(type.Value), length.Value, length.rest]
=============================================================================
