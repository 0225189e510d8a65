------------------------------- MODULE Codec -------------------------------
(***************************************************************************)
(* blackbox/src/codec: version 1.0 of the message codec, byte by byte, and *)
(* the schema block of a journal (journal/schema.rs).                      *)
(*                                                                         *)
(* A byte of the wire is the field it belongs to, the number it is part of *)
(* (for a length prefix), and its place in the field.  A read of w bytes   *)
(* yields the field whose w bytes stand there, so that an offset or a      *)
(* width that differs between encoder.rs and decoder.rs reads Garbage.     *)
(* Between encoding and decoding a message may be cut short, as the last   *)
(* record of a crashed session is, or be followed by other bytes.          *)
(***************************************************************************)
EXTENDS Integers, Sequences, SequencesExt

CONSTANTS VarLengths,   \* lengths of variable data
          Slacks,       \* bytes by which a buffer is longer than the message
          Versions,     \* schema versions that journals ask for
          XmlSize, ZstdSize   \* length of the schema, plain and compressed

VARIABLES codecMsg,   \* the message encoded: its kind and the lengths of its data
          wire,       \* the buffer
          written,    \* what encode returned: the bytes written, or an error
          decoded     \* what decode returned, or NotDecoded

codecVars == <<codecMsg, wire, written, decoded>>

Garbage == "garbage"
NotDecoded == [result |-> "none"]

\* Fields at their offsets, with the size of the fixed part and the
\* variable data that follow.
F(name, offset, width) == [name |-> name, offset |-> offset, width |-> width]
Layout(fixed, fields, vars) == [fixed |-> fixed, fields |-> fields, vars |-> vars]

\* encode_session_start, encode_session_end, encode_checkpoint.
EncodeSession ==
  [session_start |->
     Layout(17, <<F("timestamp", 0, 8), F("session_id", 8, 8), F("exchange", 16, 1)>>,
            <<"metadata">>),
   session_end |->
     Layout(56, <<F("timestamp", 0, 8), F("session_id", 8, 8), F("record_count", 16, 8),
                  F("final_state_hash", 24, 32)>>, <<>>),
   checkpoint |->
     Layout(112, <<F("timestamp", 0, 8), F("sequence_number", 8, 8), F("state_hash", 16, 32),
                   F("orderbook_hash", 48, 32), F("position_hash", 80, 32)>>, <<>>)]

\* encode_raw_frame, encode_quote_update, encode_trade.  A symbol is its 32
\* bytes and its length.
EncodeMarket ==
  [raw_frame |->
     Layout(13, <<F("timestamp", 0, 8), F("exchange", 8, 1), F("sequence_number", 9, 4)>>,
            <<"payload">>),
   quote_update |->
     Layout(74, <<F("timestamp", 0, 8), F("exchange", 8, 1), F("symbol", 9, 33),
                  F("bid_price", 42, 8), F("bid_size", 50, 8), F("ask_price", 58, 8),
                  F("ask_size", 66, 8)>>, <<>>),
   trade |->
     Layout(59, <<F("timestamp", 0, 8), F("exchange", 8, 1), F("symbol", 9, 33),
                  F("price", 42, 8), F("size", 50, 8), F("side", 58, 1)>>, <<"trade_id">>)]

\* encode_order_submit, encode_order_ack, encode_order_fill.
EncodeOrders ==
  [order_submit |->
     Layout(59, <<F("timestamp", 0, 8), F("exchange", 8, 1), F("symbol", 9, 33),
                  F("side", 42, 1), F("price", 43, 8), F("size", 51, 8)>>,
            <<"client_order_id">>),
   order_ack |->
     Layout(9, <<F("timestamp", 0, 8), F("exchange", 8, 1)>>,
            <<"client_order_id", "exchange_order_id">>),
   order_fill |->
     Layout(33, <<F("timestamp", 0, 8), F("exchange", 8, 1), F("fill_price", 9, 8),
                  F("fill_size", 17, 8), F("remaining_size", 25, 8)>>,
            <<"exchange_order_id">>)]

\* encode_state_change, encode_signal.
EncodeState ==
  [state_change |->
     Layout(10, <<F("timestamp", 0, 8), F("event_type", 8, 2)>>, <<"state_data">>),
   signal |->
     Layout(53, <<F("timestamp", 0, 8), F("signal_type", 8, 2), F("exchange", 10, 1),
                  F("symbol", 11, 33), F("side", 44, 1), F("strength", 45, 8)>>,
            <<"metadata">>)]

EncodeLayout == EncodeSession @@ EncodeMarket @@ EncodeOrders @@ EncodeState

CodecKinds == DOMAIN EncodeLayout

\* decode_session_start, decode_session_end, decode_checkpoint.
DecodeSession ==
  [session_start |->
     Layout(17, <<F("timestamp", 0, 8), F("session_id", 8, 8), F("exchange", 16, 1)>>,
            <<"metadata">>),
   session_end |->
     Layout(56, <<F("timestamp", 0, 8), F("session_id", 8, 8), F("record_count", 16, 8),
                  F("final_state_hash", 24, 32)>>, <<>>),
   checkpoint |->
     Layout(112, <<F("timestamp", 0, 8), F("sequence_number", 8, 8), F("state_hash", 16, 32),
                   F("orderbook_hash", 48, 32), F("position_hash", 80, 32)>>, <<>>)]

\* decode_raw_frame, decode_quote_update, decode_trade.
DecodeMarket ==
  [raw_frame |->
     Layout(13, <<F("timestamp", 0, 8), F("exchange", 8, 1), F("sequence_number", 9, 4)>>,
            <<"payload">>),
   quote_update |->
     Layout(74, <<F("timestamp", 0, 8), F("exchange", 8, 1), F("symbol", 9, 33),
                  F("bid_price", 42, 8), F("bid_size", 50, 8), F("ask_price", 58, 8),
                  F("ask_size", 66, 8)>>, <<>>),
   trade |->
     Layout(59, <<F("timestamp", 0, 8), F("exchange", 8, 1), F("symbol", 9, 33),
                  F("price", 42, 8), F("size", 50, 8), F("side", 58, 1)>>, <<"trade_id">>)]

\* decode_order_submit, decode_order_ack, decode_order_fill.
DecodeOrders ==
  [order_submit |->
     Layout(59, <<F("timestamp", 0, 8), F("exchange", 8, 1), F("symbol", 9, 33),
                  F("side", 42, 1), F("price", 43, 8), F("size", 51, 8)>>,
            <<"client_order_id">>),
   order_ack |->
     Layout(9, <<F("timestamp", 0, 8), F("exchange", 8, 1)>>,
            <<"client_order_id", "exchange_order_id">>),
   order_fill |->
     Layout(33, <<F("timestamp", 0, 8), F("exchange", 8, 1), F("fill_price", 9, 8),
                  F("fill_size", 17, 8), F("remaining_size", 25, 8)>>,
            <<"exchange_order_id">>)]

\* decode_state_change, decode_signal.
DecodeState ==
  [state_change |->
     Layout(10, <<F("timestamp", 0, 8), F("event_type", 8, 2)>>, <<"state_data">>),
   signal |->
     Layout(53, <<F("timestamp", 0, 8), F("signal_type", 8, 2), F("exchange", 10, 1),
                  F("symbol", 11, 33), F("side", 44, 1), F("strength", 45, 8)>>,
            <<"metadata">>)]

\* Enumerated fields, which exist in five and two values; a byte that is not
\* of that field has no value.
EnumFields == {"exchange", "side"}

\* DecodedMessage::message_id.
message_id ==
  [session_start |-> 1, session_end |-> 2, checkpoint |-> 3, raw_frame |-> 256,
   quote_update |-> 257, trade |-> 258, order_submit |-> 512, order_ack |-> 513,
   order_fill |-> 514, state_change |-> 768, signal |-> 769]

\* decode_by_id: the layout that an identifier stands for.
DecodeById(id) ==
  LET all == DecodeSession @@ DecodeMarket @@ DecodeOrders @@ DecodeState
  IN  CASE id = 1 -> all.session_start [] id = 2 -> all.session_end
        [] id = 3 -> all.checkpoint [] id = 256 -> all.raw_frame
        [] id = 257 -> all.quote_update [] id = 258 -> all.trade
        [] id = 512 -> all.order_submit [] id = 513 -> all.order_ack
        [] id = 514 -> all.order_fill [] id = 768 -> all.state_change
        [] id = 769 -> all.signal

\* encoded_size: the fixed parts by kind, and four bytes per variable part.
FixedSize ==
  [session_start |-> 17, session_end |-> 56, checkpoint |-> 112, raw_frame |-> 13,
   quote_update |-> 74, trade |-> 59, order_submit |-> 59, order_ack |-> 9,
   order_fill |-> 33, state_change |-> 10, signal |-> 53]

VarSize(lens) == FoldLeft(LAMBDA n, l : n + 4 + l, 0, lens)

encoded_size(m) == FixedSize[m.kind] + VarSize(m.lens)

-----------------------------------------------------------------------------
\* The buffer with the bytes of a field at an offset: write_le,
\* write_symbol, write_sha256.
Put(buf, name, value, offset, width) ==
  [i \in DOMAIN buf |-> IF i > offset /\ i <= offset + width
                        THEN <<name, value, i - offset>> ELSE buf[i]]

PutLength(buf, n, offset) == Put(buf, "length", n, offset, 4)

\* The field whose bytes stand at an offset: read_le, read_symbol, read_sha256.
Get(buf, offset, width) ==
  LET byte == buf[offset + 1]
  IN  IF \A i \in 1..width : buf[offset + i] = <<byte[1], byte[2], i>>
      THEN byte[1] ELSE Garbage

GetLength(buf, offset) == buf[offset + 1][2]

PutFields(buf, fields) ==
  FoldLeft(LAMBDA b, f : Put(b, f.name, 0, f.offset, f.width), buf, fields)

\* write_var_data for each variable part in turn: its length and its bytes.
PutVars(buf, offset, vars, lens) ==
  FoldLeft(LAMBDA acc, k :
             [buf |-> Put(PutLength(acc.buf, lens[k], acc.at), vars[k], 0, acc.at + 4, lens[k]),
              at |-> acc.at + 4 + lens[k]],
           [buf |-> buf, at |-> offset], [k \in DOMAIN vars |-> k]).buf

\* What check_size requires of the buffer before anything is written.
TotalSize(m) == EncodeLayout[m.kind].fixed + VarSize(m.lens)

\* MessageEncoder::encode into a buffer of n bytes.  The check of
\* write_var_data comes after the fixed part is written.
Encode(m, n) ==
  LET layout == EncodeLayout[m.kind]
      clear == [i \in 1..n |-> <<"old", 0, i>>]
  IN  /\ codecMsg' = m
      /\ decoded' = NotDecoded
      /\ IF n < TotalSize(m)
         THEN wire' = clear /\ written' = -1
         ELSE IF n < layout.fixed + VarSize(m.lens)
              THEN wire' = PutFields(clear, layout.fields) /\ written' = -1
              ELSE /\ wire' = PutVars(PutFields(clear, layout.fields),
                                      layout.fixed, layout.vars, m.lens)
                   /\ written' = layout.fixed + VarSize(m.lens)

\* External: the record that the message is in ends after n bytes.
Cut(n) ==
  /\ written > 0 /\ decoded = NotDecoded
  /\ n < Len(wire)
  /\ wire' = SubSeq(wire, 1, n)
  /\ UNCHANGED <<codecMsg, written, decoded>>

\* Mutant: the length prefix is believed.
TakeVarUnchecked(buf, acc, name) ==
  IF acc.result # "ok" \/ Len(buf) < acc.at + 4
  THEN [acc EXCEPT !.result = "BufferTooSmall"]
  ELSE LET length == GetLength(buf, acc.at)
       IN  [result |-> "ok", at |-> acc.at + 4 + length,
            data |-> Append(acc.data, <<name, length>>)]

\* read_var_data: the length, then that many bytes, if the buffer has them.
TakeVar(buf, acc, name) ==
  IF acc.result # "ok" \/ Len(buf) < acc.at + 4
  THEN [acc EXCEPT !.result = "BufferTooSmall"]
  ELSE LET length == GetLength(buf, acc.at)
       IN  IF Len(buf) < acc.at + 4 + length
           THEN [acc EXCEPT !.result = "BufferTooSmall"]
           ELSE [result |-> "ok", at |-> acc.at + 4 + length,
                 data |-> Append(acc.data,
                   <<IF length = 0 THEN name ELSE Get(buf, acc.at + 4, length), length>>)]

\* A decode method: the fixed part, the enumerated fields, the variable parts.
DecodeWith(layout, buf) ==
  IF Len(buf) < layout.fixed THEN [result |-> "BufferTooSmall"]
  ELSE LET got == [f \in ToSet(layout.fields) |-> Get(buf, f.offset, f.width)]
           enums == {f \in ToSet(layout.fields) : f.name \in EnumFields}
           rest == FoldLeft(LAMBDA acc, name : TakeVar(buf, acc, name),
                            [result |-> "ok", at |-> layout.fixed, data |-> <<>>],
                            layout.vars)
       IN  IF \E f \in enums : got[f] # f.name THEN [result |-> "InvalidEnumValue"]
           ELSE IF rest.result # "ok" THEN [result |-> rest.result]
           ELSE [result |-> "ok", data |-> rest.data,
                 fields |-> {<<f.name, got[f]>> : f \in ToSet(layout.fields)}]

\* CodecRegistry::new registers version 1.0.
Registered == {<<1, 0>>}

\* decoder_with_fallback: the registered version with the same major and the
\* highest minor that is not above the one asked for.
Compatible(v) == {r \in Registered : r[1] = v[1] /\ r[2] <= v[2]}

Decode(version) ==
  /\ written > 0 /\ decoded = NotDecoded
  /\ decoded' = IF Compatible(version) = {} THEN [result |-> "UnsupportedVersion"]
                ELSE DecodeWith(DecodeById(message_id[codecMsg.kind]), wire)
  /\ UNCHANGED <<codecMsg, wire, written>>

-----------------------------------------------------------------------------
\* The schema block of a journal.

SchemaFields ==
  <<F("SCHEMA_MAGIC", 0, 8), F("xml_uncompressed", 8, 4), F("xml_compressed", 12, 4),
    F("compression", 16, 1), F("reserved", 17, 15)>>

SchemaKinds == {"schema_zstd", "schema_plain"}

\* create_block: the length of the data behind the header.
BlockData(kind) == IF kind = "schema_zstd" THEN ZstdSize ELSE XmlSize

\* create_block and serialize_block.
SerializeBlock(kind) ==
  LET n == 32 + BlockData(kind)
  IN  /\ codecMsg' = [kind |-> kind, lens |-> <<BlockData(kind)>>]
      /\ wire' = Put(PutFields([i \in 1..n |-> <<"old", 0, i>>], SchemaFields),
                     kind, 0, 32, BlockData(kind))
      /\ written' = n
      /\ decoded' = NotDecoded

\* parse_block: the header, its magic, the payload whole, and its length
\* once decompressed.
ParseBlock ==
  /\ codecMsg.kind \in SchemaKinds /\ decoded = NotDecoded
  /\ decoded' =
       IF Len(wire) < 32 THEN [result |-> "BufferTooSmall"]
       ELSE IF Get(wire, 0, 8) # "SCHEMA_MAGIC" THEN [result |-> "InvalidHeader"]
       ELSE IF Len(wire) < 32 + BlockData(codecMsg.kind) THEN [result |-> "BufferTooSmall"]
       ELSE LET payload == Get(wire, 32, BlockData(codecMsg.kind))
            IN  IF payload = codecMsg.kind THEN [result |-> "ok", xml |-> XmlSize]
                ELSE [result |-> "DecompressionFailed"]
  /\ UNCHANGED <<codecMsg, wire, written>>

-----------------------------------------------------------------------------
CodecMessages ==
  {m \in [kind : CodecKinds, lens : SeqOf(VarLengths, 2)] :
     Len(m.lens) = Len(EncodeLayout[m.kind].vars)}

CodecInit ==
  codecMsg = [kind |-> "none", lens |-> <<>>] /\ wire = <<>> /\ written = 0
  /\ decoded = NotDecoded

CodecNext ==
  \/ /\ codecMsg.kind = "none"
     /\ \/ \E m \in CodecMessages, s \in Slacks : Encode(m, encoded_size(m) + s)
        \/ \E kind \in SchemaKinds : SerializeBlock(kind)
  \/ \E n \in 0..Len(wire) - 1 : Cut(n)
  \/ codecMsg.kind \in CodecKinds /\ \E v \in Versions : Decode(v)
  \/ ParseBlock

-----------------------------------------------------------------------------
\* What the fields of a message should decode to.
Expected(m) ==
  [result |-> "ok",
   data |-> [k \in DOMAIN m.lens |-> <<EncodeLayout[m.kind].vars[k], m.lens[k]>>],
   fields |-> {<<f.name, f.name>> : f \in ToSet(EncodeLayout[m.kind].fields)}]

\* What was encoded is decoded: with all its bytes, and whatever stands
\* behind them in the buffer, every kind of message comes back with every
\* field, by its own identifier, under any schema version of the same major.
CodecRoundTrip ==
  decoded # NotDecoded /\ codecMsg.kind \in CodecKinds
  /\ Len(wire) >= written /\ decoded.result # "UnsupportedVersion" =>
    decoded = Expected(codecMsg)

\* A message or a schema block that is cut short anywhere is refused; no
\* field is made up from what is left of it.
TornRefused ==
  decoded # NotDecoded /\ Len(wire) < written =>
    decoded.result \in {"BufferTooSmall", "UnsupportedVersion"}

\* encode writes all of a message or nothing: it succeeds exactly when the
\* buffer has encoded_size bytes, says how many it wrote, and leaves the
\* buffer as it was when it refuses.
EncodeAllOrNothing ==
  codecMsg.kind \in CodecKinds =>
    IF written > 0 THEN written = encoded_size(codecMsg)
    ELSE /\ Len(wire) < encoded_size(codecMsg)
         /\ \A i \in DOMAIN wire : wire[i] = <<"old", 0, i>>

\* A message that was encoded is decoded as it was, one cut short is refused,
\* and encode writes all or nothing.
CodecExact == CodecRoundTrip /\ TornRefused /\ EncodeAllOrNothing
=============================================================================
