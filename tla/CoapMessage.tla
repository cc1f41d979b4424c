----------------------------- MODULE CoapMessage -----------------------------
(***************************************************************************)
(* A CoAP message: its options and payload as the application adds them,   *)
(* the bytes it becomes and what is read back from them (coap_message.c,   *)
(* coap_option.c, coap_block.c).                                           *)
(*                                                                         *)
(* A message under construction:                                           *)
(*   type, code, id, tok   the header; the token is a sequence of bytes    *)
(*   opts     options[]: the number relative to the option before, data    *)
(*   delta    options_delta      offset   options_offset                   *)
(*   olen     options_len        payload  the bytes of the payload         *)
(* and one that was decoded has absolute option numbers in opts. Bytes are *)
(* numbers, so an encoded message is a sequence over 0 .. 255.             *)
(***************************************************************************)
EXTENDS Naturals, Sequences, SequencesExt

CONSTANTS
  MaxOptions,    \* COAP_MAX_NUMBER_OF_OPTIONS
  DataMaxSize    \* COAP_MESSAGE_DATA_MAX_SIZE

ASSUME MessageAssumption == MaxOptions \in Nat /\ DataMaxSize \in Nat

coap_message_create(type, code, id, tok) ==
  [type |-> type, code |-> code, id |-> id, tok |-> tok, opts |-> <<>>,
   delta |-> 0, offset |-> 0, olen |-> 0, payload |-> <<>>]

------------------------------------------------------------------------------
(* coap_option.c and coap_block.c                                          *)

\* The least of the widths 1, 2 and 4, most significant byte first.
coap_opt_uint_encode(v) ==
  IF v < 256 THEN <<v>>
  ELSE IF v < 65536 THEN <<v \div 256, v % 256>>
  ELSE <<v \div 16777216, (v \div 65536) % 256, (v \div 256) % 256, v % 256>>

coap_opt_uint_decode(b) == FoldLeft(LAMBDA acc, x : acc * 256 + x, 0, b)

BlockSizes == {16, 32, 64, 128, 256, 512, 1024}

BLOCK_NUMBER_MAX == 1048575

\* The number of the size, the more bit and the number of the block. EINVAL
\* for anything else.
BlockEncodes(o) == o.size \in BlockSizes /\ o.more \in 0 .. 1 /\ o.number \in 0 .. BLOCK_NUMBER_MAX

\* block_opt_encode as it would be with the more bit inside the size.
MoreBitTooLow(o) ==
  (CHOOSE k \in 0 .. 6 : 2 ^ (4 + k) = o.size) + 4 * o.more + 16 * o.number

block_opt_encode(o) ==
  (CHOOSE k \in 0 .. 6 : 2 ^ (4 + k) = o.size) + 8 * o.more + 16 * o.number

BlockDecodes(e) == e % 8 # 7 /\ e \div 16 <= BLOCK_NUMBER_MAX

block_opt_decode(e) ==
  [size |-> 2 ^ (4 + (e % 8)), more |-> (e \div 8) % 2, number |-> e \div 16]

------------------------------------------------------------------------------
(* Adding options and a payload.                                           *)

\* Delta or length v: what the nibble of the option's first byte holds, and
\* the bytes that follow.
encode_extended_bytes(v) ==
  IF v >= 269 THEN [nibble |-> 14, ext |-> <<(v - 269) \div 256, (v - 269) % 256>>]
  ELSE IF v >= 13 THEN [nibble |-> 13, ext |-> <<v - 13>>]
  ELSE [nibble |-> v, ext |-> <<>>]

encode_option(o) ==
  LET d == encode_extended_bytes(o.number)
      l == encode_extended_bytes(Len(o.data))
  IN  <<d.nibble * 16 + l.nibble>> \o d.ext \o l.ext \o o.data

\* What every coap_message_opt_*_add() does once the data is in the buffer.
AddOption(m, num, data) ==
  LET o == [number |-> (num + 65536 - m.delta) % 65536, data |-> data]
  IN  [m EXCEPT !.opts = Append(@, o), !.delta = num,
                !.offset = @ + Len(data), !.olen = @ + Len(encode_option(o))]

OptionIndexAvail(m) == Len(m.opts) < MaxOptions

coap_message_opt_empty_add(m, num) ==
  IF OptionIndexAvail(m) THEN AddOption(m, num, <<>>) ELSE m

\* 0 is not encoded.
coap_message_opt_uint_add(m, num, v) ==
  LET data == IF v = 0 THEN <<>> ELSE coap_opt_uint_encode(v)
  IN  IF OptionIndexAvail(m) /\ Len(data) <= DataMaxSize - m.offset
      THEN AddOption(m, num, data) ELSE m

coap_message_opt_opaque_add(m, num, data) ==
  IF OptionIndexAvail(m) /\ Len(data) <= DataMaxSize - m.offset
  THEN AddOption(m, num, data) ELSE m

\* The length is compared with itself, not with the room that is left: the
\* caller has to know that the string fits.
coap_message_opt_str_add(m, num, data) ==
  IF OptionIndexAvail(m) THEN AddOption(m, num, data) ELSE m

coap_message_payload_set(m, data) ==
  IF Len(data) <= DataMaxSize - m.offset THEN [m EXCEPT !.payload = data] ELSE m

------------------------------------------------------------------------------
(* To bytes and back.                                                      *)

Types == <<"CON", "NON", "ACK", "RST">>

COAP_PAYLOAD_MARKER == 255

\* What coap_message_encode() with length 0 says the message will take.
EncodedLength(m) ==
  4 + Len(m.tok) + m.olen + (IF m.payload = <<>> THEN 0 ELSE 1 + Len(m.payload))

EncodedHeader(m) ==
  LET type == CHOOSE i \in 0 .. 3 : Types[i + 1] = m.type
  IN  <<64 + 16 * type + Len(m.tok), m.code, m.id \div 256, m.id % 256>>

coap_message_encode(m) ==
  EncodedHeader(m) \o m.tok \o FlattenSeq([i \in DOMAIN m.opts |-> encode_option(m.opts[i])])
    \o (IF m.payload = <<>> THEN <<>> ELSE <<COAP_PAYLOAD_MARKER>> \o m.payload)

\* The option that starts at raw[i], whose number counts on from delta, and
\* the index behind it.
decode_option(raw, i, delta) ==
  LET dn == raw[i] \div 16
      ln == raw[i] % 16
      Width(n) == IF n = 13 THEN 1 ELSE IF n = 14 THEN 2 ELSE 0
      Value(n, at) == IF n = 13 THEN 13 + raw[at]
                      ELSE IF n = 14 THEN 269 + 256 * raw[at] + raw[at + 1]
                      ELSE n
      at  == i + 1 + Width(dn) + Width(ln)
      len == Value(ln, i + 1 + Width(dn))
  IN  [number |-> (delta + Value(dn, i + 1)) % 65536,
       data |-> SubSeq(raw, at, at + len - 1), next |-> at + len]

\* The options from raw[start] on up to the marker of the payload or the end,
\* and where they end. The loop of the code has no other bound, and
\* options[] has MaxOptions entries: peers send no more than fit.
DecodeOptions(raw, start) ==
  LET Step[n \in 0 .. MaxOptions] ==
        IF n = 0 THEN [opts |-> <<>>, at |-> start, delta |-> 0]
        ELSE LET s == Step[n - 1]
             IN  IF s.at > Len(raw) \/ raw[s.at] = COAP_PAYLOAD_MARKER
                 THEN s
                 ELSE LET o == decode_option(raw, s.at, s.delta)
                      IN  [opts |-> Append(s.opts, [number |-> o.number, data |-> o.data]),
                           at |-> o.next, delta |-> o.number]
  IN  Step[MaxOptions]

\* A message of less than the 4 bytes of the header is EMSGSIZE.
Decodes(raw) == Len(raw) >= 4

coap_message_decode(raw) ==
  LET tkl == raw[1] % 16
      end == 4 + tkl
      o   == DecodeOptions(raw, end + 1)
  IN  [type |-> Types[((raw[1] \div 16) % 4) + 1], code |-> raw[2],
       id |-> 256 * raw[3] + raw[4], tok |-> SubSeq(raw, 5, end),
       opts |-> o.opts, payload |-> SubSeq(raw, o.at + 1, Len(raw))]

------------------------------------------------------------------------------
(* Content formats: the bit of a format, 1 for 0x01 and so on.             *)

CT == [plain |-> 0, link |-> 40, xml |-> 41, octets |-> 42, exi |-> 47, json |-> 50,
       tlv |-> 11542]

content_format_to_bit(ct) ==
  CASE ct = CT.plain -> {1} [] ct = CT.link -> {3} [] ct = CT.xml -> {4}
    [] ct = CT.octets -> {5} [] ct = CT.exi -> {6} [] ct = CT.json -> {7}
    [] ct = CT.tlv -> {8} [] OTHER -> {}

bit_to_content_format(b) ==
  CASE b = 1 -> CT.plain [] b = 3 -> CT.link [] b = 4 -> CT.xml
    [] b = 5 -> CT.octets [] b = 6 -> CT.exi [] b = 7 -> CT.json
    [] b = 8 -> CT.tlv

COAP_OPT_ACCEPT == 17

coap_message_accept_mask_get(opts) ==
  UNION {content_format_to_bit(coap_opt_uint_decode(opts[i].data)) :
         i \in {j \in DOMAIN opts : opts[j].number = COAP_OPT_ACCEPT}}

\* The formats coap_message_ct_match_select() chooses for a decoded message:
\* one, or none (ENOENT).
coap_message_ct_match_select(opts, support) ==
  LET accept == coap_message_accept_mask_get(opts)
      common == support \cap (IF accept = {} THEN {1} ELSE accept)
  IN  {bit_to_content_format(b) : b \in {c \in common : \A d \in common : c <= d} \ {2}}
=============================================================================
