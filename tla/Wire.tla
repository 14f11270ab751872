-------------------------------- MODULE Wire --------------------------------
(***************************************************************************)
(* The formats that a test and its servers exchange, each with the code    *)
(* that writes it and the code that reads it: the header of the TCP and    *)
(* UDP modes, the sequence number of a UDP datagram, DNS queries and       *)
(* answers, where a message is a sequence of bytes; and RESP.              *)
(***************************************************************************)
EXTENDS Integers, Sequences, SequencesExt

CONSTANTS
    HeaderSpecs,    \* [mode, request_size, response_size, latency_us, error_rate], None: absent
    Payloads,       \* what follows a header or a sequence number
    Seqs,           \* sequence numbers
    Queries,        \* [txid, recursion, dnssec, name]: name a sequence of labels
    RespValues,     \* replies of Redis
    RespTails,      \* what follows a reply in the stream
    RespLimits      \* values of max_bytes

None == -1
RECURSIVE BigEndian(_, _)
BigEndian(n, width) == IF width = 0 THEN <<>> ELSE Append(BigEndian(n \div 256, width - 1), n % 256)
FromBigEndian(bytes) == FoldLeft(LAMBDA n, b : 256 * n + b, 0, bytes)
LittleEndian(n, width) == Reverse(BigEndian(n, width))

-----------------------------------------------------------------------------
VERSION_V2 == 240
HEADER_MIN == 10
Modes == 1..5       \* RR, SINK, SOURCE, BIDIR, CRR

Optional(field) == IF field = None THEN <<>> ELSE BigEndian(field, 4)

encode_header(spec) ==
    LET flags == (IF spec.latency_us = None THEN 0 ELSE 2) + (IF spec.error_rate = None THEN 0 ELSE 4)
        header_len == HEADER_MIN + Len(Optional(spec.latency_us)) + Len(Optional(spec.error_rate))
    IN  <<VERSION_V2, header_len, spec.mode, flags>>
            \o BigEndian(spec.request_size, 2) \o BigEndian(spec.response_size, 4)
            \o Optional(spec.latency_us) \o Optional(spec.error_rate)

(* Where the error rate starts: behind the latency, if there is one.       *)
ErrorRateAt(latency) == HEADER_MIN + (IF latency THEN 4 ELSE 0)

(* The early returns of parse_header.                                      *)
IsHeader(buf) ==
    /\ Len(buf) >= HEADER_MIN
    /\ buf[1] >= VERSION_V2
    /\ buf[2] >= HEADER_MIN /\ Len(buf) >= buf[2]
    /\ buf[3] \in Modes

(* parse_header_with_offset: the header and where the payload starts.      *)
parse_header_with_offset(buf) ==
    LET flags   == buf[4]
        latency == (flags \div 2) % 2 = 1
        errors  == (flags \div 4) % 2 = 1
        field(offset) == FromBigEndian(SubSeq(buf, offset + 1, offset + 4))
    IN  IF ~IsHeader(buf) THEN [ok |-> FALSE]
        ELSE IF (latency /\ HEADER_MIN + 4 > buf[2]) \/ (errors /\ ErrorRateAt(latency) + 4 > buf[2]) THEN [ok |-> FALSE]
        ELSE [ok |-> TRUE, offset |-> buf[2],
              header |-> [mode |-> buf[3], request_size |-> FromBigEndian(SubSeq(buf, 5, 6)),
                          response_size |-> FromBigEndian(SubSeq(buf, 7, 10)),
                          latency_us |-> IF latency THEN field(HEADER_MIN) ELSE None,
                          error_rate |-> IF errors THEN field(ErrorRateAt(latency)) ELSE None]]

(* SimpleUdpGenerator::generate: eight bytes of sequence number, payload.  *)
UdpWire(seq, payload) == LittleEndian(seq, 8) \o payload

-----------------------------------------------------------------------------
encode_domain_name(labels) ==
    FoldLeft(LAMBDA buf, label : IF label = <<>> THEN buf ELSE buf \o <<Len(label) % 256>> \o label, <<>>, labels) \o <<0>>

encode_query(spec) ==
    BigEndian(spec.txid, 2) \o <<IF spec.recursion THEN 1 ELSE 0, 0>> \o <<0, 1, 0, 0, 0, 0>>
        \o <<0, IF spec.dnssec THEN 1 ELSE 0>>
        \o encode_domain_name(spec.name) \o <<0, 1, 0, 1>>
        \o (IF spec.dnssec THEN <<0, 0, 41, 16, 0, 0, 0, 128, 0, 0, 0>> ELSE <<>>)

(* Faulty variant of QuestionEnd: type and class are not skipped.          *)
QuestionEndName(query, pos) == IF pos + 1 < Len(query) THEN pos + 1 ELSE Len(query)

(* The end of the question, from the end of its name; query may be short.  *)
QuestionEnd(query, pos) == IF pos + 5 < Len(query) THEN pos + 5 ELSE Len(query)

(* Positions are offsets, from 0.                                          *)
RECURSIVE NameEnd(_, _)
NameEnd(query, pos) ==
    IF pos < Len(query) /\ query[pos + 1] # 0 THEN NameEnd(query, pos + 1 + query[pos + 1]) ELSE pos

build_response(query) ==
    SubSeq(query, 1, 2) \o <<128 + (query[3] % 2), 128, 0, 1, 0, 1, 0, 0, 0, 0>>
        \o SubSeq(query, 13, QuestionEnd(query, NameEnd(query, 12)))
        \o <<192, 12, 0, 1, 0, 1, 0, 0, 0, 60, 0, 4, 127, 0, 0, 1>>

parse_rcode(response) == IF Len(response) < 4 THEN 255 ELSE response[4] % 16
parse_txid(response) == IF Len(response) < 2 THEN None ELSE FromBigEndian(SubSeq(response, 1, 2))

-----------------------------------------------------------------------------
VARIABLE wire   \* one sample of each format

WireInit ==
    \/ wire \in [kind : {"header"}, spec : HeaderSpecs, payload : Payloads]
    \/ wire \in [kind : {"udp"}, seq : Seqs, payload : Payloads]
    \/ wire \in [kind : {"dns"}, query : Queries]

(* The server reads from a header what the client put in it, whatever is   *)
(* optional, and where the payload starts.                                 *)
HeaderReadBack ==
    wire.kind = "header" =>
        LET header == encode_header(wire.spec)
        IN  parse_header_with_offset(header \o wire.payload)
                = [ok |-> TRUE, offset |-> Len(header), header |-> wire.spec]

(* A datagram of a UDP test, which starts with its sequence number, is     *)
(* never taken for a header by the server, up to the first sequence number *)
(* whose bytes are one.                                                    *)
EchoIsNoHeader ==
    wire.kind = "udp" /\ wire.seq < 68336 => ~parse_header_with_offset(UdpWire(wire.seq, wire.payload)).ok

(* The DNS server answers with the id and with the question of the query,  *)
(* nothing of what follows it, and with success.                           *)
QuestionAnswered ==
    wire.kind = "dns" =>
        LET response == build_response(encode_query(wire.query))
            question == encode_domain_name(wire.query.name) \o <<0, 1, 0, 1>>
        IN  /\ parse_txid(response) = wire.query.txid
            /\ parse_rcode(response) = 0
            /\ SubSeq(response, 13, Len(response) - 16) = question

(* The two ends of every format agree.                                     *)
FormatsAgree == HeaderReadBack /\ EchoIsNoHeader /\ QuestionAnswered

-----------------------------------------------------------------------------
(* The RESP encoder and decoder of netanvil-redis (resp.rs).  A stream is  *)
(* a sequence of symbols; the decimal form of a number is one symbol, so   *)
(* that sizes count symbols where the code counts bytes.                   *)

CRLF == <<"CR", "LF">>
Numerals == <<"-1", "0", "1", "2", "3">>
Numeral(n) == Numerals[n + 2]
IsNumeral(text) == Len(text) = 1 /\ text[1] \in {Numerals[i] : i \in DOMAIN Numerals}
ParseNumeral(text) == (CHOOSE i \in DOMAIN Numerals : Numerals[i] = text[1]) - 2

write_bulk_string(data) == <<"$", Numeral(Len(data))>> \o CRLF \o data \o CRLF

(* command is the first of words, the arguments are the others.            *)
encode_command(words) ==
    <<"*", Numeral(Len(words))>> \o CRLF
        \o FoldLeft(LAMBDA buf, word : buf \o write_bulk_string(word), <<>>, words)

-----------------------------------------------------------------------------
(* The values of RESP, and their encoding (the server's, by the standard). *)
Line(kind, text) == [kind |-> kind, text |-> text]
Integer(n) == [kind |-> ":", n |-> n]
Bulk(data) == [kind |-> "$", data |-> data]
Nil == [kind |-> "nil"]
Array(items) == [kind |-> "*", items |-> items]

RECURSIVE Encoding(_)
Encoding(v) ==
    CASE v.kind \in {"+", "-"} -> <<v.kind>> \o v.text \o CRLF
      [] v.kind = ":" -> <<":", Numeral(v.n)>> \o CRLF
      [] v.kind = "$" -> <<"$", Numeral(Len(v.data))>> \o CRLF \o v.data \o CRLF
      [] v.kind = "nil" -> <<"$", "-1">> \o CRLF
      [] v.kind = "*" -> <<"*", Numeral(Len(v.items))>> \o CRLF
                            \o FoldLeft(LAMBDA buf, item : buf \o Encoding(item), <<>>, v.items)

-----------------------------------------------------------------------------
(* A read of the stream in, of which total symbols have been read before:  *)
(* it fails, or yields a value and the rest of the stream.                 *)
Failed == [ok |-> FALSE]
Parsed(value, rest, total) == [ok |-> TRUE, value |-> value, rest |-> rest, total |-> total]
Dropped(in, n) == SubSeq(in, n + 1, Len(in))

(* Symbol by symbol up to CR, each one only while total < max_bytes; what  *)
(* follows CR is read as well and not looked at.                           *)
read_line(in, total, max_bytes) ==
    LET ends == {i \in DOMAIN in : in[i] = "CR"}
        end  == CHOOSE i \in ends : \A j \in ends : i <= j
    IN  IF ends = {} \/ end = Len(in) \/ total + end > max_bytes THEN Failed
        ELSE Parsed(SubSeq(in, 1, end - 1), Dropped(in, end + 1), total + end + 1)

(* Faulty variant of read_bulk: a reply of just max_bytes is refused.      *)
read_bulk_strict(len, in, total, max_bytes) ==
    IF total + len + 2 >= max_bytes \/ Len(in) < len + 2 THEN Failed
    ELSE Parsed(Bulk(SubSeq(in, 1, len)), Dropped(in, len + 2), total + len + 2)

(* The bulk string of the given length.                                    *)
read_bulk(len, in, total, max_bytes) ==
    IF total + len + 2 > max_bytes \/ Len(in) < len + 2 THEN Failed
    ELSE Parsed(Bulk(SubSeq(in, 1, len)), Dropped(in, len + 2), total + len + 2)

RECURSIVE read_value(_, _, _)
read_value(in, total, max_bytes) ==
    LET line    == read_line(in, total, max_bytes)
        payload == Tail(line.value)
        RECURSIVE Elements(_, _, _, _)
        Elements(count, items, rest, read) ==
            IF count = 0 THEN Parsed(Array(items), rest, read)
            ELSE LET item == read_value(rest, read, max_bytes)
                 IN  IF item.ok THEN Elements(count - 1, Append(items, item.value), item.rest, item.total)
                     ELSE Failed
    IN  IF ~line.ok \/ (line.ok /\ line.value = <<>>) THEN Failed
        ELSE CASE line.value[1] \in {"+", "-"} ->
                    Parsed(Line(line.value[1], payload), line.rest, line.total)
               [] line.value[1] \in {":", "$", "*"} /\ ~IsNumeral(payload) -> Failed
               [] line.value[1] = ":" /\ IsNumeral(payload) ->
                    Parsed(Integer(ParseNumeral(payload)), line.rest, line.total)
               [] line.value[1] = "$" /\ IsNumeral(payload) ->
                    IF ParseNumeral(payload) < 0 THEN Parsed(Nil, line.rest, line.total)
                    ELSE read_bulk(ParseNumeral(payload), line.rest, line.total, max_bytes)
               [] line.value[1] = "*" /\ IsNumeral(payload) ->
                    IF ParseNumeral(payload) < 0 THEN Parsed(Array(<<>>), line.rest, line.total)
                    ELSE Elements(ParseNumeral(payload), <<>>, line.rest, line.total)
               [] OTHER -> Failed

read_response(in, max_bytes) == read_value(in, 0, max_bytes)

-----------------------------------------------------------------------------
VARIABLE resp   \* a reply, what follows it, and max_bytes

RespInit == resp \in [value : RespValues, tail : RespTails, max_bytes : RespLimits]

(* A reply within the limit is read back as it was sent, and the stream    *)
(* stands exactly behind it: the next reply on the connection is in step.  *)
ReplyFramed ==
    LET reply == Encoding(resp.value)
    IN  Len(reply) <= resp.max_bytes =>
            read_response(reply \o resp.tail, resp.max_bytes)
                = Parsed(resp.value, resp.tail, Len(reply))

(* A reply that is cut off is never taken for another, complete one.       *)
PrefixFails ==
    LET reply == Encoding(resp.value)
    IN  \A n \in 0..(Len(reply) - 1) : ~read_response(SubSeq(reply, 1, n), resp.max_bytes).ok

(* No reply makes the client read more than max_bytes, and the line end.   *)
ReadBounded ==
    LET read == read_response(Encoding(resp.value) \o resp.tail, resp.max_bytes)
    IN  read.ok => read.total <= resp.max_bytes + 1

(* A server that reads RESP gets the words of the command, whatever bytes  *)
(* are in them.                                                            *)
CommandFramed ==
    resp.value.kind = "*" /\ (\A i \in DOMAIN resp.value.items : resp.value.items[i].kind = "$") =>
        LET words == [i \in DOMAIN resp.value.items |-> resp.value.items[i].data]
            sent  == encode_command(words)
        IN  read_response(sent \o resp.tail, 100) = Parsed(resp.value, resp.tail, Len(sent))

(* Requests and replies are framed: what is written is read, wholly,       *)
(* within the limit, and nothing else is.                                  *)
RespFramed == ReplyFramed /\ PrefixFails /\ ReadBounded /\ CommandFramed

=============================================================================
