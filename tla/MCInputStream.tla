---------------------------- MODULE MCInputStream ----------------------------
(* Bodies of up to three parts: Frames, one with 0xD3 in its payload, noise, a    *)
(* stray 0xD3 with and without a length, a corrupt Frame; after an ICY reply, or   *)
(* chunked after an HTTP reply, with one chunk or two, CRLF or LF, an extension, or  *)
(* a terminator that is missing; a refusal, a source table, and a head too long.  *)
EXTENDS InputStream

Plain(s) == [i \in 1 .. Len(s) |-> [b |-> s[i], k |-> 0]]
MakeFrame(payload) ==
  LET start == <<211, 0, Len(payload)>> \o payload
      crc == CalcCrc24q(Plain(start))
  IN start \o <<crc \div 65536, (crc \div 256) % 256, crc % 256>>

F1 == [bytes |-> MakeFrame(<<62, 208>>), id |-> 1005]
F2 == [bytes |-> MakeFrame(<<67, 80, 211>>), id |-> 1077]
Noise   == [bytes |-> <<7>>, id |-> 0]
Stray   == [bytes |-> <<211>>, id |-> 0]
Short   == [bytes |-> <<211, 0, 1>>, id |-> 0]
Long    == [bytes |-> <<211, 0, 9>>, id |-> 0]
Corrupt == [bytes |-> [F1.bytes EXCEPT ![5] = 209], id |-> 0]
Parts == {F1, F2, Noise, Stray, Short, Long, Corrupt}

BytesOf(parts) == FlattenSeq([i \in 1 .. Len(parts) |-> parts[i].bytes])
Labelled(s) == [i \in 1 .. Len(s) |-> [b |-> s[i], k |-> i]]
RealOf(parts) ==
  LET begins(i) == Len(BytesOf(SubSeq(parts, 1, i - 1)))
  IN SelectSeq([i \in 1 .. Len(parts) |->
       [from |-> begins(i) + 1, to |-> begins(i) + Len(parts[i].bytes), id |-> parts[i].id]],
       LAMBDA r : r.id # 0)

Hex(n) == IF n < 10 THEN 48 + n ELSE 87 + n
Line(end, text) == Plain(text \o end)
Chunk(end, tail, s) ==
  Line(end, (IF Len(s) < 16 THEN <<>> ELSE <<Hex(Len(s) \div 16)>>) \o <<Hex(Len(s) % 16)>>) \o s \o Plain(tail)

Icy(body) == Plain(<<IcyStatus, CR, LF, Header, CR, LF, CR, LF>>) \o body
Http(end, tail, cut, body) ==
  Plain(<<HttpStatus, CR, LF, Header, CR, LF, ChunkedTE, CR, LF, CR, LF>>)
  \o Chunk(end, tail, SubSeq(body, 1, cut))
  \o (IF cut < Len(body) THEN Chunk(end, end, SubSeq(body, cut + 1, Len(body))) ELSE <<>>)
  \o Line(end, <<48>>) \o Line(end, <<>>)

Bodies == {<<p, q, r>> : p \in Parts, q \in {F1, Noise, Stray, Short, Long}, r \in {F1, F2}}
Refused(status, header) ==
  Plain(<<status, CR, LF, header, CR, LF, Header, CR, LF, Header, CR, LF, Header, CR, LF, CR, LF>>) \o Labelled(F1.bytes)
Stream(parts, wire, chunked) ==
  [wire |-> wire, body |-> Labelled(BytesOf(parts)), real |-> RealOf(parts), chunked |-> chunked]
StreamsOf(parts) ==
  LET body == Labelled(BytesOf(parts))
      crlf == <<CR, LF>>
  IN { Stream(parts, Icy(body), FALSE),
       Stream(parts, Http(crlf, crlf, Len(body), body), TRUE),
       Stream(parts, Http(crlf, crlf, 5, body), TRUE),
       Stream(parts, Http(<<59, 120, CR, LF>>, <<LF>>, Len(body) - 4, body), TRUE),
       Stream(parts, Http(crlf, <<>>, 6, body), TRUE) }
MCStreams ==
  UNION {StreamsOf(parts) : parts \in Bodies}
  \cup {Stream(<<F1>>, Refused(s, h), FALSE) : s \in {HttpStatus, Refusal}, h \in {Header, ListType}}
MCFilters == { [mode |-> "pass_all", ids |-> {}], [mode |-> "blocklist", ids |-> {1077}] }
=============================================================================
