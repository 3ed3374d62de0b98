----------------------------- MODULE InputStream -----------------------------
(***************************************************************************)
(* From the bytes of a socket to the Frames of a destination: the caster's    *)
(* reply (core/ntrip/protocol.py), the chunked body (core/ntrip/chunked.py),   *)
(* the extraction of RTCM Frames (core/broadcast_hub.py, rtcm_decoder.py) and *)
(* the filter of a destination (core/message_filter.py), with the stream cut  *)
(* between any two bytes by the reads.                                       *)
(*                                                                          *)
(* A byte is a number; the text of a status or header line counts as one      *)
(* byte beyond 255, which no cut divides.  A byte carries a label that the    *)
(* code never looks at: its place in the body that the caster sends, or 0.    *)
(***************************************************************************)
EXTENDS Integers, Sequences, SequencesExt

CONSTANTS
  Streams,      (* what casters send: [wire, body, real, chunked]; wire is a     *)
                (* sequence of labelled bytes, body those labelled 1, 2, ...,    *)
                (* real the Frames in it as [from, to, id], in order           *)
  ReadSizes,    (* how many bytes a recv() returns                            *)
  Filters,      (* filter configurations: [mode, ids]                         *)
  MaxSizeLine,  (* _MAX_SIZE_LINE                                             *)
  MaxHead       (* MAX_REPLY_HEAD_BYTES                                       *)

CR == 13
LF == 10
IcyStatus  == 300      (* "ICY 200 OK"                                        *)
HttpStatus == 301      (* "HTTP/1.1 200 OK"                                   *)
Refusal    == 304      (* "SOURCETABLE 200 OK", "HTTP/1.1 401", ...            *)
ListType   == 305      (* "Content-Type: text/plain"                          *)
Header     == 302      (* "Name: value"                                       *)
ChunkedTE  == 303      (* "Transfer-Encoding: chunked"                        *)

VARIABLES
  stream,     (* what this caster sends                                       *)
  filter,     (* the destination's filter                                     *)
  pos,        (* how much of it recv() has returned                           *)
  phase,      (* "head", "body", "ended", "corrupt" or "refused"              *)
  early,      (* history: did read_reply give up waiting for the headers?     *)
  reply,      (* read_reply: buf                                              *)
  decoder,    (* ChunkedDecoder, or NoDecoder                                 *)
  handed,     (* history: the bytes that read_data returned                   *)
  buffer,     (* the hub's _frame_buffer                                      *)
  sent        (* history: the message numbers of what the destination got      *)

vars == <<stream, filter, pos, phase, early, reply, decoder, handed, buffer, sent>>

NoDecoder  == [on |-> FALSE]
NewDecoder == [on |-> TRUE, buffer |-> <<>>, remaining |-> 0, expectCrlf |-> FALSE,
               finished |-> FALSE, bad |-> FALSE]

After(s, n) == SubSeq(s, n + 1, Len(s))
LfAt(s) == {i \in 1 .. Len(s) : s[i].b = LF}
First(S) == CHOOSE i \in S : \A j \in S : i <= j

(* FilterConfig.__post_init__                                                   *)
ValidFilter(f) ==
  /\ f.mode = "pass_all" <=> f.ids = {}
  /\ f.ids \subseteq 0 .. 4095
ASSUME FiltersAssumption == \A f \in Filters : ValidFilter(f)

-----------------------------------------------------------------------------
(* Faulty forms of definitions below: plausible bugs that the properties must    *)
(* exclude.  No specification uses them.                                     *)

CrlfSplit(d) ==
  IF d.buffer[1].b = LF THEN [d EXCEPT !.buffer = After(@, 1), !.expectCrlf = FALSE]
  ELSE IF d.buffer[1].b = CR THEN [d EXCEPT !.buffer = After(@, 2), !.expectCrlf = FALSE]
  ELSE [d EXCEPT !.buffer = After(@, 1), !.expectCrlf = FALSE]

SkippedWhole(s, length) == After(s, length)

-----------------------------------------------------------------------------
(* rtcm_decoder.py: the table for the polynomial, the checksum, a valid Frame    *)
Poly == 8801531     (* 0x1864CFB without its highest bit *)

ByteXor ==
  [a \in 0 .. 255 |-> [b \in 0 .. 255 |->
    LET bit(i) == IF (a \div i) % 2 = (b \div i) % 2 THEN 0 ELSE i
    IN bit(1) + bit(2) + bit(4) + bit(8) + bit(16) + bit(32) + bit(64) + bit(128)]]
Xor(a, b) ==
  LET byte(i) == i * ByteXor[(a \div i) % 256][(b \div i) % 256]
  IN byte(65536) + byte(256) + byte(1)

CRC24Q_TABLE ==
  [byte \in 0 .. 255 |->
    LET shifted[i \in 0 .. 8] ==
          IF i = 0 THEN byte * 65536
          ELSE LET twice == 2 * shifted[i - 1] IN
               IF twice >= 16777216 THEN Xor(twice - 16777216, Poly) ELSE twice
    IN shifted[8]]

CalcCrc24q(s) ==
  FoldLeft(LAMBDA crc, x : Xor((crc % 65536) * 256, CRC24Q_TABLE[ByteXor[crc \div 65536][x.b]]), 0, s)

CrcBytes(s) == LET n == Len(s) IN s[n - 2].b * 65536 + s[n - 1].b * 256 + s[n].b

ValidateCrc24q(s) == Len(s) >= 6 /\ CalcCrc24q(SubSeq(s, 1, Len(s) - 3)) = CrcBytes(s)

PayloadLength(s) == (s[2].b % 4) * 256 + s[3].b

IsValidFrame(s) ==
  Len(s) >= 8 /\ s[1].b = 211 /\ Len(s) >= PayloadLength(s) + 6 /\ ValidateCrc24q(s)

MessageId(s) == s[4].b * 16 + s[5].b \div 16

-----------------------------------------------------------------------------
(* broadcast_hub.py, _extract_complete_rtcm_frames, from an offset of the buffer   *)
(* on: [frames, rest]                                                        *)
Skipped(s, length) == After(s, 1)

RECURSIVE Extract(_)
Extract(s) ==
  IF s = <<>> THEN [frames |-> <<>>, rest |-> s]
  ELSE IF s[1].b # 211 THEN Extract(After(s, 1))
  ELSE IF Len(s) < 3 \/ Len(s) < PayloadLength(s) + 6 THEN [frames |-> <<>>, rest |-> s]
  ELSE LET length == PayloadLength(s) + 6
           frame == SubSeq(s, 1, length)
       IN IF IsValidFrame(frame)
            THEN LET more == Extract(After(s, length))
                 IN [more EXCEPT !.frames = <<MessageId(frame)>> \o @]
            ELSE Extract(Skipped(s, length))

(* message_filter.py: should_pass and filter_frames                              *)
ShouldPass(f, id) ==
  \/ f.mode = "pass_all"
  \/ f.mode = "allowlist" /\ id \in f.ids
  \/ f.mode = "blocklist" /\ id \notin f.ids

FilterFrames(f, ids) == SelectSeq(ids, LAMBDA id : ShouldPass(f, id))

-----------------------------------------------------------------------------
(* ChunkedDecoder.feed, one turn of its loop after the other: [d, out]           *)
HexDigit(b) ==
  CASE b \in 48 .. 57 -> b - 48 [] b \in 65 .. 70 -> b - 55 [] b \in 97 .. 102 -> b - 87 [] OTHER -> 16
SizeField(line) ==      (* before ";", without the CR; -1 if it is no number      *)
  LET stops == {i \in 1 .. Len(line) : line[i].b \in {59, CR}}
      digits == IF stops = {} THEN line ELSE SubSeq(line, 1, First(stops) - 1)
      size[i \in 0 .. Len(digits)] == IF i = 0 THEN 0 ELSE 16 * size[i - 1] + HexDigit(digits[i].b)
  IN IF digits = <<>> \/ \E i \in 1 .. Len(digits) : HexDigit(digits[i].b) = 16 THEN -1 ELSE size[Len(digits)]

Least(a, b) == IF a < b THEN a ELSE b
Bad(d) == [d |-> [d EXCEPT !.bad = TRUE], out |-> <<>>]
Waits(d) == [d |-> d, out |-> <<>>]

TakeCrlf(d) ==
  IF d.buffer[1].b = LF THEN [d EXCEPT !.buffer = After(@, 1), !.expectCrlf = FALSE]
  ELSE IF d.buffer[1].b = CR /\ d.buffer[2].b = LF
    THEN [d EXCEPT !.buffer = After(@, 2), !.expectCrlf = FALSE]
  ELSE [d EXCEPT !.bad = TRUE]

TakeSize(d) ==
  LET end == First(LfAt(d.buffer))
      size == SizeField(SubSeq(d.buffer, 1, end - 1))
  IN IF size = 0 THEN [d EXCEPT !.finished = TRUE, !.buffer = <<>>]
     ELSE IF size < 0 THEN [d EXCEPT !.bad = TRUE]
     ELSE [d EXCEPT !.buffer = After(@, end), !.remaining = size]

RECURSIVE Decode(_)
Decode(d) ==
  IF d.bad \/ d.finished \/ d.buffer = <<>> THEN Waits(d)
  ELSE IF d.remaining > 0
    THEN LET taken == Least(d.remaining, Len(d.buffer))
             more == Decode([d EXCEPT !.buffer = After(@, taken), !.remaining = @ - taken,
                                      !.expectCrlf = (d.remaining = taken)])
         IN [more EXCEPT !.out = SubSeq(d.buffer, 1, taken) \o @]
  ELSE IF d.expectCrlf
    THEN IF Len(d.buffer) < 2 /\ d.buffer[1].b # LF THEN Waits(d) ELSE Decode(TakeCrlf(d))
  ELSE IF LfAt(d.buffer) = {}
    THEN IF Len(d.buffer) > MaxSizeLine THEN Bad(d) ELSE Waits(d)
  ELSE Decode(TakeSize(d))

Feed(d, s) == IF d.finished THEN Waits(d) ELSE Decode([d EXCEPT !.buffer = @ \o s])

(* NtripInputSource._dechunk                                                    *)
Dechunk(d, s) == IF d.on THEN Feed(d, s) ELSE [d |-> d, out |-> s]

-----------------------------------------------------------------------------
(* protocol.py: complete header lines up to and including a blank one: where they   *)
(* end, and whether there was a blank one                                      *)
LineEnd(s, p) ==
  LET text == IF p <= Len(s) /\ s[p].b \in {Header, ChunkedTE, ListType} THEN p + 1 ELSE p
      cr == IF text <= Len(s) /\ s[text].b = CR THEN text + 1 ELSE text
  IN IF cr <= Len(s) /\ s[cr].b = LF THEN cr ELSE 0

RECURSIVE SplitHeaders(_, _)
SplitHeaders(s, p) ==
  LET end == LineEnd(s, p)
  IN IF end = 0 THEN [end |-> p - 1, blank |-> FALSE]
     ELSE IF s[p].b \in {CR, LF} THEN [end |-> end, blank |-> TRUE]
     ELSE SplitHeaders(s, end + 1)

HeadComplete(s) ==
  /\ LfAt(s) # {}
  /\ s[1].b \in {HttpStatus, Refusal} => SplitHeaders(s, First(LfAt(s)) + 1).blank

(* _classify_status and _is_sourcetable_type                                      *)
Accepted(s, end) == s[1].b # Refusal /\ ~\E i \in 1 .. end : s[i].b = ListType

(* parse_reply: the outcome, what is left over, and is the body chunked?            *)
ParseReply(s) ==
  LET headers == SplitHeaders(s, First(LfAt(s)) + 1)
  IN [accepted |-> Accepted(s, headers.end), leftover |-> After(s, headers.end),
      chunked |-> \E i \in 1 .. headers.end : s[i].b = ChunkedTE]

-----------------------------------------------------------------------------
Received(k) == SubSeq(stream.wire, pos + 1, pos + k)
CanRead(k) == k \in ReadSizes /\ pos + k <= Len(stream.wire)

(* What a read returned goes through the hub to the destination                   *)
Distribute(bytes) ==
  \E found \in {Extract(buffer \o bytes)} :
     /\ handed' = handed \o bytes
     /\ buffer' = found.rest
     /\ sent' = sent \o FilterFrames(filter, found.frames)

Refuse == phase' = "refused" /\ reply' = <<>> /\ UNCHANGED <<decoder, handed, buffer, sent>>

(* _open: the bytes that came with the reply are decoded, and handed on first       *)
Accept(parsed) ==
  \E fed \in {Dechunk(IF parsed.chunked THEN NewDecoder ELSE NoDecoder, parsed.leftover)} :
     /\ decoder' = fed.d
     /\ reply' = <<>>
     /\ IF fed.d.on /\ fed.d.bad
          THEN phase' = "corrupt" /\ UNCHANGED <<handed, buffer, sent>>
          ELSE phase' = "body" /\ Distribute(fed.out)

Answered(s) ==
  \E parsed \in {ParseReply(s)} : IF parsed.accepted THEN Accept(parsed) ELSE Refuse

(* read_reply: what has arrived is a complete head, is too long for one, or waits    *)
ReadReply(k) ==
  /\ phase = "head" /\ CanRead(k)
  /\ pos' = pos + k
  /\ \E s \in {reply \o Received(k)} :
       \/ HeadComplete(s) /\ Answered(s)
       \/ ~HeadComplete(s) /\ Len(s) > MaxHead /\ Refuse
       \/ ~HeadComplete(s) /\ Len(s) <= MaxHead
          /\ reply' = s /\ UNCHANGED <<phase, decoder, handed, buffer, sent>>
  /\ UNCHANGED <<stream, filter, early>>

(* a status line arrived, but not all headers in time; the first line is that of    *)
(* an HTTP reply, or the head would be complete                                 *)
ReplyTimesOut ==
  /\ phase = "head" /\ LfAt(reply) # {}
  /\ early' = TRUE
  /\ Answered(reply)
  /\ UNCHANGED <<stream, filter, pos>>

(* read_data: a corrupt body loses the connection, and what was decoded in this       *)
(* call; the last chunk ends it after its data                                   *)
ReadData(k) ==
  /\ phase = "body" /\ CanRead(k)
  /\ ~(decoder.on /\ decoder.finished)
  /\ pos' = pos + k
  /\ \E fed \in {Dechunk(decoder, Received(k))} :
        /\ decoder' = fed.d
        /\ IF fed.d.on /\ fed.d.bad
             THEN phase' = "corrupt" /\ UNCHANGED <<handed, buffer, sent>>
             ELSE /\ phase' = IF fed.d.on /\ fed.d.finished THEN "ended" ELSE phase
                  /\ Distribute(fed.out)
  /\ UNCHANGED <<stream, filter, early, reply>>

Init ==
  /\ stream \in Streams /\ filter \in Filters
  /\ pos = 0 /\ phase = "head" /\ early = FALSE /\ reply = <<>> /\ decoder = NoDecoder
  /\ handed = <<>> /\ buffer = <<>> /\ sent = <<>>

Next == (\E k \in ReadSizes : ReadReply(k) \/ ReadData(k)) \/ ReplyTimesOut

Spec == Init /\ [][Next]_vars

-----------------------------------------------------------------------------
(* Properties.                                                               *)

Body(s) == SelectSeq(s, LAMBDA x : x.k > 0)

(* Wherever the reads cut the stream: what the input hands on is the body that has    *)
(* arrived, each byte once and in order; a chunked body without a byte of its       *)
(* framing.  Where the body is corrupt it ends, with a part of what arrived before, *)
(* and of a refusal or a source table nothing is handed on.                     *)
BodyExact ==
  phase # "head" /\ ~early =>
    /\ phase = "refused" => handed = <<>>
    /\ phase = "corrupt" => IsPrefix(handed, Body(SubSeq(stream.wire, 1, pos)))
    /\ phase \in {"body", "ended"} => Body(handed) = Body(SubSeq(stream.wire, 1, pos))
    /\ stream.chunked => Body(handed) = handed

(* The Frames that a reader of the whole body so far must have found: those that      *)
(* are complete, up to the first 0xD3 outside a Frame whose supposed Frame is        *)
(* not complete yet.                                                         *)
InFrame(i) == \E r \in 1 .. Len(stream.real) : stream.real[r].from <= i /\ i <= stream.real[r].to
Holds(i, n) ==
  /\ stream.body[i].b = 211 /\ ~InFrame(i)
  /\ i + 2 > n \/ i + PayloadLength(After(stream.body, i - 1)) + 5 > n
Due(n) ==
  SelectSeq(stream.real, LAMBDA r : r.to <= n /\ ~\E i \in 1 .. r.from : Holds(i, n))

(* The destination has got each Frame that is due, once, in order, and that its filter  *)
(* lets pass: noise, a stray 0xD3 or a corrupt Frame before it costs it nothing but   *)
(* time, and neither does a cut.  And only real Frames, even when the input gave up   *)
(* waiting for the header that says the body is chunked.                         *)
FramesComplete ==
  /\ phase # "head" /\ ~early =>
       LET due == Due(Len(Body(handed)))
       IN sent = FilterFrames(filter, [i \in 1 .. Len(due) |-> due[i].id])
  /\ \A i \in 1 .. Len(sent) : \E r \in 1 .. Len(stream.real) : stream.real[r].id = sent[i]
=============================================================================
