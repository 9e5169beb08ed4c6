----------------------------- MODULE H264Parser -----------------------------
(***************************************************************************)
(* The parser that watches the encoded stream (core/h264_parser.c): it      *)
(* splits Annex B data at its start codes, reads the picture size out of    *)
(* the sequence parameter set and the type of a slice out of its header,    *)
(* bit by bit, and counts.                                                 *)
(*                                                                         *)
(* What is fed is what an encoder emits: the module has an encoder of its   *)
(* own, written from the format and not from the parser, and the parser     *)
(* has to find again what went in.  Bytes are numbers, bits 0 and 1.        *)
(***************************************************************************)
EXTENDS Integers, FiniteSets, SequencesExt

CONSTANTS
  MaxNalus,    (* the units fed, at most                                   *)
  PacketUnits  (* the units of one packet, at most                         *)

ASSUME ParserAssumption == MaxNalus \in Nat /\ PacketUnits \in Nat

VARIABLES
  stats,             (* h264_stats_t                                       *)
  sps_valid,
  frames_since_idr,
  units              (* history: the units that were fed                   *)

parserVars == <<stats, sps_valid, frames_since_idr, units>>

-----------------------------------------------------------------------------
(* The encoder: bits, units, and packets of units. *)

Zeros(n) == [i \in 1 .. n |-> 0]

Binary(v, n) == [i \in 1 .. n |-> (v \div 2 ^ (n - i)) % 2]

(* ue(v) and se(v) of ITU-T H.264, 9.1. *)
UeCode(v) ==
  LET n == CHOOSE k \in 0 .. 16 : 2 ^ k <= v + 1 /\ v + 1 < 2 ^ (k + 1)
  IN Zeros(n) \o Binary(v + 1, n + 1)

SeCode(v) == UeCode(IF v > 0 THEN 2 * v - 1 ELSE -2 * v)

(* The stop bit, and zeros up to the next byte. *)
Bytes(bits) ==
  LET stopped == bits \o <<1>>
      padded == stopped \o Zeros((8 - (Len(stopped) % 8)) % 8)
  IN [i \in 1 .. Len(padded) \div 8 |->
        FoldLeft(LAMBDA acc, b : 2 * acc + b, 0, SubSeq(padded, 8 * i - 7, 8 * i))]

Slice(first_mb, slice_type) == Bytes(UeCode(first_mb) \o UeCode(slice_type) \o <<1, 0, 1>>)

(* 640 x 480, baseline. *)
BaselineSps ==
  Bytes(Binary(66, 8) \o Binary(192, 8) \o Binary(30, 8) \o UeCode(0) \o UeCode(0) \o UeCode(2)
        \o UeCode(1) \o <<0>> \o UeCode(39) \o UeCode(29) \o <<1, 1, 0, 0>>)

(* 1920 x 1080, high profile, with a scaling list, cropped at the bottom. *)
HighSps ==
  Bytes(Binary(100, 8) \o Binary(0, 8) \o Binary(40, 8) \o UeCode(0)
        \o UeCode(1) \o UeCode(0) \o UeCode(0) \o <<0, 1>>
        \o <<1>> \o SeCode(2) \o SeCode(-10) \o <<0, 0, 0, 0, 0, 0, 0>>
        \o UeCode(4) \o UeCode(0) \o UeCode(2)
        \o UeCode(4) \o <<0>> \o UeCode(119) \o UeCode(67) \o <<1, 1>>
        \o <<1>> \o UeCode(0) \o UeCode(0) \o UeCode(0) \o UeCode(4) \o <<0>>)

(* 720 x 576, main profile, interlaced. *)
InterlacedSps ==
  Bytes(Binary(77, 8) \o Binary(64, 8) \o Binary(30, 8) \o UeCode(0) \o UeCode(0)
        \o UeCode(1) \o <<0>> \o SeCode(0) \o SeCode(-1) \o UeCode(2) \o SeCode(3) \o SeCode(1)
        \o UeCode(2) \o <<1>> \o UeCode(44) \o UeCode(17) \o <<0, 1>> \o <<1, 0, 0>>)

(* The units: what they are, and their bytes with the header. *)
Unit ==
  [sps    |-> <<103>> \o BaselineSps, high |-> <<103>> \o HighSps,
   field  |-> <<103>> \o InterlacedSps,
   pps    |-> <<104>> \o Bytes(UeCode(0) \o UeCode(0) \o <<1, 0>>),
   sei    |-> <<6, 5, 1, 128>>, aud |-> <<9, 240>>,
   IDR    |-> <<101>> \o Slice(0, 7), I |-> <<65>> \o Slice(0, 2),
   P      |-> <<65>> \o Slice(0, 5), lateP |-> <<65>> \o Slice(300, 0),
   B      |-> <<1>> \o Slice(0, 6), damaged |-> <<225, 154>>]

StartCode == [short |-> <<0, 0, 1>>, long |-> <<0, 0, 0, 1>>]

Packets ==
  UNION {[1 .. n -> (DOMAIN Unit) \X (DOMAIN StartCode)] : n \in 1 .. PacketUnits}

(* The bytes of a packet's first n units. *)
BytesUpTo(p, n) ==
  LET fed[i \in 0 .. n] ==
        IF i = 0 THEN <<>> ELSE fed[i - 1] \o StartCode[p[i][2]] \o Unit[p[i][1]]
  IN fed[n]

AnnexB == [p \in Packets |-> BytesUpTo(p, Len(p))]

-----------------------------------------------------------------------------
(* The parser. *)

(* Mutant: only the long start code is recognised. *)
LongCodeAt(data, i) ==
  IF i + 3 <= Len(data) /\ SubSeq(data, i, i + 3) = <<0, 0, 0, 1>> THEN 4 ELSE 0

(* The length of a start code at a byte, 0 if there is none. *)
StartCodeAt(data, i) ==
  IF i + 2 <= Len(data) /\ data[i] = 0 /\ data[i + 1] = 0
    THEN IF data[i + 2] = 1 THEN 3
         ELSE IF i + 3 <= Len(data) /\ data[i + 2] = 0 /\ data[i + 3] = 1 THEN 4 ELSE 0
    ELSE 0

(* The place of the next start code, one past the end without one. *)
find_start_code(data, from) ==
  Min({i \in from .. Len(data) : StartCodeAt(data, i) > 0} \cup {Len(data) + 1})

(* One round of the loop of h264_parser_feed: empty units and those with the  *)
(* forbidden bit are passed over.                                           *)
FeedRound(data, st) ==
  LET code == find_start_code(data, st.offset)
      begin == code + StartCodeAt(data, code)
      next == find_start_code(data, begin)
      nalu == SubSeq(data, begin, next - 1)
  IN IF code > Len(data) THEN st
     ELSE IF nalu = <<>> THEN [st EXCEPT !.offset = begin]
     ELSE [offset |-> next,
           nalus |-> IF nalu[1] >= 128 THEN st.nalus ELSE Append(st.nalus, nalu)]

(* A round that changes nothing is the end of the loop. *)
Nalus(data) ==
  LET rounds[n \in 0 .. Len(data)] ==
        IF n = 0 THEN [offset |-> 1, nalus |-> <<>>] ELSE FeedRound(data, rounds[n - 1])
  IN rounds[Len(data)].nalus

BitsOf(data) == FoldLeft(LAMBDA acc, b : acc \o Binary(b, 8), <<>>, data)

(* bs_read_bit and bs_read_bits: no bits come after the end. *)
ReadBits(bits, at, n) ==
  FoldLeft(LAMBDA acc, b : 2 * acc + b, 0, SubSeq(bits, at, IF at + n - 1 < Len(bits)
                                                              THEN at + n - 1 ELSE Len(bits)))

LeadingZeros(bits, at) == Min({i \in at .. Len(bits) : bits[i] = 1} \cup {Len(bits) + 1}) - at

(* The units of an encoder have fewer than 32 leading zeros. *)
bs_read_ue(bits, at) ==
  LET zeros == LeadingZeros(bits, at)
  IN 2 ^ zeros - 1 + ReadBits(bits, at + zeros + 1, zeros)

bs_read_se(bits, at) ==
  LET k == bs_read_ue(bits, at) IN IF k % 2 = 0 THEN -(k \div 2) ELSE (k + 1) \div 2

(* Where the reader stands after n codes. *)
AfterUe(bits, at, n) ==
  FoldLeft(LAMBDA q, i : q + 2 * LeadingZeros(bits, q) + 1, at, Zeros(n))

(* The scaling lists: the codes of one end where the next scale is 0. *)
AfterScalingList(bits, at, entries) ==
  FoldLeft(LAMBDA s, j :
             IF s.next = 0 THEN s
             ELSE LET next == (s.last + bs_read_se(bits, s.at) + 256) % 256
                  IN [at |-> AfterUe(bits, s.at, 1), next |-> next,
                      last |-> IF next = 0 THEN s.last ELSE next],
           [at |-> at, last |-> 8, next |-> 8], Zeros(entries)).at

AfterScalingLists(bits, at, count) ==
  FoldLeft(LAMBDA q, i : IF ReadBits(bits, q, 1) = 0 THEN q + 1
                         ELSE AfterScalingList(bits, q + 1, IF i <= 6 THEN 16 ELSE 64),
           at, [i \in 1 .. count |-> i])

HighProfiles == {100, 110, 122, 244, 44, 83, 86, 118, 128, 138, 139, 134}

(* parse_sps, as far as the size: the frame numbers after the profile's own     *)
(* fields, the reference frames after the picture order, and the size.        *)
FrameNumFrom(bits, chromaAt, chroma, scalingAt) ==
  IF ReadBits(bits, 1, 8) \notin HighProfiles THEN chromaAt
  ELSE IF ReadBits(bits, scalingAt, 1) = 0 THEN scalingAt + 1
  ELSE AfterScalingLists(bits, scalingAt + 1, IF chroma # 3 THEN 8 ELSE 12)

FrameNumAt(bits, chromaAt) ==
  LET chroma == bs_read_ue(bits, chromaAt)
  IN FrameNumFrom(bits, chromaAt, chroma,
                  AfterUe(bits, AfterUe(bits, chromaAt, 1) + (IF chroma = 3 THEN 1 ELSE 0), 2) + 1)

RefsFrom(bits, orderAt, cycleAt) ==
  LET orderType == bs_read_ue(bits, orderAt)
  IN CASE orderType = 0 -> AfterUe(bits, orderAt, 2)
       [] orderType = 1 -> AfterUe(bits, cycleAt, 1 + bs_read_ue(bits, cycleAt))
       [] OTHER -> AfterUe(bits, orderAt, 1)

RefsAt(bits, orderAt) ==
  RefsFrom(bits, orderAt, AfterUe(bits, AfterUe(bits, orderAt, 1) + 1, 2))

Cropped(bits, at) ==
  [i \in 1 .. 4 |-> IF ReadBits(bits, at, 1) = 0 THEN 0
                    ELSE bs_read_ue(bits, AfterUe(bits, at + 1, i - 1))]

SizeOf(across, down, rows, crop) ==
  [width  |-> (across + 1) * 16 - (crop[1] + crop[2]) * 2,
   height |-> (down + 1) * 16 * rows - (crop[3] + crop[4]) * 2 * rows]

SizeFrom(bits, widthAt, flagsAt) ==
  LET rows == 2 - ReadBits(bits, flagsAt, 1)
  IN SizeOf(bs_read_ue(bits, widthAt), bs_read_ue(bits, AfterUe(bits, widthAt, 1)), rows,
            Cropped(bits, flagsAt + rows + 1))

SizeAt(bits, widthAt) == SizeFrom(bits, widthAt, AfterUe(bits, widthAt, 2))

PictureSize(bits) ==
  LET orderAt == AfterUe(bits, FrameNumAt(bits, AfterUe(bits, 25, 1)), 1)
  IN SizeAt(bits, AfterUe(bits, RefsAt(bits, orderAt), 1) + 1)

(* detect_frame_type, of a slice. *)
SliceType(rbsp) ==
  LET bits == BitsOf(rbsp)
      type == bs_read_ue(bits, AfterUe(bits, 1, 1)) % 5
  IN CASE type = 0 -> "p_count" [] type = 1 -> "b_count" [] type = 2 -> "i_count" [] OTHER -> "none"

(* What a unit counts as, by its type; a parameter set without a byte is not  *)
(* parsed and not counted.                                                  *)
Counter(nalu) ==
  LET type == nalu[1] % 32 IN
  CASE type = 7 /\ Len(nalu) > 1 -> "sps_count" [] type = 8 /\ Len(nalu) > 1 -> "pps_count"
    [] type = 5 -> "idr_count" [] type \in 1 .. 4 -> SliceType(Tail(nalu))
    [] type = 6 -> "sei_count" [] OTHER -> "none"

(* What the parser reads out of each unit of a packet, once for all. *)
UnitRead(nalu, counter) ==
  [counter |-> counter, isSlice |-> nalu[1] % 32 \in 1 .. 4,
   size |-> IF counter = "sps_count" THEN PictureSize(BitsOf(Tail(nalu)))
                                     ELSE [width |-> 0, height |-> 0]]

UnitsRead(nalus) == [i \in DOMAIN nalus |-> UnitRead(nalus[i], Counter(nalus[i]))]

UnitsOf == [p \in Packets |-> UnitsRead(Nalus(AnnexB[p]))]

NoStats ==
  [total_nalus |-> 0, sps_count |-> 0, pps_count |-> 0, idr_count |-> 0, i_count |-> 0,
   p_count |-> 0, b_count |-> 0, sei_count |-> 0, none |-> 0, min_gop_size |-> 0,
   max_gop_size |-> 0, width |-> 0, height |-> 0]

(* One unit: the parser's state is [stats, sps_valid, since]. *)
ParseNalu(ctx, unit) ==
  LET counted == [ctx.stats EXCEPT !.total_nalus = @ + 1, ![unit.counter] = @ + 1]
  IN CASE unit.counter = "sps_count" ->
            [ctx EXCEPT !.sps_valid = TRUE,
                        !.stats = [counted EXCEPT !.width = unit.size.width,
                                                  !.height = unit.size.height]]
       [] unit.counter = "idr_count" /\ ctx.since > 0 ->
            [ctx EXCEPT !.since = 0,
                        !.stats = [counted EXCEPT
                          !.max_gop_size = IF ctx.since > @ THEN ctx.since ELSE @,
                          !.min_gop_size = IF @ = 0 \/ ctx.since < @ THEN ctx.since ELSE @]]
       [] OTHER -> [ctx EXCEPT !.stats = counted,
                               !.since = IF unit.isSlice THEN @ + 1 ELSE @]

(* All units of a packet. *)
ParseAll(ctx, read) ==
  LET after[i \in 0 .. Len(read)] ==
        IF i = 0 THEN ctx ELSE ParseNalu(after[i - 1], read[i])
  IN after[Len(read)]

ParserInit ==
  stats = NoStats /\ sps_valid = FALSE /\ frames_since_idr = 0 /\ units = <<>>

h264_parser_feed(p) ==
  /\ Len(units) + Len(p) <= MaxNalus
  /\ LET ctx == ParseAll([stats |-> stats, sps_valid |-> sps_valid, since |-> frames_since_idr],
                         UnitsOf[p])
     IN stats' = ctx.stats /\ sps_valid' = ctx.sps_valid /\ frames_since_idr' = ctx.since
  /\ units' = units \o [i \in DOMAIN p |-> p[i][1]]

ParserNext == \E p \in Packets : h264_parser_feed(p)

ParserSpec == ParserInit /\ [][ParserNext]_parserVars

-----------------------------------------------------------------------------
(* Properties. *)

Fed(fed, kinds) == Cardinality({i \in DOMAIN fed : fed[i] \in kinds})

Sizes == [sps |-> <<640, 480>>, high |-> <<1920, 1080>>, field |-> <<720, 576>>]

LastSps(fed) == Max({i \in DOMAIN fed : fed[i] \in DOMAIN Sizes})

(* The counters know the units fed. *)
Understood(counted, valid, fed) ==
  /\ counted.total_nalus = Len(fed) - Fed(fed, {"damaged"})
  /\ counted.idr_count = Fed(fed, {"IDR"}) /\ counted.i_count = Fed(fed, {"I"})
  /\ counted.p_count = Fed(fed, {"P", "lateP"}) /\ counted.b_count = Fed(fed, {"B"})
  /\ counted.sps_count = Fed(fed, DOMAIN Sizes) /\ (valid <=> Fed(fed, DOMAIN Sizes) > 0)
  /\ counted.pps_count = Fed(fed, {"pps"}) /\ counted.sei_count = Fed(fed, {"sei"})
  /\ valid => <<counted.width, counted.height>> = Sizes[fed[LastSps(fed)]]

(* Whatever units an encoder puts into a packet, with short start codes or      *)
(* long ones, the parser finds each of them once, tells the pictures apart by  *)
(* their bits, loses only damaged units, and knows the size of the last        *)
(* parameter set (h264_parser.c:53-79, 81-165, 203-235, 287-434).             *)
StreamUnderstood == Understood(stats, sps_valid, units)

(* What each unit counts as. *)
CountedAs ==
  [sps |-> "sps_count", high |-> "sps_count", field |-> "sps_count", pps |-> "pps_count",
   sei |-> "sei_count", aud |-> "none", IDR |-> "idr_count", I |-> "i_count",
   P |-> "p_count", lateP |-> "p_count", B |-> "b_count"]

(* Why it holds of a stream of any length: the twelve units, taken alone, are   *)
(* told apart by their bits, and none of them holds or prepares a start code.  *)
(* Nothing in it is a variable or a constant, so that one evaluation shows it. *)
UnitsLegible ==
  \A k \in DOMAIN Unit : LET unit == Unit[k] IN
    /\ unit \in Seq(0 .. 255) /\ unit # <<>> /\ unit[Len(unit)] # 0
    /\ \A i \in DOMAIN unit : StartCodeAt(unit, i) = 0
    /\ k = "damaged" => unit[1] >= 128
    /\ k # "damaged" => unit[1] < 128 /\ Counter(unit) = CountedAs[k]
    /\ k \in DOMAIN Sizes =>
         PictureSize(BitsOf(Tail(unit))) = [width |-> Sizes[k][1], height |-> Sizes[k][2]]

(* The mean of the groups' sizes that get_stats computes lies between the       *)
(* least and the greatest (h264_parser.c:447-452).  Violated: the mean counts  *)
(* the IDR picture and the groups' sizes do not.                             *)
MeanWithinRange ==
  stats.max_gop_size > 0 =>
    stats.idr_count + stats.i_count + stats.p_count + stats.b_count
      <= stats.max_gop_size * stats.idr_count

=============================================================================
