------------------------------ MODULE MmalUtil ------------------------------
(***************************************************************************)
(* MMAL's utilities, in three parts.                                       *)
(*                                                                         *)
(* Conversions: rational numbers (mmal_util_rational.c), the tables        *)
(* between MMAL and OpenMAX names and the formats and buffer headers       *)
(* converted with them (mmal_il.c), strides (mmal_util.c) and the names    *)
(* that command lines use (mmal_param_convert.c).  They keep no state: a   *)
(* step converts one input, and the result is kept beside it.              *)
(*                                                                         *)
(* Formats (mmal_format.c): copying and comparing, with the buffer for     *)
(* codec data that grows behind a format.                                  *)
(*                                                                         *)
(* Lists (mmal_list.c): the doubly linked list and its threads.            *)
(***************************************************************************)
EXTENDS Integers, Sequences, FiniteSets, FiniteSetsExt, SequencesExt

CONSTANTS
    RationalMax,   \* bound: numerators and denominators checked
    FixedOne,      \* Q16_ONE, 2^16 in the code
    FixedMax       \* INT_MAX

ASSUME ConvertAssumption == RationalMax \in Nat /\ FixedOne \in Nat \ {0} /\ FixedMax \in Nat

VARIABLES
    cvGiven,   \* <<kind of conversion, inputs>>
    cvGot      \* its result

convertVars == <<cvGiven, cvGot>>

-----------------------------------------------------------------------------
(* mmal_util_rational.c *)

CvAbs(n) == IF n < 0 THEN -n ELSE n
\* C's division, which truncates towards zero.
CDiv(a, b) == IF (a < 0) = (b < 0) THEN CvAbs(a) \div CvAbs(b) ELSE -(CvAbs(a) \div CvAbs(b))

\* The loop of gcd(): both are halved while they are even, and the smaller taken from the larger.
BinaryGcd[a \in Nat, b \in Nat] ==
    IF a = 0 THEN b
    ELSE IF a % 2 = 0 /\ b % 2 = 0 THEN 2 * BinaryGcd[a \div 2, b \div 2]
    ELSE IF a % 2 = 0 THEN BinaryGcd[a \div 2, b]
    ELSE IF b % 2 = 0 THEN BinaryGcd[a, b \div 2]
    ELSE IF a >= b THEN BinaryGcd[(a - b) \div 2, b] ELSE BinaryGcd[a, (b - a) \div 2]
Gcd(a, b) == IF a = 0 \/ b = 0 THEN 1 ELSE BinaryGcd[CvAbs(a), CvAbs(b)]

\* Mutant: the common divisor of the sum is not taken out.
RationalAddUnreduced(a, b) ==
    LET g == Gcd(a.den, b.den)
    IN  [num |-> a.num * CDiv(b.den, g) + b.num * CDiv(a.den, g), den |-> CDiv(a.den, g) * b.den]

RationalAdd(a, b) ==
    LET g == Gcd(a.den, b.den)
        num == a.num * CDiv(b.den, g) + b.num * CDiv(a.den, g)
        h == Gcd(num, g)
    IN  [num |-> CDiv(num, h), den |-> CDiv(a.den, g) * CDiv(b.den, h)]
RationalSubtract(a, b) == RationalAdd(a, [b EXCEPT !.num = -@])
RationalMultiply(a, b) ==
    LET g1 == Gcd(a.num, b.den)
        g2 == Gcd(b.num, a.den)
    IN  [num |-> CDiv(a.num, g1) * CDiv(b.num, g2), den |-> CDiv(a.den, g2) * CDiv(b.den, g1)]
RationalDivide(a, b) ==
    LET g1 == Gcd(a.num, b.num)
        g2 == Gcd(b.den, a.den)
    IN  IF b.num = 0 \/ a.num = 0 THEN a
        ELSE [num |-> CDiv(a.num, g1) * CDiv(b.den, g2), den |-> CDiv(a.den, g2) * CDiv(b.num, g1)]
RationalSimplify(a) == [num |-> CDiv(a.num, Gcd(a.num, a.den)), den |-> CDiv(a.den, Gcd(a.num, a.den))]

\* mmal_rational_to_fixed_16_16(), which stops at the limits of an integer.
RationalToFixed(a) ==
    LET r == IF a.den = 0 THEN a.num * FixedOne ELSE CDiv(a.num * FixedOne, a.den)
    IN  IF r > FixedMax THEN FixedMax ELSE IF r < -FixedMax - 1 THEN -FixedMax - 1 ELSE r
RationalFromFixed(f) == RationalSimplify([num |-> f, den |-> FixedOne])

RationalOp(op, a, b) ==
    CASE op = "add" -> RationalAdd(a, b) [] op = "subtract" -> RationalSubtract(a, b)
      [] op = "multiply" -> RationalMultiply(a, b) [] op = "divide" -> RationalDivide(a, b)
Rationals == [num : -RationalMax..RationalMax, den : (-RationalMax..RationalMax) \ {0}]

-----------------------------------------------------------------------------
(* mmal_il.c: tables of <<name in MMAL, name in OpenMAX>>, searched from the start *)

ErrorTable ==
    <<<<"SUCCESS", "None">>, <<"ENOMEM", "InsufficientResources">>, <<"ENOSPC", "InsufficientResources">>,
      <<"EINVAL", "BadParameter">>, <<"ENOSYS", "NotImplemented">>, <<"unknown", "Undefined">>>>
EsTypeTable == <<<<"VIDEO", "Video">>, <<"VIDEO", "Image">>, <<"AUDIO", "Audio">>, <<"unknown", "Max">>>>
AudioCodingTable ==
    <<<<"MP4A", "AAC">>, <<"MPGA", "MP3">>, <<"WMA2", "WMA">>, <<"WMA1", "WMA">>, <<"AMRNB", "AMR">>,
      <<"AMRWB", "AMR">>, <<"AMRWBP", "AMR">>, <<"VORBIS", "VORBIS">>, <<"ALAW", "PCM">>, <<"MULAW", "PCM">>,
      <<"SIGNED_LE", "PCM">>, <<"UNSIGNED_LE", "PCM">>, <<"SIGNED_BE", "PCM">>, <<"UNSIGNED_BE", "PCM">>,
      <<"unknown", "Unused">>>>
VideoCodingTable ==
    <<<<"H264", "AVC">>, <<"MP4V", "MPEG4">>, <<"MP2V", "MPEG2">>, <<"MP1V", "MPEG2">>, <<"H263", "H263">>,
      <<"WMV3", "WMV">>, <<"WMV2", "WMV">>, <<"WMV1", "WMV">>, <<"WVC1", "WMV">>, <<"VP6", "VP6">>, <<"VP7", "VP7">>,
      <<"VP8", "VP8">>, <<"SPARK", "Sorenson">>, <<"THEORA", "Theora">>, <<"unknown", "Unused">>>>
ImageCodingTable ==
    <<<<"JPEG", "JPEG">>, <<"GIF", "GIF">>, <<"PNG", "PNG">>, <<"BMP", "BMP">>, <<"TGA", "TGA">>, <<"PPM", "PPM">>,
      <<"unknown", "Unused">>>>
ColorFormatTable ==
    <<<<"I420", "YUV420PackedPlanar">>, <<"I422", "YUV422PackedPlanar">>, <<"I420_SLICE", "YUV420PackedPlanar">>,
      <<"I422_SLICE", "YUV422PackedPlanar">>, <<"I420", "YUV420Planar">>, <<"YV12", "YVU420PackedPlanar">>,
      <<"NV12", "YUV420PackedSemiPlanar">>, <<"NV12", "YUV420SemiPlanar">>, <<"NV21", "YVU420PackedSemiPlanar">>,
      <<"YUVUV128", "YUVUV128">>, <<"YUYV", "YCbYCr">>, <<"YVYU", "YCrYCb">>, <<"UYVY", "CbYCrY">>,
      <<"VYUY", "CrYCbY">>, <<"RGB16", "16bitRGB565">>, <<"BGR24", "24bitRGB888">>, <<"BGRA", "32bitARGB8888">>,
      <<"BGR16", "16bitBGR565">>, <<"RGB24", "24bitBGR888">>, <<"ARGB", "32bitBGRA8888">>,
      <<"RGBA", "32bitABGR8888">>, <<"EGL_IMAGE", "BRCMEGL">>, <<"OPAQUE", "BRCMOpaque">>, <<"unknown", "Unused">>>>
ColorSpaceTable ==
    <<<<"ITUR_BT601", "ITU_R_BT601">>, <<"ITUR_BT709", "ITU_R_BT709">>, <<"JPEG_JFIF", "JPEG_JFIF">>, <<"FCC", "FCC">>,
      <<"SMPTE240M", "SMPTE240M">>, <<"BT470_2_M", "BT470_2_M">>, <<"BT470_2_BG", "BT470_2_BG">>,
      <<"JFIF_Y16_255", "JFIF_Y16_255">>, <<"unknown", "UNKNOWN">>>>
RateControlTable ==
    <<<<"DEFAULT", "Disable">>, <<"VARIABLE", "Variable">>, <<"CONSTANT", "Constant">>,
      <<"VARIABLE_SKIP", "VariableSkipFrames">>, <<"CONSTANT_SKIP", "ConstantSkipFrames">>, <<"unknown", "Max">>>>
Tables == {ErrorTable, EsTypeTable, AudioCodingTable, VideoCodingTable, ImageCodingTable, ColorFormatTable,
           ColorSpaceTable, RateControlTable}

\* The searches stop at the first entry with the name, or at the last entry of the table.
Search(T, col, x) ==
    LET hits == {i \in 1..(Len(T) - 1) : T[i][col] = x} IN IF hits = {} THEN Len(T) ELSE Min(hits)
ToOmx(T, x) == T[Search(T, 1, x)][2]
ToMmal(T, x) == T[Search(T, 2, x)][1]

\* Profiles and levels are numbered within a coding on the side of OpenMAX, and apart in MMAL: the
\* tables have n entries <<MMAL's, OpenMAX's, the coding>> for each coding.
Numbered(coding, n) == [i \in 1..n |-> <<<<coding, i>>, i, coding>>]
ProfileTable ==
    Numbered("H263", 9) \o Numbered("MPEG4", 16) \o Numbered("AVC", 8) \o <<<<<<"dummy", 0>>, 0, "AVC">>>>
LevelTable ==
    Numbered("H263", 8) \o Numbered("MPEG4", 9) \o Numbered("AVC", 16) \o <<<<<<"dummy", 0>>, 0, "Max">>>>

NumberToMmal(T, n, coding) ==
    LET hits == {i \in 1..(Len(T) - 1) : T[i][2] = n /\ T[i][3] = coding}
    IN  T[IF hits = {} THEN Len(T) ELSE Min(hits)][1]
NumberToOmx(T, x) == T[Search(T, 1, x)][2]

\* mmalil_format_to_omx_audio_param(): what of an audio format OpenMAX's parameter says: the mode,
\* order and sign of PCM, the stream of AAC, the version of WMA, the band of AMR.
AudioToOmx(f) ==
    LET coding == ToOmx(AudioCodingTable, f.encoding)
        how == CASE f.encoding \in {"SIGNED_BE", "UNSIGNED_BE", "SIGNED_LE", "UNSIGNED_LE"} ->
                        <<"Linear", IF f.encoding \in {"SIGNED_BE", "UNSIGNED_BE"} THEN "Big" ELSE "Little",
                          IF f.encoding \in {"UNSIGNED_LE", "UNSIGNED_BE"} THEN "Unsigned" ELSE "Signed">>
                 [] f.encoding \in {"ALAW", "MULAW"} -> <<f.encoding>>
                 [] f.encoding = "MP4A" -> <<IF f.variant = "adts" THEN "MP4ADTS" ELSE "RAW">>
                 [] f.encoding = "WMA1" -> <<"Format7">>
                 [] f.encoding = "WMA2" -> <<"Format8">>
                 [] f.encoding = "AMRNB" -> <<"NB">>
                 [] f.encoding = "AMRWB" -> <<"WB">>
                 [] OTHER -> <<>>
    IN  [coding |-> coding, how |-> how, channels |-> f.channels, rate |-> f.rate]

\* mmalil_omx_audio_param_to_format(): AMR is always given the sample rate of its narrow band.
AudioToMmal(p) ==
    LET e == CASE p.coding = "PCM" /\ p.how[1] = "Linear" ->
                      (IF p.how[3] = "Signed" THEN (IF p.how[2] = "Big" THEN "SIGNED_BE" ELSE "SIGNED_LE")
                       ELSE IF p.how[2] = "Big" THEN "UNSIGNED_BE" ELSE "UNSIGNED_LE")
               [] p.coding = "PCM" /\ p.how[1] # "Linear" -> p.how[1]
               [] p.coding = "AAC" -> "MP4A"
               [] p.coding = "MP3" -> "MPGA"
               [] p.coding = "VORBIS" -> "VORBIS"
               [] p.coding = "WMA" -> (IF p.how = <<"Format7">> THEN "WMA1" ELSE "WMA2")
               [] p.coding = "AMR" -> (IF p.how = <<"NB">> THEN "AMRNB" ELSE IF p.how = <<"WB">> THEN "AMRWB" ELSE "unknown")
               [] OTHER -> "unknown"
    IN  [encoding |-> e, variant |-> IF p.how = <<"MP4ADTS">> THEN "adts" ELSE "default",
         channels |-> p.channels, rate |-> IF p.coding = "AMR" THEN 8 ELSE p.rate]

\* mmalil_buffer_flags_to_omx() and back: the flags that have a name on the other side.
FlagTable ==
    <<<<"KEYFRAME", "SYNCFRAME">>, <<"FRAME_END", "ENDOFFRAME">>, <<"EOS", "EOS">>, <<"CONFIG", "CODECCONFIG">>,
      <<"DISCONTINUITY", "DISCONTINUITY">>, <<"CODECSIDEINFO", "CODECSIDEINFO">>, <<"SNAPSHOT", "CAPTURE_PREVIEW">>,
      <<"CORRUPTED", "DATACORRUPT">>>>
FlagsToOmx(fs) == {FlagTable[i][2] : i \in {k \in 1..Len(FlagTable) : FlagTable[k][1] \in fs}}
FlagsToMmal(fs) == {FlagTable[i][1] : i \in {k \in 1..Len(FlagTable) : FlagTable[k][2] \in fs}}

\* mmalil_buffer_header_to_omx(): an unknown time becomes a flag and time 0.
HeaderToOmx(h) ==
    [flags |-> FlagsToOmx(h.flags) \union (IF h.pts = -1 THEN {"TIME_UNKNOWN"} ELSE {}),
     time |-> IF h.pts = -1 THEN 0 ELSE h.pts]
\* mmalil_buffer_header_to_mmal().
HeaderToMmal(o) ==
    [flags |-> FlagsToMmal(o.flags), pts |-> IF "TIME_UNKNOWN" \in o.flags THEN -1 ELSE o.time]

-----------------------------------------------------------------------------
(* mmal_util.c and mmal_param_convert.c *)

\* pixel_pitch[]: the encodings of each pitch, and the two conversions with it.
PitchTable ==
    <<{"I420", "YV12", "I422", "NV21", "NV12"}, {"RGB16", "BGR16"}, {"RGB24", "BGR24"},
      {"ARGB", "RGBA", "RGB32", "ABGR", "BGRA", "BGR32"}>>
Pitch(e) == {n \in 1..4 : e \in PitchTable[n]}
WidthToStride(e, width) == IF Pitch(e) = {} THEN 0 ELSE Min(Pitch(e)) * width
StrideToWidth(e, stride) == IF Pitch(e) = {} THEN 0 ELSE stride \div Min(Pitch(e))

CodecNames ==
    <<<<"h264", "H264">>, <<"h263", "H263">>, <<"mpeg4", "MP4V">>, <<"mpeg2", "MP2V">>, <<"vp8", "VP8">>,
      <<"vp7", "VP7">>, <<"vp6", "VP6">>>>
\* parse_enum(): the loop counts twice, so that every other pair is looked at.
ParseEnum(pairs, str) ==
    LET hits == {i \in 1..Len(pairs) : i % 2 = 1 /\ pairs[i][1] = str}
    IN  IF hits = {} THEN "EINVAL" ELSE pairs[Min(hits)][2]

-----------------------------------------------------------------------------

AudioFormats ==
    {[encoding |-> AudioCodingTable[i][1], variant |-> v, channels |-> 2, rate |-> r] :
        i \in 1..(Len(AudioCodingTable) - 1), v \in {"default", "adts"}, r \in {8, 16}}
IlHeaders == [flags : {{}, {"EOS"}, {"KEYFRAME", "FRAME_END"}, {"CONFIG", "CORRUPTED", "SNAPSHOT"}, {"CODECSIDEINFO", "DISCONTINUITY"}},
            pts : -1..1]

ConvertInit == cvGiven = <<"nothing">> /\ cvGot = <<>>

\* One conversion, there and back where there is a way back.
ConvertRational ==
    \E op \in {"add", "subtract", "multiply", "divide"}, a \in Rationals, b \in Rationals :
        cvGiven' = <<"rational", op, a, b>> /\ cvGot' = RationalOp(op, a, b)
ConvertFixed ==
    \/ \E a \in Rationals : cvGiven' = <<"fixed", a>> /\ cvGot' = RationalToFixed(a)
    \/ \E f \in (-FixedMax - 1)..FixedMax :
           cvGiven' = <<"unfixed", f>> /\ cvGot' = RationalToFixed(RationalFromFixed(f))
ConvertName ==
    \E T \in Tables : \E i \in 1..Len(T) :
        \/ cvGiven' = <<"to omx", T, T[i][1]>> /\ cvGot' = <<ToOmx(T, T[i][1]), ToMmal(T, ToOmx(T, T[i][1]))>>
        \/ cvGiven' = <<"to mmal", T, T[i][2]>> /\ cvGot' = <<ToMmal(T, T[i][2]), ToOmx(T, ToMmal(T, T[i][2]))>>
ConvertNumber ==
    \E T \in {ProfileTable, LevelTable} : \E i \in 1..Len(T) :
        /\ cvGiven' = <<"number", T[i][1], T[i][3]>>
        /\ cvGot' = NumberToMmal(T, NumberToOmx(T, T[i][1]), T[i][3])
ConvertAudio ==
    \E f \in AudioFormats : cvGiven' = <<"audio", f>> /\ cvGot' = AudioToMmal(AudioToOmx(f))
ConvertHeader ==
    \E h \in IlHeaders : cvGiven' = <<"header", h>> /\ cvGot' = HeaderToMmal(HeaderToOmx(h))
ConvertStride ==
    \E e \in UNION {PitchTable[n] : n \in 1..4} \union {"YUVUV128"}, w \in 1..RationalMax :
        cvGiven' = <<"stride", e, w>> /\ cvGot' = StrideToWidth(e, WidthToStride(e, w))
ConvertCodec ==
    \E i \in 1..Len(CodecNames) :
        cvGiven' = <<"codec", CodecNames[i]>> /\ cvGot' = ParseEnum(CodecNames, CodecNames[i][1])

ConvertNext ==
    /\ cvGiven = <<"nothing">>
    /\ \/ ConvertRational \/ ConvertFixed \/ ConvertName \/ ConvertNumber
       \/ ConvertAudio \/ ConvertHeader \/ ConvertStride \/ ConvertCodec

-----------------------------------------------------------------------------
(* Properties *)

\* The reference for gcd(): the greatest number that divides both.
CommonDivisors(a, b) == {d \in 1..(CvAbs(a) + CvAbs(b)) : a % d = 0 /\ b % d = 0}
Reduced(a) == CommonDivisors(a.num, a.den) = {1}

\* The sum, difference, product and quotient have the value that arithmetic gives them, and are in
\* lowest terms whenever both operands are and they are not 0, for positive and negative terms; a
\* division by zero returns its operand.
RationalRight ==
    cvGiven[1] = "rational" =>
        LET op == cvGiven[2]
            a == cvGiven[3]
            b == cvGiven[4]
            num == CASE op = "add" -> a.num * b.den + b.num * a.den
                     [] op = "subtract" -> a.num * b.den - b.num * a.den
                     [] op = "multiply" -> a.num * b.num
                     [] op = "divide" -> a.num * b.den
            den == IF op = "divide" THEN a.den * b.num ELSE a.den * b.den
        IN  /\ op = "divide" /\ b.num = 0 => cvGot = a
            /\ ~(op = "divide" /\ b.num = 0) => cvGot.num * den = num * cvGot.den /\ cvGot.den # 0
            /\ Reduced(a) /\ Reduced(b) /\ cvGot.num # 0 => Reduced(cvGot)

\* A fixed-point number is within one unit of the rational it stands for, towards zero, or at the
\* limit of its range; and it survives the way to a rational and back.
FixedRight ==
    /\ cvGiven[1] = "unfixed" => cvGot = cvGiven[2]
    /\ cvGiven[1] = "fixed" =>
          LET a == cvGiven[2]
              less == CvAbs(cvGot) * CvAbs(a.den)
              exact == CvAbs(a.num) * FixedOne
          IN  /\ less <= exact /\ (cvGot # 0 => (cvGot > 0) = ((a.num > 0) = (a.den > 0)))
              /\ CvAbs(cvGot) < FixedMax => exact < less + CvAbs(a.den)

\* A name keeps its meaning through the tables: converted there and back it may become another name,
\* the first of those that share its translation, but that one has the same translation; and the
\* profiles and levels, which OpenMAX numbers anew for each coding, come back unchanged.  A codec
\* that mmal_parse_video_codec() finds is the one of its name.
NamesKept ==
    /\ cvGiven[1] = "to omx" => ToOmx(cvGiven[2], cvGot[2]) = cvGot[1]
    /\ cvGiven[1] = "to mmal" => ToMmal(cvGiven[2], cvGot[2]) = cvGot[1]
    /\ cvGiven[1] = "number" => cvGot = cvGiven[2]
    /\ cvGiven[1] = "codec" => cvGot \in {"EINVAL", cvGiven[2][2]}

\* An audio format survives mmalil_format_to_omx_audio_param() and mmalil_omx_audio_param_to_format()
\* with its encoding, variant, channels and rate, but for AMR: its rate becomes 8 kHz, and the
\* extended wide band has no name in OpenMAX.
AudioKept ==
    cvGiven[1] = "audio" =>
        LET f == cvGiven[2]
        IN  /\ cvGot.channels = f.channels
            /\ f.encoding # "AMRWBP" => cvGot.encoding = f.encoding
            /\ f.encoding \notin {"AMRNB", "AMRWB", "AMRWBP"} => cvGot.rate = f.rate
            /\ f.encoding = "MP4A" => cvGot.variant = f.variant

\* A buffer header keeps its flags and its time on the way to OpenMAX and back, a time of 0 and an
\* unknown time included, and a width survives its conversion to a stride of every encoding.
HeadersKept ==
    /\ cvGiven[1] = "header" => cvGot = cvGiven[2]
    /\ cvGiven[1] = "stride" => cvGot = (IF Pitch(cvGiven[2]) = {} THEN 0 ELSE cvGiven[3])

-----------------------------------------------------------------------------
(***************************************************************************)
(* Formats and their extra data (mmal_format.c): a format has a small      *)
(* buffer of its own and allocates another one when the extra data does    *)
(* not fit, which it keeps for later and which copies of the format must   *)
(* never share.                                                            *)
(***************************************************************************)

CONSTANTS
    Formats,        \* format structures
    ExtraDefault,   \* EXTRADATA_SIZE_DEFAULT
    ExtraMax,       \* EXTRADATA_SIZE_MAX
    ExtraFaults     \* bound: allocations that fail

ASSUME FormatAssumption == ExtraDefault \in Nat /\ ExtraMax \in Nat /\ ExtraFaults \in Nat

Contents == {0, 1}
None == "none"

VARIABLES
    es,          \* what the format says, its extra data apart
    extra,       \* format->extradata: none, the format's own buffer, its allocated one, or one freed
    extraSize,   \* format->extradata_size
    extraData,   \* the bytes there
    room,        \* private->extradata_size
    heapRoom,    \* the size of private->extradata, 0 when there is none
    copied,      \* the last mmal_format_full_copy(): <<to, from>>, while neither changed since
    failed       \* formats of which an allocation failed

formatVars == <<es, extra, extraSize, extraData, room, heapRoom, copied, failed>>

\* mmal_format_alloc().
FormatInit ==
    /\ es \in [Formats -> Contents] /\ extra = [f \in Formats |-> None]
    /\ extraSize = [f \in Formats |-> 0] /\ extraData = [f \in Formats |-> 0]
    /\ room = [f \in Formats |-> ExtraDefault] /\ heapRoom = [f \in Formats |-> 0]
    /\ copied = <<>> /\ failed = {}

\* "Allocate memory if needed".
FitsAlready(f, n) == n <= room[f]

\* mmal_format_extradata_alloc() of a size in range: works says whether memory is there.
ExtraAlloc(f, n, works) ==
    IF FitsAlready(f, n)
    THEN /\ extra' = [extra EXCEPT ![f] = IF heapRoom[f] > 0 THEN "heap" ELSE "own"]
         /\ UNCHANGED <<room, heapRoom, failed>>
    ELSE IF works
    THEN /\ extra' = [extra EXCEPT ![f] = "heap"]
         /\ room' = [room EXCEPT ![f] = n] /\ heapRoom' = [heapRoom EXCEPT ![f] = n] /\ UNCHANGED failed
    ELSE /\ extra' = [extra EXCEPT ![f] = IF @ = "heap" THEN "freed" ELSE @]
         /\ heapRoom' = [heapRoom EXCEPT ![f] = 0] /\ failed' = failed \union {f} /\ UNCHANGED room

\* A client gives the format extra data of n bytes: it allocates, sets the size and writes; when the
\* allocation fails, it gives up the extra data, as mmal_vc_port_info_get() does.
ExtraSet(f, n, c, works) ==
    /\ works \/ (failed = {} /\ ExtraFaults > 0)
    /\ IF n > ExtraMax THEN UNCHANGED <<extra, extraSize, extraData, room, heapRoom, failed>>
       ELSE /\ ExtraAlloc(f, n, works)
            /\ LET done == works \/ FitsAlready(f, n)
               IN  extraSize' = [extraSize EXCEPT ![f] = IF done THEN n ELSE 0]
                   /\ extraData' = [extraData EXCEPT ![f] = IF done THEN c ELSE 0]
    /\ copied' = <<>> /\ UNCHANGED es

\* mmal_format_copy(): everything but the extra data.
FormatCopy(d, s) ==
    /\ es' = [es EXCEPT ![d] = es[s]] /\ extra' = [extra EXCEPT ![d] = None]
    /\ extraSize' = [extraSize EXCEPT ![d] = 0] /\ copied' = <<>>
    /\ UNCHANGED <<extraData, room, heapRoom, failed>>

\* mmal_format_full_copy(): the copy, and the extra data when there is any and memory for it.
FullCopy(d, s, works) ==
    /\ works \/ (failed = {} /\ ExtraFaults > 0)
    /\ es' = [es EXCEPT ![d] = es[s]]
    /\ IF extraSize[s] = 0
       THEN /\ extra' = [extra EXCEPT ![d] = None] /\ extraSize' = [extraSize EXCEPT ![d] = 0]
            /\ copied' = <<d, s>> /\ UNCHANGED <<extraData, room, heapRoom, failed>>
       ELSE LET done == works \/ FitsAlready(d, extraSize[s])
            IN  /\ extraSize' = [extraSize EXCEPT ![d] = IF done THEN extraSize[s] ELSE 0]
                /\ extraData' = [extraData EXCEPT ![d] = IF done THEN extraData[s] ELSE @]
                /\ copied' = IF done THEN <<d, s>> ELSE <<>>
                /\ IF done THEN ExtraAlloc(d, extraSize[s], works)
                   ELSE /\ extra' = [extra EXCEPT ![d] = None] /\ heapRoom' = [heapRoom EXCEPT ![d] = 0]
                        /\ failed' = failed \union {d} /\ UNCHANGED room

FormatNext ==
    \/ \E f \in Formats, n \in 1..(ExtraMax + 1), c \in Contents, w \in BOOLEAN : ExtraSet(f, n, c, w)
    \/ \E d \in Formats, s \in Formats : d # s /\ (FormatCopy(d, s) \/ \E w \in BOOLEAN : FullCopy(d, s, w))

\* mmal_format_compare(): whether it returns 0.
SameFormat(f, g) ==
    /\ es[f] = es[g] /\ extraSize[f] = extraSize[g]
    /\ extraSize[f] = 0 \/ (extra[f] # None /\ extra[g] # None /\ extraData[f] = extraData[g])

-----------------------------------------------------------------------------
(* Properties *)

FormatTypeOK ==
    /\ es \in [Formats -> Contents] /\ extra \in [Formats -> {None, "own", "heap", "freed"}]
    /\ extraSize \in [Formats -> 0..ExtraMax] /\ extraData \in [Formats -> Contents]
    /\ room \in [Formats -> 0..(ExtraMax + ExtraDefault)] /\ heapRoom \in [Formats -> 0..ExtraMax]
    /\ failed \subseteq Formats

\* The extra data of a format lies in memory of the format that is large enough for it, after any
\* sequence of allocations and copies, unless an allocation of that format failed: then
\* private->extradata_size still tells of the memory that was freed.
ExtraFits ==
    \A f \in Formats : f \in failed \/ extraSize[f] = 0
        \/ (extra[f] = "own" /\ extraSize[f] <= ExtraDefault)
        \/ (extra[f] = "heap" /\ extraSize[f] <= heapRoom[f])

\* A full copy that succeeded compares equal to its source.
CopyIsEqual == copied # <<>> => SameFormat(copied[1], copied[2])

-----------------------------------------------------------------------------
(***************************************************************************)
(* The doubly linked list of mmal_list.c, pointer by pointer, and its one  *)
(* user, the requests of a clock (mmal_clock.c): threads add elements in   *)
(* order of their key, under the lock of the clock, and take them from     *)
(* both ends.  Each operation holds the lock of the list, except that      *)
(* mmal_list_insert() gives it back before it calls another operation to   *)
(* put the element at an end.                                              *)
(***************************************************************************)

CONSTANTS
    ListThreads,
    MaxElement    \* the elements are 1 .. MaxElement, their keys are themselves

ASSUME ListAssumption == IsFiniteSet(ListThreads) /\ MaxElement \in Nat

Elements == 1 .. MaxElement
Null == 0

VARIABLES
    first, last, listLen,  \* MMAL_LIST_T
    next, prev,            \* the links of each element
    callerLock,            \* the thread that holds the lock of the clock
    listAt,                \* control point of each thread
    arg,                   \* the element it inserts
    listed                 \* the list as callers understand it: the elements in order

listVars == <<first, last, listLen, next, prev, callerLock, listAt, arg, listed>>
links == <<first, last, listLen, next, prev, listed>>

NoOwner == "noowner"

ListInit ==
    /\ first = Null /\ last = Null /\ listLen = 0
    /\ next = [e \in Elements |-> Null] /\ prev = [e \in Elements |-> Null]
    /\ callerLock = NoOwner /\ listAt = [t \in ListThreads |-> "idle"] /\ arg = [t \in ListThreads |-> Null]
    /\ listed = <<>>

\* mmal_list_pop_front()
PopFront ==
    /\ first # Null /\ listLen' = listLen - 1
    /\ first' = next[first]
    /\ IF next[first] # Null
       THEN prev' = [prev EXCEPT ![next[first]] = Null, ![first] = Null] /\ UNCHANGED last
       ELSE last' = Null /\ prev' = [prev EXCEPT ![first] = Null]
    /\ next' = [next EXCEPT ![first] = Null]
    /\ listed' = Tail(listed)

\* mmal_list_pop_back()
PopBack ==
    /\ last # Null /\ listLen' = listLen - 1
    /\ last' = prev[last]
    /\ IF prev[last] # Null
       THEN next' = [next EXCEPT ![prev[last]] = Null, ![last] = Null] /\ UNCHANGED first
       ELSE first' = Null /\ next' = [next EXCEPT ![last] = Null]
    /\ prev' = [prev EXCEPT ![last] = Null]
    /\ listed' = Front(listed)

\* mmal_list_push_front()
PushFront(e) ==
    /\ listLen' = listLen + 1
    /\ next' = [next EXCEPT ![e] = first]
    /\ IF first # Null THEN prev' = [prev EXCEPT ![first] = e, ![e] = Null] /\ UNCHANGED last
       ELSE prev' = [prev EXCEPT ![e] = Null] /\ last' = e
    /\ first' = e
    /\ listed' = <<e>> \o listed

\* mmal_list_push_back()
PushBack(e) ==
    /\ listLen' = listLen + 1
    /\ prev' = [prev EXCEPT ![e] = last]
    /\ IF last # Null THEN next' = [next EXCEPT ![last] = e, ![e] = Null] /\ UNCHANGED first
       ELSE next' = [next EXCEPT ![e] = Null] /\ first' = e
    /\ last' = e
    /\ listed' = Append(listed, e)

\* The elements from e on, along the pointers of link.
Walk(link, e) ==
    LET step[n \in 0 .. MaxElement, c \in Elements \cup {Null}] ==
            IF c = Null \/ n = 0 THEN <<>> ELSE <<c>> \o step[n - 1, link[c]]
    IN step[MaxElement, e]

\* The first element that is greater than e, where mmal_list_insert() puts e before it.
Slot(e) == LET after == SelectSeq(Walk(next, first), LAMBDA c : e < c) IN IF after = <<>> THEN Null ELSE after[1]

\* The middle of mmal_list_insert(): e goes before cur.
LinkBefore(e, cur) ==
    /\ listLen' = listLen + 1
    /\ first' = (IF cur = first THEN e ELSE first)
    /\ next' = IF cur = first THEN [next EXCEPT ![e] = cur] ELSE [next EXCEPT ![prev[cur]] = e, ![e] = cur]
    /\ prev' = [prev EXCEPT ![e] = prev[cur], ![cur] = e]
    /\ listed' = LET i == CHOOSE j \in DOMAIN listed : listed[j] = cur IN InsertAt(listed, i, e)
    /\ UNCHANGED last

-----------------------------------------------------------------------------
(* The threads *)

Unlisted == Elements \ (Range(listed) \cup Range(arg))

\* mmal_clock_request_add() takes the lock of the clock.
InsertBegin(t, e) ==
    /\ listAt[t] = "idle" /\ e \in Unlisted /\ callerLock = NoOwner /\ callerLock' = t
    /\ listAt' = [listAt EXCEPT ![t] = "insert"] /\ arg' = [arg EXCEPT ![t] = e]
    /\ UNCHANGED links

\* mmal_clock_request_insert(): at the back if it belongs there; otherwise mmal_list_insert() looks
\* for its place, and when there is none gives the lock back before it puts e at an end.
InsertSearch(t) ==
    LET e == arg[t] IN
    /\ listAt[t] = "insert" /\ UNCHANGED <<callerLock, arg>>
    /\ IF first = Null THEN listAt' = [listAt EXCEPT ![t] = "front"] /\ UNCHANGED links
       ELSE IF Slot(e) # Null THEN LinkBefore(e, Slot(e)) /\ listAt' = [listAt EXCEPT ![t] = "done"]
       ELSE listAt' = [listAt EXCEPT ![t] = "back"] /\ UNCHANGED links

InsertAtEnd(t) ==
    /\ listAt[t] \in {"front", "back"}
    /\ IF listAt[t] = "front" THEN PushFront(arg[t]) ELSE PushBack(arg[t])
    /\ listAt' = [listAt EXCEPT ![t] = "done"] /\ UNCHANGED <<callerLock, arg>>

InsertEnd(t) ==
    /\ listAt[t] = "done" /\ callerLock' = (IF callerLock = t THEN NoOwner ELSE callerLock)
    /\ listAt' = [listAt EXCEPT ![t] = "idle"] /\ arg' = [arg EXCEPT ![t] = Null]
    /\ UNCHANGED links

\* A thread of the clock takes an element, under the same lock; the worker may put it back.
Pop(t) == /\ listAt[t] = "idle" /\ callerLock = NoOwner /\ (PopFront \/ PopBack)
          /\ UNCHANGED <<callerLock, listAt, arg>>

ListNext ==
    \E t \in ListThreads : \/ \E e \in Elements : InsertBegin(t, e)
                           \/ InsertSearch(t) \/ InsertAtEnd(t) \/ InsertEnd(t) \/ Pop(t)

-----------------------------------------------------------------------------
(* Properties *)

ListTypeOK ==
    /\ {first, last} \subseteq Elements \cup {Null} /\ listLen \in Nat
    /\ next \in [Elements -> Elements \cup {Null}] /\ prev \in [Elements -> Elements \cup {Null}]
    /\ listAt \in [ListThreads -> {"idle", "insert", "front", "back", "done"}]

\* Followed forwards or backwards, the pointers give the same list, the one its users expect, and
\* the length is right.
LinksAgree == Walk(next, first) = listed /\ Walk(prev, last) = Reverse(listed) /\ listLen = Len(listed)

\* The elements stay in order although mmal_list_insert() gives its lock back in the middle.
StaysSorted == \A i \in 1 .. Len(listed) - 1 : listed[i] < listed[i + 1]

\* Lists keep their links and their order, formats own their extra data, and the conversions agree with what they mean.
UtilitiesRight ==
    /\ LinksAgree /\ StaysSorted /\ ExtraFits /\ CopyIsEqual
    /\ RationalRight /\ FixedRight /\ NamesKept /\ AudioKept /\ HeadersKept
=============================================================================
