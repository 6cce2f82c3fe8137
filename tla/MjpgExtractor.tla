--------------------------- MODULE MjpgExtractor ---------------------------
(* input_http: mjpg-proxy.c and misc.c take the pictures out of the stream that   *)
(* another mjpg-streamer sends with send_stream() of httpd.c.  The stream is a    *)
(* sequence of bytes; headers and boundary are shortened to the bytes that decide *)
(* something.  extract_data() works byte by byte, so how recv() cuts the stream   *)
(* makes no difference and one byte is one step.  The search for "Content-Length" *)
(* decides nothing and is left out.                                               *)
EXTENDS Integers, Sequences, SequencesExt, Bitwise

CONSTANTS Pictures,         \* what the server may send, as byte sequences
          MaxPictures,      \* bound: pictures of one connection
          MaxConnections,   \* bound: connections
          BUFFER_SIZE,      \* of the extractor (256 KB)
          CharSigned        \* char is signed in this build

CR == 13
LF == 10
CRLF == <<CR, LF>>
Status == <<79, 75>> \o CRLF            \* ... "OK"
HeaderLine == <<120>> \o CRLF
BOUNDARY == <<45, 45, 98>>              \* "--b"

VARIABLES
    connected, connections,
    wire,           \* bytes sent and not yet read
    sent,           \* pictures the server has sent in this connection
    part, last_four_bytes, buffer, boundary,    \* struct extractor_state
    images, length, \* what on_image_received() got: the pictures of this connection
                    \* and the last length
    should_stop
conn == <<connected, connections, sent>>
fsm == <<part, last_four_bytes, buffer, boundary>>
extractorVars == <<conn, wire, fsm, images, length, should_stop>>

-----------------------------------------------------------------------------
(* misc.c *)

(* both bytes are only tested for the bits of CR and LF                           *)
is_crlf(hi, lo) == hi & CR = CR /\ lo & LF = LF

is_crlfcrlf(b) == is_crlf(b[1], b[2]) /\ is_crlf(b[3], b[4])

(* a signed char above 127 is extended over the three older bytes                 *)
push_byte(b, c) == IF CharSigned /\ c > 127 THEN <<255, 255, 255, c>>
                                            ELSE <<b[2], b[3], b[4], c>>

(* the number of matched characters; a mismatch starts again behind c             *)
search_pattern_compare(matched, c) == IF BOUNDARY[matched + 1] = c THEN matched + 1 ELSE 0

-----------------------------------------------------------------------------
init_extractor_state ==
    part' = "HEADER" /\ last_four_bytes' = <<0, 0, 0, 0>> /\ buffer' = <<>> /\ boundary' = 0

ExtractorInit ==
    /\ connected = FALSE /\ connections = 0 /\ wire = <<>> /\ sent = <<>>
    /\ part = "HEADER" /\ last_four_bytes = <<0, 0, 0, 0>> /\ buffer = <<>> /\ boundary = 0
    /\ images = <<>> /\ length = 0 /\ should_stop = FALSE

(* connect_and_stream() and send_request_and_process_response(); the server       *)
(* answers with its header and a first boundary                                   *)
Connect ==
    /\ ~connected /\ ~should_stop /\ connections < MaxConnections
    /\ connected' = TRUE /\ connections' = connections + 1
    /\ wire' = Status \o HeaderLine \o CRLF \o BOUNDARY \o CRLF
    /\ sent' = <<>> /\ images' = <<>>
    /\ init_extractor_state
    /\ UNCHANGED <<length, should_stop>>

(* the server sends a picture: header, CRLF, the bytes, CRLF, boundary, CRLF      *)
SendPicture(p) ==
    /\ connected /\ Len(sent) < MaxPictures
    /\ sent' = Append(sent, p)
    /\ wire' = wire \o HeaderLine \o CRLF \o p \o CRLF \o BOUNDARY \o CRLF
    /\ UNCHANGED <<connected, connections, fsm, images, length, should_stop>>

(* recv() fails or the server closes: what is left of the picture is lost         *)
Lost ==
    /\ connected
    /\ connected' = FALSE /\ wire' = <<>>
    /\ UNCHANGED <<connections, sent, fsm, images, length, should_stop>>

Stop ==
    /\ ~should_stop /\ should_stop' = TRUE
    /\ UNCHANGED <<conn, wire, fsm, images, length>>

(* extract_data() takes the next byte                                             *)
Byte == Head(wire)
Take == ~should_stop /\ wire # <<>> /\ wire' = Tail(wire)

HeaderByte ==
    /\ Take /\ part = "HEADER"
    /\ last_four_bytes' = push_byte(last_four_bytes, Byte)
    /\ part' = IF is_crlfcrlf(last_four_bytes') THEN "CONTENT" ELSE part
    /\ UNCHANGED <<conn, buffer, boundary, images, length, should_stop>>

Full == Len(buffer) >= BUFFER_SIZE - 1

(* "Buffer too small": the byte is dropped, and the search stands still           *)
ContentFull ==
    /\ Take /\ part = "CONTENT" /\ Full
    /\ UNCHANGED <<conn, fsm, images, length, should_stop>>

\* Mutant: a picture is only complete with the byte behind the boundary.
ContentByteLate ==
    /\ Take /\ part = "CONTENT" /\ ~Full
    /\ buffer' = Append(buffer, Byte)
    /\ boundary' = search_pattern_compare(boundary, Byte)
    /\ UNCHANGED <<conn, part, last_four_bytes, images, length, should_stop>>

ContentByte ==
    /\ Take /\ part = "CONTENT" /\ ~Full
    /\ search_pattern_compare(boundary, Byte) < Len(BOUNDARY)
    /\ buffer' = Append(buffer, Byte)
    /\ boundary' = search_pattern_compare(boundary, Byte)
    /\ UNCHANGED <<conn, part, last_four_bytes, images, length, should_stop>>

(* the boundary is complete: it and the CRLF before it are taken off, and the     *)
(* rest is the picture                                                            *)
Deliver ==
    /\ Take /\ part = "CONTENT" /\ ~Full
    /\ search_pattern_compare(boundary, Byte) = Len(BOUNDARY)
    /\ length' = Len(buffer) + 1 - (Len(BOUNDARY) + 2)
    /\ images' = Append(images, SubSeq(buffer, 1, length'))
    /\ init_extractor_state
    /\ UNCHANGED <<conn, should_stop>>

ExtractorNext ==
    \/ Connect \/ Lost \/ Stop \/ \E p \in Pictures : SendPicture(p)
    \/ HeaderByte \/ ContentFull \/ ContentByte \/ Deliver

ExtractorSpec == ExtractorInit /\ [][ExtractorNext]_extractorVars

-----------------------------------------------------------------------------
ExtractorTypeOK ==
    /\ connected \in BOOLEAN /\ connections \in 0..MaxConnections
    /\ should_stop \in BOOLEAN
    /\ part \in {"HEADER", "CONTENT"} /\ Len(last_four_bytes) = 4
    /\ Len(buffer) < BUFFER_SIZE /\ boundary \in 0..Len(BOUNDARY) - 1
    /\ Len(sent) <= MaxPictures

(* The pictures that input_http publishes are those the server has sent, whole    *)
(* and in order, after one that is not a picture (the server's own header, which  *)
(* extract_data() takes for one); never a truncated one, however large it was.    *)
PicturesInOrder == images # <<>> => IsPrefix(Tail(images), sent)

(* on_image_received() hands the length to memcpy(): it is never negative, in     *)
(* particular not for the boundary that follows the server's header at once.      *)
LengthNotNegative == length >= 0

(* A picture is published with the last byte of its boundary, not with the next   *)
(* picture: whoever has read everything has published everything, unless a        *)
(* picture did not fit, after which nothing comes until the next connection.      *)
Fits(p) == Len(p) + 2 + Len(BOUNDARY) <= BUFFER_SIZE - 1
Published ==
    connected /\ ~should_stop /\ wire = <<>> =>
        LET ok == SelectInSeq(sent, LAMBDA p : ~Fits(p))
        IN Len(images) = IF ok = 0 THEN Len(sent) + 1 ELSE ok

(* The header of a part ends with an empty line: content begins only behind       *)
(* CR LF CR LF.                                                                   *)
OnlyDoubleCrlf == part = "CONTENT" => last_four_bytes = CRLF \o CRLF
=============================================================================
