----------------------------- MODULE HttpProofs -----------------------------
(***************************************************************************)
(* What output_http keeps.                                                 *)
(*                                                                         *)
(* client_thread(), for any number of plugins, any digits in the URLs and  *)
(* any number of header lines: nothing is served without the credentials,  *)
(* a request gets one status line, and the strings it leaves behind are    *)
(* bounded.                                                                *)
(* server_thread(), for any number of sockets and connections: with one    *)
(* socket ready at a time it gives each pcfd to one client thread.         *)
(***************************************************************************)
EXTENDS HttpRequest, HttpServer, TLAPS

-----------------------------------------------------------------------------
(* HttpRequest: a client thread *)

\* Control points before the answer begins.
Reading == {"request", "headers", "authorize", "range"}

\* Nothing is served before the credentials were compared, and once they were they do not
\* change any more.
AccessInv ==
    /\ pc \in Reading => served = {}
    /\ pc \in {"range", "answer", "stream", "take", "close", "crashed"} => Granted
    /\ served # {} => Granted

\* Which replies were written at each control point.
ReplyInv ==
    /\ type # "A_UNKNOWN" => type = line.type
    /\ pc \in Reading \ {"request"} => type # "A_UNKNOWN"
    /\ pc \in Reading => Len(replies) = 0
    /\ pc = "answer" => Len(replies) = (IF type = "A_UNKNOWN" THEN 1 ELSE 0)
    /\ pc = "stream" => type = "A_STREAM"
    /\ pc = "take" => type = "A_TAKE" /\ Len(replies) = (IF line.named THEN 0 ELSE 1)
    /\ OneStatusLine

\* Strings overwritten by repeated header lines.
Overwritten == IF headers > 1 THEN headers - 1 ELSE 0

\* Strings that the answer of a request leaves behind.
LeftBehind == CASE type = "A_TAKE" -> 1 [] type = "A_COMMAND" -> Options [] OTHER -> 0

\* Every header string is either pointed to or lost, and the answer loses at most LeftBehind.
HeapInv ==
    /\ pc = "request" => headers = 0 /\ lost = 0 /\ heap = [m \in Members |-> 0]
    /\ pc = "headers" => lost + heap["client"] + heap["credentials"] = headers
    /\ pc \in Reading \cup {"answer", "stream"} => lost <= Overwritten
    /\ lost <= Overwritten + LeftBehind
    /\ pc = "closed" => ~fdOpen /\ \A m \in Members : heap[m] = 0

\* What a reply does to the sequence of replies.
LEMMA AppendReply ==
    ASSUME replies \in Seq(Codes)
    PROVE  \A code \in Codes :
               Reply(code) => replies' \in Seq(Codes) /\ Len(replies') = Len(replies) + 1
BY DEF Reply

\* The status codes the thread uses.
LEMMA CodesUsed ==
    /\ 200 \in Codes /\ 400 \in Codes /\ 401 \in Codes /\ 403 \in Codes
    /\ 404 \in Codes /\ 500 \in Codes /\ 501 \in Codes
BY DEF Codes

\* Every step of the thread keeps the types.
LEMMA TypeStep == ASSUME TypeOK, [Next]_vars PROVE TypeOK'
<1> USE DEF TypeOK, Pcs
<1>1. CASE RequestTimeout
  BY ZenonT(30), <1>1 DEF RequestTimeout
<1>2. CASE RequestMalformed
  <2>1. replies' \in Seq(Codes)
    BY <1>2, AppendReply, CodesUsed DEF RequestMalformed
  <2>2. fdOpen' \in BOOLEAN /\ saved' \in BOOLEAN
    BY ZenonT(30), <1>2 DEF RequestMalformed
  <2>3. TypeOK!1' /\ TypeOK!2' /\ line' \in Lines /\ type' \in Types
    BY Zenon, <1>2 DEF RequestMalformed
  <2>4. /\ inputNumber' \in 0 .. 9 /\ credentials' \in {"none", "good", "bad"}
        /\ heap' \in [Members -> {0, 1}]
    BY Zenon, <1>2 DEF RequestMalformed
  <2>5. /\ lost' \in Nat /\ headers' \in Nat
        /\ called' \in {"none", "input", "output"} \X Int
        /\ served' \subseteq {"frame", "command", "json", "file", "cgi"}
    BY Zenon, <1>2 DEF RequestMalformed
  <2> QED BY Zenon, <2>1, <2>2, <2>3, <2>4, <2>5
<1>3. CASE RequestNotEscaped
  <2>1. replies' \in Seq(Codes)
    BY <1>3, AppendReply, CodesUsed DEF RequestNotEscaped
  <2>2. fdOpen' \in BOOLEAN /\ saved' \in BOOLEAN
    BY ZenonT(30), <1>3 DEF RequestNotEscaped, Lines
  <2>3. TypeOK!1' /\ TypeOK!2' /\ line' \in Lines /\ type' \in Types
    BY Zenon, <1>3 DEF RequestNotEscaped, Lines
  <2>4. /\ inputNumber' \in 0 .. 9 /\ credentials' \in {"none", "good", "bad"}
        /\ heap' \in [Members -> {0, 1}]
    BY Zenon, <1>3 DEF RequestNotEscaped, Lines
  <2>5. /\ lost' \in Nat /\ headers' \in Nat
        /\ called' \in {"none", "input", "output"} \X Int
        /\ served' \subseteq {"frame", "command", "json", "file", "cgi"}
    BY Zenon, <1>3 DEF RequestNotEscaped, Lines
  <2> QED BY Zenon, <2>1, <2>2, <2>3, <2>4, <2>5
<1>4. CASE RequestNoMemory
  BY <1>4 DEF RequestNoMemory, Types, Lines, None
<1>5. CASE RequestLine
  BY <1>5, HttpAssumption DEF RequestLine, SuffixNumber, Allocated, Types, Lines, None
<1>6. CASE HeaderAgent
  BY <1>6 DEF HeaderAgent, Strdup, Members
<1>7. CASE HeaderAuthorization
  BY <1>7 DEF HeaderAuthorization, Strdup, Members
<1>8. CASE HeaderEnd
  BY Zenon, <1>8 DEF HeaderEnd
<1>9. CASE HeaderTimeout
  BY ZenonT(30), <1>9 DEF HeaderTimeout, FreeRequest
<1>10. CASE AccessGranted
  BY Zenon, <1>10 DEF AccessGranted, Granted
<1>11. CASE AccessDenied
  <2>1. replies' \in Seq(Codes)
    BY <1>11, AppendReply, CodesUsed DEF AccessDenied
  <2>2. fdOpen' \in BOOLEAN /\ saved' \in BOOLEAN
    BY ZenonT(30), <1>11 DEF AccessDenied, FreeRequest
  <2>3. TypeOK!1' /\ TypeOK!2' /\ line' \in Lines /\ type' \in Types
    BY Zenon, <1>11 DEF AccessDenied, FreeRequest
  <2>4. /\ inputNumber' \in 0 .. 9 /\ credentials' \in {"none", "good", "bad"}
        /\ heap' \in [Members -> {0, 1}]
    BY Zenon, <1>11 DEF AccessDenied, FreeRequest
  <2>5. /\ lost' \in Nat /\ headers' \in Nat
        /\ called' \in {"none", "input", "output"} \X Int
        /\ served' \subseteq {"frame", "command", "json", "file", "cgi"}
    BY Zenon, <1>11 DEF AccessDenied, FreeRequest
  <2> QED BY Zenon, <2>1, <2>2, <2>3, <2>4, <2>5
<1>12. CASE CheckRange
  <2>1. replies' \in Seq(Codes)
    BY <1>12, AppendReply, CodesUsed DEF CheckRange
  <2>2. fdOpen' \in BOOLEAN /\ saved' \in BOOLEAN
    BY Zenon, <1>12 DEF CheckRange, Types
  <2>3. TypeOK!1' /\ TypeOK!2' /\ line' \in Lines /\ type' \in Types
    BY Zenon, <1>12 DEF CheckRange, Types
  <2>4. /\ inputNumber' \in 0 .. 9 /\ credentials' \in {"none", "good", "bad"}
        /\ heap' \in [Members -> {0, 1}]
    BY Zenon, <1>12 DEF CheckRange, Types
  <2>5. /\ lost' \in Nat /\ headers' \in Nat
        /\ called' \in {"none", "input", "output"} \X Int
        /\ served' \subseteq {"frame", "command", "json", "file", "cgi"}
    BY Zenon, <1>12 DEF CheckRange, Types
  <2> QED BY Zenon, <2>1, <2>2, <2>3, <2>4, <2>5
<1>13. CASE AnswerSnapshot
  BY <1>13, AppendReply, CodesUsed DEF AnswerSnapshot, Answer, Request
<1>14. CASE AnswerStream
  BY <1>14, AppendReply, CodesUsed DEF AnswerStream, Request
<1>15. CASE CommandRefused
  BY <1>15, AppendReply, CodesUsed DEF CommandRefused, Answer, Request, Options
<1>16. CASE CommandNoMemory
  BY <1>16, AppendReply, CodesUsed DEF CommandNoMemory, Answer, Options
<1>17. CASE CommandExecuted
  <2>1. replies' \in Seq(Codes) /\ pc' = "close" /\ served' = served \cup {"command"}
    BY <1>17, AppendReply, CodesUsed DEF CommandExecuted, Answer
  <2>2. called' \in {"none", "input", "output"} \X Int
    <3>1. called' \in {Nobody} \cup Targets
      BY Zenon, <1>17 DEF CommandExecuted
    <3>2. ASSUME NEW to \in Targets PROVE to \in {"none", "input", "output"} \X Int
      <4>1. PICK m \in Numbers : to = <<"input", m>> \/ to = <<"output", m>>
        BY Zenon DEF Targets
      <4>2. m \in Int
        BY Zenon, HttpAssumption
      <4> QED BY <4>1, <4>2
    <3> QED BY <3>1, <3>2 DEF Nobody
  <2>3. lost' \in Nat
    BY <1>17 DEF CommandExecuted, Options
  <2> QED BY Zenon, <1>17, <2>1, <2>2, <2>3 DEF CommandExecuted
<1>18. CASE CommandWithoutCmd
  BY <1>18, HttpAssumption DEF CommandWithoutCmd, Request, Targets, Nobody, NoCmd, Options
<1>19. CASE AnswerInputJson
  <2>1. replies' \in Seq(Codes)
    BY <1>19, AppendReply, CodesUsed DEF AnswerInputJson, Answer, NoAnswer
  <2>2. fdOpen' \in BOOLEAN /\ saved' \in BOOLEAN
    BY Zenon, <1>19 DEF AnswerInputJson, Answer, NoAnswer, Request
  <2>3. TypeOK!1' /\ TypeOK!2' /\ line' \in Lines /\ type' \in Types
    BY Zenon, <1>19 DEF AnswerInputJson, Answer, NoAnswer, Request
  <2>4. /\ inputNumber' \in 0 .. 9 /\ credentials' \in {"none", "good", "bad"}
        /\ heap' \in [Members -> {0, 1}]
    BY Zenon, <1>19 DEF AnswerInputJson, Answer, NoAnswer, Request
  <2>5. /\ lost' \in Nat /\ headers' \in Nat
        /\ called' \in {"none", "input", "output"} \X Int
        /\ served' \subseteq {"frame", "command", "json", "file", "cgi"}
    BY ZenonT(30), <1>19 DEF AnswerInputJson, Answer, NoAnswer, Request
  <2> QED BY Zenon, <2>1, <2>2, <2>3, <2>4, <2>5
<1>20. CASE AnswerOutputJson
  <2>1. replies' \in Seq(Codes)
    BY <1>20, AppendReply, CodesUsed DEF AnswerOutputJson, Answer, NoAnswer
  <2>2. fdOpen' \in BOOLEAN /\ saved' \in BOOLEAN
    BY Zenon, <1>20 DEF AnswerOutputJson, Answer, NoAnswer, Request
  <2>3. TypeOK!1' /\ TypeOK!2' /\ line' \in Lines /\ type' \in Types
    BY Zenon, <1>20 DEF AnswerOutputJson, Answer, NoAnswer, Request
  <2>4. /\ inputNumber' \in 0 .. 9 /\ credentials' \in {"none", "good", "bad"}
        /\ heap' \in [Members -> {0, 1}]
    BY Zenon, <1>20 DEF AnswerOutputJson, Answer, NoAnswer, Request
  <2>5. /\ lost' \in Nat /\ headers' \in Nat
        /\ called' \in {"none", "input", "output"} \X Int
        /\ served' \subseteq {"frame", "command", "json", "file", "cgi"}
    BY ZenonT(30), <1>20 DEF AnswerOutputJson, Answer, NoAnswer, Request
  <2> QED BY Zenon, <2>1, <2>2, <2>3, <2>4, <2>5
<1>21. CASE AnswerProgramJson
  BY <1>21, AppendReply, CodesUsed DEF AnswerProgramJson, Answer, Request
<1>22. CASE AnswerFile
  <2>0. PICK code \in Codes : Answer(code, "file")
    BY <1>22, CodesUsed DEF AnswerFile
  <2>1. replies' \in Seq(Codes) /\ pc' = "close"
    BY Zenon, <2>0, AppendReply DEF Answer
  <2>2. served' \subseteq {"frame", "command", "json", "file", "cgi"}
    BY Zenon, <2>0 DEF Answer
  <2> QED BY Zenon, <1>22, <2>1, <2>2 DEF AnswerFile, Request
<1>23. CASE AnswerCgi
  BY <1>23, AppendReply, CodesUsed DEF AnswerCgi, Answer, Request
<1>24. CASE CgiWithoutFolder
  BY Zenon, <1>24 DEF CgiWithoutFolder, Request
<1>25. CASE AnswerTakeNoPlugin
  BY <1>25, AppendReply, CodesUsed DEF AnswerTakeNoPlugin, Answer, Request
<1>26. CASE TakeNoFilename
  BY <1>26, AppendReply, CodesUsed DEF TakeNoFilename, Request
<1>27. CASE TakeSaved
  BY <1>27 DEF TakeSaved
<1>28. CASE TakeFailed
  BY <1>28, AppendReply, CodesUsed DEF TakeFailed, Answer
<1>29. CASE TakeSend
  BY <1>29, AppendReply, CodesUsed DEF TakeSend, Answer, Request
<1>30. CASE AnswerUnknown
  BY Zenon, <1>30 DEF AnswerUnknown, Request
<1>31. CASE Close
  BY ZenonT(30), <1>31 DEF Close, FreeRequest
<1>32. CASE StreamEnd
  BY Zenon, <1>32 DEF StreamEnd, Request
<1>33. CASE StreamNoMemory
  BY <1>33, AppendReply, CodesUsed DEF StreamNoMemory, Request
<1>34. CASE UNCHANGED vars
  BY Zenon, <1>34 DEF vars
<1> QED BY ZenonT(30), <1>1, <1>2, <1>3, <1>4, <1>5, <1>6, <1>7, <1>8, <1>9, <1>10, <1>11, <1>12,
          <1>13, <1>14, <1>15, <1>16, <1>17, <1>18, <1>19, <1>20, <1>21, <1>22, <1>23,
          <1>24, <1>25, <1>26, <1>27, <1>28, <1>29, <1>30, <1>31, <1>32, <1>33, <1>34
       DEF Next, Read, Check, Serve, Stream

\* TypeOK is an invariant of client_thread().
THEOREM RequestTypeCorrect == Spec => []TypeOK
<1>1. Init => TypeOK
  <2>1. Init => line \in Lines
    BY DEF Init, Lines, NoLine, Types, None
  <2>2. Init => fdOpen \in BOOLEAN /\ saved \in BOOLEAN
    BY ZenonT(30) DEF Init
  <2>3. Init => called \in {"none", "input", "output"} \X Int
    BY DEF Init, Nobody
  <2>4. Init => heap \in [Members -> {0, 1}] /\ replies \in Seq(Codes) /\ served = {}
    BY DEF Init
  <2>5. Init => /\ conf \in Configurations /\ pc = "request" /\ type \in Types
                /\ inputNumber \in 0 .. 9 /\ credentials = "none"
                /\ lost \in Nat /\ headers \in Nat
    BY DEF Init, Types
  <2> QED BY Zenon, <2>1, <2>2, <2>3, <2>4, <2>5 DEF TypeOK, Pcs
<1> QED BY <1>1, TypeStep, PTL DEF Spec

-----------------------------------------------------------------------------
\* Every step keeps the access rules.
LEMMA AccessStep == ASSUME TypeOK, AccessInv, [Next]_vars PROVE AccessInv'
<1> USE DEF TypeOK, AccessInv, Reading
<1>1. CASE RequestTimeout
  BY Zenon, <1>1 DEF RequestTimeout, Granted
<1>2. CASE RequestMalformed
  BY Zenon, <1>2 DEF RequestMalformed, Granted
<1>3. CASE RequestNotEscaped
  BY Zenon, <1>3 DEF RequestNotEscaped, Granted
<1>4. CASE RequestNoMemory
  BY Zenon, <1>4 DEF RequestNoMemory, Granted
<1>5. CASE RequestLine
  BY Zenon, <1>5 DEF RequestLine, Granted
<1>6. CASE HeaderAgent
  BY Zenon, <1>6 DEF HeaderAgent, Strdup, Granted
<1>7. CASE HeaderAuthorization
  BY ZenonT(30), <1>7 DEF HeaderAuthorization, Strdup, Granted
<1>8. CASE HeaderEnd
  BY Zenon, <1>8 DEF HeaderEnd, Granted
<1>9. CASE HeaderTimeout
  BY Zenon, <1>9 DEF HeaderTimeout, FreeRequest, Granted
<1>10. CASE AccessGranted
  BY Zenon, <1>10 DEF AccessGranted, Granted, Granted
<1>11. CASE AccessDenied
  BY Zenon, <1>11 DEF AccessDenied, FreeRequest, Granted, Granted
<1>12. CASE CheckRange
  BY Zenon, <1>12 DEF CheckRange, Granted
<1>13. CASE AnswerSnapshot
  BY Zenon, <1>13 DEF AnswerSnapshot, Answer, Request, Granted
<1>14. CASE AnswerStream
  BY Zenon, <1>14 DEF AnswerStream, Request, Granted
<1>15. CASE CommandRefused
  BY Zenon, <1>15 DEF CommandRefused, Answer, Request, Granted
<1>16. CASE CommandNoMemory
  BY Zenon, <1>16 DEF CommandNoMemory, Answer, Granted
<1>17. CASE CommandExecuted
  BY Zenon, <1>17 DEF CommandExecuted, Answer, Granted
<1>18. CASE CommandWithoutCmd
  BY Zenon, <1>18 DEF CommandWithoutCmd, Request, Granted
<1>19. CASE AnswerInputJson
  BY Zenon, <1>19 DEF AnswerInputJson, Answer, NoAnswer, Request, Granted
<1>20. CASE AnswerOutputJson
  BY Zenon, <1>20 DEF AnswerOutputJson, Answer, NoAnswer, Request, Granted
<1>21. CASE AnswerProgramJson
  BY Zenon, <1>21 DEF AnswerProgramJson, Answer, Request, Granted
<1>22. CASE AnswerFile
  BY <1>22 DEF AnswerFile, Answer, Request, Granted
<1>23. CASE AnswerCgi
  BY Zenon, <1>23 DEF AnswerCgi, Answer, Request, Granted
<1>24. CASE CgiWithoutFolder
  BY Zenon, <1>24 DEF CgiWithoutFolder, Request, Granted
<1>25. CASE AnswerTakeNoPlugin
  BY Zenon, <1>25 DEF AnswerTakeNoPlugin, Answer, Request, Granted
<1>26. CASE TakeNoFilename
  BY Zenon, <1>26 DEF TakeNoFilename, Request, Granted
<1>27. CASE TakeSaved
  BY Zenon, <1>27 DEF TakeSaved, Granted
<1>28. CASE TakeFailed
  BY Zenon, <1>28 DEF TakeFailed, Answer, Granted
<1>29. CASE TakeSend
  BY Zenon, <1>29 DEF TakeSend, Answer, Request, Granted
<1>30. CASE AnswerUnknown
  BY Zenon, <1>30 DEF AnswerUnknown, Request, Granted
<1>31. CASE Close
  BY Zenon, <1>31 DEF Close, FreeRequest, Granted
<1>32. CASE StreamEnd
  BY Zenon, <1>32 DEF StreamEnd, Request, Granted
<1>33. CASE StreamNoMemory
  BY Zenon, <1>33 DEF StreamNoMemory, Request, Granted
<1>34. CASE UNCHANGED vars
  BY Zenon, <1>34 DEF vars, Granted
<1> QED BY Zenon, <1>1, <1>2, <1>3, <1>4, <1>5, <1>6, <1>7, <1>8, <1>9, <1>10, <1>11, <1>12,
          <1>13, <1>14, <1>15, <1>16, <1>17, <1>18, <1>19, <1>20, <1>21, <1>22, <1>23,
          <1>24, <1>25, <1>26, <1>27, <1>28, <1>29, <1>30, <1>31, <1>32, <1>33, <1>34
       DEF Next, Read, Check, Serve, Stream

\* With -c nothing is served without the right credentials, whatever the client sends.
THEOREM ServedOnlyAuthorizedHolds == Spec => []ServedOnlyAuthorized
<1>1. Init => AccessInv
  BY Zenon DEF Init, AccessInv, Reading
<1>2. AccessInv => ServedOnlyAuthorized
  BY Zenon DEF AccessInv, ServedOnlyAuthorized, Granted
<1> QED BY <1>1, <1>2, RequestTypeCorrect, AccessStep, PTL DEF Spec

-----------------------------------------------------------------------------
\* Every step keeps the plugin numbers in range.
LEMMA PluginStep == ASSUME TypeOK, PluginExists, [Next]_vars PROVE PluginExists'
<1> USE DEF TypeOK, PluginExists, Suffixed
<1>1. CASE RequestTimeout
  BY Zenon, <1>1 DEF RequestTimeout
<1>2. CASE RequestMalformed
  BY Zenon, <1>2 DEF RequestMalformed
<1>3. CASE RequestNotEscaped
  BY Zenon, <1>3 DEF RequestNotEscaped
<1>4. CASE RequestNoMemory
  BY Zenon, <1>4 DEF RequestNoMemory
<1>5. CASE RequestLine
  BY Zenon, <1>5 DEF RequestLine
<1>6. CASE HeaderAgent
  BY Zenon, <1>6 DEF HeaderAgent, Strdup
<1>7. CASE HeaderAuthorization
  BY Zenon, <1>7 DEF HeaderAuthorization, Strdup
<1>8. CASE HeaderEnd
  BY Zenon, <1>8 DEF HeaderEnd
<1>9. CASE HeaderTimeout
  BY Zenon, <1>9 DEF HeaderTimeout, FreeRequest
<1>10. CASE AccessGranted
  BY Zenon, <1>10 DEF AccessGranted, Granted
<1>11. CASE AccessDenied
  BY Zenon, <1>11 DEF AccessDenied, FreeRequest, Granted
<1>12. CASE CheckRange
  BY Zenon, <1>12 DEF CheckRange, InRange
<1>13. CASE AnswerSnapshot
  BY Zenon, <1>13 DEF AnswerSnapshot, Answer, Request
<1>14. CASE AnswerStream
  BY Zenon, <1>14 DEF AnswerStream, Request
<1>15. CASE CommandRefused
  BY Zenon, <1>15 DEF CommandRefused, Answer, Request, Targets, Nobody, NoCmd
<1>16. CASE CommandNoMemory
  BY Zenon, <1>16 DEF CommandNoMemory, Answer, Targets, Nobody, NoCmd
<1>17. CASE CommandExecuted
  BY <1>17 DEF CommandExecuted, Answer, Targets, Nobody, NoCmd
<1>18. CASE CommandWithoutCmd
  BY <1>18 DEF CommandWithoutCmd, Request, Targets, Nobody, NoCmd
<1>19. CASE AnswerInputJson
  BY Zenon, <1>19 DEF AnswerInputJson, Answer, NoAnswer, Request
<1>20. CASE AnswerOutputJson
  BY Zenon, <1>20 DEF AnswerOutputJson, Answer, NoAnswer, Request
<1>21. CASE AnswerProgramJson
  BY Zenon, <1>21 DEF AnswerProgramJson, Answer, Request
<1>22. CASE AnswerFile
  BY Zenon, <1>22 DEF AnswerFile, Answer, Request
<1>23. CASE AnswerCgi
  BY Zenon, <1>23 DEF AnswerCgi, Answer, Request
<1>24. CASE CgiWithoutFolder
  BY Zenon, <1>24 DEF CgiWithoutFolder, Request
<1>25. CASE AnswerTakeNoPlugin
  BY Zenon, <1>25 DEF AnswerTakeNoPlugin, Answer, Request
<1>26. CASE TakeNoFilename
  BY Zenon, <1>26 DEF TakeNoFilename, Request
<1>27. CASE TakeSaved
  BY Zenon, <1>27 DEF TakeSaved
<1>28. CASE TakeFailed
  BY Zenon, <1>28 DEF TakeFailed, Answer
<1>29. CASE TakeSend
  BY Zenon, <1>29 DEF TakeSend, Answer, Request
<1>30. CASE AnswerUnknown
  BY Zenon, <1>30 DEF AnswerUnknown, Request
<1>31. CASE Close
  BY Zenon, <1>31 DEF Close, FreeRequest
<1>32. CASE StreamEnd
  BY Zenon, <1>32 DEF StreamEnd, Request
<1>33. CASE StreamNoMemory
  BY Zenon, <1>33 DEF StreamNoMemory, Request
<1>34. CASE UNCHANGED vars
  BY Zenon, <1>34 DEF vars
<1> QED BY ZenonT(30), <1>1, <1>2, <1>3, <1>4, <1>5, <1>6, <1>7, <1>8, <1>9, <1>10, <1>11, <1>12,
          <1>13, <1>14, <1>15, <1>16, <1>17, <1>18, <1>19, <1>20, <1>21, <1>22, <1>23,
          <1>24, <1>25, <1>26, <1>27, <1>28, <1>29, <1>30, <1>31, <1>32, <1>33, <1>34
       DEF Next, Read, Check, Serve, Stream

\* No request makes the thread take a picture or a description from a plugin that is not
\* loaded, or call the cmd function of one behind the last.
THEOREM PluginExistsHolds == Spec => []PluginExists
<1>1. Init => PluginExists
  BY DEF Init, PluginExists, Nobody
<1> QED BY <1>1, RequestTypeCorrect, PluginStep, PTL DEF Spec

-----------------------------------------------------------------------------
\* Every step keeps the account of the replies.
LEMMA ReplyStep == ASSUME TypeOK, ReplyInv, [Next]_vars PROVE ReplyInv'
<1> USE DEF TypeOK, ReplyInv, OneStatusLine, Reading
<1>1. CASE RequestTimeout
  BY Zenon, <1>1 DEF RequestTimeout
<1>2. CASE RequestMalformed
  BY <1>2 DEF RequestMalformed, Reply
<1>3. CASE RequestNotEscaped
  BY <1>3 DEF RequestNotEscaped, Reply
<1>4. CASE RequestNoMemory
  BY <1>4 DEF RequestNoMemory
<1>5. CASE RequestLine
  BY <1>5 DEF RequestLine, Lines
<1>6. CASE HeaderAgent
  BY Zenon, <1>6 DEF HeaderAgent, Strdup
<1>7. CASE HeaderAuthorization
  BY Zenon, <1>7 DEF HeaderAuthorization, Strdup
<1>8. CASE HeaderEnd
  BY Zenon, <1>8 DEF HeaderEnd
<1>9. CASE HeaderTimeout
  BY Zenon, <1>9 DEF HeaderTimeout, FreeRequest
<1>10. CASE AccessGranted
  BY Zenon, <1>10 DEF AccessGranted, Granted
<1>11. CASE AccessDenied
  BY <1>11 DEF AccessDenied, FreeRequest, Granted, Reply
<1>12. CASE CheckRange
  <2>1. CASE InRange
    BY Zenon, <1>12, <2>1 DEF CheckRange
  <2>2. CASE ~InRange
    <3>1. Len(replies') = 1 /\ type' = "A_UNKNOWN" /\ pc' = "answer" /\ line' = line
      BY <1>12, <2>2 DEF CheckRange, Reply
    <3> QED BY <3>1
  <2> QED BY Zenon, <2>1, <2>2
<1>13. CASE AnswerSnapshot
  BY <1>13 DEF AnswerSnapshot, Answer, Request, Reply
<1>14. CASE AnswerStream
  BY Zenon, <1>14 DEF AnswerStream, Request, Reply
<1>15. CASE CommandRefused
  BY <1>15 DEF CommandRefused, Answer, Request, Reply
<1>16. CASE CommandNoMemory
  BY <1>16 DEF CommandNoMemory, Answer, Reply
<1>17. CASE CommandExecuted
  BY <1>17 DEF CommandExecuted, Answer, Reply
<1>18. CASE CommandWithoutCmd
  BY Zenon, <1>18 DEF CommandWithoutCmd, Request
<1>19. CASE AnswerInputJson
  BY SMTT(30), <1>19 DEF AnswerInputJson, Answer, NoAnswer, Request, Reply
<1>20. CASE AnswerOutputJson
  BY <1>20 DEF AnswerOutputJson, Answer, NoAnswer, Request, Reply
<1>21. CASE AnswerProgramJson
  BY <1>21 DEF AnswerProgramJson, Answer, Request, Reply
<1>22. CASE AnswerFile
  BY SMTT(30), <1>22 DEF AnswerFile, Answer, Request, Reply
<1>23. CASE AnswerCgi
  BY SMTT(30), <1>23 DEF AnswerCgi, Answer, Request, Reply
<1>24. CASE CgiWithoutFolder
  BY Zenon, <1>24 DEF CgiWithoutFolder, Request
<1>25. CASE AnswerTakeNoPlugin
  BY <1>25 DEF AnswerTakeNoPlugin, Answer, Request, Reply
<1>26. CASE TakeNoFilename
  BY <1>26 DEF TakeNoFilename, Request, Reply
<1>27. CASE TakeSaved
  BY Zenon, <1>27 DEF TakeSaved
<1>28. CASE TakeFailed
  BY <1>28 DEF TakeFailed, Answer, Reply
<1>29. CASE TakeSend
  BY <1>29 DEF TakeSend, Answer, Request, Reply
<1>30. CASE AnswerUnknown
  BY Zenon, <1>30 DEF AnswerUnknown, Request
<1>31. CASE Close
  BY Zenon, <1>31 DEF Close, FreeRequest
<1>32. CASE StreamEnd
  BY Zenon, <1>32 DEF StreamEnd, Request
<1>33. CASE StreamNoMemory
  BY Zenon, <1>33 DEF StreamNoMemory, Request, Reply
<1>34. CASE UNCHANGED vars
  BY Zenon, <1>34 DEF vars
<1> QED BY ZenonT(30), <1>1, <1>2, <1>3, <1>4, <1>5, <1>6, <1>7, <1>8, <1>9, <1>10, <1>11, <1>12,
          <1>13, <1>14, <1>15, <1>16, <1>17, <1>18, <1>19, <1>20, <1>21, <1>22, <1>23,
          <1>24, <1>25, <1>26, <1>27, <1>28, <1>29, <1>30, <1>31, <1>32, <1>33, <1>34
       DEF Next, Read, Check, Serve, Stream

\* A client gets more than one status line in two cases only.
THEOREM OneStatusLineHolds == Spec => []OneStatusLine
<1>1. Init => ReplyInv
  BY DEF Init, ReplyInv, OneStatusLine, Reading
<1>2. ReplyInv => OneStatusLine
  BY Zenon DEF ReplyInv
<1> QED BY <1>1, <1>2, RequestTypeCorrect, ReplyStep, PTL DEF Spec

-----------------------------------------------------------------------------
\* The picture of a take request that names a file is on its way only when it was saved.
TakeInv ==
    /\ pc = "take" /\ line.named => saved
    /\ TakeSendsSaved

\* Every step keeps the order of saving and sending.
LEMMA TakeStep ==
    ASSUME TypeOK, AccessInv, ReplyInv, TakeInv, [Next]_vars PROVE TakeInv'
<1> USE DEF TypeOK, AccessInv, ReplyInv, TakeInv, TakeSendsSaved, Reading
<1>1. CASE RequestTimeout
  BY Zenon, <1>1 DEF RequestTimeout
<1>2. CASE RequestMalformed
  BY Zenon, <1>2 DEF RequestMalformed
<1>3. CASE RequestNotEscaped
  BY Zenon, <1>3 DEF RequestNotEscaped
<1>4. CASE RequestNoMemory
  BY Zenon, <1>4 DEF RequestNoMemory
<1>5. CASE RequestLine
  BY Zenon, <1>5 DEF RequestLine
<1>6. CASE HeaderAgent
  BY Zenon, <1>6 DEF HeaderAgent, Strdup
<1>7. CASE HeaderAuthorization
  BY Zenon, <1>7 DEF HeaderAuthorization, Strdup
<1>8. CASE HeaderEnd
  BY Zenon, <1>8 DEF HeaderEnd
<1>9. CASE HeaderTimeout
  BY Zenon, <1>9 DEF HeaderTimeout, FreeRequest
<1>10. CASE AccessGranted
  BY Zenon, <1>10 DEF AccessGranted, Granted
<1>11. CASE AccessDenied
  BY Zenon, <1>11 DEF AccessDenied, FreeRequest, Granted
<1>12. CASE CheckRange
  BY Zenon, <1>12 DEF CheckRange
<1>13. CASE AnswerSnapshot
  BY Zenon, <1>13 DEF AnswerSnapshot, Answer, Request
<1>14. CASE AnswerStream
  BY Zenon, <1>14 DEF AnswerStream, Request
<1>15. CASE CommandRefused
  BY Zenon, <1>15 DEF CommandRefused, Answer, Request
<1>16. CASE CommandNoMemory
  BY Zenon, <1>16 DEF CommandNoMemory, Answer
<1>17. CASE CommandExecuted
  BY Zenon, <1>17 DEF CommandExecuted, Answer
<1>18. CASE CommandWithoutCmd
  BY Zenon, <1>18 DEF CommandWithoutCmd, Request
<1>19. CASE AnswerInputJson
  BY Zenon, <1>19 DEF AnswerInputJson, Answer, NoAnswer, Request
<1>20. CASE AnswerOutputJson
  BY Zenon, <1>20 DEF AnswerOutputJson, Answer, NoAnswer, Request
<1>21. CASE AnswerProgramJson
  BY Zenon, <1>21 DEF AnswerProgramJson, Answer, Request
<1>22. CASE AnswerFile
  BY Zenon, <1>22 DEF AnswerFile, Answer, Request
<1>23. CASE AnswerCgi
  BY Zenon, <1>23 DEF AnswerCgi, Answer, Request
<1>24. CASE CgiWithoutFolder
  BY Zenon, <1>24 DEF CgiWithoutFolder, Request
<1>25. CASE AnswerTakeNoPlugin
  BY <1>25 DEF AnswerTakeNoPlugin, Answer, Request
<1>26. CASE TakeNoFilename
  BY Zenon, <1>26 DEF TakeNoFilename, Request
<1>27. CASE TakeSaved
  BY Zenon, <1>27 DEF TakeSaved
<1>28. CASE TakeFailed
  BY <1>28 DEF TakeFailed, Answer
<1>29. CASE TakeSend
  BY Zenon, <1>29 DEF TakeSend, Answer, Request
<1>30. CASE AnswerUnknown
  BY Zenon, <1>30 DEF AnswerUnknown, Request
<1>31. CASE Close
  BY Zenon, <1>31 DEF Close, FreeRequest
<1>32. CASE StreamEnd
  BY Zenon, <1>32 DEF StreamEnd, Request
<1>33. CASE StreamNoMemory
  BY Zenon, <1>33 DEF StreamNoMemory, Request
<1>34. CASE UNCHANGED vars
  BY Zenon, <1>34 DEF vars
<1> QED BY ZenonT(30), <1>1, <1>2, <1>3, <1>4, <1>5, <1>6, <1>7, <1>8, <1>9, <1>10, <1>11, <1>12,
          <1>13, <1>14, <1>15, <1>16, <1>17, <1>18, <1>19, <1>20, <1>21, <1>22, <1>23,
          <1>24, <1>25, <1>26, <1>27, <1>28, <1>29, <1>30, <1>31, <1>32, <1>33, <1>34
       DEF Next, Read, Check, Serve, Stream

\* "take" with a file name sends the picture only after output_file has saved it.
THEOREM TakeSendsSavedHolds == Spec => []TakeSendsSaved
<1>1. Init => AccessInv /\ ReplyInv /\ TakeInv
  BY DEF Init, AccessInv, ReplyInv, OneStatusLine, TakeInv, TakeSendsSaved, Reading
<1>2. TakeInv => TakeSendsSaved
  BY Zenon DEF TakeInv
<1> QED BY <1>1, <1>2, RequestTypeCorrect, AccessStep, ReplyStep, TakeStep, PTL DEF Spec

-----------------------------------------------------------------------------
\* Every step keeps the account of the strings.
LEMMA HeapStep == ASSUME TypeOK, HeapInv, [Next]_vars PROVE HeapInv'
<1> USE DEF TypeOK, HeapInv, Reading, Overwritten, LeftBehind, Options, Members
<1>1. CASE RequestTimeout
  BY Zenon, <1>1 DEF RequestTimeout
<1>2. CASE RequestMalformed
  BY Zenon, <1>2 DEF RequestMalformed
<1>3. CASE RequestNotEscaped
  BY <1>3 DEF RequestNotEscaped
<1>4. CASE RequestNoMemory
  BY <1>4 DEF RequestNoMemory
<1>5. CASE RequestLine
  BY <1>5 DEF RequestLine, Allocated
<1>6. CASE HeaderAgent
  BY SMTT(30), <1>6 DEF HeaderAgent, Strdup
<1>7. CASE HeaderAuthorization
  BY SMTT(30), <1>7 DEF HeaderAuthorization, Strdup
<1>8. CASE HeaderEnd
  BY Zenon, <1>8 DEF HeaderEnd
<1>9. CASE HeaderTimeout
  BY Zenon, <1>9 DEF HeaderTimeout, FreeRequest
<1>10. CASE AccessGranted
  BY Zenon, <1>10 DEF AccessGranted, Granted
<1>11. CASE AccessDenied
  BY Zenon, <1>11 DEF AccessDenied, FreeRequest, Granted
<1>12. CASE CheckRange
  BY <1>12 DEF CheckRange
<1>13. CASE AnswerSnapshot
  BY Zenon, <1>13 DEF AnswerSnapshot, Answer, Request
<1>14. CASE AnswerStream
  BY Zenon, <1>14 DEF AnswerStream, Request
<1>15. CASE CommandRefused
  BY Zenon, <1>15 DEF CommandRefused, Answer, Request
<1>16. CASE CommandNoMemory
  BY <1>16 DEF CommandNoMemory, Answer
<1>17. CASE CommandExecuted
  BY <1>17 DEF CommandExecuted, Answer
<1>18. CASE CommandWithoutCmd
  BY Zenon, <1>18 DEF CommandWithoutCmd, Request
<1>19. CASE AnswerInputJson
  BY Zenon, <1>19 DEF AnswerInputJson, Answer, NoAnswer, Request
<1>20. CASE AnswerOutputJson
  BY Zenon, <1>20 DEF AnswerOutputJson, Answer, NoAnswer, Request
<1>21. CASE AnswerProgramJson
  BY Zenon, <1>21 DEF AnswerProgramJson, Answer, Request
<1>22. CASE AnswerFile
  BY <1>22 DEF AnswerFile, Answer, Request
<1>23. CASE AnswerCgi
  BY Zenon, <1>23 DEF AnswerCgi, Answer, Request
<1>24. CASE CgiWithoutFolder
  BY Zenon, <1>24 DEF CgiWithoutFolder, Request
<1>25. CASE AnswerTakeNoPlugin
  BY Zenon, <1>25 DEF AnswerTakeNoPlugin, Answer, Request
<1>26. CASE TakeNoFilename
  BY Zenon, <1>26 DEF TakeNoFilename, Request
<1>27. CASE TakeSaved
  BY <1>27 DEF TakeSaved
<1>28. CASE TakeFailed
  BY <1>28 DEF TakeFailed, Answer
<1>29. CASE TakeSend
  BY Zenon, <1>29 DEF TakeSend, Answer, Request
<1>30. CASE AnswerUnknown
  BY Zenon, <1>30 DEF AnswerUnknown, Request
<1>31. CASE Close
  BY Zenon, <1>31 DEF Close, FreeRequest
<1>32. CASE StreamEnd
  BY Zenon, <1>32 DEF StreamEnd, Request
<1>33. CASE StreamNoMemory
  BY Zenon, <1>33 DEF StreamNoMemory, Request
<1>34. CASE UNCHANGED vars
  BY Zenon, <1>34 DEF vars
<1> QED BY ZenonT(30), <1>1, <1>2, <1>3, <1>4, <1>5, <1>6, <1>7, <1>8, <1>9, <1>10, <1>11, <1>12,
          <1>13, <1>14, <1>15, <1>16, <1>17, <1>18, <1>19, <1>20, <1>21, <1>22, <1>23,
          <1>24, <1>25, <1>26, <1>27, <1>28, <1>29, <1>30, <1>31, <1>32, <1>33, <1>34
       DEF Next, Read, Check, Serve, Stream

\* The thread ends with its connection closed and the request freed on every path.
THEOREM EndsCleanHolds == Spec => []EndsClean
<1>1. Init => HeapInv
  BY DEF Init, HeapInv, Reading, Overwritten, LeftBehind, Members, Options
<1>2. HeapInv => EndsClean
  BY Zenon DEF HeapInv, EndsClean, Overwritten, LeftBehind
<1> QED BY <1>1, <1>2, RequestTypeCorrect, HeapStep, PTL DEF Spec

-----------------------------------------------------------------------------
\* The process dies in two actions only.
LEMMA DiesStep == ASSUME TypeOK, AccessInv, DiesOnlyAuthorized, [Next]_vars PROVE DiesOnlyAuthorized'
<1>1. CASE CommandWithoutCmd
  <2>1. PICK to \in Targets : NoCmd(to) /\ called' = to
    BY Zenon, <1>1 DEF CommandWithoutCmd
  <2>2. to # Nobody
    BY <2>1 DEF Targets, Nobody
  <2>3. UNCHANGED <<conf, type, credentials>> /\ type = "A_COMMAND" /\ ~conf.nocommands /\ Granted
    BY Zenon, <1>1 DEF CommandWithoutCmd, Request, AccessInv
  <2> QED BY Zenon, <2>1, <2>2, <2>3 DEF DiesOnlyAuthorized, Granted, NoCmd
<1>2. CASE CgiWithoutFolder
  <2>1. UNCHANGED <<conf, type, credentials>> /\ type = "A_CGI" /\ ~conf.www_folder /\ Granted
    BY Zenon, <1>2 DEF CgiWithoutFolder, Request, AccessInv
  <2> QED BY Zenon, <2>1 DEF DiesOnlyAuthorized, Granted
<1>3. CASE Read
  <2>1. pc' # "crashed"
    BY Zenon, <1>3 DEF Read, RequestTimeout, RequestMalformed, RequestNotEscaped, RequestNoMemory, RequestLine,
                HeaderAgent, HeaderAuthorization, HeaderEnd, HeaderTimeout
  <2> QED BY Zenon, <2>1 DEF DiesOnlyAuthorized
<1>4. CASE Check \/ Stream
  <2>1. pc' # "crashed"
    BY Zenon, <1>4 DEF Check, AccessGranted, AccessDenied, CheckRange, Stream, StreamEnd, StreamNoMemory
  <2> QED BY Zenon, <2>1 DEF DiesOnlyAuthorized
<1>5. CASE Serve /\ ~CommandWithoutCmd /\ ~CgiWithoutFolder
  <2>1. pc' # "crashed"
    BY SMTT(30), <1>5 DEF Serve, AnswerSnapshot, AnswerStream, CommandRefused, CommandNoMemory, CommandExecuted,
                AnswerInputJson, AnswerOutputJson, AnswerProgramJson, AnswerFile, AnswerCgi, AnswerTakeNoPlugin,
                TakeNoFilename, TakeSaved, TakeFailed, TakeSend, AnswerUnknown, Close, Answer, NoAnswer
  <2> QED BY Zenon, <2>1 DEF DiesOnlyAuthorized
<1>6. CASE UNCHANGED vars
  BY Zenon, <1>6 DEF vars, DiesOnlyAuthorized, Granted, NoCmd
<1> QED BY Zenon, <1>1, <1>2, <1>3, <1>4, <1>5, <1>6 DEF Next

\* Whatever requests are made, command() and execute_cgi() bring the process down only for a client with the right
\* credentials, by a command to a plugin without cmd or in front of the first one, or by a CGI request to a server
\* without a www-folder.
THEOREM DiesOnlyAuthorizedHolds == Spec => []DiesOnlyAuthorized
<1>1. Init => AccessInv /\ DiesOnlyAuthorized
  BY Zenon DEF Init, AccessInv, Reading, DiesOnlyAuthorized
<1> QED BY <1>1, RequestTypeCorrect, AccessStep, DiesStep, PTL DEF Spec

\* Whatever requests are made: nothing but an error reply goes to a client without the right credentials, no plugin is
\* used that is not loaded, and the process dies only as DiesOnlyAuthorized says.
THEOREM ServedAsAllowedHolds == Spec => []ServedAsAllowed
<1>1. ServedOnlyAuthorized /\ PluginExists /\ DiesOnlyAuthorized => ServedAsAllowed
  BY Zenon DEF ServedAsAllowed
<1> QED BY <1>1, ServedOnlyAuthorizedHolds, PluginExistsHolds, DiesOnlyAuthorizedHolds, PTL

\* Whatever requests are made: status lines, saved pictures and the memory of a request are accounted for on every path.
THEOREM AnswersCleanHolds == Spec => []AnswersClean
<1>1. OneStatusLine /\ TakeSendsSaved /\ EndsClean => AnswersClean
  BY Zenon DEF AnswersClean
<1> QED BY <1>1, OneStatusLineHolds, TakeSendsSavedHolds, EndsCleanHolds, PTL

-----------------------------------------------------------------------------
(* HttpServer: the pcfd of a connection belongs to one thread *)

\* What is known of a client thread: the pcfd it was given, its copy of the descriptor and where it is.
ThreadRecords == [arg : Nat, fd : Nat, at : {"copy", "free", "serve", "done"}]

\* The values of the variables of server_thread() and of its client threads.
ServerTypes ==
    /\ hsPc \in {"open", "allocate", "select", "accept", "stopped", "exit"}
    /\ hsSd \in [Sockets -> 0..AddressNum] /\ hsSdLen \in 0..(MAX_SD_LEN - 1)
    /\ hsAddress \in 1..(AddressNum + 1) /\ hsListening \subseteq 1..AddressNum
    /\ hsQueue \in [1..AddressNum -> Seq(Nat)] /\ hsReady \subseteq Sockets
    /\ hsPcfd \in Nat /\ hsFreed \in [Conns -> Nat] /\ hsConn \in 0..MaxConns
    /\ hsThreads \in Seq(ThreadRecords)
    /\ hsFd \in [Conns -> Nat]

\* sd[] holds every address that listens, once; the places from i on are free while it is filled.
SocketsInv ==
    /\ \A i \in Sockets : hsSd[i] # NoSocket => hsSd[i] < hsAddress /\ hsSd[i] \in hsListening
    /\ \A a \in hsListening : \E i \in Sockets : hsSd[i] = a
    /\ \A i, j \in Sockets : hsSd[i] # NoSocket /\ hsSd[i] = hsSd[j] => i = j
    /\ hsPc = "open" /\ hsAddress <= AddressNum => \A i \in Sockets : i > hsSdLen => hsSd[i] = NoSocket

\* The pcfds that connections have been given.
Taken == IF hsPc \in {"select", "accept"} THEN hsPcfd - 1 ELSE hsPcfd

\* One address at a time has connections waiting, and there is a pcfd for each of them.
WaitingInv ==
    /\ hsPc \in {"select", "accept"} => hsPcfd > 0
    /\ \A a, b \in 1..AddressNum : hsQueue[a] # <<>> /\ hsQueue[b] # <<>> => a = b
    /\ hsPc \in {"open", "allocate", "select", "accept"} =>
          Taken <= hsConn /\ \A a \in 1..AddressNum : Taken + Len(hsQueue[a]) <= hsConn
    /\ hsPc = "accept" =>
          \E i \in Sockets : hsReady = {i} /\ hsSd[i] # NoSocket /\ hsQueue[hsSd[i]] # <<>>

\* A pcfd that was given to a thread is its own; the next ones are untouched.
PcfdInv ==
    /\ PcfdOwned
    /\ \A t \in DOMAIN hsThreads : hsThreads[t].arg \in Conns /\ hsThreads[t].arg <= Taken
    /\ \A b \in Conns : b > Taken => hsFreed[b] = 0

\* The invariants hold before the first socket is opened.
LEMMA ServerInitially == ServerInit => ServerTypes /\ SocketsInv /\ WaitingInv /\ PcfdInv
<1> SUFFICES ASSUME ServerInit PROVE ServerTypes /\ SocketsInv /\ WaitingInv /\ PcfdInv
  BY Zenon
<1> USE HttpServerAssumption DEF ServerInit
<1>1. ServerTypes
  BY DEF ServerTypes, Sockets, Conns, NoSocket, NoConn
<1>2. SocketsInv
  BY Zenon DEF SocketsInv, NoSocket
<1>3. WaitingInv
  BY DEF WaitingInv, Taken
<1>4. PcfdInv
  BY DEF PcfdInv, PcfdOwned, Taken
<1> QED BY Zenon, <1>1, <1>2, <1>3, <1>4

\* With one socket ready, the round is about that socket, and the pcfd is the first that is free.
LEMMA OneSocket ==
    ASSUME ServerTypes, WaitingInv, hsPc = "accept"
    PROVE  /\ hsReady = {Next1} /\ Next1 \in Sockets /\ hsSd[Next1] \in 1..AddressNum
           /\ NextQueue \in Seq(Nat) /\ NextQueue # <<>> /\ hsPcfd \in Conns /\ Taken = hsPcfd - 1
           /\ \A a \in 1..AddressNum : a # hsSd[Next1] => hsQueue[a] = <<>>
<1>1. PICK i \in Sockets : hsReady = {i} /\ hsSd[i] # NoSocket /\ hsQueue[hsSd[i]] # <<>>
  BY Zenon DEF WaitingInv
<1>2. Next1 = i
  <2>1. \E j \in hsReady : \A k \in hsReady : j <= k
    BY <1>1 DEF Sockets
  <2>2. Next1 \in hsReady
    BY Zenon, <2>1 DEF Next1
  <2> QED BY Zenon, <1>1, <2>2
<1>3. hsSd[i] \in 1..AddressNum
  BY <1>1, HttpServerAssumption DEF ServerTypes, NoSocket
<1>4. hsQueue[hsSd[i]] \in Seq(Nat) /\ Len(hsQueue[hsSd[i]]) \in Nat \ {0}
  BY <1>1, <1>3 DEF ServerTypes
<1>5. Taken = hsPcfd - 1 /\ hsPcfd \in Conns
  BY <1>3, <1>4, HttpServerAssumption DEF WaitingInv, Taken, Conns, ServerTypes
<1> QED BY Zenon, <1>1, <1>2, <1>3, <1>4, <1>5 DEF NextQueue, WaitingInv

\* accept() takes the connection from the one queue there is, and the round is over.
LEMMA AcceptEffect ==
    ASSUME ServerTypes, WaitingInv, AcceptThreadless \/ \E aborted \in BOOLEAN : AcceptStarts(aborted)
    PROVE  /\ hsPc = "accept" /\ hsPc' = "allocate" /\ hsReady' = {}
           /\ hsQueue' = [hsQueue EXCEPT ![hsSd[Next1]] = Tail(NextQueue)]
           /\ Head(NextQueue) \in Nat /\ Tail(NextQueue) \in Seq(Nat)
           /\ Len(NextQueue) \in Nat /\ Len(Tail(NextQueue)) = Len(NextQueue) - 1
<1>1. /\ hsPc = "accept" /\ RoundOver /\ hsReady' = hsReady \ {Next1}
      /\ hsQueue' = [hsQueue EXCEPT ![hsSd[Next1]] = Tail(NextQueue)]
  BY Zenon DEF AcceptThreadless, AcceptStarts, NextQueue
<1>2. hsReady = {Next1} /\ NextQueue \in Seq(Nat) /\ NextQueue # <<>>
  BY Zenon, <1>1, OneSocket
<1> QED BY <1>1, <1>2 DEF RoundOver

\* A step of a client thread changes where it is, and perhaps its copy of the descriptor.
LEMMA ThreadEffect ==
    ASSUME ServerTypes, PcfdInv, NEW t \in DOMAIN hsThreads, ThreadCopies(t) \/ ThreadFrees(t) \/ ThreadServes(t)
    PROVE  /\ hsThreads' \in Seq(ThreadRecords) /\ DOMAIN hsThreads' = DOMAIN hsThreads
           /\ \A u \in DOMAIN hsThreads : hsThreads'[u].arg = hsThreads[u].arg
           /\ \A u \in DOMAIN hsThreads : u # t => hsThreads'[u] = hsThreads[u]
           /\ hsThreads[t].arg \in Conns
           /\ ThreadFrees(t) => hsThreads[t].at = "free" /\ hsThreads'[t].at = "serve"
           /\ ThreadCopies(t) => hsThreads[t].at = "copy" /\ hsThreads'[t].at = "free"
           /\ ThreadServes(t) => hsThreads'[t].at = "done"
<1>1. hsThreads \in Seq(ThreadRecords) /\ DOMAIN hsThreads = 1..Len(hsThreads) /\ hsThreads[t] \in ThreadRecords
  BY DEF ServerTypes
<1>2. hsThreads[t].arg \in Conns /\ hsFd[hsThreads[t].arg] \in Nat
  BY Zenon DEF PcfdInv, ServerTypes
<1>3. PICK r \in ThreadRecords :
         /\ hsThreads' = [hsThreads EXCEPT ![t] = r] /\ r.arg = hsThreads[t].arg
         /\ ThreadFrees(t) => hsThreads[t].at = "free" /\ r.at = "serve"
         /\ ThreadCopies(t) => hsThreads[t].at = "copy" /\ r.at = "free"
         /\ ThreadServes(t) => hsThreads[t].at = "serve" /\ r.at = "done"
  <2>1. CASE ThreadCopies(t)
    <3> DEFINE r == [arg |-> hsThreads[t].arg, fd |-> hsFd[hsThreads[t].arg], at |-> "free"]
    <3>1. r \in ThreadRecords /\ hsThreads[t].at = "copy"
      BY Zenon, <1>1, <1>2, <2>1 DEF ThreadRecords, ThreadCopies
    <3>2. hsThreads' = [hsThreads EXCEPT ![t] = r]
      <4>1. [[hsThreads[t] EXCEPT !.at = "free"] EXCEPT !.fd = hsFd[hsThreads[t].arg]] = r
        <5>1. [hsThreads[t] EXCEPT !.at = "free"] = [arg |-> hsThreads[t].arg, fd |-> hsThreads[t].fd, at |-> "free"]
          BY SMTT(30), <1>1 DEF ThreadRecords
        <5>2. ASSUME NEW a, NEW f, NEW x
              PROVE  [[arg |-> a, fd |-> f, at |-> "free"] EXCEPT !.fd = x] = [arg |-> a, fd |-> x, at |-> "free"]
          OBVIOUS
        <5>3. [[arg |-> hsThreads[t].arg, fd |-> hsThreads[t].fd,
        at |-> "free"] EXCEPT !.fd = hsFd[hsThreads[t].arg]] = r
          BY Zenon, <5>2
        <5>4. ASSUME NEW q, NEW p, NEW x, q = p PROVE [q EXCEPT !.fd = x] = [p EXCEPT !.fd = x]
          BY Zenon, <5>4
        <5> HIDE DEF r
        <5> QED BY <5>1, <5>3, <5>4, Zenon
      <4>2. hsThreads' = [[hsThreads EXCEPT ![t] = [hsThreads[t] EXCEPT !.at = "free"]]
                            EXCEPT ![t] = [[hsThreads[t] EXCEPT !.at = "free"] EXCEPT !.fd = hsFd[hsThreads[t].arg]]]
        BY Zenon, <1>1, <2>1 DEF ThreadCopies
      <4> QED BY ZenonT(30), <4>1, <4>2
    <3> QED BY ZenonT(30), <3>1, <3>2 DEF ThreadFrees, ThreadServes
  <2>2. CASE ThreadFrees(t)
    <3> DEFINE r == [arg |-> hsThreads[t].arg, fd |-> hsThreads[t].fd, at |-> "serve"]
    <3>1. r \in ThreadRecords /\ hsThreads[t].at = "free"
      BY Zenon, <1>1, <1>2, <2>2 DEF ThreadRecords, ThreadFrees
    <3>2. hsThreads' = [hsThreads EXCEPT ![t] = r]
      <4>1. [hsThreads[t] EXCEPT !.at = "serve"] = r
        BY SMTT(30), <1>1 DEF ThreadRecords
      <4> QED BY ZenonT(30), <2>2, <4>1 DEF ThreadFrees
    <3> QED BY ZenonT(30), <3>1, <3>2 DEF ThreadCopies, ThreadServes
  <2>3. CASE ThreadServes(t)
    <3> DEFINE r == [arg |-> hsThreads[t].arg, fd |-> hsThreads[t].fd, at |-> "done"]
    <3>1. r \in ThreadRecords /\ hsThreads[t].at = "serve"
      BY Zenon, <1>1, <1>2, <2>3 DEF ThreadRecords, ThreadServes
    <3>2. hsThreads' = [hsThreads EXCEPT ![t] = r]
      <4>1. [hsThreads[t] EXCEPT !.at = "done"] = r
        BY SMTT(30), <1>1 DEF ThreadRecords
      <4> QED BY ZenonT(30), <2>3, <4>1 DEF ThreadServes
    <3> QED BY ZenonT(30), <3>1, <3>2 DEF ThreadCopies, ThreadFrees
  <2> QED BY Zenon, <2>1, <2>2, <2>3
<1>4. hsThreads' \in Seq(ThreadRecords)
  BY <1>1, <1>3
<1> QED BY Zenon, <1>1, <1>2, <1>3, <1>4

\* Every step keeps the types.
LEMMA ServerTypesStep ==
    ASSUME ServerTypes, WaitingInv, PcfdInv, ServerNext PROVE ServerTypes'
<1> USE HttpServerAssumption DEF openVars, connVars
<1>1. ASSUME NEW outcome, OpenSocket(outcome) PROVE ServerTypes'
  <2>1. /\ hsSdLen + 1 \in Sockets /\ hsAddress \in 1..AddressNum
        /\ hsAddress' \in 1..(AddressNum + 1) /\ hsSdLen' \in 0..(MAX_SD_LEN - 1)
    <3>1. hsAddress <= AddressNum
      BY Zenon, <1>1 DEF OpenSocket
    <3>2. \/ hsSdLen + 1 >= MAX_SD_LEN /\ hsSdLen' = hsSdLen /\ hsAddress' = AddressNum + 1
          \/ hsSdLen + 1 < MAX_SD_LEN /\ hsSdLen' = hsSdLen + 1 /\ hsAddress' = hsAddress + 1
          \/ hsSdLen' = hsSdLen /\ hsAddress' = hsAddress + 1
      BY <1>1, SMTT(30) DEF OpenSocket, ServerTypes
    <3>3. hsAddress \in 1..(AddressNum + 1) /\ hsSdLen \in 0..(MAX_SD_LEN - 1)
      BY Zenon DEF ServerTypes
    <3> QED BY <3>1, <3>2, <3>3, SMTT(30) DEF Sockets
  <2>2. hsSd' \in [Sockets -> 0..AddressNum] /\ hsListening' \subseteq 1..AddressNum
    <3>1. \E a \in {NoSocket, hsAddress} : hsSd' = [hsSd EXCEPT ![hsSdLen + 1] = a]
      BY Zenon, <1>1 DEF OpenSocket
    <3>2. hsListening' \in {hsListening, hsListening \cup {hsAddress}}
      BY Zenon, <1>1 DEF OpenSocket
    <3> QED BY SMTT(30), <2>1, <3>1, <3>2 DEF ServerTypes, NoSocket
  <2> QED BY Zenon, <1>1, <2>1, <2>2 DEF OpenSocket, ServerTypes
<1>2. CASE Opened
  BY Zenon, <1>2 DEF Opened, ServerTypes
<1>3. CASE AllocatePcfd
  BY <1>3 DEF AllocatePcfd, ServerTypes
<1>4. CASE Select
  BY Zenon, <1>4 DEF Select, ServerTypes
<1>5. CASE AcceptThreadless \/ \E aborted \in BOOLEAN : AcceptStarts(aborted)
  <2>1. hsQueue' \in [1..AddressNum -> Seq(Nat)] /\ hsPc' = "allocate" /\ hsReady' = {} /\ Head(NextQueue) \in Nat
    BY ZenonT(30), <1>5, AcceptEffect DEF ServerTypes
  <2>2. hsFd' \in [Conns -> Nat] /\ hsFreed' \in [Conns -> Nat]
    <3>1. \E c \in {NoConn, Head(NextQueue)} : hsFd' = [hsFd EXCEPT ![hsPcfd] = c]
      BY Zenon, <1>5 DEF AcceptThreadless, AcceptStarts
    <3>2. hsFreed' = hsFreed \/ hsFreed' = [hsFreed EXCEPT ![hsPcfd] = hsFreed[hsPcfd] + 1]
      BY Zenon, <1>5 DEF AcceptThreadless, AcceptStarts
    <3>3. hsPcfd \in Conns /\ hsFd \in [Conns -> Nat] /\ hsFreed \in [Conns -> Nat]
      BY Zenon, <1>5, AcceptEffect, OneSocket DEF ServerTypes
    <3>4. hsFd' \in [Conns -> Nat]
      BY <2>1, <3>1, <3>3 DEF NoConn
    <3>5. hsFreed[hsPcfd] + 1 \in Nat
      BY <3>3
    <3>6. hsFreed' \in [Conns -> Nat]
      BY Zenon, <3>2, <3>3, <3>5
    <3> QED BY Zenon, <3>4, <3>6
  <2>3. hsThreads' \in Seq(ThreadRecords)
    <3>1. [arg |-> hsPcfd, fd |-> NoConn, at |-> "copy"] \in ThreadRecords
      BY Zenon DEF ThreadRecords, NoConn, ServerTypes
    <3>2. hsThreads' \in {hsThreads, Append(hsThreads, [arg |-> hsPcfd, fd |-> NoConn, at |-> "copy"])}
      BY Zenon, <1>5 DEF AcceptThreadless, AcceptStarts
    <3>3. hsThreads \in Seq(ThreadRecords)
      BY Zenon DEF ServerTypes
    <3> QED BY <3>1, <3>2, <3>3
  <2>4. UNCHANGED <<openVars, hsPcfd, hsConn>>
    BY Zenon, <1>5 DEF AcceptThreadless, AcceptStarts
  <2> QED BY Zenon, <2>1, <2>2, <2>3, <2>4 DEF ServerTypes
<1>6. ASSUME NEW t \in DOMAIN hsThreads, ThreadCopies(t) \/ ThreadFrees(t) \/ ThreadServes(t) PROVE ServerTypes'
  <2>1. hsThreads' \in Seq(ThreadRecords) /\ hsThreads[t].arg \in Conns
    BY Zenon, <1>6, ThreadEffect
  <2>2. hsFreed' \in [Conns -> Nat]
    <3>1. hsFreed' = hsFreed \/ hsFreed' = [hsFreed EXCEPT ![hsThreads[t].arg] = hsFreed[hsThreads[t].arg] + 1]
      BY Zenon, <1>6 DEF ThreadCopies, ThreadFrees, ThreadServes
    <3>2. hsFreed \in [Conns -> Nat]
      BY Zenon DEF ServerTypes
    <3> QED BY <2>1, <3>1, <3>2
  <2> QED BY Zenon, <1>6, <2>1, <2>2 DEF ThreadCopies, ThreadFrees, ThreadServes, ServerTypes
<1>7. ASSUME NEW a \in 1..AddressNum, Connects(a) PROVE ServerTypes'
  <2>1. Append(hsQueue[a], hsConn + 1) \in Seq(Nat) /\ hsConn + 1 \in 0..MaxConns
    <3>1. hsQueue[a] \in Seq(Nat) /\ hsConn + 1 \in Nat /\ hsConn + 1 \in 0..MaxConns
      BY <1>7 DEF Connects, ServerTypes
    <3> QED BY <3>1
  <2> QED BY Zenon, <1>7, <2>1 DEF Connects, ServerTypes
<1>8. ASSUME NEW how \in {"stopped", "exit"}, ServerEnds(how) PROVE ServerTypes'
  BY <1>8 DEF ServerEnds, NoSocket, ServerTypes
<1> QED BY Zenon, <1>1, <1>2, <1>3, <1>4, <1>5, <1>6, <1>7, <1>8 DEF ServerNext, ServerStep, ClientStep

\* Every step keeps sd[] and the addresses that listen together.
LEMMA SocketsStep == ASSUME ServerTypes, SocketsInv, ServerNext PROVE SocketsInv'
<1> USE HttpServerAssumption DEF openVars
<1>1. ASSUME NEW outcome, OpenSocket(outcome) PROVE SocketsInv'
  <2>1. /\ hsSdLen + 1 \in Sockets /\ hsSd[hsSdLen + 1] = NoSocket /\ hsAddress \in 1..AddressNum
        /\ hsAddress # NoSocket
    BY <1>1 DEF OpenSocket, ServerTypes, SocketsInv, Sockets, NoSocket
  <2>2. CASE outcome = "listens"
    <3>1. hsSd' = [hsSd EXCEPT ![hsSdLen + 1] = hsAddress] /\ hsListening' = hsListening \cup {hsAddress}
      BY Zenon, <1>1, <2>2 DEF OpenSocket
    <3>2. hsAddress' \in Nat /\ hsAddress' > hsAddress
      BY <1>1, <2>1, <2>2 DEF OpenSocket
    <3>3. hsAddress' <= AddressNum => hsSdLen' = hsSdLen + 1
      BY <1>1, <2>2 DEF OpenSocket
    <3>4. \A i \in Sockets : hsSd[i] \in Nat /\ hsSd[i] < hsAddress
      BY <2>1 DEF ServerTypes, SocketsInv, NoSocket
    <3>5. \A i \in Sockets : hsSd'[i] = IF i = hsSdLen + 1 THEN hsAddress ELSE hsSd[i]
      BY Zenon, <3>1 DEF ServerTypes
    <3>6. hsSdLen \in Nat /\ hsPc' = hsPc /\ hsPc = "open" /\ \A i \in Sockets : i > hsSdLen => hsSd[i] = NoSocket
      BY SMTT(30), <1>1 DEF OpenSocket, ServerTypes, SocketsInv
    <3>7. \A i \in Sockets : hsSd'[i] # NoSocket => hsSd'[i] < hsAddress' /\ hsSd'[i] \in hsListening'
      BY <2>1, <3>1, <3>2, <3>4, <3>5 DEF SocketsInv
    <3>8. \A a \in hsListening' : \E i \in Sockets : hsSd'[i] = a
      <4> SUFFICES ASSUME NEW a \in hsListening' PROVE \E i \in Sockets : hsSd'[i] = a
        BY Zenon
      <4>1. CASE a = hsAddress
        BY Zenon, <2>1, <3>5, <4>1
      <4>2. CASE a # hsAddress
        <5>1. PICK i \in Sockets : hsSd[i] = a
          BY Zenon, <3>1, <4>2 DEF SocketsInv
        <5>2. a # NoSocket
          BY <3>1, <4>2 DEF ServerTypes, NoSocket
        <5> QED BY Zenon, <2>1, <3>5, <5>1, <5>2
      <4> QED BY Zenon, <4>1, <4>2
    <3>9. \A i, j \in Sockets : hsSd'[i] # NoSocket /\ hsSd'[i] = hsSd'[j] => i = j
      BY <2>1, <3>4, <3>5 DEF SocketsInv
    <3>10. hsAddress' <= AddressNum => \A i \in Sockets : i > hsSdLen' => hsSd'[i] = NoSocket
      BY SMTT(30), <3>3, <3>5, <3>6 DEF Sockets
    <3> QED BY Zenon, <3>6, <3>7, <3>8, <3>9, <3>10 DEF SocketsInv
  <2>3. CASE outcome # "listens"
    <3>1. hsSd' = hsSd /\ hsListening' = hsListening /\ hsAddress' = hsAddress + 1 /\ hsPc' = hsPc /\ hsSdLen' = hsSdLen
      BY Zenon, <1>1, <2>1, <2>3 DEF OpenSocket, ServerTypes
    <3>2. \A i \in Sockets : hsSd[i] \in Nat
      BY DEF ServerTypes
    <3>3. hsPc = "open" /\ hsAddress <= AddressNum
      BY Zenon, <1>1 DEF OpenSocket
    <3> QED BY SMTT(30), <2>1, <3>1, <3>2, <3>3 DEF SocketsInv
  <2> QED BY Zenon, <2>2, <2>3
<1>2. CASE Opened
  BY Zenon, <1>2 DEF Opened, SocketsInv
<1>3. CASE AllocatePcfd \/ Select
  BY Zenon, <1>3 DEF AllocatePcfd, Select, SocketsInv
<1>4. CASE AcceptThreadless \/ \E aborted \in BOOLEAN : AcceptStarts(aborted)
  BY SMTT(30), <1>4 DEF AcceptThreadless, AcceptStarts, RoundOver, SocketsInv
<1>5. ASSUME NEW t \in DOMAIN hsThreads, ThreadCopies(t) \/ ThreadFrees(t) \/ ThreadServes(t) PROVE SocketsInv'
  BY <1>5 DEF ThreadCopies, ThreadFrees, ThreadServes, SocketsInv
<1>6. ASSUME NEW a \in 1..AddressNum, Connects(a) PROVE SocketsInv'
  BY Zenon, <1>6 DEF Connects, SocketsInv
<1>7. ASSUME NEW how \in {"stopped", "exit"}, ServerEnds(how) PROVE SocketsInv'
  BY Zenon, <1>7 DEF ServerEnds, SocketsInv
<1> QED BY Zenon, <1>1, <1>2, <1>3, <1>4, <1>5, <1>6, <1>7 DEF ServerNext, ServerStep, ClientStep

\* Every step keeps the connections on one address, and enough pcfds for them.
LEMMA WaitingStep ==
    ASSUME ServerTypes, SocketsInv, WaitingInv, OneReady, ServerNext PROVE WaitingInv'
<1> USE HttpServerAssumption DEF openVars, connVars
<1>1. ASSUME NEW outcome, OpenSocket(outcome) PROVE WaitingInv'
  BY Zenon, <1>1 DEF OpenSocket, WaitingInv, Taken
<1>2. CASE Opened
  BY Zenon, <1>2 DEF Opened, WaitingInv, Taken
<1>3. CASE AllocatePcfd
  BY SMTT(30), <1>3 DEF AllocatePcfd, WaitingInv, Taken, ServerTypes
<1>4. CASE Select
  <2>1. PICK i \in Sockets : i \in hsReady'
    BY Zenon, <1>4 DEF Select
  <2>2. \A j \in hsReady' : j \in Sockets /\ hsSd[j] # NoSocket /\ hsSd[j] \in 1..AddressNum /\ hsQueue[hsSd[j]] # <<>>
    BY SMTT(30), <1>4 DEF Select, ServerTypes, NoSocket
  <2>3. \A j \in hsReady' : j = i
    BY SMTT(30), <2>1, <2>2 DEF WaitingInv, SocketsInv
  <2>4. hsReady' = {i}
    BY Zenon, <2>1, <2>3
  <2> QED BY Zenon, <1>4, <2>1, <2>2, <2>4 DEF Select, WaitingInv, Taken
<1>5. CASE AcceptThreadless \/ \E aborted \in BOOLEAN : AcceptStarts(aborted)
  <2>1. /\ hsPc = "accept" /\ hsPc' = "allocate"
        /\ hsQueue' = [hsQueue EXCEPT ![hsSd[Next1]] = Tail(NextQueue)]
        /\ Len(NextQueue) \in Nat /\ Len(Tail(NextQueue)) = Len(NextQueue) - 1
    BY Zenon, <1>5, AcceptEffect
  <2>2. /\ hsSd[Next1] \in 1..AddressNum /\ Taken = hsPcfd - 1 /\ hsPcfd \in Nat
        /\ \A a \in 1..AddressNum : a # hsSd[Next1] => hsQueue[a] = <<>>
    BY <2>1, OneSocket DEF Conns
  <2>3. UNCHANGED <<hsPcfd, hsConn>>
    BY Zenon, <1>5 DEF AcceptThreadless, AcceptStarts
  <2>4. Taken' = Taken + 1 /\ Taken + Len(NextQueue) <= hsConn /\ Len(NextQueue) > 0
    <3>1. Taken' = hsPcfd
      BY Zenon, <2>1, <2>3 DEF Taken
    <3>2. Taken + Len(hsQueue[hsSd[Next1]]) <= hsConn
      BY ZenonT(30), <2>1, <2>2 DEF WaitingInv
    <3>3. NextQueue \in Seq(Nat) /\ NextQueue # <<>>
      BY Zenon, <2>1, OneSocket
    <3> QED BY <2>1, <2>2, <3>1, <3>2, <3>3 DEF NextQueue
  <2>5. \A a \in 1..AddressNum : hsQueue'[a] = IF a = hsSd[Next1] THEN Tail(NextQueue) ELSE <<>>
    BY Zenon, <2>1, <2>2 DEF ServerTypes
  <2>6. \A a \in 1..AddressNum : Taken' + Len(hsQueue'[a]) <= hsConn'
    BY SMTT(30), <2>1, <2>2, <2>3, <2>4, <2>5 DEF ServerTypes
  <2>7. Taken' <= hsConn'
    BY <2>2, <2>3, <2>4 DEF ServerTypes
  <2> QED BY SMTT(30), <2>1, <2>5, <2>6, <2>7 DEF WaitingInv
<1>6. ASSUME NEW t \in DOMAIN hsThreads, ThreadCopies(t) \/ ThreadFrees(t) \/ ThreadServes(t) PROVE WaitingInv'
  BY <1>6 DEF ThreadCopies, ThreadFrees, ThreadServes, WaitingInv, Taken
<1>7. ASSUME NEW a \in 1..AddressNum, Connects(a) PROVE WaitingInv'
  <2>1. /\ hsQueue[a] \in Seq(Nat) /\ hsConn + 1 \in Nat /\ hsConn' = hsConn + 1
        /\ hsQueue' = [hsQueue EXCEPT ![a] = Append(hsQueue[a], hsConn + 1)]
        /\ \A b \in 1..AddressNum : b # a => hsQueue[b] = <<>>
        /\ UNCHANGED <<hsPc, hsSd, hsReady, hsPcfd>>
    BY SMTT(30), <1>7 DEF Connects, ServerTypes
  <2>2. Append(hsQueue[a], hsConn + 1) # <<>> /\ Len(Append(hsQueue[a], hsConn + 1)) = Len(hsQueue[a]) + 1
    BY SMTT(30), <2>1
  <2>3. \A b \in 1..AddressNum : hsQueue'[b] = IF b = a THEN Append(hsQueue[a], hsConn + 1) ELSE <<>>
    BY Zenon, <2>1 DEF ServerTypes
  <2>4. Taken' = Taken /\ Taken \in Int /\ Len(hsQueue[a]) \in Nat
    BY <2>1 DEF Taken, ServerTypes
  <2>5. hsPc \in {"open", "allocate", "select", "accept"} =>
           Taken' <= hsConn' /\ \A b \in 1..AddressNum : Taken' + Len(hsQueue'[b]) <= hsConn'
    BY SMTT(30), <2>1, <2>2, <2>3, <2>4 DEF WaitingInv, ServerTypes
  <2>6. hsPc = "accept" =>
          \E i \in Sockets : hsReady = {i} /\ hsSd[i] # NoSocket /\ hsQueue'[hsSd[i]] # <<>>
    <3> SUFFICES ASSUME hsPc = "accept"
                 PROVE  \E i \in Sockets : hsReady = {i} /\ hsSd[i] # NoSocket /\ hsQueue'[hsSd[i]] # <<>>
      BY Zenon
    <3>1. PICK i \in Sockets : hsReady = {i} /\ hsSd[i] # NoSocket /\ hsQueue[hsSd[i]] # <<>>
      BY Zenon DEF WaitingInv
    <3>2. hsSd[i] \in 1..AddressNum
      BY <3>1 DEF ServerTypes, NoSocket
    <3>3. hsSd[i] = a
      BY Zenon, <2>1, <3>1, <3>2
    <3> QED BY ZenonT(30), <2>2, <2>3, <3>1, <3>3
  <2>7. hsPc \in {"select", "accept"} => hsPcfd > 0
    BY Zenon DEF WaitingInv
  <2> QED BY SMTT(30), <2>1, <2>3, <2>5, <2>6, <2>7 DEF WaitingInv
<1>8. ASSUME NEW how \in {"stopped", "exit"}, ServerEnds(how) PROVE WaitingInv'
  BY Zenon, <1>8 DEF ServerEnds, WaitingInv
<1> QED BY Zenon, <1>1, <1>2, <1>3, <1>4, <1>5, <1>6, <1>7, <1>8 DEF ServerNext, ServerStep, ClientStep


\* Every step keeps each pcfd with its thread.
LEMMA PcfdStep ==
    ASSUME ServerTypes, WaitingInv, PcfdInv, ServerNext PROVE PcfdInv'
<1> USE HttpServerAssumption DEF openVars, connVars
<1>0. /\ hsThreads \in Seq(ThreadRecords) /\ DOMAIN hsThreads = 1..Len(hsThreads) /\ Len(hsThreads) \in Nat
      /\ hsFreed \in [Conns -> Nat] /\ hsPcfd \in Nat
  BY DEF ServerTypes
<1>1. ASSUME UNCHANGED <<hsThreads, hsFreed>>, Taken' >= Taken, Taken \in Int, Taken' \in Int PROVE PcfdInv'
  <2>1. \A t \in DOMAIN hsThreads : hsThreads[t].arg <= Taken'
    BY <1>1 DEF PcfdInv, Conns
  <2>2. \A b \in Conns : b > Taken' => hsFreed[b] = 0
    BY <1>1 DEF PcfdInv, Conns
  <2> QED BY Zenon, <1>1, <2>1, <2>2 DEF PcfdInv, PcfdOwned
<1>2. ASSUME NEW outcome, OpenSocket(outcome) PROVE PcfdInv'
  BY <1>0, <1>1, <1>2 DEF OpenSocket, Taken
<1>3. CASE Opened \/ AllocatePcfd \/ Select
  BY SMTT(30), <1>0, <1>1, <1>3 DEF Opened, AllocatePcfd, Select, Taken
<1>4. CASE AcceptThreadless \/ \E aborted \in BOOLEAN : AcceptStarts(aborted)
  <2>1. hsPc = "accept" /\ hsPc' = "allocate"
    BY Zenon, <1>4, AcceptEffect
  <2>2. hsPcfd \in Conns /\ Taken = hsPcfd - 1 /\ hsPcfd' = hsPcfd
    BY Zenon, <1>4, <2>1, OneSocket DEF AcceptThreadless, AcceptStarts
  <2>3. Taken' = hsPcfd /\ hsFreed[hsPcfd] = 0
    BY <1>0, <2>1, <2>2 DEF Taken, PcfdInv, Conns
  <2>4. \A t \in DOMAIN hsThreads : hsThreads[t].arg \in Conns /\ hsThreads[t].arg < hsPcfd
    BY <2>2 DEF PcfdInv, Conns
  <2>5. CASE AcceptThreadless
    <3>1. hsThreads' = hsThreads /\ \A b \in Conns : hsFreed'[b] = IF b = hsPcfd THEN 1 ELSE hsFreed[b]
      BY <1>0, <2>3, <2>5 DEF AcceptThreadless
    <3>2. PcfdOwned'
      BY SMTT(30), <2>2, <2>4, <3>1 DEF PcfdInv, PcfdOwned, Conns
    <3>3. \A t \in DOMAIN hsThreads' : hsThreads'[t].arg \in Conns /\ hsThreads'[t].arg <= Taken'
      BY SMTT(30), <2>2, <2>3, <2>4, <3>1 DEF Conns
    <3>4. \A b \in Conns : b > Taken' => hsFreed'[b] = 0
      BY <2>2, <2>3, <3>1 DEF PcfdInv, Conns
    <3> QED BY Zenon, <3>2, <3>3, <3>4 DEF PcfdInv
  <2>6. ASSUME NEW aborted \in BOOLEAN, AcceptStarts(aborted) PROVE PcfdInv'
    <3> DEFINE r == [arg |-> hsPcfd, fd |-> NoConn, at |-> "copy"]
    <3>1. hsThreads' = Append(hsThreads, r) /\ hsFreed' = hsFreed
      BY Zenon, <2>6 DEF AcceptStarts
    <3>2. r \in ThreadRecords /\ r.arg = hsPcfd
      BY Zenon, <1>0 DEF ThreadRecords, NoConn
    <3> HIDE DEF r
    <3>3. /\ DOMAIN hsThreads' = 1..(Len(hsThreads) + 1) /\ hsThreads'[Len(hsThreads) + 1] = r
          /\ \A t \in DOMAIN hsThreads : hsThreads'[t] = hsThreads[t]
      BY <1>0, <3>1, <3>2
    <3>4. \A t \in DOMAIN hsThreads' : (t \in DOMAIN hsThreads /\ hsThreads'[t] = hsThreads[t])
                                       \/ (t = Len(hsThreads) + 1 /\ hsThreads'[t] = r)
      BY <1>0, <3>3
    <3>5. PcfdOwned'
      <4>1. \A b \in Conns : hsFreed'[b] <= 1
        BY Zenon, <3>1 DEF PcfdInv, PcfdOwned
      <4>2. \A t \in DOMAIN hsThreads' : hsThreads'[t].at \in {"copy", "free"} => hsFreed'[hsThreads'[t].arg] = 0
        BY Zenon, <2>3, <3>1, <3>2, <3>4 DEF PcfdInv, PcfdOwned
      <4>3. \A t, u \in DOMAIN hsThreads' : t # u => hsThreads'[t].arg # hsThreads'[u].arg
        BY SMTT(30), <2>2, <2>4, <3>2, <3>4 DEF PcfdInv, PcfdOwned, Conns
      <4> QED BY Zenon, <4>1, <4>2, <4>3 DEF PcfdOwned
    <3>6. \A t \in DOMAIN hsThreads' : hsThreads'[t].arg \in Conns /\ hsThreads'[t].arg <= Taken'
      BY SMTT(30), <2>2, <2>3, <2>4, <3>2, <3>4 DEF Conns
    <3>7. \A b \in Conns : b > Taken' => hsFreed'[b] = 0
      BY SMTT(30), <2>2, <2>3, <3>1 DEF PcfdInv, Conns
    <3> QED BY Zenon, <3>5, <3>6, <3>7 DEF PcfdInv
  <2> QED BY Zenon, <1>4, <2>5, <2>6
<1>5. ASSUME NEW t \in DOMAIN hsThreads, ThreadCopies(t) \/ ThreadFrees(t) \/ ThreadServes(t) PROVE PcfdInv'
  <2>1. /\ DOMAIN hsThreads' = DOMAIN hsThreads
        /\ \A u \in DOMAIN hsThreads : hsThreads'[u].arg = hsThreads[u].arg
        /\ \A u \in DOMAIN hsThreads : u # t => hsThreads'[u] = hsThreads[u]
        /\ hsThreads[t].arg \in Conns
        /\ ThreadFrees(t) => hsThreads[t].at = "free" /\ hsThreads'[t].at = "serve"
        /\ ThreadCopies(t) => hsThreads[t].at = "copy" /\ hsThreads'[t].at = "free"
        /\ ThreadServes(t) => hsThreads'[t].at = "done"
    BY ZenonT(30), <1>5, ThreadEffect
  <2>2. Taken' = Taken
    BY Zenon, <1>5 DEF ThreadCopies, ThreadFrees, ThreadServes, Taken
  <2>3. /\ \A b \in Conns : hsFreed[b] <= 1
        /\ \A u \in DOMAIN hsThreads : hsThreads[u].at \in {"copy", "free"} => hsFreed[hsThreads[u].arg] = 0
        /\ \A u, v \in DOMAIN hsThreads : u # v => hsThreads[u].arg # hsThreads[v].arg
    BY Zenon DEF PcfdInv, PcfdOwned
  <2>4. /\ \A u \in DOMAIN hsThreads : hsThreads[u].arg \in Conns /\ hsThreads[u].arg <= Taken
        /\ \A b \in Conns : b > Taken => hsFreed[b] = 0
    BY Zenon DEF PcfdInv
  <2>5. \A u \in DOMAIN hsThreads' : hsThreads'[u].arg \in Conns /\ hsThreads'[u].arg <= Taken'
    BY Zenon, <2>1, <2>2, <2>4
  <2>6. \A u, v \in DOMAIN hsThreads' : u # v => hsThreads'[u].arg # hsThreads'[v].arg
    BY <2>1, <2>3
  <2>7. CASE ThreadFrees(t)
    <3>1. hsFreed[hsThreads[t].arg] = 0
      BY Zenon, <2>1, <2>3, <2>7
    <3>2. \A b \in Conns : hsFreed'[b] = IF b = hsThreads[t].arg THEN 1 ELSE hsFreed[b]
      BY <1>0, <2>7, <3>1 DEF ThreadFrees
    <3>3. \A b \in Conns : hsFreed'[b] <= 1
      BY <2>3, <3>2
    <3>4. \A u \in DOMAIN hsThreads' : hsThreads'[u].at \in {"copy", "free"} => hsFreed'[hsThreads'[u].arg] = 0
      BY <2>1, <2>3, <2>4, <2>7, <3>2
    <3>5. \A b \in Conns : b > Taken' => hsFreed'[b] = 0
      <4>1. Taken \in Int
        BY <1>0 DEF Taken
      <4>2. hsThreads[t].arg \in Conns /\ hsThreads[t].arg <= Taken
        BY Zenon, <2>4
      <4>3. \A b \in Conns : b > Taken => b # hsThreads[t].arg
        BY <4>1, <4>2 DEF Conns
      <4> QED BY Zenon, <2>2, <2>4, <3>2, <4>3
    <3>6. PcfdOwned'
      BY Zenon, <2>6, <3>3, <3>4 DEF PcfdOwned
    <3> QED BY Zenon, <2>5, <3>5, <3>6 DEF PcfdInv
  <2>8. CASE ThreadCopies(t) \/ ThreadServes(t)
    <3>1. hsFreed' = hsFreed
      BY Zenon, <2>8 DEF ThreadCopies, ThreadServes
    <3>2. \A u \in DOMAIN hsThreads' : hsThreads'[u].at \in {"copy", "free"} => hsFreed'[hsThreads'[u].arg] = 0
      BY <2>1, <2>3, <2>8, <3>1
    <3>3. PcfdOwned'
      BY Zenon, <2>3, <2>6, <3>1, <3>2 DEF PcfdOwned
    <3> QED BY Zenon, <2>2, <2>4, <2>5, <3>1, <3>3 DEF PcfdInv
  <2> QED BY Zenon, <1>5, <2>7, <2>8
<1>6. ASSUME NEW a \in 1..AddressNum, Connects(a) PROVE PcfdInv'
  BY SMTT(30), <1>0, <1>1, <1>6 DEF Connects, Taken
<1>7. ASSUME NEW how \in {"stopped", "exit"}, ServerEnds(how) PROVE PcfdInv'
  BY <1>0, <1>1, <1>7 DEF ServerEnds, Taken
<1> QED BY Zenon, <1>2, <1>3, <1>4, <1>5, <1>6, <1>7 DEF ServerNext, ServerStep, ClientStep

\* For any number of sockets, addresses and connections: as long as select() never finds two sockets
\* ready, each client thread is the only one to use and to free its pcfd, and select() waits on exactly
\* the sockets that listen.
THEOREM ConnectionsOwnedHolds == OneReady => (ServerSpec => []ConnectionsOwned)
<1> SUFFICES ASSUME OneReady PROVE ServerSpec => []ConnectionsOwned
  BY Zenon
<1> DEFINE Inv == ServerTypes /\ SocketsInv /\ WaitingInv /\ PcfdInv
<1>1. ServerInit => Inv
  BY Zenon, ServerInitially
<1>2. Inv /\ [ServerNext]_serverVars => Inv'
  <2>1. CASE ServerNext
    BY Zenon, <2>1, ServerTypesStep, SocketsStep, WaitingStep, PcfdStep
  <2>2. CASE Inv /\ UNCHANGED serverVars
    <3>1. ServerTypes'
      BY Zenon, <2>2 DEF serverVars, ServerTypes
    <3>2. SocketsInv'
      BY Zenon, <2>2 DEF serverVars, SocketsInv
    <3>3. Taken' = Taken
      BY Zenon, <2>2 DEF serverVars, Taken
    <3>4. WaitingInv'
      BY Zenon, <2>2, <3>3 DEF serverVars, WaitingInv
    <3>5. PcfdOwned'
      BY Zenon, <2>2 DEF serverVars, PcfdInv, PcfdOwned
    <3>6. PcfdInv'
      BY Zenon, <2>2, <3>3, <3>5 DEF serverVars, PcfdInv
    <3> QED BY Zenon, <3>1, <3>2, <3>4, <3>6
  <2> QED BY Zenon, <2>1, <2>2
<1>3. Inv => ConnectionsOwned
  <2>1. SocketsInv /\ ServerTypes => Range(hsSd) \ {NoSocket} = hsListening
    <3> SUFFICES ASSUME SocketsInv, ServerTypes PROVE Range(hsSd) \ {NoSocket} = hsListening
      BY Zenon
    <3>1. Range(hsSd) = {hsSd[i] : i \in Sockets}
      BY Zenon DEF ServerTypes, Range
    <3>2. \A a \in hsListening : a # NoSocket
      BY DEF ServerTypes, NoSocket
    <3> QED BY SMTT(30), <3>1, <3>2 DEF SocketsInv
  <2> QED BY Zenon, <2>1 DEF PcfdInv, ConnectionsOwned, ListensToAll
<1> QED BY <1>1, <1>2, <1>3, PTL DEF ServerSpec
=============================================================================
