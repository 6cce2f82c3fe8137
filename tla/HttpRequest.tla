---------------------------- MODULE HttpRequest ----------------------------
(***************************************************************************)
(* client_thread() of output_http/httpd.c: the detached thread that reads  *)
(* one HTTP request, decides what it asks for, checks the credentials and  *)
(* the plugin number, answers and frees what it allocated.                 *)
(*                                                                         *)
(* A request line is what the dispatch tells apart: the kind of the URL,   *)
(* the digits that follow underscores in it, and which parameters it has.  *)
(* Header lines are the kinds the loop distinguishes.  A reply is its      *)
(* status code.                                                            *)
(***************************************************************************)
EXTENDS Integers, Sequences, FiniteSets

CONSTANTS
    MaxPlugins,   \* largest incnt and outcnt
    Digits,       \* digits that may follow an underscore
    Numbers,      \* numbers that "plugin=" of a command may give
    MaxHeaders    \* header lines a client sends before the empty one (bound)

ASSUME HttpAssumption == /\ MaxPlugins \in Nat \ {0}
                         /\ Digits \subseteq 0 .. 9 /\ Numbers \subseteq Int
                         /\ MaxHeaders \in Nat

None == -1
Nobody == <<"none", 0>>
Options == 4     \* value=, group=, dest= and plugin=

\* The answer_t values of a build without MANAGMENT and WXP_COMPAT.
Types == {"A_UNKNOWN", "A_SNAPSHOT", "A_STREAM", "A_COMMAND", "A_FILE", "A_CGI",
          "A_TAKE", "A_INPUT_JSON", "A_OUTPUT_JSON", "A_PROGRAM_JSON"}
Suffixed == {"A_SNAPSHOT", "A_STREAM", "A_TAKE", "A_INPUT_JSON", "A_OUTPUT_JSON"}
Pcs == {"request", "headers", "authorize", "range", "answer", "stream", "take", "close",
        "closed", "exited", "crashed"}
Codes == {200, 400, 401, 403, 404, 500, 501}
Members == {"parameter", "client", "credentials", "query_string"}

TakesParameter == {"A_TAKE", "A_COMMAND"}

\* suffix: the plugin number asked for; word: the digit after the first underscore of the
\* filename argument of "take"; escaped: its %-escapes are well formed; named: it has a
\* "filename=" (take) or "id=" (command).
Lines ==
    {l \in [type : Types \ {"A_UNKNOWN"}, suffix : Digits \cup {None},
            word : Digits \cup {None}, escaped : BOOLEAN, named : BOOLEAN] :
        /\ l.suffix # None => l.type \in Suffixed
        /\ l.word # None => l.type = "A_TAKE" /\ l.named
        /\ (~l.escaped \/ l.named) => l.type \in TakesParameter}

VARIABLES
    conf,          \* the server's configuration and the loaded plugins
    pc,            \* control point of the thread
    fdOpen,        \* lcfd.fd is open
    line,          \* the request line received
    type,          \* req.type
    inputNumber,   \* input_number
    credentials,   \* req.credentials: "none", "good" or "bad"
    heap,          \* heap[m]: strings allocated for member m of req and not freed
    lost,          \* strings of client_thread() and command() that nothing points to any more
    headers,       \* header lines read
    replies,       \* status codes written to the client
    served,        \* what was given to the client beside error replies
    saved,         \* the TAKE command of output_file succeeded
    called         \* the plugin whose cmd function command() called

vars == <<conf, pc, fdOpen, line, type, inputNumber, credentials, heap, lost,
          headers, replies, served, saved, called>>

\* cmd: the plugins export the optional cmd function; file: output_file is loaded too.
Configurations ==
    {c \in [credentials : BOOLEAN, www_folder : BOOLEAN, nocommands : BOOLEAN, cmd : BOOLEAN,
            incnt : 1 .. MaxPlugins, outcnt : 1 .. MaxPlugins, file : BOOLEAN] :
        c.file => c.outcnt > 1}

NoLine == [type |-> "A_FILE", suffix |-> None, word |-> None, escaped |-> TRUE, named |-> FALSE]

Init ==
    /\ conf \in Configurations
    /\ pc = "request" /\ fdOpen = TRUE
    /\ line = NoLine /\ type = "A_UNKNOWN" /\ inputNumber = 0
    /\ credentials = "none"
    /\ heap = [m \in Members |-> 0] /\ lost = 0 /\ headers = 0
    /\ replies = <<>> /\ served = {} /\ saved = FALSE /\ called = Nobody

-----------------------------------------------------------------------------
(* Helpers *)

Reply(code) == replies' = Append(replies, code)

\* free_request(): every member that points to a string is freed.
FreeRequest == heap' = [m \in Members |-> 0]

\* strdup() into a member of req: what it pointed to before is not freed.
Strdup(m) == /\ heap' = [heap EXCEPT ![m] = 1]
             /\ lost' = lost + heap[m]

\* Mutant: the offset of the webcamXP URLs is applied to every URL.
SuffixNumberMinusOne(l) == (IF l.suffix # None THEN l.suffix ELSE 0) - 1

\* strchr(buffer, '_') finds the first underscore of the request line, and atoi() takes one
\* digit; with no underscore the number stays 0.
SuffixNumber(l) ==
    IF l.suffix # None THEN l.suffix
    ELSE IF l.type = "A_TAKE" /\ l.named /\ l.word # None THEN l.word
    ELSE 0

-----------------------------------------------------------------------------
(* Reading the request *)

\* _readline() fails or times out before the request line is complete.
RequestTimeout ==
    /\ pc = "request"
    /\ fdOpen' = FALSE /\ pc' = "closed"
    /\ UNCHANGED <<conf, line, type, inputNumber, credentials, heap, lost, headers,
                   replies, served, saved, called>>

\* The line names no "GET /": 400 and the connection is closed.
RequestMalformed ==
    /\ pc = "request"
    /\ Reply(400)
    /\ fdOpen' = FALSE /\ pc' = "closed"
    /\ UNCHANGED <<conf, line, type, inputNumber, credentials, heap, lost, headers,
                   served, saved, called>>

\* unescape() rejects the parameter of "take" or "command": it is freed, 500.
RequestNotEscaped ==
    /\ pc = "request"
    /\ \E l \in Lines :
          /\ l.type \in TakesParameter /\ ~l.escaped
          /\ line' = l /\ type' = l.type
    /\ Reply(500)
    /\ fdOpen' = FALSE /\ pc' = "closed"
    /\ UNCHANGED <<conf, inputNumber, credentials, heap, lost, headers, served, saved, called>>

\* The strings a request line makes the thread allocate.
Allocated(t) ==
    CASE t = "A_CGI" -> {"parameter", "query_string"}
      [] t \in {"A_FILE", "A_TAKE", "A_COMMAND"} -> {"parameter"}
      [] OTHER -> {}

\* There is no memory for one of them: exit(EXIT_FAILURE).
RequestNoMemory ==
    /\ pc = "request"
    /\ \E l \in Lines : Allocated(l.type) # {} /\ line' = l /\ type' = l.type
    /\ pc' = "exited"
    /\ UNCHANGED <<conf, fdOpen, inputNumber, credentials, heap, lost, headers, replies,
                   served, saved, called>>

\* The request is dispatched and the number of the plugin taken from its suffix.
RequestLine ==
    /\ pc = "request"
    /\ \E l \in Lines :
          /\ l.type \in TakesParameter => l.escaped
          /\ line' = l /\ type' = l.type
          /\ inputNumber' = IF l.type \in Suffixed THEN SuffixNumber(l) ELSE 0
          /\ heap' = [m \in Members |-> IF m \in Allocated(l.type) THEN 1 ELSE 0]
    /\ pc' = "headers"
    /\ UNCHANGED <<conf, fdOpen, credentials, lost, headers, replies, served, saved, called>>

\* A "User-Agent:" line.
HeaderAgent ==
    /\ pc = "headers" /\ headers < MaxHeaders
    /\ Strdup("client")
    /\ headers' = headers + 1
    /\ UNCHANGED <<conf, pc, fdOpen, line, type, inputNumber, credentials, replies, served, saved, called>>

\* An "Authorization: Basic" line.
HeaderAuthorization ==
    /\ pc = "headers" /\ headers < MaxHeaders
    /\ Strdup("credentials")
    /\ credentials' \in {"good", "bad"}
    /\ headers' = headers + 1
    /\ UNCHANGED <<conf, pc, fdOpen, line, type, inputNumber, replies, served, saved, called>>

\* The empty line ends the header.
HeaderEnd ==
    /\ pc = "headers"
    /\ pc' = "authorize"
    /\ UNCHANGED <<conf, fdOpen, line, type, inputNumber, credentials, heap, lost, headers,
                   replies, served, saved, called>>

\* _readline() fails or times out inside the header.
HeaderTimeout ==
    /\ pc = "headers"
    /\ FreeRequest
    /\ fdOpen' = FALSE /\ pc' = "closed"
    /\ UNCHANGED <<conf, line, type, inputNumber, credentials, lost, headers,
                   replies, served, saved, called>>

-----------------------------------------------------------------------------
(* Checks before the answer *)

\* Mutant: a request without an Authorization line is let through.
GrantedWithoutHeader == ~conf.credentials \/ credentials # "bad"

\* -c was not given, or the last Authorization line matches it.
Granted == ~conf.credentials \/ credentials = "good"

\* The check is passed.
AccessGranted ==
    /\ pc = "authorize" /\ Granted
    /\ pc' = "range"
    /\ UNCHANGED <<conf, fdOpen, line, type, inputNumber, credentials, heap, lost, headers,
                   replies, served, saved, called>>

\* Mutant: the request is not freed.
AccessDeniedNotFreed ==
    /\ pc = "authorize" /\ ~Granted
    /\ Reply(401)
    /\ fdOpen' = FALSE /\ pc' = "closed"
    /\ UNCHANGED <<conf, line, type, inputNumber, credentials, heap, lost, headers, served, saved, called>>

\* 401; the request is freed.
AccessDenied ==
    /\ pc = "authorize" /\ ~Granted
    /\ Reply(401)
    /\ FreeRequest
    /\ fdOpen' = FALSE /\ pc' = "closed"
    /\ UNCHANGED <<conf, line, type, inputNumber, credentials, lost, headers, served, saved, called>>

\* The plugin number is compared with the number of plugins that are loaded.
InRange ==
    type \in Suffixed =>
        IF type = "A_OUTPUT_JSON" THEN inputNumber < conf.outcnt ELSE inputNumber < conf.incnt

\* A number out of range is answered with 404 and the request becomes A_UNKNOWN.
CheckRange ==
    /\ pc = "range"
    /\ IF InRange THEN UNCHANGED <<type, replies>>
                  ELSE Reply(404) /\ type' = "A_UNKNOWN"
    /\ pc' = "answer"
    /\ UNCHANGED <<conf, fdOpen, line, inputNumber, credentials, heap, lost, headers,
                   served, saved, called>>

-----------------------------------------------------------------------------
(* The answers: the switch over req.type *)

\* Variables an answer never changes.
Request == <<conf, fdOpen, line, type, inputNumber, credentials, heap, lost, headers>>

\* The thread writes its reply, and what it serves with a 200.
Answer(code, what) == /\ Reply(code)
                      /\ served' = IF code = 200 THEN served \cup {what} ELSE served
                      /\ pc' = "close"

\* Nothing is sent.
NoAnswer == pc' = "close" /\ UNCHANGED <<replies, served>>

\* send_snapshot(): 500 when there is no memory for the picture.
AnswerSnapshot ==
    /\ pc = "answer" /\ type = "A_SNAPSHOT"
    /\ \E code \in {200, 500} : Answer(code, "frame")
    /\ UNCHANGED <<Request, saved, called>>

\* send_stream() begins.
AnswerStream ==
    /\ pc = "answer" /\ type = "A_STREAM"
    /\ Reply(200) /\ served' = {"frame"}
    /\ pc' = "stream"
    /\ UNCHANGED <<Request, saved, called>>

\* A write fails or stop is set.
StreamEnd ==
    /\ pc = "stream"
    /\ pc' = "close"
    /\ UNCHANGED <<Request, replies, served, saved, called>>

\* There is no memory for a larger picture: an error reply inside the stream.
StreamNoMemory ==
    /\ pc = "stream"
    /\ Reply(500)
    /\ pc' = "close"
    /\ UNCHANGED <<Request, served, saved, called>>

\* command() is refused when commands are disabled or it has no "id=".
CommandRefused ==
    /\ pc = "answer" /\ type = "A_COMMAND"
    /\ conf.nocommands \/ ~line.named
    /\ Answer(IF conf.nocommands THEN 501 ELSE 400, "command")
    /\ UNCHANGED <<Request, saved, called>>

\* A strndup() of command() fails: the svalue strings of the parameters before are lost.
CommandNoMemory ==
    /\ pc = "answer" /\ type = "A_COMMAND" /\ ~conf.nocommands /\ line.named
    /\ Answer(500, "command")
    /\ \E before \in 0 .. Options : lost' = lost + before
    /\ UNCHANGED <<conf, fdOpen, line, type, inputNumber, credentials, heap, headers, saved,
                   called>>

\* The plugins a command may be handed to, by "dest=" and "plugin=".  The number is compared
\* with the number of plugins only, so a negative one passes.
Targets ==
    {<<"input", n>> : n \in {m \in Numbers : m < conf.incnt}}
    \cup {<<"output", n>> : n \in {m \in Numbers : m < conf.outcnt}}

\* cmd is optional for a plugin, and in front of in[] and out[] there is none: the call may
\* do anything.
NoCmd(to) == ~conf.cmd \/ to[2] < 0

\* The command is handed to the plugin's cmd function, or, with another destination or
\* number, to none; the reply is 200 in both cases.  Of the svalue strings only the last is
\* freed.
CommandExecuted ==
    /\ pc = "answer" /\ type = "A_COMMAND" /\ ~conf.nocommands /\ line.named
    /\ Answer(200, "command")
    /\ \E to \in {Nobody} \cup {t \in Targets : conf.cmd \/ t[2] < 0} : called' = to
    /\ \E options \in 0 .. Options : lost' = lost + options
    /\ UNCHANGED <<conf, fdOpen, line, type, inputNumber, credentials, heap, headers, saved>>

\* cmd is called without looking: the process dies.
CommandWithoutCmd ==
    /\ pc = "answer" /\ type = "A_COMMAND" /\ ~conf.nocommands /\ line.named
    /\ \E to \in Targets : NoCmd(to) /\ called' = to
    /\ pc' = "crashed"
    /\ UNCHANGED <<Request, replies, served, saved>>

\* send_input_JSON() and send_output_JSON() send nothing when they run out of memory.
AnswerInputJson ==
    /\ pc = "answer" /\ type = "A_INPUT_JSON"
    /\ Answer(200, "json") \/ NoAnswer
    /\ UNCHANGED <<Request, saved, called>>

AnswerOutputJson ==
    /\ pc = "answer" /\ type = "A_OUTPUT_JSON"
    /\ Answer(200, "json") \/ NoAnswer
    /\ UNCHANGED <<Request, saved, called>>

\* send_program_JSON().
AnswerProgramJson ==
    /\ pc = "answer" /\ type = "A_PROGRAM_JSON"
    /\ Answer(200, "json")
    /\ UNCHANGED <<Request, saved, called>>

\* send_file(): no extension, unknown type, no such file, or the file.
AnswerFile ==
    /\ pc = "answer" /\ type = "A_FILE"
    /\ IF ~conf.www_folder THEN Answer(501, "file")
       ELSE \E code \in {200, 400, 404} : Answer(code, "file")
    /\ UNCHANGED <<Request, saved, called>>

\* execute_cgi(): no such file, popen() fails, or the output of the script, which writes its
\* own status line.
AnswerCgi ==
    /\ pc = "answer" /\ type = "A_CGI"
    /\ conf.www_folder
    /\ \E code \in {200, 403, 404} : Answer(code, "cgi")
    /\ UNCHANGED <<Request, saved, called>>

\* Without a www-folder the path is built from a null pointer: the process dies.
CgiWithoutFolder ==
    /\ pc = "answer" /\ type = "A_CGI"
    /\ ~conf.www_folder
    /\ pc' = "crashed"
    /\ UNCHANGED <<Request, replies, served, saved, called>>

\* "take" without output_file among the outputs.
AnswerTakeNoPlugin ==
    /\ pc = "answer" /\ type = "A_TAKE" /\ ~conf.file
    /\ Answer(404, "frame")
    /\ UNCHANGED <<Request, saved, called>>

\* "take" without "filename=": 404, and ret is still 0.
TakeNoFilename ==
    /\ pc = "answer" /\ type = "A_TAKE" /\ conf.file /\ ~line.named
    /\ Reply(404)
    /\ pc' = "take"
    /\ UNCHANGED <<Request, served, saved, called>>

\* OUT_FILE_CMD_TAKE saves the picture: go on to send it.  filenamearg is not freed.
TakeSaved ==
    /\ pc = "answer" /\ type = "A_TAKE" /\ conf.file /\ line.named
    /\ saved' = TRUE
    /\ lost' = lost + 1
    /\ pc' = "take"
    /\ UNCHANGED <<conf, fdOpen, line, type, inputNumber, credentials, heap, headers, replies,
                   served, called>>

\* OUT_FILE_CMD_TAKE fails.
TakeFailed ==
    /\ pc = "answer" /\ type = "A_TAKE" /\ conf.file /\ line.named
    /\ Answer(404, "frame")
    /\ lost' = lost + 1
    /\ UNCHANGED <<conf, fdOpen, line, type, inputNumber, credentials, heap, headers, saved, called>>

\* ret == 0: the picture is sent like a snapshot.
TakeSend ==
    /\ pc = "take"
    /\ \E code \in {200, 500} : Answer(code, "frame")
    /\ UNCHANGED <<Request, saved, called>>

\* A_UNKNOWN: nothing more to say.
AnswerUnknown ==
    /\ pc = "answer" /\ type = "A_UNKNOWN"
    /\ pc' = "close"
    /\ UNCHANGED <<Request, replies, served, saved, called>>

\* close() and free_request(): the thread ends.
Close ==
    /\ pc = "close"
    /\ fdOpen' = FALSE
    /\ FreeRequest
    /\ pc' = "closed"
    /\ UNCHANGED <<conf, line, type, inputNumber, credentials, lost, headers, replies, served, saved, called>>

Read == RequestTimeout \/ RequestMalformed \/ RequestNotEscaped \/ RequestNoMemory \/ RequestLine
        \/ HeaderAgent \/ HeaderAuthorization \/ HeaderEnd \/ HeaderTimeout

Check == AccessGranted \/ AccessDenied \/ CheckRange

Serve == AnswerSnapshot \/ AnswerStream \/ CommandRefused \/ CommandNoMemory
         \/ CommandExecuted \/ CommandWithoutCmd
         \/ AnswerInputJson \/ AnswerOutputJson \/ AnswerProgramJson
         \/ AnswerFile \/ AnswerCgi \/ CgiWithoutFolder
         \/ AnswerTakeNoPlugin \/ TakeNoFilename \/ TakeSaved \/ TakeFailed \/ TakeSend
         \/ AnswerUnknown \/ Close

Stream == StreamEnd \/ StreamNoMemory

Next == Read \/ Check \/ Serve \/ Stream

Spec == Init /\ [][Next]_vars

-----------------------------------------------------------------------------
(* Properties *)

\* Types of the thread's state.
TypeOK ==
    /\ conf \in Configurations
    /\ pc \in Pcs
    /\ fdOpen \in BOOLEAN /\ saved \in BOOLEAN
    /\ line \in Lines /\ type \in Types
    /\ inputNumber \in 0 .. 9
    /\ credentials \in {"none", "good", "bad"}
    /\ heap \in [Members -> {0, 1}]
    /\ lost \in Nat /\ headers \in Nat
    /\ replies \in Seq(Codes)
    /\ called \in {"none", "input", "output"} \X Int
    /\ served \subseteq {"frame", "command", "json", "file", "cgi"}

\* With -c nothing but error replies leaves the server unless the Authorization line the
\* client sent last matches, whatever other header lines came before or after it.
ServedOnlyAuthorized ==
    (served # {} /\ conf.credentials) => credentials = "good"

\* A picture or a description is only taken from a plugin that is loaded, and the cmd
\* function from none behind the last one; in front of the first one command() does not look.
PluginExists ==
    /\ called[1] = "input" => called[2] < conf.incnt
    /\ called[1] = "output" => called[2] < conf.outcnt
    /\ (pc \in {"answer", "stream", "take"} /\ type \in Suffixed) =>
           inputNumber < (IF type = "A_OUTPUT_JSON" THEN conf.outcnt ELSE conf.incnt)

\* command() and execute_cgi() use a function pointer and a folder that may be missing.  A request can make
\* the process die there only with the right credentials, and then only as a command, while commands are
\* allowed, to a plugin that exports no cmd or to a number in front of the first one, or as a CGI request
\* to a server without a www-folder.
DiesOnlyAuthorized ==
    pc = "crashed" =>
        /\ Granted
        /\ \/ type = "A_COMMAND" /\ ~conf.nocommands /\ NoCmd(called) /\ called # Nobody
           \/ type = "A_CGI" /\ ~conf.www_folder

\* A client gets a second status line in two cases only: "take" without a file name, and a
\* stream whose picture buffer could not be grown.
OneStatusLine ==
    Len(replies) > 1 => \/ line.type = "A_TAKE" /\ ~line.named
                        \/ line.type = "A_STREAM"

\* "take" sends the picture only after output_file has saved it, unless the request names no
\* file: then 404 is followed by the picture.
TakeSendsSaved ==
    (line.type = "A_TAKE" /\ line.named /\ "frame" \in served) => saved

\* However the thread ends, its connection is closed and every string of the request is
\* freed; lost are only the strings that repeated header lines overwrote, filenamearg, and
\* one string for each optional parameter of a command.
EndsClean ==
    pc = "closed" =>
        /\ ~fdOpen /\ \A m \in Members : heap[m] = 0
        /\ lost <= (IF headers > 1 THEN headers - 1 ELSE 0)
                   + (CASE type = "A_TAKE" -> 1 [] type = "A_COMMAND" -> Options [] OTHER -> 0)

\* With -c nothing but error replies leaves the server unless the credentials match; no request reaches a plugin that
\* is not loaded; and only a command or a CGI request of somebody with the credentials can bring the process down.
ServedAsAllowed == ServedOnlyAuthorized /\ PluginExists /\ DiesOnlyAuthorized

\* A request gets one answer, a picture only after it was saved where "take" asks for that, and client_thread() ends with
\* its connection closed and its request freed, on every path.
AnswersClean == OneStatusLine /\ TakeSendsSaved /\ EndsClean
=============================================================================
