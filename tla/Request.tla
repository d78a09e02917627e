------------------------------ MODULE Request ------------------------------
(* From the command line to the reply: parseArguments, and one HTTP          *)
(* connection served by processRead, with the query it parses, the buffers   *)
(* it fills, the headers it writes and what becomes of the connection.       *)
(*                                                                           *)
(* The client sends a request in fragments and waits for the reply before    *)
(* the next one.  Torrents, sockets, websockets and the interval have        *)
(* modules of their own; here the body of a reply has only a length.         *)
EXTENDS Arguments, Uri, Block

CONSTANTS
    MaxOptions,     \* bound: options on the command line
    Numbers,        \* what atoi makes of their values
    MaxRequests,    \* bound: requests of the client
    Fragments,      \* a request arrives in as many parts
    Requests,       \* requests the client may send
    BodySizes,      \* lengths of rendered bodies and of files
    FormatLengths,  \* lengths a formatted header or message may take, of the 100 bytes reserved at least
    ContentType,    \* length of the Content-Type header, with the charset of the command line
    LineLength      \* length of a constant header

ASSUME RequestAssumption ==
    /\ {MaxOptions, MaxRequests} \subseteq Nat /\ Fragments \in Nat \ {0}
    /\ Numbers \subseteq Int /\ BodySizes \subseteq Nat /\ LineLength \in Nat
    /\ FormatLengths \subseteq 0..100 /\ ContentType \in 0..1000

(* A client encodes in a value what would end it, and no name has such a     *)
(* character; two addresses of a header have a separator between them.       *)
ASSUME RequestsAssumption ==
    \A r \in Requests :
        /\ r.route \in STRING /\ r.route \notin {" ", "?"}
        /\ r.fields \in Seq([name : STRING, value : Seq([is : STRING, coded : BOOLEAN])])
        /\ \A i \in DOMAIN r.fields :
            /\ r.fields[i].name \notin {" ", "=", "&"}
            /\ \A j \in DOMAIN r.fields[i].value :
                IF r.fields[i].value[j].coded THEN r.fields[i].value[j].is \in DOMAIN Hex
                ELSE r.fields[i].value[j].is \notin {" ", "=", "&", "%"}
        /\ r.forwarded \in Seq(STRING)
        /\ \A i \in 1..Len(r.forwarded) - 1 : {r.forwarded[i], r.forwarded[i + 1]} \cap Separators # {}

VARIABLES
    pc,          \* "arguments", "configured", "serving" or "exit"
    arguments,   \* struct arguments; once serving, what the worker reads of it
    options,     \* options read so far
    connection,  \* "open", "websocket", "doomed" (in deleteSocketList) or "closed"
    request,     \* the request under way, or the last one
    requests,    \* requests begun
    sent,        \* fragments of it the client has sent
    received,    \* fragments in the receive buffer of the socket
    event,       \* the event queue has the socket
    query,       \* what parseUri made of the request
    address,     \* the address of the peer in the query
    reply,       \* the reply to it, or NoReply
    sendBlock,   \* the buffers of the worker, which it uses again and again
    dataBlock,
    body         \* the buffer renderHttpMessage makes for the body of a failure

vars == <<pc, arguments, options, connection, request, requests, sent, received, event, query, address, reply,
          sendBlock, dataBlock, body>>
socket == <<connection, request, requests, sent, received, event>>
blocks == <<sendBlock, dataBlock, body>>

NoRequest == [route |-> "none"]
NoReply == [code |-> 0]
Live == {"keepAlive", "xForwardedFor"}

Init ==
    /\ pc = "arguments" /\ arguments = Defaults /\ options = 0
    /\ connection = "open" /\ request = NoRequest /\ requests = 0 /\ sent = 0 /\ received = 0 /\ event = FALSE
    /\ query = EmptyQuery /\ address = "client" /\ reply = NoReply
    /\ sendBlock = initBlock /\ dataBlock = initBlock /\ body = initBlock

-----------------------------------------------------------------------------
(* The command line. *)
parseOption(option) ==
    /\ pc = "arguments" /\ options < MaxOptions
    /\ option \in Fields
    /\ \E number \in Numbers : arguments' = Assign(arguments, option, TRUE, number)
    /\ options' = options + 1
    /\ UNCHANGED <<pc, socket, query, address, reply, blocks>>

Checked(a) == arguments' = a /\ pc' = IF Accepted(a) THEN "configured" ELSE "exit"

(* The last option lacks its value. *)
parseLastOption(option) ==
    /\ pc = "arguments" /\ options < MaxOptions
    /\ option \in WithValue
    /\ Checked(Clamped(Assign(arguments, option, FALSE, 0)))
    /\ UNCHANGED <<options, socket, query, address, reply, blocks>>

parseEnd ==
    /\ pc = "arguments"
    /\ Checked(Clamped(arguments))
    /\ UNCHANGED <<options, socket, query, address, reply, blocks>>

(* An unknown option, -h, or a number in the place of the first one. *)
showHelp ==
    /\ pc = "arguments" /\ options < MaxOptions
    /\ pc' = "exit"
    /\ UNCHANGED <<arguments, options, socket, query, address, reply, blocks>>

(* main hands the worker what it needs; the other arguments are not read     *)
(* again in this module.                                                     *)
startWorker ==
    /\ pc = "configured" /\ ~arguments["noTcp"]
    /\ pc' = "serving"
    /\ arguments' = [f \in Live |-> arguments[f]]
    /\ options' = 0
    /\ UNCHANGED <<socket, query, address, reply, blocks>>

-----------------------------------------------------------------------------
(* The client: the next fragment of a request, of a new one when the last    *)
(* was answered.  A websocket sends messages, which are not answered.        *)
Answered == reply # NoReply \/ request = NoRequest \/ (connection = "websocket" /\ received = 0)

clientBegins(r) ==
    /\ pc = "serving" /\ connection \in {"open", "websocket"}
    /\ Answered /\ requests < MaxRequests
    /\ request' = r /\ requests' = requests + 1
    /\ sent' = 1 /\ received' = 1 /\ event' = TRUE
    /\ query' = EmptyQuery /\ address' = "client" /\ reply' = NoReply
    /\ UNCHANGED <<pc, arguments, options, connection, blocks>>

clientGoesOn ==
    /\ connection \in {"open", "websocket"} /\ sent \in 1..Fragments - 1
    /\ sent' = sent + 1 /\ received' = received + 1 /\ event' = TRUE
    /\ UNCHANGED <<pc, arguments, options, connection, request, requests, query, address, reply, blocks>>

-----------------------------------------------------------------------------
(* renderHttpMessage: code, message (its length as the caller gives it and   *)
(* as it is), and the headers.  length is what Content-Length says, content  *)
(* the number of bytes that follow the headers.                              *)
FailureFrame == 24

FailureBody(size, actual) == addFormatStringBlock(initBlock, size + 1000, FailureFrame + actual)

ContentLength(code, size, actual) ==
    IF code \in {200, 101} THEN size ELSE FailureBody(size, actual).size

FirstLine(block, code, n) ==
    CASE code = 101 -> addFormatStringBlock(block, 1000, n)
      [] code = 401 -> addStringBlock(addStringBlock(block, LineLength), LineLength)
      [] code \notin {101, 401} -> addStringBlock(block, LineLength)

ConnectionHeader(block, code, canKeepAlive, n) ==
    CASE code = 101 -> block
      [] code # 101 /\ canKeepAlive -> addFormatStringBlock(addStringBlock(block, LineLength), 100, n)
      [] code # 101 /\ ~canKeepAlive -> addStringBlock(block, LineLength)

Headers(block, code, canKeepAlive, n) ==
    addFormatStringBlock(
        addFormatStringBlock(ConnectionHeader(FirstLine(block, code, n), code, canKeepAlive, n), 1000, ContentType),
        1000, n)

Content(code, size, actual) ==
    IF code \in {200, 101} THEN size ELSE FailureBody(size, actual).size

renderHttpMessage(code, size, actual, canKeepAlive) ==
    \E n \in FormatLengths :
        LET headers == Headers(resetBlock(sendBlock), code, canKeepAlive, n)
            whole == addStringBlock(headers, Content(code, size, actual))
        IN  /\ sendBlock' = whole
            /\ body' = IF code \in {200, 101} THEN body ELSE FailureBody(size, actual)
            /\ reply' = [code |-> code,
                         connection |-> CASE code = 101 -> "Upgrade"
                                          [] code # 101 /\ canKeepAlive -> "Keep-Alive"
                                          [] code # 101 /\ ~canKeepAlive -> "Close",
                         length |-> ContentLength(code, size, actual),
                         content |-> whole.size - headers.size,
                         to |-> requests]

(* The text of a request line, and what of it parseUri gets to see. *)
Encoded(char) == IF char.coded THEN <<"%">> \o Hex[char.is] ELSE <<char.is>>
Parameter(field) == <<field.name, "=">> \o FlattenSeq([i \in DOMAIN field.value |-> Encoded(field.value[i])])
Separated(fields) ==
    FlattenSeq([i \in DOMAIN fields |-> (IF i = 1 THEN <<"?">> ELSE <<"&">>) \o Parameter(fields[i])])
Message(r) == <<"/", r.route>> \o Separated(r.fields) \o <<" ", "HTTP/1.1">>

Parsed == parseUri(Message(request))
ParsedNoHashes == [Parsed EXCEPT !.hashes = <<>>]      \* hashesBlock is NULL

Param(name) == IF Parsed.params[name] = Unset THEN 0 ELSE atoi(Parsed.params[name])

canKeepAlive ==
    /\ request.route # "post"
    /\ arguments["keepAlive"]
    /\ (request.http11 /\ request.wants # "Close") \/ request.wants = "Keep-Alive"

(* The end of processRead: unless the connection stays, deleteSocketList     *)
(* gets it.                                                                  *)
AfterReply == connection' = IF canKeepAlive THEN "open" ELSE "doomed"

Complete ==
    /\ pc = "serving" /\ event /\ connection = "open"
    /\ received = Fragments
    /\ event' = FALSE /\ received' = 0
    /\ UNCHANGED <<pc, options, request, requests, sent>>

(* Mutant: recv without MSG_PEEK takes the fragment away. *)
readFragmentTaken ==
    /\ pc = "serving" /\ event /\ connection = "open"
    /\ received < Fragments
    /\ event' = FALSE /\ received' = 0
    /\ UNCHANGED <<pc, arguments, options, connection, request, requests, sent, query, address, reply, blocks>>

(* The end of the headers has not arrived: the fragments stay in the buffer  *)
(* of the socket (MSG_PEEK).                                                 *)
readFragment ==
    /\ pc = "serving" /\ event /\ connection = "open"
    /\ received < Fragments
    /\ event' = FALSE
    /\ UNCHANGED <<pc, arguments, options, connection, request, requests, sent, received, query, address, reply, blocks>>

(* THREAD_CLIENT_TCP_RECEIVED_MESSAGE_LENGTH is reached, with or without the *)
(* end of the headers, by a websocket, too: the reply is rendered in         *)
(* dataBlock.                                                                *)
readOversize ==
    /\ pc = "serving" /\ event /\ connection \in {"open", "websocket"}
    /\ request.route = "oversize"
    /\ event' = FALSE /\ connection' = "doomed"
    /\ \E n \in FormatLengths :
        LET headers == Headers(resetBlock(dataBlock), 413, FALSE, n)
        IN  /\ dataBlock' = addStringBlock(headers, Content(413, 24, 24))
            /\ reply' = [code |-> 413, connection |-> "Close", length |-> ContentLength(413, 24, 24),
                         content |-> dataBlock'.size - headers.size, to |-> requests]
    /\ body' = FailureBody(24, 24)
    /\ UNCHANGED <<pc, arguments, options, request, requests, sent, received, query, address, sendBlock>>

(* recv finds the end of the stream or an error, or the second recv reads    *)
(* another number of bytes than the first one peeked at: there is no reply.  *)
recvFailed ==
    /\ pc = "serving" /\ event /\ connection \in {"open", "websocket"}
    /\ event' = FALSE /\ connection' = "doomed"
    /\ UNCHANGED <<pc, arguments, options, request, requests, sent, received, query, address, reply, blocks>>

(* Replies with a body rendered or formatted in dataBlock, with a constant   *)
(* one after dataBlock was reset, and with one that leaves dataBlock alone.  *)
ReplyData(size) ==
    dataBlock' = Added(resetBlock(dataBlock), size, size) /\ renderHttpMessage(200, size, size, canKeepAlive)
ReplyFormat(code, room, n) ==
    /\ dataBlock' = addFormatStringBlock(resetBlock(dataBlock), room, n)
    /\ renderHttpMessage(code, n, n, canKeepAlive)
ReplyConstant(code, size) ==
    dataBlock' = resetBlock(dataBlock) /\ renderHttpMessage(code, size, size, canKeepAlive)
Refuse(code, size, actual) == UNCHANGED dataBlock /\ renderHttpMessage(code, size, actual, canKeepAlive)

announce ==
    /\ Complete /\ request.route = "announce"
    /\ query' = ParsedNoHashes
    /\ address' = parseXForwardedFor(arguments["xForwardedFor"], request.place, request.forwarded, "client")
    /\ IF Parsed.params["info_hash"] = Unset THEN Refuse(400, 25, 32)
       ELSE IF Param("port") % (UShortMax + 1) = 0 THEN Refuse(400, 25, 27)
       ELSE \E size \in BodySizes : ReplyData(size)
    /\ AfterReply /\ UNCHANGED arguments

scrape ==
    /\ Complete /\ request.route = "scrape"
    /\ query' = Parsed
    /\ IF Parsed.hashes = <<>> THEN ReplyConstant(403, 32)
       ELSE \E size \in BodySizes : ReplyData(size)
    /\ AfterReply /\ UNCHANGED <<arguments, address>>

(* /api/set: the reply still says what held when the request came. *)
apiSet ==
    /\ Complete /\ request.route = "set"
    /\ \/ request.sees = "not ajax" /\ Refuse(400, 22, 22) /\ UNCHANGED <<arguments, query>>
       \/ request.sees = "not authorized" /\ Refuse(401, 21, 21) /\ UNCHANGED <<arguments, query>>
       \/ /\ request.sees = "authorized"
          /\ query' = ParsedNoHashes
          /\ arguments' = [arguments EXCEPT !["keepAlive"] =
                              IF Param("keep_alive") = 0 THEN @ ELSE Param("keep_alive") = 1]
          /\ \E n \in FormatLengths : ReplyFormat(200, 500, n)
    /\ AfterReply /\ UNCHANGED address

(* Mutant: a websocket is closed when keep-alive is off. *)
apiWebsocketClosed ==
    /\ Complete /\ request.route = "websocket" /\ request.sees = "key"
    /\ renderHttpMessage(101, 0, 0, TRUE)
    /\ AfterReply
    /\ UNCHANGED <<arguments, query, address, dataBlock>>

apiWebsocket ==
    /\ Complete /\ request.route = "websocket" /\ request.sees = "key"
    /\ renderHttpMessage(101, 0, 0, TRUE)
    /\ connection' = "websocket"
    /\ UNCHANGED <<arguments, query, address, dataBlock>>

apiWebsocketFailed ==
    /\ Complete /\ request.route = "websocket" /\ request.sees # "key"
    /\ Refuse(400, 16, 16)
    /\ AfterReply /\ UNCHANGED <<arguments, query, address>>

statsPage ==
    /\ Complete /\ request.route = "stats"
    /\ \E size \in BodySizes : ReplyData(size)
    /\ AfterReply /\ UNCHANGED <<arguments, query, address>>

root ==
    /\ Complete /\ request.route = "root"
    /\ Refuse(200, 63, 63)
    /\ AfterReply /\ UNCHANGED <<arguments, query, address>>

(* A file below web: what realpath, stat and fread say of it. *)
file ==
    /\ Complete /\ request.route = "file"
    /\ query' = ParsedNoHashes
    /\ \/ request.sees = "missing" /\ \E n \in FormatLengths : ReplyFormat(404, 1000, n)
       \/ request.sees = "outside" /\ ReplyConstant(404, 28)
       \/ request.sees = "directory" /\ ReplyConstant(404, 26)
       \/ request.sees = "large" /\ ReplyConstant(507, 35)
       \/ /\ request.sees = "regular"
          /\ \E size \in BodySizes, read \in BOOLEAN, n \in FormatLengths :
                /\ dataBlock' = addFileBlock(resetBlock(dataBlock), size, read, n)
                /\ renderHttpMessage(200, dataBlock'.size, dataBlock'.size, canKeepAlive)
    /\ AfterReply /\ UNCHANGED <<arguments, address>>

(* Anything but GET is sent back. *)
post ==
    /\ Complete /\ request.route = "post"
    /\ \E size \in BodySizes : Refuse(405, size, size)
    /\ AfterReply /\ UNCHANGED <<arguments, query, address>>

(* Messages of a websocket are read and ignored. *)
websocketMessage ==
    /\ pc = "serving" /\ event /\ connection = "websocket"
    /\ request.route = "oversize" => received < Fragments
    /\ event' = FALSE /\ received' = 0
    /\ UNCHANGED <<pc, arguments, options, connection, request, requests, sent, query, address, reply, blocks>>

deleteSocket ==
    /\ connection = "doomed"
    /\ connection' = "closed"
    /\ UNCHANGED <<pc, arguments, options, request, requests, sent, received, event, query, address, reply, blocks>>

-----------------------------------------------------------------------------
commandLine ==
    \/ \E option \in Options : parseOption(option) \/ parseLastOption(option)
    \/ parseEnd \/ showHelp \/ startWorker

processRead ==
    \/ readFragment \/ readOversize \/ recvFailed \/ websocketMessage
    \/ announce \/ scrape \/ apiSet \/ apiWebsocket \/ apiWebsocketFailed
    \/ statsPage \/ root \/ file \/ post

Next == commandLine \/ (\E r \in Requests : clientBegins(r)) \/ clientGoesOn \/ processRead \/ deleteSocket

Spec == Init /\ [][Next]_vars

-----------------------------------------------------------------------------
(* Whatever the options, their order and their values, a configuration that  *)
(* the server starts with has a range of intervals within the defaults (what *)
(* Interval takes for granted), no unsigned number that is zero after its    *)
(* cast, and a protocol.                                                     *)
ConfigUsable ==
    pc = "configured" =>
        /\ ARGUMENT_MIN_INTERVAL_DEFAULT <= arguments["minInterval"]
        /\ arguments["minInterval"] <= arguments["maxInterval"]
        /\ arguments["maxInterval"] <= ARGUMENT_MAX_INTERVAL_DEFAULT
        /\ \A f \in UShorts : arguments[f] \in 1..UShortMax
        /\ \A f \in UInts : arguments[f] \in 1..UIntMax
        /\ arguments["workers"] # 0
        /\ {f \in {"noTcp", "noUdp"} : arguments[f]} # {"noTcp", "noUdp"}

(* The client is told the truth about its connection, in every branch of     *)
(* processRead and when /api/set changes keepAlive: it stays after           *)
(* "Keep-Alive" and after an upgrade and is closed after "Close".            *)
ConnectionHeaderTruth ==
    reply # NoReply =>
        /\ reply.connection = "Keep-Alive" => connection = "open"
        /\ reply.connection = "Upgrade" => connection = "websocket"
        /\ reply.connection = "Close" => connection \in {"doomed", "closed"}

(* Content-Length is the number of bytes after the headers, and every buffer *)
(* holds what was written to it and a \0, although a buffer keeps its size   *)
(* from one request to the next.                                             *)
RepliesFit ==
    /\ reply # NoReply => reply.length = reply.content
    /\ checkSizeBlock(sendBlock) /\ checkSizeBlock(dataBlock) /\ checkSizeBlock(body)

(* parseUri reads what the client wrote: the last value of each parameter    *)
(* and every info_hash in order, cut at URI_PARAM_VALUE_LENGTH, percent      *)
(* signs decoded, and "Used last IP from value of this header".              *)
Plain(value) == [i \in 1..Smallest(Len(value), URI_PARAM_VALUE_LENGTH) |-> value[i].is]
Named(fields, name) == {i \in DOMAIN fields : fields[i].name = name}
Addresses(forwarded) == {i \in DOMAIN forwarded : forwarded[i] \notin Separators}
ParsedAsWritten ==
    reply # NoReply /\ request.route \in {"announce", "scrape"} =>
        LET fields == request.fields
            hashes == Named(fields, "info_hash")
            forwarded == request.forwarded
            addresses == Addresses(forwarded)
        IN  /\ \A n \in Names : query.params[n] =
                IF Named(fields, n) = {} THEN Unset ELSE Plain(fields[Max(Named(fields, n))].value)
            /\ request.route = "scrape" =>
                /\ Len(query.hashes) = Cardinality(hashes)
                /\ \A i \in hashes : query.hashes[Cardinality(hashes \cap 1..i)] = Plain(fields[i].value)
            /\ (/\ request.route = "announce" /\ arguments["xForwardedFor"] /\ request.place = "headers"
                /\ addresses # {} /\ forwarded[Max(addresses)] \in {"v4", "v6"})
               => address = forwarded[Max(addresses)]

(* No part of a request is lost before it is answered, in however many       *)
(* fragments it comes: the fragments wait in the socket, and when they are   *)
(* complete an event will make the worker look at them.                      *)
RequestPending ==
    connection = "open" /\ request # NoRequest /\ reply = NoReply =>
        received = sent /\ (sent = Fragments => event)
=============================================================================
