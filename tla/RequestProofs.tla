---------------------------- MODULE RequestProofs ----------------------------
(***************************************************************************)
(* Theorems about Request for every command line, every number atoi may    *)
(* return, every length of a body and any number of requests: a server     *)
(* starts with a usable configuration only, replies fit their buffers and  *)
(* their Content-Length, and queries are parsed as they were written.      *)
(***************************************************************************)
EXTENDS Request, FiniteSetTheorems, SequenceTheorems, WellFoundedInduction, TLAPS

-----------------------------------------------------------------------------
(* The command line. *)

(* Numbers are cast to the type of their field; texts and flags are given  *)
(* or not.                                                                 *)
ArgumentsType(a) ==
    /\ a = [f \in Fields |-> a[f]]
    /\ \A f \in UShorts : a[f] \in 0..UShortMax
    /\ \A f \in UInts : a[f] \in 0..UIntMax

(* The cast of any number fits its field. *)
LEMMA CastType ==
    ASSUME NEW number \in Int
    PROVE  /\ number % (UShortMax + 1) \in 0..UShortMax
           /\ number % (UIntMax + 1) \in 0..UIntMax
  BY ArgumentsAssumption

(* The numbers are apart from the texts and the flags. *)
LEMMA FieldsApart ==
    ASSUME NEW f \in UShorts \cup UInts
    PROVE  f \in Fields /\ f \notin Texts /\ f \notin Flags /\ f \notin Texts \cup Flags
  BY DEF UShorts, UInts, Fields, WithValue, Texts, Flags

(* The defaults of parseArguments have their types. *)
LEMMA DefaultsType == ArgumentsType(Defaults)
  <1>1. 3000 % (UShortMax + 1) \in 0..UShortMax
    BY CastType
  <1>2. \A f \in UShorts : DefaultNumber(f) \in 0..UShortMax
    BY <1>1, ArgumentsAssumption DEF DefaultNumber, UShorts
  <1>3. \A f \in UInts : DefaultNumber(f) \in 0..UIntMax
    BY ArgumentsAssumption DEF DefaultNumber, UInts
  <1>4. \A f \in UShorts \cup UInts : Defaults[f] = DefaultNumber(f)
    BY FieldsApart, Zenon DEF Defaults
  <1>5. Defaults = [f \in Fields |-> Defaults[f]]
    BY Zenon DEF Defaults
  <1> HIDE DEF Defaults
  <1> QED BY <1>2, <1>3, <1>4, <1>5 DEF ArgumentsType

(* An option keeps the types, with a value or without. *)
LEMMA AssignType ==
    ASSUME NEW a, ArgumentsType(a), NEW option \in Fields, NEW given, NEW number \in Int
    PROVE  ArgumentsType(Assign(a, option, given, number))
  <1> DEFINE v == Value(option, given, number)
             n == IF given THEN number ELSE 0
             b == [a EXCEPT ![option] = v]
  <1>1. n \in Int
    OBVIOUS
  <1>2. option \in UShorts => Cast(option, n) \in 0..UShortMax
    BY <1>1, CastType DEF Cast
  <1>3. option \in UInts => Cast(option, n) \in 0..UIntMax
    <2>1. option \in UInts => option \notin UShorts
      BY DEF UInts, UShorts
    <2> QED BY <1>1, <2>1, CastType DEF Cast
  <1>4. option \in UShorts \cup UInts => v = Cast(option, n)
    BY FieldsApart, Zenon DEF Value
  <1>5. a = [f \in Fields |-> a[f]]
    BY DEF ArgumentsType
  <1> HIDE DEF v, n
  <1>6. \A f \in Fields : b[f] = IF f = option THEN v ELSE a[f]
    BY <1>5
  <1>7. b = [f \in Fields |-> b[f]]
    BY <1>5
  <1> HIDE DEF b
  <1>8. ArgumentsType(b)
    BY <1>2, <1>3, <1>4, <1>6, <1>7, FieldsApart DEF ArgumentsType
  <1> QED BY <1>8 DEF Assign, b, v

(* What ConfigUsable asks of the arguments. *)
Usable(a) ==
    /\ ARGUMENT_MIN_INTERVAL_DEFAULT <= a["minInterval"]
    /\ a["minInterval"] <= a["maxInterval"]
    /\ a["maxInterval"] <= ARGUMENT_MAX_INTERVAL_DEFAULT
    /\ \A f \in UShorts : a[f] \in 1..UShortMax
    /\ \A f \in UInts : a[f] \in 1..UIntMax
    /\ a["workers"] # 0
    /\ {f \in {"noTcp", "noUdp"} : a[f]} # {"noTcp", "noUdp"}

(* Arguments that are clamped and accepted are usable. *)
LEMMA ClampedUsable ==
    ASSUME NEW a, ArgumentsType(a), Accepted(Clamped(a))
    PROVE  Usable(Clamped(a))
  <1> DEFINE b == Clamped(a)
  <1>1. /\ "minInterval" \in UInts /\ "maxInterval" \in UInts
        /\ "minInterval" \in Fields /\ "maxInterval" \in Fields
        /\ UShorts \subseteq Fields /\ UInts \subseteq Fields
        /\ "minInterval" \notin UShorts /\ "maxInterval" \notin UShorts
    BY DEF UInts, UShorts, Fields, WithValue
  <1>2. /\ ARGUMENT_MIN_INTERVAL_DEFAULT <= b["minInterval"] /\ b["minInterval"] <= b["maxInterval"]
        /\ b["maxInterval"] <= ARGUMENT_MAX_INTERVAL_DEFAULT
        /\ b["minInterval"] \in 0..UIntMax /\ b["maxInterval"] \in 0..UIntMax
    BY <1>1, ArgumentsAssumption DEF ArgumentsType, Clamped, Smallest, Greatest
  <1>3. \A f \in Fields \ {"minInterval", "maxInterval"} : b[f] = a[f]
    BY DEF ArgumentsType, Clamped
  <1>4. \A f \in UShorts : b[f] \in 1..UShortMax
    BY <1>1, <1>3, ArgumentsAssumption DEF ArgumentsType, Accepted
  <1>5. \A f \in UInts : b[f] \in 1..UIntMax
    BY <1>1, <1>2, <1>3, ArgumentsAssumption DEF ArgumentsType, Accepted
  <1> HIDE DEF b
  <1>6. b["workers"] # 0 /\ ~(b["noTcp"] /\ b["noUdp"])
    BY Zenon DEF Accepted, b
  <1>7. {f \in {"noTcp", "noUdp"} : b[f]} # {"noTcp", "noUdp"}
    BY <1>6
  <1>8. Usable(b)
    BY <1>2, <1>4, <1>5, <1>6, <1>7 DEF Usable
  <1> QED BY <1>8 DEF b

(* The inductive invariant: while the command line is read the fields have *)
(* their types, and what passes the last test is usable.                   *)
ConfigInv ==
    /\ pc = "arguments" => ArgumentsType(arguments)
    /\ pc = "configured" => Usable(arguments)

(* ConfigInv is inductive: an option casts its value, the last test comes  *)
(* after the clamps, and nothing assigns arguments once they are usable.   *)
LEMMA ConfigInvNext ==
    ASSUME ConfigInv, [Next]_vars
    PROVE  ConfigInv'
  <1>1. ASSUME NEW option \in Options, parseOption(option)
        PROVE  ConfigInv'
    <2>1. PICK number \in Numbers : arguments' = Assign(arguments, option, TRUE, number)
      BY <1>1 DEF parseOption
    <2>2. number \in Int /\ option \in Fields /\ ArgumentsType(arguments) /\ pc' = "arguments"
      BY <1>1, RequestAssumption DEF parseOption, ConfigInv
    <2>3. ArgumentsType(Assign(arguments, option, TRUE, number))
      BY <2>2, AssignType
    <2>4. ArgumentsType(arguments')
      BY <2>1, <2>3
    <2> QED BY <2>2, <2>4 DEF ConfigInv, ArgumentsType
  <1>2. ASSUME NEW a, ArgumentsType(a), Checked(Clamped(a))
        PROVE  ConfigInv'
    BY <1>2, ClampedUsable DEF Checked, ConfigInv
  <1>3. ASSUME NEW option \in Options, parseLastOption(option)
        PROVE  ConfigInv'
    <2>1. option \in Fields /\ ArgumentsType(arguments) /\ 0 \in Int
      BY <1>3 DEF parseLastOption, Fields, ConfigInv
    <2>2. ArgumentsType(Assign(arguments, option, FALSE, 0))
      BY <2>1, AssignType, Zenon
    <2>3. Checked(Clamped(Assign(arguments, option, FALSE, 0)))
      BY <1>3 DEF parseLastOption
    <2> QED BY <1>2, <2>2, <2>3
  <1>4. CASE parseEnd
    BY <1>2, <1>4 DEF parseEnd, ConfigInv
  <1>5. CASE showHelp \/ startWorker
    BY <1>5 DEF showHelp, startWorker, ConfigInv
  <1>6. ASSUME NEW r \in Requests, clientBegins(r)
        PROVE  ConfigInv'
    BY <1>6 DEF clientBegins, ConfigInv
  <1>7. CASE clientGoesOn \/ deleteSocket \/ UNCHANGED vars
    BY <1>7 DEF clientGoesOn, deleteSocket, vars, ConfigInv
  <1>8. CASE processRead
    <2>1. pc = "serving" /\ pc' = pc
      BY <1>8 DEF processRead, readFragment, readOversize, recvFailed, websocketMessage, announce, scrape, apiSet,
            apiWebsocket, apiWebsocketFailed, statsPage, root, file, post, Complete
    <2> QED BY <2>1 DEF ConfigInv
  <1> QED BY <1>1, <1>3, <1>4, <1>5, <1>6, <1>7, <1>8 DEF Next, commandLine

(* Whatever the command line says, the server starts with a usable         *)
(* configuration or not at all (argument.c:45-160), in particular with the *)
(* range of intervals that the proofs about Interval take for granted.     *)
THEOREM ConfigUsableCorrect == Spec => []ConfigUsable
  <1>1. Init => ConfigInv
    BY DefaultsType DEF Init, ConfigInv
  <1>2. ConfigInv /\ [Next]_vars => ConfigInv'
    BY ConfigInvNext
  <1>3. ConfigInv => ConfigUsable
    BY DEF ConfigInv, ConfigUsable, Usable
  <1> QED BY <1>1, <1>2, <1>3, PTL DEF Spec

-----------------------------------------------------------------------------
(* The buffers. *)
Fits(b) == b \in Block /\ checkSizeBlock(b)

(* reAllocBlock makes room for what is asked for and for a \0. *)
LEMMA ReAllocFits ==
    ASSUME NEW b, Fits(b), NEW requiredSpace \in Nat
    PROVE  LET c == reAllocBlock(b, requiredSpace)
           IN  Fits(c) /\ c.size = b.size /\ c.allocated > b.size + requiredSpace
  <1> DEFINE more == b.allocated + requiredSpace + BLOCK_MIN_FREE_ALLOCATE_SIZE
             times == b.allocated * BLOCK_MIN_RE_ALLOC_MULTIPLY
             c == reAllocBlock(b, requiredSpace)
  <1>1. b.size \in Nat /\ b.allocated \in Nat /\ b.size < b.allocated /\ b \in Block
    BY DEF Fits, Block, checkSizeBlock
  <1>2. more \in Nat /\ times \in Nat /\ Larger(more, times) \in Nat /\ Larger(more, times) >= more
    BY <1>1, BlockAssumption DEF Larger
  <1>3. c \in Block /\ c.size = b.size /\ c.allocated > b.size + requiredSpace
    <2>1. CASE b.allocated > b.size + requiredSpace
      BY <1>1, <2>1 DEF reAllocBlock
    <2>2. CASE ~(b.allocated > b.size + requiredSpace)
      <3>1. c = [b EXCEPT !.allocated = Larger(more, times)]
        BY <2>2 DEF reAllocBlock
      <3>2. Larger(more, times) > b.size + requiredSpace
        BY <1>1, <1>2, BlockAssumption
      <3> HIDE DEF more, times
      <3> QED BY <1>1, <1>2, <3>1, <3>2 DEF Block
    <2> QED BY <2>1, <2>2
  <1> HIDE DEF c
  <1>4. Fits(c)
    <2>1. c.allocated \in Nat
      BY <1>3 DEF Block
    <2> QED BY <1>1, <1>3, <2>1 DEF Fits, checkSizeBlock
  <1> QED BY <1>3, <1>4 DEF c

(* What is written into that room leaves the \0 inside the buffer. *)
LEMMA AddedFits ==
    ASSUME NEW b, Fits(b), NEW requiredSpace \in Nat, NEW length \in 0..requiredSpace
    PROVE  /\ Fits(Added(b, requiredSpace, length))
           /\ Added(b, requiredSpace, length).size = b.size + length
  <1> DEFINE c == reAllocBlock(b, requiredSpace)
  <1>1. c \in Block /\ c.size = b.size /\ c.allocated > b.size + requiredSpace
    BY ReAllocFits DEF Fits
  <1>2. b.size \in Nat /\ c.allocated \in Nat
    BY <1>1 DEF Fits, Block
  <1> HIDE DEF c
  <1>3. /\ [c EXCEPT !.size = @ + length] \in Block
        /\ [c EXCEPT !.size = @ + length].size = b.size + length
        /\ [c EXCEPT !.size = @ + length].allocated = c.allocated
    BY <1>1, <1>2 DEF Block
  <1> QED BY <1>1, <1>2, <1>3 DEF Added, Fits, checkSizeBlock, c

(* A buffer that is made or reset has room for its \0. *)
LEMMA EmptyFits ==
    /\ Fits(initBlock) /\ initBlock.size = 0
    /\ \A b : Fits(b) => Fits(resetBlock(b)) /\ resetBlock(b).size = 0
  BY BlockAssumption DEF Fits, Block, checkSizeBlock, initBlock, resetBlock

(* Strings are added with the room they take. *)
LEMMA StringFits ==
    ASSUME NEW b, Fits(b), NEW length \in Nat
    PROVE  /\ Fits(addStringBlock(b, length))
           /\ addStringBlock(b, length).size = b.size + length
  BY AddedFits DEF addStringBlock

(* Formatted strings are added with more room than they take. *)
LEMMA FormatFits ==
    ASSUME NEW b, Fits(b), NEW room \in Nat, NEW length \in 0..room
    PROVE  /\ Fits(addFormatStringBlock(b, room, length))
           /\ addFormatStringBlock(b, room, length).size = b.size + length
  BY AddedFits DEF addFormatStringBlock

(* The body of a failure and the headers fit. *)
LEMMA FailureFits ==
    ASSUME NEW size \in Nat, NEW actual \in 0..size + 900
    PROVE  Fits(FailureBody(size, actual)) /\ FailureBody(size, actual).size \in Nat
  <1>1. FailureFrame + actual \in 0..size + 1000 /\ size + 1000 \in Nat
    BY DEF FailureFrame
  <1>2. Fits(FailureBody(size, actual))
    BY <1>1, EmptyFits, FormatFits DEF FailureBody
  <1> QED BY <1>2 DEF Fits, Block

(* So do the first line, the header of the connection and the others. *)
LEMMA HeadersFit ==
    ASSUME NEW b, Fits(b), NEW code \in Nat, NEW keep \in BOOLEAN, NEW n \in FormatLengths
    PROVE  Fits(Headers(b, code, keep, n)) /\ Headers(b, code, keep, n).size \in Nat
  <1>1. n \in 0..1000 /\ n \in 0..100 /\ LineLength \in Nat /\ 100 \in Nat /\ 1000 \in Nat
    BY RequestAssumption
  <1>2. Fits(FirstLine(b, code, n))
    <2>1. CASE code = 101
      <3>1. Fits(addFormatStringBlock(b, 1000, n))
        BY <1>1, FormatFits
      <3> QED BY <2>1, <3>1 DEF FirstLine
    <2>2. CASE code = 401
      BY <1>1, <2>2, StringFits DEF FirstLine
    <2>3. CASE code \notin {101, 401}
      BY <1>1, <2>3, StringFits DEF FirstLine
    <2> QED BY <2>1, <2>2, <2>3
  <1> DEFINE c == FirstLine(b, code, n)
             d == ConnectionHeader(c, code, keep, n)
  <1> HIDE DEF c
  <1>3. Fits(d)
    <2>0. Fits(c)
      BY <1>2 DEF c
    <2>1. CASE code = 101
      BY <2>0, <2>1 DEF ConnectionHeader
    <2>2. CASE code # 101 /\ keep
      BY ZenonT(60), <1>1, <2>0, <2>2, StringFits, FormatFits DEF ConnectionHeader
    <2>3. CASE code # 101 /\ ~keep
      BY <1>1, <2>0, <2>3, StringFits DEF ConnectionHeader
    <2> QED BY <2>1, <2>2, <2>3
  <1> HIDE DEF d
  <1>4. Fits(Headers(b, code, keep, n))
    <2>1. ContentType \in 0..1000 /\ 1000 \in Nat
      BY RequestAssumption
    <2>2. Fits(addFormatStringBlock(d, 1000, ContentType))
      BY <1>3, <2>1, FormatFits
    <2> QED BY <1>1, <2>2, FormatFits DEF Headers, d, c
  <1> QED BY <1>4 DEF Fits, Block

(* The invariant: RepliesFit and the types of the buffers. *)
ReplyTrue == reply # NoReply => reply.length = reply.content
FitInv == ReplyTrue /\ Fits(sendBlock) /\ Fits(dataBlock) /\ Fits(body)

(* Content-Length and content are computed alike, with a body of failure   *)
(* or without.                                                             *)
LEMMA ContentSize ==
    ASSUME NEW code \in Nat, NEW size \in Nat, NEW actual \in 0..size + 900
    PROVE  Content(code, size, actual) \in Nat /\ ContentLength(code, size, actual) = Content(code, size, actual)
  BY FailureFits DEF Content, ContentLength

(* renderHttpMessage writes a reply that fits and says its length. *)
LEMMA RenderFits ==
    ASSUME FitInv, NEW code \in Nat, NEW size \in Nat, NEW actual \in 0..size + 900, NEW keep \in BOOLEAN,
           renderHttpMessage(code, size, actual, keep)
    PROVE  ReplyTrue' /\ Fits(sendBlock)' /\ Fits(body)'
  <1> DEFINE headers(n) == Headers(resetBlock(sendBlock), code, keep, n)
             whole(n) == addStringBlock(headers(n), Content(code, size, actual))
             content == Content(code, size, actual)
  <1>0. content \in Nat /\ ContentLength(code, size, actual) = content
    BY ContentSize
  <1>1. PICK n \in FormatLengths :
            /\ sendBlock' = whole(n)
            /\ body' = IF code \in {200, 101} THEN body ELSE FailureBody(size, actual)
            /\ reply'.length = ContentLength(code, size, actual)
            /\ reply'.content = whole(n).size - headers(n).size
    BY DEF renderHttpMessage
  <1>2. Fits(headers(n)) /\ headers(n).size \in Nat
    BY HeadersFit, EmptyFits DEF FitInv
  <1> HIDE DEF headers, content
  <1>3. Fits(whole(n)) /\ whole(n).size = headers(n).size + content
    <2>1. Fits(addStringBlock(headers(n), content)) /\ addStringBlock(headers(n), content).size = headers(n).size + content
      BY <1>0, <1>2, StringFits
    <2> QED BY <2>1 DEF content
  <1> HIDE DEF whole
  <1>4. reply'.length = reply'.content
    BY <1>0, <1>1, <1>2, <1>3
  <1>5. Fits(body')
    BY <1>1, FailureFits DEF FitInv
  <1>6. Fits(sendBlock')
    BY <1>1, <1>3
  <1> QED BY <1>4, <1>5, <1>6 DEF ReplyTrue, Fits, checkSizeBlock, Block

(* A refusal, a constant reply and a rendered body keep the invariant. *)
LEMMA ReplyFits ==
    ASSUME FitInv, NEW code \in Nat, NEW size \in Nat, NEW actual \in 0..size + 900,
           renderHttpMessage(code, size, actual, canKeepAlive), Fits(dataBlock)'
    PROVE  FitInv'
  <1>1. canKeepAlive \in BOOLEAN
    BY DEF canKeepAlive
  <1> QED BY <1>1, RenderFits DEF FitInv

(* A body that is rendered into dataBlock. *)
LEMMA ReplyDataFits ==
    ASSUME FitInv, NEW size \in Nat, ReplyData(size)
    PROVE  FitInv'
  <1>1. Fits(Added(resetBlock(dataBlock), size, size))
    BY EmptyFits, AddedFits DEF FitInv
  <1>2. Fits(dataBlock)'
    BY <1>1 DEF ReplyData, Fits, Block, checkSizeBlock
  <1>3. renderHttpMessage(200, size, size, canKeepAlive) /\ 200 \in Nat /\ size \in 0..size + 900
    BY DEF ReplyData
  <1> QED BY <1>2, <1>3, ReplyFits

(* A formatted body. *)
LEMMA FormatDataFits ==
    ASSUME FitInv, NEW n \in FormatLengths, NEW room \in {300, 500, 1000}, NEW code \in Nat,
           ReplyFormat(code, room, n)
    PROVE  FitInv'
  <1>1. n \in 0..room /\ room \in Nat /\ n \in Nat /\ n \in 0..n + 900
    BY RequestAssumption
  <1>2. Fits(addFormatStringBlock(resetBlock(dataBlock), room, n))
    BY <1>1, EmptyFits, FormatFits DEF FitInv
  <1>3. Fits(dataBlock)'
    BY <1>2 DEF ReplyFormat, Fits, Block, checkSizeBlock
  <1> QED BY <1>1, <1>3, ReplyFits DEF ReplyFormat

(* A constant body leaves dataBlock as it is. *)
LEMMA RefuseFits ==
    ASSUME FitInv, NEW code \in Nat, NEW size \in Nat, NEW actual \in 0..size + 900, Refuse(code, size, actual)
    PROVE  FitInv'
  <1>1. Fits(dataBlock)' /\ renderHttpMessage(code, size, actual, canKeepAlive)
    BY DEF Refuse, FitInv, Fits, Block, checkSizeBlock
  <1> QED BY <1>1, ReplyFits

(* A constant body after dataBlock is reset. *)
LEMMA ResetFits ==
    ASSUME FitInv, NEW code \in Nat, NEW size \in Nat, ReplyConstant(code, size)
    PROVE  FitInv'
  <1>1. Fits(resetBlock(dataBlock)) /\ size \in 0..size + 900
    BY EmptyFits DEF FitInv
  <1>2. Fits(dataBlock)'
    BY <1>1 DEF ReplyConstant, Fits, Block, checkSizeBlock
  <1> QED BY <1>1, <1>2, ReplyFits DEF ReplyConstant

(* The three replies to /announce keep the invariant. *)
LEMMA AnnounceFits == ASSUME FitInv, announce PROVE FitInv'
  <1>1. CASE Refuse(400, 25, 32)
    BY <1>1, RefuseFits
  <1>2. CASE Refuse(400, 25, 27)
    BY <1>2, RefuseFits
  <1>3. CASE \E size \in BodySizes : ReplyData(size)
    BY <1>3, ReplyDataFits, RequestAssumption
  <1> QED BY <1>1, <1>2, <1>3 DEF announce

(* So do the replies to /scrape. *)
LEMMA ScrapeFits == ASSUME FitInv, scrape PROVE FitInv'
  <1>1. CASE ReplyConstant(403, 32)
    BY <1>1, ResetFits
  <1>2. CASE \E size \in BodySizes : ReplyData(size)
    BY <1>2, ReplyDataFits, RequestAssumption
  <1> QED BY <1>1, <1>2 DEF scrape

(* So do those to /api/set. *)
LEMMA ApiSetFits == ASSUME FitInv, apiSet PROVE FitInv'
  <1>1. CASE Refuse(400, 22, 22)
    BY <1>1, RefuseFits
  <1>2. CASE Refuse(401, 21, 21)
    BY <1>2, RefuseFits
  <1>3. CASE \E n \in FormatLengths : ReplyFormat(200, 500, n)
    BY <1>3, FormatDataFits
  <1> QED BY <1>1, <1>2, <1>3 DEF apiSet

(* So does the handshake, which leaves dataBlock alone. *)
LEMMA WebsocketFits == ASSUME FitInv, apiWebsocket PROVE FitInv'
  <1>1. renderHttpMessage(101, 0, 0, TRUE) /\ dataBlock' = dataBlock
    BY DEF apiWebsocket
  <1>2. ReplyTrue' /\ Fits(sendBlock)' /\ Fits(body)'
    <2>1. 101 \in Nat /\ 0 \in Nat /\ 0 \in 0..0 + 900 /\ TRUE \in BOOLEAN
      OBVIOUS
    <2> QED BY ZenonT(60), <1>1, <2>1, RenderFits
  <1> QED BY <1>1, <1>2 DEF FitInv, Fits, Block, checkSizeBlock

(* So do files and their failures: when fread fails, the message takes the *)
(* room that the file would have taken, and more.                          *)
LEMMA FileFits == ASSUME FitInv, file PROVE FitInv'
  <1>1. CASE \E n \in FormatLengths : ReplyFormat(404, 1000, n)
    BY <1>1, FormatDataFits
  <1>2. CASE ReplyConstant(404, 28) \/ ReplyConstant(404, 26) \/ ReplyConstant(507, 35)
    BY <1>2, ResetFits
  <1>3. ASSUME NEW size \in BodySizes, NEW read \in BOOLEAN, NEW n \in FormatLengths,
               dataBlock' = addFileBlock(resetBlock(dataBlock), size, read, n),
               renderHttpMessage(200, dataBlock'.size, dataBlock'.size, canKeepAlive)
        PROVE  FitInv'
    <2>1. size \in Nat /\ n \in 0..300 /\ 300 \in Nat /\ 0 \in 0..size
      BY RequestAssumption
    <2>2. Fits(resetBlock(dataBlock))
      BY EmptyFits DEF FitInv
    <2>3. Fits(addFileBlock(resetBlock(dataBlock), size, read, n))
      <3>1. CASE read
        BY <2>1, <2>2, <3>1, AddedFits DEF addFileBlock
      <3>2. CASE ~read
        <4>1. Fits(reAllocBlock(resetBlock(dataBlock), size))
          BY <2>1, <2>2, ReAllocFits
        <4> QED BY SMTT(30), <2>1, <3>2, <4>1, FormatFits DEF addFileBlock
      <3> QED BY <3>1, <3>2
    <2>4. Fits(dataBlock')
      BY <1>3, <2>3
    <2>5. dataBlock'.size \in Nat /\ dataBlock'.size \in 0..dataBlock'.size + 900 /\ 200 \in Nat
      BY <2>4 DEF Fits, Block
    <2>6. canKeepAlive \in BOOLEAN
      BY DEF canKeepAlive
    <2>7. ReplyTrue' /\ Fits(sendBlock)' /\ Fits(body)'
      BY <1>3, <2>5, <2>6, RenderFits
    <2> QED BY <2>4, <2>7 DEF FitInv, Fits, Block, checkSizeBlock
  <1> QED BY <1>1, <1>2, <1>3 DEF file

(* The reply to a request that is too large is rendered in dataBlock. *)
LEMMA OversizeFits == ASSUME FitInv, readOversize PROVE FitInv'
  <1> DEFINE headers(m) == Headers(resetBlock(dataBlock), 413, FALSE, m)
             content == Content(413, 24, 24)
  <1>1. PICK n \in FormatLengths :
            /\ dataBlock' = addStringBlock(headers(n), Content(413, 24, 24))
            /\ reply' = [code |-> 413, connection |-> "Close", length |-> ContentLength(413, 24, 24),
                         content |-> dataBlock'.size - headers(n).size, to |-> requests]
    BY DEF readOversize
  <1>2. Fits(headers(n)) /\ headers(n).size \in Nat
    <2> DEFINE b == resetBlock(dataBlock)
               code == 413
    <2>1. Fits(b) /\ code \in Nat
      BY EmptyFits DEF FitInv
    <2>2. FALSE \in BOOLEAN
      OBVIOUS
    <2> HIDE DEF b, code, headers
    <2>3. Fits(Headers(b, code, FALSE, n)) /\ Headers(b, code, FALSE, n).size \in Nat
      BY ONLY <2>1, <2>2, n \in FormatLengths, HeadersFit
    <2> QED BY ONLY <2>3 DEF b, code, headers
  <1>3. content \in Nat /\ ContentLength(413, 24, 24) = content
    BY ContentSize
  <1>4. dataBlock' = addStringBlock(headers(n), content) /\ reply'.length = content
        /\ reply'.content = dataBlock'.size - headers(n).size
    BY <1>1, <1>3
  <1> HIDE DEF headers, content
  <1>5. Fits(dataBlock') /\ reply'.length = reply'.content
    <2>1. Fits(addStringBlock(headers(n), content))
          /\ addStringBlock(headers(n), content).size = headers(n).size + content
      BY <1>2, <1>3, StringFits
    <2>2. Fits(dataBlock') /\ dataBlock'.size = headers(n).size + content
      BY <1>4, <2>1
    <2> QED BY <1>2, <1>3, <1>4, <2>2
  <1>6. body' = FailureBody(24, 24) /\ sendBlock' = sendBlock /\ Fits(FailureBody(24, 24))
    BY FailureFits DEF readOversize
  <1> QED BY <1>5, <1>6 DEF FitInv, ReplyTrue, Fits, Block, checkSizeBlock

(* Steps that leave the reply and the buffers alone, or drop the reply. *)
LEMMA SilentFits ==
    ASSUME FitInv, UNCHANGED blocks, reply' = reply \/ reply' = NoReply
    PROVE  FitInv'
  BY DEF FitInv, ReplyTrue, blocks, Fits, Block, checkSizeBlock

(* FitInv is inductive: the steps of the command line and of the client   *)
(* are silent, the branches of processRead are the lemmas above.          *)
LEMMA FitInvNext ==
    ASSUME FitInv, [Next]_vars
    PROVE  FitInv'
  <1>1. CASE commandLine
    BY <1>1, SilentFits DEF commandLine, parseOption, parseLastOption, parseEnd, showHelp, startWorker
  <1>2. CASE (\E r \in Requests : clientBegins(r)) \/ clientGoesOn \/ deleteSocket
    BY <1>2, SilentFits DEF clientBegins, clientGoesOn, deleteSocket
  <1>3. CASE readFragment \/ recvFailed \/ websocketMessage
    BY <1>3, SilentFits DEF readFragment, recvFailed, websocketMessage
  <1>4. CASE apiWebsocketFailed \/ root
    <2>1. Refuse(400, 16, 16) \/ Refuse(200, 63, 63)
      BY <1>4 DEF apiWebsocketFailed, root
    <2> QED BY <2>1, RefuseFits
  <1>5. CASE post
    <2>1. PICK size \in BodySizes : Refuse(405, size, size)
      BY <1>5 DEF post
    <2>2. size \in Nat /\ size \in 0..size + 900
      BY RequestAssumption
    <2> QED BY <2>1, <2>2, RefuseFits
  <1>6. CASE statsPage
    BY <1>6, ReplyDataFits, RequestAssumption DEF statsPage
  <1>7. CASE UNCHANGED vars
    BY <1>7, SilentFits DEF vars, blocks
  <1> QED BY <1>1, <1>2, <1>3, <1>4, <1>5, <1>6, <1>7, AnnounceFits, ScrapeFits, ApiSetFits,
         WebsocketFits, FileFits, OversizeFits DEF Next, processRead

(* Content-Length is the length of what follows the headers, and no buffer *)
(* overflows (block.c:52-130, socket.c:25-126), for bodies of any length   *)
(* and after any requests before.                                          *)
THEOREM RepliesFitCorrect == Spec => []RepliesFit
  <1>1. Init => FitInv
    BY EmptyFits DEF Init, FitInv, ReplyTrue
  <1>2. FitInv /\ [Next]_vars => FitInv'
    BY FitInvNext
  <1>3. FitInv => RepliesFit
    BY DEF FitInv, ReplyTrue, RepliesFit, Fits
  <1> QED BY <1>1, <1>2, <1>3, PTL DEF Spec

-----------------------------------------------------------------------------
(* The connection. *)

Codes == {200, 400, 401, 403, 404, 405, 507}

(* The reply of renderHttpMessage says what it was told of the connection. *)
LEMMA RenderTells ==
    ASSUME NEW code \in Codes \cup {101}, NEW size, NEW actual, NEW keep \in BOOLEAN,
           renderHttpMessage(code, size, actual, keep)
    PROVE  /\ reply' # NoReply
           /\ reply'.connection = IF code = 101 THEN "Upgrade"
                                  ELSE IF keep THEN "Keep-Alive" ELSE "Close"
  <1>1. /\ reply'.code = code
        /\ reply'.connection = CASE code = 101 -> "Upgrade"
                                 [] code # 101 /\ keep -> "Keep-Alive"
                                 [] code # 101 /\ ~keep -> "Close"
    BY DEF renderHttpMessage
  <1>2. code # 0
    BY DEF Codes
  <1>3. reply' # NoReply
    BY <1>1, <1>2 DEF NoReply
  <1> QED BY <1>1, <1>3

(* Every branch of processRead that answers a complete request, but the     *)
(* upgrade, renders a reply with what it found of keep-alive and then       *)
(* treats the connection accordingly.                                       *)
LEMMA BranchAnswers ==
    ASSUME announce \/ scrape \/ apiSet \/ apiWebsocketFailed \/ statsPage \/ root \/ file \/ post
    PROVE  /\ AfterReply
           /\ \E code \in Codes : \E size, actual : renderHttpMessage(code, size, actual, canKeepAlive)
  <1>1. CASE announce
    BY <1>1 DEF announce, Refuse, ReplyData, Codes
  <1>2. CASE scrape
    BY <1>2 DEF scrape, ReplyConstant, ReplyData, Codes
  <1>3. CASE apiSet
    <2>1. AfterReply
      BY <1>3 DEF apiSet
    <2>2. Refuse(400, 22, 22) \/ Refuse(401, 21, 21) \/ \E n \in FormatLengths : ReplyFormat(200, 500, n)
      BY <1>3 DEF apiSet
    <2> QED BY <2>1, <2>2 DEF Refuse, ReplyFormat, Codes
  <1>4. CASE apiWebsocketFailed \/ root \/ post
    BY <1>4 DEF apiWebsocketFailed, root, post, Refuse, Codes
  <1>5. CASE statsPage
    BY <1>5 DEF statsPage, ReplyData, Codes
  <1>6. CASE file
    BY <1>6 DEF file, ReplyConstant, ReplyFormat, Codes
  <1> QED BY <1>1, <1>2, <1>3, <1>4, <1>5, <1>6

(* After processRead the request waits for more of itself, or recv failed   *)
(* and the socket will be deleted, or the client has a reply and the        *)
(* connection is what the reply says.                                       *)
LEMMA ProcessReadAnswers ==
    ASSUME processRead
    PROVE  \/ /\ UNCHANGED <<connection, reply, request, sent>>
              /\ connection = "open" => received' = received /\ received < Fragments
           \/ event /\ connection' = "doomed" /\ UNCHANGED reply
           \/ reply' # NoReply /\ ConnectionHeaderTruth'
  <1>1. CASE readFragment \/ recvFailed \/ websocketMessage
    BY <1>1 DEF readFragment, recvFailed, websocketMessage
  <1>2. CASE readOversize
    <2>1. connection' = "doomed"
      BY <1>2 DEF readOversize
    <2>2. PICK n \in FormatLengths :
            reply' = [code |-> 413, connection |-> "Close", length |-> ContentLength(413, 24, 24),
                      content |-> dataBlock'.size - Headers(resetBlock(dataBlock), 413, FALSE, n).size,
                      to |-> requests]
      BY <1>2, ZenonT(60) DEF readOversize
    <2>3. reply'.code = 413 /\ reply'.connection = "Close"
      BY <2>2
    <2> QED BY <2>1, <2>3 DEF ConnectionHeaderTruth, NoReply
  <1>3. CASE apiWebsocket
    <2>1. reply' # NoReply /\ reply'.connection = "Upgrade"
      <3>1. renderHttpMessage(101, 0, 0, TRUE) /\ 101 \in Codes \cup {101} /\ TRUE \in BOOLEAN
        BY <1>3 DEF apiWebsocket
      <3> QED BY <3>1, RenderTells
    <2> QED BY <1>3, <2>1 DEF apiWebsocket, ConnectionHeaderTruth
  <1>4. CASE announce \/ scrape \/ apiSet \/ apiWebsocketFailed \/ statsPage \/ root \/ file \/ post
    <2>0. PICK code \in Codes : \E size, actual : renderHttpMessage(code, size, actual, canKeepAlive)
      BY <1>4, BranchAnswers
    <2>1. PICK size, actual : renderHttpMessage(code, size, actual, canKeepAlive)
      BY <2>0
    <2>2. canKeepAlive \in BOOLEAN /\ code # 101
      BY DEF canKeepAlive, Codes
    <2>3. reply' # NoReply /\ reply'.connection = IF canKeepAlive THEN "Keep-Alive" ELSE "Close"
      BY <2>1, <2>2, RenderTells
    <2>4. connection' = IF canKeepAlive THEN "open" ELSE "doomed"
      BY <1>4, BranchAnswers DEF AfterReply
    <2> QED BY <2>2, <2>3, <2>4 DEF ConnectionHeaderTruth
  <1> QED BY <1>1, <1>2, <1>3, <1>4 DEF processRead

(* MSG_PEEK keeps the fragments of a request in the socket until all have   *)
(* come, and the last one raises an event, into however many fragments the  *)
(* request falls.                                                           *)
THEOREM RequestPendingCorrect == Spec => []RequestPending
  <1>1. Init => RequestPending
    BY DEF Init, RequestPending
  <1>2. RequestPending /\ [Next]_vars => RequestPending'
    <2> SUFFICES ASSUME RequestPending, [Next]_vars PROVE RequestPending'
      OBVIOUS
    <2>1. CASE commandLine \/ UNCHANGED vars
      <3>1. UNCHANGED <<connection, request, reply, received, sent, event>>
        BY <2>1 DEF commandLine, parseOption, parseLastOption, parseEnd, showHelp, startWorker,
                    socket, vars
      <3> QED BY <3>1 DEF RequestPending
    <2>2. CASE (\E r \in Requests : clientBegins(r)) \/ clientGoesOn
      BY <2>2 DEF clientBegins, clientGoesOn, RequestPending
    <2>3. CASE deleteSocket
      BY <2>3 DEF deleteSocket, RequestPending
    <2>4. CASE processRead
      <3>1. CASE reply' # NoReply
        BY <3>1 DEF RequestPending
      <3>2. CASE /\ UNCHANGED <<connection, reply, request, sent>>
                 /\ connection = "open" => received' = received /\ received < Fragments
        BY <3>2, RequestAssumption DEF RequestPending
      <3>3. CASE connection' = "doomed"
        BY <3>3 DEF RequestPending
      <3> QED BY <2>4, <3>1, <3>2, <3>3, ProcessReadAnswers
    <2> QED BY <2>1, <2>2, <2>3, <2>4 DEF Next
  <1> QED BY <1>1, <1>2, PTL DEF Spec

(* The worker looks at a socket only when a request is under way: an event  *)
(* means that there is no reply yet, and after a reply the client has no    *)
(* more of the request to send.                                             *)
Awaited ==
    /\ event => reply = NoReply
    /\ connection \in {"open", "websocket"} /\ reply # NoReply => sent = Fragments

(* processRead takes the event, and replies to complete requests alone.     *)
LEMMA ProcessReadAwaited ==
    ASSUME processRead, Awaited, RequestPending
    PROVE  Awaited'
  <1>1. event /\ event' = FALSE
    BY DEF processRead, readFragment, readOversize, recvFailed, websocketMessage, announce, scrape,
           apiSet, apiWebsocket, apiWebsocketFailed, statsPage, root, file, post, Complete
  <1>2. CASE readFragment \/ websocketMessage
    BY <1>1, <1>2 DEF readFragment, websocketMessage, Awaited
  <1>3. CASE readOversize \/ recvFailed
    BY <1>1, <1>3 DEF readOversize, recvFailed, Awaited
  <1>4. CASE \/ announce \/ scrape \/ apiSet \/ apiWebsocket \/ apiWebsocketFailed
             \/ statsPage \/ root \/ file \/ post
    <2>1. Complete /\ request.route # "none"
      BY <1>4 DEF announce, scrape, apiSet, apiWebsocket, apiWebsocketFailed, statsPage, root, file, post
    <2>2. request # NoRequest
      BY <2>1 DEF NoRequest
    <2>3. connection = "open" /\ received = Fragments /\ UNCHANGED sent
      BY <2>1 DEF Complete
    <2>4. sent = Fragments
      BY <1>1, <2>2, <2>3 DEF Awaited, RequestPending
    <2> QED BY <1>1, <2>3, <2>4 DEF Awaited
  <1> QED BY <1>2, <1>3, <1>4 DEF processRead

(* The header Connection is true of every reply, from processRead until the *)
(* socket is deleted, whatever /api/set does to keepAlive in between: the   *)
(* header and the fate of the connection are decided by one reading of it.  *)
(* A connection that fails before the reply gets none.                      *)
THEOREM ConnectionCorrect == Spec => []ConnectionHeaderTruth
  <1>1. Init => ConnectionHeaderTruth
    BY DEF Init, ConnectionHeaderTruth
  <1>2. Init => Awaited
    BY DEF Init, Awaited
  <1>3. Awaited /\ RequestPending /\ [Next]_vars => Awaited'
    <2> SUFFICES ASSUME Awaited, RequestPending, [Next]_vars PROVE Awaited'
      OBVIOUS
    <2>1. CASE commandLine \/ UNCHANGED vars
      <3>1. UNCHANGED <<connection, reply, sent, event>>
        BY <2>1 DEF commandLine, parseOption, parseLastOption, parseEnd, showHelp, startWorker,
                    socket, vars
      <3> QED BY <3>1 DEF Awaited
    <2>2. CASE (\E r \in Requests : clientBegins(r)) \/ clientGoesOn
      BY <2>2, RequestAssumption DEF clientBegins, clientGoesOn, Awaited
    <2>3. CASE deleteSocket
      BY <2>3 DEF deleteSocket, Awaited
    <2>4. CASE processRead
      BY <2>4, ProcessReadAwaited
    <2> QED BY <2>1, <2>2, <2>3, <2>4 DEF Next
  <1>4. ConnectionHeaderTruth /\ Awaited /\ [Next]_vars => ConnectionHeaderTruth'
    <2> SUFFICES ASSUME ConnectionHeaderTruth, Awaited, [Next]_vars PROVE ConnectionHeaderTruth'
      OBVIOUS
    <2>1. CASE commandLine \/ clientGoesOn \/ UNCHANGED vars
      <3>1. UNCHANGED <<reply, connection>>
        BY <2>1 DEF commandLine, parseOption, parseLastOption, parseEnd, showHelp, startWorker,
                    socket, clientGoesOn, vars
      <3> QED BY <3>1 DEF ConnectionHeaderTruth
    <2>2. CASE \E r \in Requests : clientBegins(r)
      BY <2>2 DEF clientBegins, ConnectionHeaderTruth
    <2>3. CASE deleteSocket
      BY <2>3 DEF deleteSocket, ConnectionHeaderTruth
    <2>4. CASE processRead
      <3>1. CASE UNCHANGED <<connection, reply>> \/ ConnectionHeaderTruth'
        BY <3>1 DEF ConnectionHeaderTruth
      <3>2. CASE event /\ UNCHANGED reply
        BY <3>2 DEF Awaited, ConnectionHeaderTruth
      <3> QED BY <2>4, <3>1, <3>2, ProcessReadAnswers
    <2> QED BY <2>1, <2>2, <2>3, <2>4 DEF Next
  <1> QED BY <1>1, <1>2, <1>3, <1>4, RequestPendingCorrect, PTL DEF Spec

-----------------------------------------------------------------------------
(* The parser: texts are parsed part by part, whatever the parts. *)

(* The least number of a set of numbers. *)
LEMMA LeastNumber ==
    ASSUME NEW S \in SUBSET Nat, S # {}
    PROVE  \E k \in S : \A j \in S : k <= j
  <1>1. PICK k \in S : \A j \in S : <<j, k>> \notin OpToRel(<, Nat)
    BY NatLessThanWellFounded, WFMin
  <1>2. \A j \in S : ~(j < k)
    BY <1>1 DEF OpToRel
  <1> QED  BY <1>2

(* The largest number of a set of numbers up to n. *)
LEMMA MaxOf ==
    ASSUME NEW n \in Nat, NEW S \in SUBSET (1..n), S # {}
    PROVE  Max(S) \in S /\ \A y \in S : y <= Max(S)
  <1> DEFINE Above == {k \in Nat : \A y \in S : y <= k}
  <1>1. Above \in SUBSET Nat /\ n \in Above
    OBVIOUS
  <1>2. PICK k \in Above : \A j \in Above : k <= j
    <2> HIDE DEF Above
    <2> QED  BY <1>1, LeastNumber
  <1>3. k \in S
    <2> SUFFICES ASSUME k \notin S PROVE FALSE
      OBVIOUS
    <2>1. k \in Nat /\ k - 1 \in Nat
      <3>1. PICK y \in S : TRUE
        OBVIOUS
      <3>2. y \in 1..n /\ y <= k /\ k \in Nat
        BY <1>2, <3>1
      <3> QED  BY <3>2
    <2>2. \A y \in S : y <= k - 1
      BY <1>2
    <2>3. k - 1 \in Above /\ ~(k <= k - 1)
      BY <2>1, <2>2
    <2> HIDE DEF Above
    <2> QED  BY <1>2, <2>3
  <1>4. k \in S /\ \A y \in S : k >= y
    BY <1>2, <1>3
  <1>5. Max(S) \in S /\ \A y \in S : Max(S) >= y
    BY <1>4, Zenon DEF Max
  <1> QED  BY <1>5

Parse(s, text) == FoldLeft(parseChar, s, text)

(* One step of either fold over the characters of a text. *)
Step(fold, s, c) == IF fold = "uri" THEN parseChar(s, c) ELSE ForwardedChar(s, c)

(* The states of a fold, after each character. *)
Steps(st, s, text, n) == st[0] = s /\ \A i \in 1..n : st[i] = parseChar(st[i - 1], text[i])
FoldStates(st, fold, s, text, n) == st[0] = s /\ \A i \in 1..n : st[i] = Step(fold, st[i - 1], text[i])

Folds(h, fold, s, text, n) == h = [t \in SUBSET (1..n) |->
    IF t = {} THEN s ELSE Step(fold, h[t \ {Max(t)}], text[Max(t)])]

(* The fold over the positions of a text is well defined. *)
LEMMA FoldExists ==
    ASSUME NEW fold, NEW s, NEW text, NEW n \in Nat
    PROVE  \E h : Folds(h, fold, s, text, n)
  <1> DEFINE Bad == {k \in Nat : ~\E h : Folds(h, fold, s, text, k)}
  <1>1. ASSUME NEW k \in Nat, NEW h, Folds(h, fold, s, text, k)
        PROVE  \E g : Folds(g, fold, s, text, k + 1)
    <2> DEFINE g == [t \in SUBSET (1..k + 1) |->
                        IF k + 1 \in t THEN Step(fold, h[t \ {k + 1}], text[k + 1]) ELSE h[t]]
    <2>1. \A t \in SUBSET (1..k) : h[t] = IF t = {} THEN s ELSE Step(fold, h[t \ {Max(t)}], text[Max(t)])
      BY <1>1 DEF Folds
    <2>2. \A t \in SUBSET (1..k) : t \in SUBSET (1..k + 1) /\ k + 1 \notin t
      OBVIOUS
    <2>3. \A t \in SUBSET (1..k) : g[t] = h[t]
      BY <2>2
    <2>4. ASSUME NEW t \in SUBSET (1..k + 1)
          PROVE  g[t] = IF t = {} THEN s ELSE Step(fold, g[t \ {Max(t)}], text[Max(t)])
      <3>1. CASE k + 1 \in t
        <4>1. Max(t) = k + 1
          <5>1. k + 1 \in Nat /\ t # {}
            BY <3>1
          <5>2. Max(t) \in t /\ \A y \in t : y <= Max(t)
            BY <5>1, MaxOf
          <5>3. Max(t) \in t /\ k + 1 <= Max(t) /\ Max(t) \in 1..k + 1
            BY <3>1, <5>2
          <5> QED  BY <5>3
        <4>2. t \ {k + 1} \in SUBSET (1..k) /\ t # {}
          BY <3>1
        <4>3. g[t] = Step(fold, h[t \ {k + 1}], text[k + 1])
          BY <3>1
        <4> HIDE DEF g
        <4> QED  BY <2>3, <4>1, <4>2, <4>3
      <3>2. CASE k + 1 \notin t
        <4>1. t \in SUBSET (1..k) /\ t \ {Max(t)} \in SUBSET (1..k)
          <5>1. \A y \in t : y \in 1..k
            BY <3>2
          <5> QED  BY <5>1
        <4> HIDE DEF g
        <4> QED  BY <2>1, <2>3, <4>1
      <3> QED  BY <3>1, <3>2
    <2>5. g = [t \in SUBSET (1..k + 1) |-> g[t]]
      OBVIOUS
    <2> HIDE DEF g
    <2>6. g = [t \in SUBSET (1..k + 1) |->
                IF t = {} THEN s ELSE Step(fold, g[t \ {Max(t)}], text[Max(t)])]
      BY <2>4, <2>5
    <2>7. Folds(g, fold, s, text, k + 1)
      BY <2>6 DEF Folds
    <2> QED  BY <2>7
  <1>2. \E h : Folds(h, fold, s, text, 0)
    <2> DEFINE h == [t \in SUBSET (1..0) |-> s]
    <2>1. SUBSET (1..0) = {{}}
      OBVIOUS
    <2>2. Folds(h, fold, s, text, 0)
      BY <2>1 DEF Folds
    <2> QED  BY <2>2
  <1>3. Bad = {}
    <2> SUFFICES ASSUME Bad # {} PROVE FALSE
      OBVIOUS
    <2>0. Bad \in SUBSET Nat
      OBVIOUS
    <2>1. PICK k \in Bad : \A j \in Bad : k <= j
      <3> HIDE DEF Bad
      <3> QED  BY <2>0, LeastNumber
    <2>2. k # 0 /\ k \in Nat
      BY <1>2
    <2>3. k - 1 \in Nat /\ (k - 1) + 1 = k /\ ~(k <= k - 1)
      BY <2>2
    <2>4. k - 1 \notin Bad
      <3> HIDE DEF Bad
      <3> QED  BY <2>1, <2>3
    <2> QED  BY <1>1, <2>2, <2>3, <2>4
  <1> QED  BY <1>3

(* It goes through the characters one after the other. *)
LEMMA FoldSteps ==
    ASSUME NEW fold, NEW s, NEW text, NEW n \in Nat, NEW h, Folds(h, fold, s, text, n)
    PROVE  \E st : FoldStates(st, fold, s, text, n) /\ st[n] = h[1..n]
  <1> DEFINE st == [i \in 0..n |-> h[1..i]]
  <1>3. \A t \in SUBSET (1..n) : h[t] = IF t = {} THEN s ELSE Step(fold, h[t \ {Max(t)}], text[Max(t)])
    BY DEF Folds
  <1>4. st[0] = s
    <2>1. 1..0 = {} /\ 1..0 \in SUBSET (1..n) /\ 0 \in 0..n
      OBVIOUS
    <2> QED  BY <1>3, <2>1
  <1>5. ASSUME NEW i \in 1..n
        PROVE  st[i] = Step(fold, st[i - 1], text[i])
    <2>1. 1..i \in SUBSET (1..n) /\ 1..i # {} /\ i \in 0..n /\ i - 1 \in 0..n /\ i \in 1..i /\ i \in Nat
      <3>1. i \in Nat /\ i <= n /\ i >= 1
        OBVIOUS
      <3>2. \A y \in 1..i : y \in 1..n
        BY <3>1
      <3>3. i \in 0..n /\ i - 1 \in 0..n /\ i \in 1..i
        BY <3>1
      <3> QED  BY <3>1, <3>2, <3>3
    <2>2. Max(1..i) = i
      <3>1. Max(1..i) \in 1..i /\ i <= Max(1..i)
        BY <2>1, MaxOf
      <3> QED  BY <3>1
    <2>3. (1..i) \ {i} = 1..i - 1
      <3>1. ASSUME NEW y PROVE y \in (1..i) \ {i} <=> y \in 1..i - 1
        <4>1. CASE y \in Int
          BY <2>1, <4>1
        <4>2. CASE y \notin Int
          BY <2>1, <4>2
        <4> QED  BY <4>1, <4>2
      <3> QED  BY <3>1
    <2> QED  BY <1>3, <2>1, <2>2, <2>3
  <1>6. st[n] = h[1..n]
    OBVIOUS
  <1> HIDE DEF st
  <1>7. FoldStates(st, fold, s, text, n)
    BY <1>4, <1>5 DEF FoldStates
  <1> QED  BY <1>6, <1>7

UriFolds(h, s, text, n) == h = [t \in SUBSET (1..n) |->
    IF t = {} THEN s ELSE parseChar(h[t \ {Max(t)}], text[Max(t)])]

(* So parsing a text does. *)
LEMMA ParseSteps ==
    ASSUME NEW s, NEW text, NEW n \in Nat, DOMAIN text = 1..n
    PROVE  \E st : Steps(st, s, text, n) /\ Parse(s, text) = st[n]
  <1> DEFINE h == CHOOSE f : UriFolds(f, s, text, n)
             fold == "uri"
  <1>1. Parse(s, text) = h[1..n]
    BY DEF Parse, FoldLeft, MapThenFoldSet, UriFolds
  <1>2. \A a, c : Step(fold, a, c) = parseChar(a, c)
    BY DEF Step
  <1> HIDE DEF fold
  <1>3. \A f : UriFolds(f, s, text, n) <=> Folds(f, fold, s, text, n)
    BY <1>2 DEF UriFolds, Folds
  <1>4. UriFolds(h, s, text, n)
    BY <1>3, FoldExists
  <1> HIDE DEF h
  <1>5. Folds(h, fold, s, text, n)
    BY <1>3, <1>4
  <1>6. PICK st : FoldStates(st, fold, s, text, n) /\ st[n] = h[1..n]
    BY <1>5, FoldSteps
  <1>7. Steps(st, s, text, n)
    BY <1>2, <1>6 DEF Steps, FoldStates
  <1> QED  BY <1>1, <1>6, <1>7

(* Two runs over the same characters end alike. *)
LEMMA StepsAgree ==
    ASSUME NEW a, NEW b, NEW s, NEW t, NEW u, NEW n \in Nat,
           Steps(a, s, t, n), Steps(b, s, u, n), \A i \in 1..n : t[i] = u[i]
    PROVE  a[n] = b[n]
  <1> DEFINE Bad == {i \in Nat : i <= n /\ a[i] # b[i]}
  <1>1. Bad = {}
    <2> SUFFICES ASSUME Bad # {} PROVE FALSE
      OBVIOUS
    <2>0. Bad \in SUBSET Nat
      OBVIOUS
    <2>1. PICK k \in Bad : \A j \in Bad : k <= j
      <3> HIDE DEF Bad
      <3> QED  BY <2>0, LeastNumber
    <2>2. k # 0 /\ k \in 1..n /\ a[k] # b[k]
      BY <2>1 DEF Steps
    <2>3. k - 1 \in Nat /\ ~(k <= k - 1) /\ k - 1 <= n
      BY <2>2
    <2>4. k - 1 \notin Bad
      <3> HIDE DEF Bad
      <3> QED  BY <2>1, <2>3
    <2>5. a[k - 1] = b[k - 1]
      BY <2>3, <2>4
    <2> HIDE DEF Bad
    <2> QED  BY <2>2, <2>5 DEF Steps
  <1> QED  BY <1>1

(* The provers do not know that a literal is a string. *)
Characters == STRING \cup {"/", " ", "?", "=", "&", "%", "0", "1", "2", "3", "6", "HTTP/1.1", "unset"}
Text == Seq(Characters)

(* A text is parsed part by part. *)
LEMMA ParseConcat ==
    ASSUME NEW s, NEW t \in Text, NEW u \in Text
    PROVE  Parse(s, t \o u) = Parse(Parse(s, t), u)
  <1> DEFINE m == Len(t)
             n == Len(u)
             v == t \o u
  <1>1. /\ m \in Nat /\ n \in Nat /\ m + n \in Nat
        /\ DOMAIN t = 1..m /\ DOMAIN u = 1..n /\ DOMAIN v = 1..m + n
        /\ \A i \in 1..m : v[i] = t[i]
        /\ \A i \in 1..n : v[m + i] = u[i]
    <2>1. m \in Nat /\ n \in Nat /\ DOMAIN t = 1..m /\ DOMAIN u = 1..n
      BY LenProperties DEF Text
    <2>2. v \in Seq(Characters) /\ Len(v) = m + n
          /\ \A i \in 1..m + n : v[i] = IF i <= m THEN t[i] ELSE u[i - m]
      BY ConcatProperties DEF Text
    <2>3. DOMAIN v = 1..m + n
      BY <2>2, LenProperties
    <2> HIDE DEF m, n, v
    <2>4. ASSUME NEW i \in 1..n PROVE v[m + i] = u[i]
      <3>1. m + i \in 1..m + n /\ ~(m + i <= m) /\ (m + i) - m = i
        BY <2>1
      <3> QED  BY <2>2, <3>1
    <2>5. \A i \in 1..m : v[i] = t[i]
      BY <2>1, <2>2
    <2> QED  BY <2>1, <2>3, <2>4, <2>5
  <1> HIDE DEF m, n, v
  <1>a. m + n \in Nat /\ DOMAIN v = 1..m + n
    BY <1>1
  <1>2. PICK st : Steps(st, s, v, m + n) /\ Parse(s, v) = st[m + n]
    BY <1>a, ParseSteps, Zenon
  <1>b. m \in Nat /\ DOMAIN t = 1..m
    BY <1>1
  <1>3. PICK a : Steps(a, s, t, m) /\ Parse(s, t) = a[m]
    BY <1>b, ParseSteps, Zenon
  <1>4. Steps(st, s, v, m)
    BY <1>1, <1>2 DEF Steps
  <1>5. st[m] = Parse(s, t)
    BY <1>1, <1>3, <1>4, StepsAgree
  <1> DEFINE r == Parse(s, t)
             c == [i \in 0..n |-> st[m + i]]
  <1>6. st[m] = r
    BY <1>5
  <1> HIDE DEF r
  <1>c. n \in Nat /\ DOMAIN u = 1..n
    BY <1>1
  <1>7. PICK b : Steps(b, r, u, n) /\ Parse(r, u) = b[n]
    BY <1>c, ParseSteps, Zenon
  <1>8. Steps(c, r, u, n)
    <2>1. c[0] = r
      BY <1>1, <1>6
    <2>2. ASSUME NEW i \in 1..n PROVE c[i] = parseChar(c[i - 1], u[i])
      <3>1. m + i \in 1..m + n /\ (m + i) - 1 = m + (i - 1) /\ i \in 0..n /\ i - 1 \in 0..n
        BY <1>1
      <3>2. st[m + i] = parseChar(st[(m + i) - 1], v[m + i])
        BY <1>2, <3>1 DEF Steps
      <3> QED  BY <1>1, <3>1, <3>2
    <2> HIDE DEF c
    <2> QED  BY <2>1, <2>2 DEF Steps
  <1>9. c[n] = st[m + n]
    BY <1>1
  <1>10. c[n] = b[n]
    <2> HIDE DEF c
    <2> QED  BY <1>1, <1>7, <1>8, StepsAgree
  <1> QED  BY <1>2, <1>7, <1>9, <1>10 DEF r, v

(* A text of no character, ... *)
LEMMA ParseNone ==
    ASSUME NEW s
    PROVE  Parse(s, <<>>) = s
  <1>1. DOMAIN <<>> = 1..0
    OBVIOUS
  <1>2. PICK st : Steps(st, s, <<>>, 0) /\ Parse(s, <<>>) = st[0]
    BY <1>1, ParseSteps
  <1> QED  BY <1>2 DEF Steps

(* ... of one ... *)
LEMMA ParseOne ==
    ASSUME NEW s, NEW c
    PROVE  Parse(s, <<c>>) = parseChar(s, c)
  <1> DEFINE t == <<c>>
  <1>1. DOMAIN t = 1..1 /\ t[1] = c
    OBVIOUS
  <1> HIDE DEF t
  <1>2. PICK st : Steps(st, s, t, 1) /\ Parse(s, t) = st[1]
    BY <1>1, ParseSteps
  <1>3. 1 \in 1..1 /\ 1 - 1 = 0
    OBVIOUS
  <1>4. st[0] = s /\ st[1] = parseChar(st[0], c)
    BY <1>1, <1>2, <1>3 DEF Steps
  <1> QED  BY <1>2, <1>4 DEF t

(* ... and of three characters. *)
LEMMA ParseThree ==
    ASSUME NEW s, NEW c, NEW d, NEW e
    PROVE  Parse(s, <<c, d, e>>) = parseChar(parseChar(parseChar(s, c), d), e)
  <1> DEFINE t == <<c, d, e>>
  <1>1. DOMAIN t = 1..3 /\ t[1] = c /\ t[2] = d /\ t[3] = e
    OBVIOUS
  <1> HIDE DEF t
  <1>2. PICK st : Steps(st, s, t, 3) /\ Parse(s, t) = st[3]
    BY <1>1, ParseSteps
  <1>3. {1, 2, 3} \subseteq 1..3 /\ 1 - 1 = 0 /\ 2 - 1 = 1 /\ 3 - 1 = 2
    OBVIOUS
  <1>4. st[0] = s /\ st[1] = parseChar(st[0], c) /\ st[2] = parseChar(st[1], d) /\ st[3] = parseChar(st[2], e)
    BY <1>1, <1>2, <1>3 DEF Steps
  <1> QED  BY <1>2, <1>4 DEF t

AreJoined(joined, pieces, n) ==
    joined = [i \in 1..n |-> IF i = 1 THEN pieces[i] ELSE joined[i - 1] \o pieces[i]]

(* Joining pieces of text one after the other is well defined. *)
LEMMA JoinedExists ==
    ASSUME NEW pieces, NEW n \in Nat
    PROVE  \E joined : AreJoined(joined, pieces, n)
  <1> DEFINE Bad == {k \in Nat : ~\E f : AreJoined(f, pieces, k)}
  <1>1. ASSUME NEW k \in Nat, NEW f, AreJoined(f, pieces, k)
        PROVE  \E g : AreJoined(g, pieces, k + 1)
    <2> DEFINE g == [i \in 1..k + 1 |-> IF i # k + 1 THEN f[i]
                                       ELSE IF i = 1 THEN pieces[i] ELSE f[i - 1] \o pieces[i]]
    <2>1. \A i \in 1..k : f[i] = IF i = 1 THEN pieces[i] ELSE f[i - 1] \o pieces[i]
      BY <1>1 DEF AreJoined
    <2>2. \A i \in 1..k : i \in 1..k + 1 /\ i # k + 1
      OBVIOUS
    <2>3. \A i \in 1..k : g[i] = f[i]
      BY <2>2
    <2>4. k + 1 \in 1..k + 1
      OBVIOUS
    <2>5. g[k + 1] = IF k + 1 = 1 THEN pieces[k + 1] ELSE f[(k + 1) - 1] \o pieces[k + 1]
      BY <2>4
    <2>6. g = [i \in 1..k + 1 |-> g[i]]
      OBVIOUS
    <2> HIDE DEF g
    <2>7. ASSUME NEW i \in 1..k + 1
          PROVE  g[i] = IF i = 1 THEN pieces[i] ELSE g[i - 1] \o pieces[i]
      <3>1. CASE i = k + 1
        <4>1. i # 1 => i - 1 \in 1..k
          BY <3>1
        <4>2. i # 1 => g[i - 1] = f[i - 1]
          BY <2>3, <4>1
        <4> QED  BY <2>5, <3>1, <4>2
      <3>2. CASE i # k + 1
        <4>1. i \in 1..k /\ (i # 1 => i - 1 \in 1..k)
          BY <3>2
        <4>2. g[i] = f[i] /\ (i # 1 => g[i - 1] = f[i - 1])
          BY <2>3, <4>1
        <4> QED  BY <2>1, <4>1, <4>2
      <3> QED  BY <3>1, <3>2
    <2>8. AreJoined(g, pieces, k + 1)
      BY <2>6, <2>7 DEF AreJoined
    <2> QED  BY <2>8
  <1>2. \E f : AreJoined(f, pieces, 0)
    <2> DEFINE f == [i \in 1..0 |-> pieces[i]]
    <2>1. 1..0 = {}
      OBVIOUS
    <2>2. AreJoined(f, pieces, 0)
      BY <2>1 DEF AreJoined
    <2> QED  BY <2>2
  <1>3. Bad = {}
    <2> SUFFICES ASSUME Bad # {} PROVE FALSE
      OBVIOUS
    <2>0. Bad \in SUBSET Nat
      OBVIOUS
    <2>1. PICK k \in Bad : \A j \in Bad : k <= j
      <3> HIDE DEF Bad
      <3> QED  BY <2>0, LeastNumber
    <2>2. k # 0 /\ k \in Nat
      BY <1>2
    <2>3. k - 1 \in Nat /\ (k - 1) + 1 = k /\ ~(k <= k - 1)
      BY <2>2
    <2>4. k - 1 \notin Bad
      <3> HIDE DEF Bad
      <3> QED  BY <2>1, <2>3
    <2> QED  BY <1>1, <2>2, <2>3, <2>4
  <1> QED  BY <1>3

(* The states of the parser, after each piece of a text. *)
Pieces(st, s, pieces, n) == st[0] = s /\ \A i \in 1..n : st[i] = Parse(st[i - 1], pieces[i])

(* The pieces of a text are parsed one after the other. *)
LEMMA ParsePieces ==
    ASSUME NEW s, NEW n \in Nat, NEW pieces \in Seq(Text), Len(pieces) = n
    PROVE  /\ FlattenSeq(pieces) \in Text
           /\ \E st : Pieces(st, s, pieces, n) /\ Parse(s, FlattenSeq(pieces)) = st[n]
  <1>0. DOMAIN pieces = 1..n /\ \A i \in 1..n : pieces[i] \in Text
    BY LenProperties
  <1>1. CASE n = 0
    <2>1. pieces = <<>>
      BY <1>1, EmptySeq
    <2>2. FlattenSeq(pieces) = <<>>
      BY <1>1, <2>1 DEF FlattenSeq
    <2> DEFINE st == [i \in {0} |-> s]
    <2>3. st[0] = s /\ 1..n = {} /\ Parse(s, FlattenSeq(pieces)) = st[n]
      BY <1>1, <2>2, ParseNone
    <2>4. <<>> \in Text
      BY DEF Text
    <2> HIDE DEF st
    <2>5. Pieces(st, s, pieces, n)
      BY <2>3 DEF Pieces
    <2> QED  BY <2>2, <2>3, <2>4, <2>5
  <1>2. CASE n # 0
    <2> DEFINE joined == CHOOSE f : AreJoined(f, pieces, n)
               st == [i \in 0..n |-> IF i = 0 THEN s ELSE Parse(s, joined[i])]
    <2>1. AreJoined(joined, pieces, n)
      BY JoinedExists
    <2>2. FlattenSeq(pieces) = joined[n]
      BY <1>2, Zenon DEF FlattenSeq, AreJoined
    <2> HIDE DEF joined
    <2>3. \A i \in 1..n : joined[i] = IF i = 1 THEN pieces[i] ELSE joined[i - 1] \o pieces[i]
      BY <2>1 DEF AreJoined
    <2>4. \A i \in 1..n : joined[i] \in Text
      <3> DEFINE Bad == {i \in 1..n : joined[i] \notin Text}
      <3>1. SUFFICES ASSUME Bad # {} PROVE FALSE
        OBVIOUS
      <3>2. Bad \in SUBSET Nat
        OBVIOUS
      <3>3. PICK k \in Bad : \A j \in Bad : k <= j
        <4> HIDE DEF Bad
        <4> QED  BY <3>1, <3>2, LeastNumber
      <3>4. k \in 1..n /\ k # 1 /\ joined[k] \notin Text
        BY <1>0, <2>3, <3>3
      <3>5. k - 1 \in 1..n /\ ~(k <= k - 1)
        BY <3>4
      <3>6. k - 1 \notin Bad
        <4> HIDE DEF Bad
        <4> QED  BY <3>3, <3>5
      <3>7. joined[k - 1] \in Text /\ pieces[k] \in Text
        BY <1>0, <3>4, <3>5, <3>6
      <3>8. joined[k - 1] \o pieces[k] \in Text
        BY <3>7, ConcatProperties DEF Text
      <3> QED  BY <2>3, <3>4, <3>8
    <2>5. ASSUME NEW i \in 1..n PROVE st[i] = Parse(st[i - 1], pieces[i])
      <3>1. i \in 0..n /\ i # 0 /\ i - 1 \in 0..n /\ (i # 1 => i - 1 \in 1..n /\ i - 1 # 0)
        OBVIOUS
      <3>2. st[i] = Parse(s, joined[i])
        BY <3>1
      <3>3. CASE i = 1
        <4>1. st[i - 1] = s
          BY <3>3
        <4> QED  BY <2>3, <3>2, <3>3, <4>1
      <3>4. CASE i # 1
        <4>1. st[i - 1] = Parse(s, joined[i - 1])
          BY <3>1, <3>4
        <4>2. joined[i - 1] \in Text /\ pieces[i] \in Text
          BY <1>0, <2>4, <3>1, <3>4
        <4>3. Parse(s, joined[i - 1] \o pieces[i]) = Parse(Parse(s, joined[i - 1]), pieces[i])
          BY <4>2, ParseConcat
        <4> QED  BY <2>3, <3>2, <3>4, <4>1, <4>3
      <3> QED  BY <3>3, <3>4
    <2>6. st[0] = s /\ n \in 1..n /\ st[n] = Parse(s, joined[n])
      BY <1>2
    <2> HIDE DEF st
    <2>7. Pieces(st, s, pieces, n)
      BY <2>5, <2>6 DEF Pieces
    <2> QED  BY <2>2, <2>4, <2>6, <2>7
  <1> QED  BY <1>1, <1>2

-----------------------------------------------------------------------------
(* The characters of a value. *)

Queries == [path : Text, params : [Names -> Text], hashes : Seq(Text)]
ParserStates ==
    [status : {"PATH", "PARAM", "VALUE", "END"}, param : Text, value : Text, percent : 0..2,
     digits : Text, query : Queries]

Chars == [is : STRING, coded : BOOLEAN]
GoodChar(c) ==
    /\ c \in Chars
    /\ IF c.coded THEN c.is \in DOMAIN Hex ELSE c.is \notin {" ", "=", "&", "%"}

(* Between two characters of a value the parser is in no code. *)
InValue(s) == s \in ParserStates /\ s.status = "VALUE" /\ s.percent = 0

(* A function on the numbers up to n is a sequence. *)
LEMMA FunctionSeq ==
    ASSUME NEW S, NEW n \in Nat, NEW f \in [1..n -> S]
    PROVE  f \in Seq(S) /\ Len(f) = n
  <1>1. f \in Seq(S)
    BY SeqDef
  <1>2. DOMAIN f = 1..n /\ DOMAIN f = 1..Len(f) /\ Len(f) \in Nat
    BY <1>1, LenProperties
  <1> QED  BY <1>1, <1>2

(* Sequences of up to three elements. *)
LEMMA ShortSequences ==
    ASSUME NEW S, NEW a \in S, NEW b \in S, NEW c \in S
    PROVE  /\ <<a>> \in Seq(S) /\ <<a, b>> \in Seq(S) /\ <<a, b, c>> \in Seq(S)
           /\ <<a>> \o <<b>> = <<a, b>> /\ <<a>> \o <<b, c>> = <<a, b, c>>
  <1> DEFINE x == <<a>>
             y == <<b>>
             xy == <<a, b>>
             yz == <<b, c>>
             xyz == <<a, b, c>>
  <1>1. /\ x = [i \in 1..1 |-> x[i]] /\ y = [i \in 1..1 |-> y[i]] /\ xy = [i \in 1..2 |-> xy[i]]
        /\ yz = [i \in 1..2 |-> yz[i]] /\ xyz = [i \in 1..3 |-> xyz[i]]
    OBVIOUS
  <1>2. /\ x[1] = a /\ y[1] = b /\ xy[1] = a /\ xy[2] = b /\ yz[1] = b /\ yz[2] = c
        /\ xyz[1] = a /\ xyz[2] = b /\ xyz[3] = c
    OBVIOUS
  <1> HIDE DEF x, y, xy, yz, xyz
  <1>3. 1..1 = {1} /\ 1..2 = {1, 2} /\ 1..3 = {1, 2, 3}
    OBVIOUS
  <1>4. /\ x \in [1..1 -> S] /\ y \in [1..1 -> S] /\ xy \in [1..2 -> S] /\ yz \in [1..2 -> S]
        /\ xyz \in [1..3 -> S]
    BY <1>1, <1>2, <1>3
  <1>6. /\ x \in Seq(S) /\ y \in Seq(S) /\ xy \in Seq(S) /\ yz \in Seq(S) /\ xyz \in Seq(S)
        /\ Len(x) = 1 /\ Len(y) = 1 /\ Len(xy) = 2 /\ Len(yz) = 2 /\ Len(xyz) = 3
    BY <1>4, FunctionSeq
  <1>7. x \o y = xy
    <2>1. x \o y \in Seq(S) /\ Len(x \o y) = 2 /\ \A i \in 1..2 : (x \o y)[i] = IF i <= 1 THEN x[i] ELSE y[i - 1]
      <3>1. x \o y \in Seq(S) /\ Len(x \o y) = Len(x) + Len(y)
            /\ \A i \in 1..Len(x) + Len(y) : (x \o y)[i] = IF i <= Len(x) THEN x[i] ELSE y[i - Len(x)]
        BY <1>6, ConcatProperties
      <3>2. 1 + 1 = 2
        OBVIOUS
      <3> QED  BY <1>6, <3>1, <3>2
    <2>2. \A i \in 1..2 : (x \o y)[i] = xy[i]
      BY <1>2, <1>3, <2>1
    <2> QED  BY <1>6, <2>1, <2>2, SeqEqual
  <1>8. x \o yz = xyz
    <2>1. x \o yz \in Seq(S) /\ Len(x \o yz) = 3 /\ \A i \in 1..3 : (x \o yz)[i] = IF i <= 1 THEN x[i] ELSE yz[i - 1]
      <3>1. x \o yz \in Seq(S) /\ Len(x \o yz) = Len(x) + Len(yz)
            /\ \A i \in 1..Len(x) + Len(yz) : (x \o yz)[i] = IF i <= Len(x) THEN x[i] ELSE yz[i - Len(x)]
        BY <1>6, ConcatProperties
      <3>2. 1 + 2 = 3
        OBVIOUS
      <3> QED  BY <1>6, <3>1, <3>2
    <2>2. \A i \in 1..3 : (x \o yz)[i] = xyz[i]
      BY <1>2, <1>3, <2>1
    <2> QED  BY <1>6, <2>1, <2>2, SeqEqual
  <1> QED  BY <1>6, <1>7, <1>8 DEF x, y, xy, yz, xyz

(* So texts of up to three characters are texts. *)
LEMMA ShortTexts ==
    ASSUME NEW a \in Characters, NEW b \in Characters, NEW c \in Characters
    PROVE  /\ <<a>> \in Text /\ <<a, b>> \in Text /\ <<a, b, c>> \in Text
           /\ <<a>> \o <<b>> = <<a, b>> /\ <<a>> \o <<b, c>> = <<a, b, c>>
  BY ShortSequences DEF Text

(* The codes of the three characters, and what they stand for. *)
LEMMA HexIs ==
    /\ DOMAIN Hex = {"0", "1", "&"}
    /\ Hex["0"] = <<"3", "0">> /\ Hex["1"] = <<"3", "1">> /\ Hex["&"] = <<"2", "6">>
    /\ \A c \in DOMAIN Hex : Decoded(Hex[c]) = c
  <1>1. DOMAIN Hex = {"0", "1", "&"}
    BY DEF Hex
  <1>2. Hex["0"] = <<"3", "0">> /\ Hex["1"] = <<"3", "1">> /\ Hex["&"] = <<"2", "6">>
    BY DEF Hex
  <1>3. <<"3", "0">> # <<"3", "1">> /\ <<"3", "0">> # <<"2", "6">> /\ <<"3", "1">> # <<"2", "6">>
    OBVIOUS
  <1>4. \A c \in DOMAIN Hex, d \in DOMAIN Hex : Hex[c] = Hex[d] => c = d
    BY <1>1, <1>2, <1>3
  <1>5. ASSUME NEW c \in DOMAIN Hex PROVE Decoded(Hex[c]) = c
    <2>1. \E d \in DOMAIN Hex : Hex[d] = Hex[c]
      OBVIOUS
    <2>2. Decoded(Hex[c]) \in DOMAIN Hex /\ Hex[Decoded(Hex[c])] = Hex[c]
      BY <2>1, Zenon DEF Decoded
    <2> QED  BY <1>4, <2>2
  <1> QED  BY <1>1, <1>2, <1>5

(* A character in a value goes to ValueChar. *)
LEMMA ValueCharIs ==
    ASSUME NEW s, s.status = "VALUE", NEW c, c \notin {" ", "=", "&"}
    PROVE  parseChar(s, c) = ValueChar(s, c)
  BY DEF parseChar

(* A character of a value, in its code or not, is read as one, unless the    *)
(* value is full.                                                            *)
LEMMA CharRead ==
    ASSUME NEW s, InValue(s), NEW c, GoodChar(c)
    PROVE  LET t == Parse(s, Encoded(c)) IN
            /\ InValue(t) /\ t.param = s.param /\ t.query = s.query
            /\ t.value = IF Len(s.value) < URI_PARAM_VALUE_LENGTH THEN Append(s.value, c.is) ELSE s.value
  <1> DEFINE t == Parse(s, Encoded(c))
  <1>0. /\ URI_PARAM_VALUE_LENGTH \in Nat /\ Len(s.value) \in Nat /\ s.value \in Text
        /\ c.is \in Characters /\ c.coded \in BOOLEAN
    <2>1. s.value \in Text /\ c.is \in Characters /\ c.coded \in BOOLEAN
      BY DEF InValue, ParserStates, GoodChar, Chars, Characters
    <2>2. Len(s.value) \in Nat
      BY <2>1, LenProperties DEF Text
    <2> QED  BY <2>1, <2>2, UriAssumption
  <1>00. s.status = "VALUE" /\ s.percent = 0 /\ s \in ParserStates
    BY DEF InValue
  <1>1. Append(s.value, c.is) \in Text
    BY <1>0 DEF Text
  <1>2. CASE ~c.coded
    <2>1. Encoded(c) = <<c.is>> /\ c.is \notin {" ", "=", "&"} /\ c.is # "%"
      BY <1>2 DEF Encoded, GoodChar
    <2>2. t = ValueChar(s, c.is)
      <3>1. t = parseChar(s, c.is)
        BY <2>1, ParseOne
      <3>2. parseChar(s, c.is) = ValueChar(s, c.is)
        BY <1>00, <2>1, ValueCharIs
      <3> QED  BY <3>1, <3>2
    <2>3. CASE Len(s.value) >= URI_PARAM_VALUE_LENGTH
      <3>1. t = s
        BY <2>2, <2>3 DEF ValueChar
      <3> QED  BY <1>0, <2>3, <3>1
    <2>4. CASE Len(s.value) < URI_PARAM_VALUE_LENGTH
      <3>1. t = [s EXCEPT !.value = Append(@, c.is)]
        <4> HIDE DEF t
        <4>1. ~(Len(s.value) >= URI_PARAM_VALUE_LENGTH)
          BY <1>0, <2>4
        <4>2. s.percent # 1 /\ s.percent # 2
          BY <1>00
        <4> QED  BY <2>1, <2>2, <4>1, <4>2, Zenon DEF ValueChar
      <3> HIDE DEF t
      <3>2. InValue(t) /\ t.param = s.param /\ t.query = s.query /\ t.value = Append(s.value, c.is)
        BY <1>1, <3>1 DEF InValue, ParserStates
      <3> QED  BY <2>4, <3>2 DEF t
    <2> QED  BY <1>0, <2>3, <2>4
  <1>3. CASE c.coded
    <2>0. c.is \in DOMAIN Hex
      BY <1>3 DEF GoodChar
    <2>1. PICK d \in {"2", "3"}, e \in {"0", "1", "6"} : Hex[c.is] = <<d, e>>
      BY <2>0, HexIs
    <2>2. Encoded(c) = <<"%", d, e>>
      <3> DEFINE x == "%"
      <3>0. x \in Characters /\ d \in Characters /\ e \in Characters
        BY DEF Characters
      <3> HIDE DEF x
      <3>01. <<x>> \o <<d, e>> = <<x, d, e>>
        BY <3>0, ShortTexts
      <3>1. <<"%">> \o <<d, e>> = <<"%", d, e>>
        BY <3>01 DEF x
      <3> QED  BY <1>3, <2>1, <3>1 DEF Encoded
    <2> DEFINE a == parseChar(s, "%")
               b == parseChar(a, d)
    <2>3. t = parseChar(b, e)
      BY <2>2, ParseThree
    <2>4. a = ValueChar(s, "%")
      BY ValueCharIs DEF InValue
    <2>5. CASE Len(s.value) >= URI_PARAM_VALUE_LENGTH
      <3>1. a = s
        BY <2>4, <2>5 DEF ValueChar
      <3>2. b = s
        BY <2>5, <3>1, ValueCharIs DEF ValueChar, InValue
      <3>3. t = s
        BY <2>3, <2>5, <3>2, ValueCharIs DEF ValueChar, InValue
      <3> QED  BY <1>0, <2>5, <3>3
    <2>6. CASE Len(s.value) < URI_PARAM_VALUE_LENGTH
      <3> HIDE DEF a, b, t
      <3>1. a = [s EXCEPT !.percent = 1]
        <4>1. ~(Len(s.value) >= URI_PARAM_VALUE_LENGTH)
          BY <1>0, <2>6
        <4> QED  BY <2>4, <4>1 DEF ValueChar
      <3>2. a \in ParserStates /\ a.status = "VALUE" /\ a.percent = 1 /\ a.value = s.value
            /\ a.param = s.param /\ a.query = s.query
        BY <3>1 DEF InValue, ParserStates
      <3>3. b = ValueChar(a, d)
        BY <3>2, ValueCharIs DEF b
      <3>4. b = [a EXCEPT !.percent = 2, !.digits = <<d>>]
        <4>1. ~(Len(a.value) >= URI_PARAM_VALUE_LENGTH)
          BY <1>0, <2>6, <3>2
        <4> QED  BY <3>2, <3>3, <4>1 DEF ValueChar
      <3>5. <<d>> \in Text /\ <<d>> \o <<e>> = <<d, e>>
        <4>1. d \in Characters /\ e \in Characters
          BY DEF Characters
        <4> QED  BY <4>1, ShortTexts
      <3>6. b \in ParserStates /\ b.status = "VALUE" /\ b.percent = 2 /\ b.value = s.value
            /\ b.param = s.param /\ b.query = s.query /\ b.digits = <<d>>
        <4> DEFINE x == <<d>>
        <4>1. x \in Text /\ b = [a EXCEPT !.percent = 2, !.digits = x] /\ 2 \in 0..2
          BY <3>4, <3>5
        <4> HIDE DEF x
        <4>2. b \in ParserStates /\ b.status = "VALUE" /\ b.percent = 2 /\ b.value = s.value
              /\ b.param = s.param /\ b.query = s.query /\ b.digits = x
          BY <3>2, <4>1 DEF ParserStates
        <4> QED  BY <4>2 DEF x
      <3>7. t = ValueChar(b, e)
        BY <2>3, <3>6, ValueCharIs
      <3>8. b.digits \o <<e>> = Hex[c.is]
        BY <2>1, <3>5, <3>6
      <3>9. t = [b EXCEPT !.percent = 0, !.value = Append(@, c.is)]
        <4>1. Decoded(b.digits \o <<e>>) = c.is
          BY <2>0, <3>8, HexIs
        <4>2. ~(Len(b.value) >= URI_PARAM_VALUE_LENGTH)
          BY <1>0, <2>6, <3>6
        <4>3. e # "%" /\ b.percent # 1 /\ b.percent = 2
          BY <3>6
        <4> QED  BY <3>7, <4>1, <4>2, <4>3, Zenon DEF ValueChar
      <3>10. InValue(t) /\ t.param = s.param /\ t.query = s.query /\ t.value = Append(s.value, c.is)
        BY <1>1, <3>6, <3>9 DEF InValue, ParserStates
      <3> QED  BY <2>6, <3>10 DEF t
    <2> QED  BY <1>0, <2>5, <2>6
  <1> QED  BY <1>0, <1>2, <1>3

(* The code of a character is a text. *)
LEMMA EncodedIs ==
    ASSUME NEW c, GoodChar(c)
    PROVE  Encoded(c) \in Text
  <1>1. c.is \in Characters /\ c.coded \in BOOLEAN
    BY DEF GoodChar, Chars, Characters
  <1>2. CASE ~c.coded
    <2>1. <<c.is>> \in Text
      BY <1>1, ShortTexts
    <2> QED  BY <1>2, <2>1 DEF Encoded
  <1>3. CASE c.coded
    <2>1. PICK d \in {"2", "3"}, e \in {"0", "1", "6"} : Hex[c.is] = <<d, e>>
      BY <1>3, HexIs DEF GoodChar
    <2> DEFINE x == "%"
    <2>2. x \in Characters /\ d \in Characters /\ e \in Characters
      BY DEF Characters
    <2>3. Encoded(c) = <<x>> \o <<d, e>>
      BY <1>3, <2>1 DEF Encoded
    <2> HIDE DEF x
    <2>4. <<x>> \o <<d, e>> \in Text
      BY <2>2, ShortTexts
    <2> QED  BY <2>3, <2>4
  <1> QED  BY <1>1, <1>2, <1>3

(* What is read of a value after i of its characters. *)
Cut(v, i) == [j \in 1..Smallest(i, URI_PARAM_VALUE_LENGTH) |-> v[j].is]

(* It grows until it is full. *)
LEMMA CutGrows ==
    ASSUME NEW v \in Seq(Chars), NEW i \in 0..Len(v)
    PROVE  /\ Cut(v, i) \in Text /\ Len(Cut(v, i)) = Smallest(i, URI_PARAM_VALUE_LENGTH)
           /\ i < Len(v) => Cut(v, i + 1) = IF Len(Cut(v, i)) < URI_PARAM_VALUE_LENGTH
                                          THEN Append(Cut(v, i), v[i + 1].is) ELSE Cut(v, i)
  <1> DEFINE n == Len(v)
             L == URI_PARAM_VALUE_LENGTH
  <1>1. n \in Nat /\ L \in Nat \ {0} /\ i \in 0..n
    BY UriAssumption, LenProperties
  <1>2. \A j \in 1..n : v[j].is \in Characters
    <2>1. \A j \in 1..n : v[j] \in Chars
      BY ElementOfSeq
    <2> QED  BY <2>1 DEF Chars, Characters
  <1> HIDE DEF n, L
  <1>3. ASSUME NEW k \in 0..n
        PROVE  /\ Cut(v, k) \in Seq(Characters) /\ Len(Cut(v, k)) = Smallest(k, L)
               /\ \A j \in 1..Smallest(k, L) : Cut(v, k)[j] = v[j].is
               /\ Smallest(k, L) \in Nat
    <2> DEFINE m == Smallest(k, L)
               f == [j \in 1..m |-> v[j].is]
    <2>1. m \in Nat /\ m <= n
      BY <1>1 DEF Smallest
    <2> HIDE DEF m
    <2>2. f \in [1..m -> Characters]
      <3>1. \A j \in 1..m : v[j].is \in Characters
        BY <1>1, <1>2, <2>1
      <3> QED  BY <3>1
    <2>3. f \in Seq(Characters) /\ Len(f) = m
      BY <2>1, <2>2, FunctionSeq
    <2>4. Cut(v, k) = f
      BY DEF Cut, m, L
    <2>5. \A j \in 1..m : f[j] = v[j].is
      OBVIOUS
    <2> HIDE DEF f
    <2> QED  BY <2>1, <2>3, <2>4, <2>5 DEF m
  <1>4. ASSUME i < n
        PROVE  Cut(v, i + 1) = IF Len(Cut(v, i)) < L THEN Append(Cut(v, i), v[i + 1].is) ELSE Cut(v, i)
    <2> DEFINE a == Cut(v, i)
               b == Cut(v, i + 1)
               e == v[i + 1].is
    <2>1. i + 1 \in 0..n /\ i + 1 \in 1..n
      BY <1>1, <1>4
    <2>2. a \in Seq(Characters) /\ Len(a) = Smallest(i, L) /\ \A j \in 1..Smallest(i, L) : a[j] = v[j].is
      BY <1>1, <1>3
    <2>3. /\ b \in Seq(Characters) /\ Len(b) = Smallest(i + 1, L)
          /\ \A j \in 1..Smallest(i + 1, L) : b[j] = v[j].is
      BY <1>3, <2>1
    <2>4. e \in Characters
      BY <1>2, <2>1
    <2> HIDE DEF a, b, e
    <2>5. CASE i < L
      <3>1. Smallest(i, L) = i /\ Smallest(i + 1, L) = i + 1
        BY <1>1, <2>5 DEF Smallest
      <3>2. /\ Append(a, e) \in Seq(Characters) /\ Len(Append(a, e)) = i + 1
            /\ \A j \in 1..i : Append(a, e)[j] = a[j]
            /\ Append(a, e)[i + 1] = e
        BY <2>2, <2>4, <3>1, AppendProperties
      <3>3. \A j \in 1..i + 1 : b[j] = Append(a, e)[j]
        <4>1. ASSUME NEW j \in 1..i + 1 PROVE b[j] = Append(a, e)[j]
          <5>1. CASE j = i + 1
            BY <2>3, <3>1, <3>2, <5>1 DEF e
          <5>2. CASE j # i + 1
            <6>1. j \in 1..i
              BY <1>1, <5>2
            <6> QED  BY <2>2, <2>3, <3>1, <3>2, <6>1
          <5> QED  BY <5>1, <5>2
        <4> QED  BY <4>1
      <3>4. b = Append(a, e)
        BY <2>3, <3>1, <3>2, <3>3, SeqEqual
      <3> QED  BY <2>2, <2>5, <3>1, <3>4 DEF a, b, e
    <2>6. CASE ~(i < L)
      <3>1. Smallest(i, L) = L /\ Smallest(i + 1, L) = L
        BY <1>1, <2>6 DEF Smallest
      <3>2. a = b
        BY <2>2, <2>3, <3>1, SeqEqual
      <3> QED  BY <1>1, <2>2, <3>1, <3>2 DEF a, b
    <2> QED  BY <2>5, <2>6
  <1> QED  BY <1>1, <1>3, <1>4 DEF Text, n, L

(* A value is read up to the length of the buffer. *)
LEMMA ValueRead ==
    ASSUME NEW s, InValue(s), s.value = <<>>,
           NEW v \in Seq(Chars), \A j \in DOMAIN v : GoodChar(v[j])
    PROVE  LET text == FlattenSeq([i \in DOMAIN v |-> Encoded(v[i])])
               t == Parse(s, text)
           IN  /\ text \in Text
               /\ InValue(t) /\ t.param = s.param /\ t.query = s.query /\ t.value = Plain(v)
  <1> DEFINE n == Len(v)
             pieces == [i \in DOMAIN v |-> Encoded(v[i])]
             text == FlattenSeq(pieces)
             t == Parse(s, text)
  <1>1. n \in Nat /\ DOMAIN v = 1..n
    BY LenProperties
  <1>2. pieces \in [1..n -> Text]
    BY <1>1, EncodedIs
  <1>3. pieces \in Seq(Text) /\ Len(pieces) = n /\ \A i \in 1..n : pieces[i] = Encoded(v[i])
    <2>1. \A i \in 1..n : pieces[i] = Encoded(v[i])
      BY <1>1
    <2> HIDE DEF pieces, n
    <2> QED  BY <1>1, <1>2, <2>1, FunctionSeq
  <1> HIDE DEF pieces
  <1>4. /\ text \in Text
        /\ \E st : Pieces(st, s, pieces, n) /\ t = st[n]
    <2> HIDE DEF n
    <2>1. n \in Nat /\ pieces \in Seq(Text) /\ Len(pieces) = n
      BY <1>1, <1>3
    <2>2. /\ FlattenSeq(pieces) \in Text
          /\ \E st : Pieces(st, s, pieces, n) /\ Parse(s, FlattenSeq(pieces)) = st[n]
      BY <2>1, ParsePieces
    <2> QED  BY <2>2
  <1>5. PICK st : /\ st[0] = s /\ \A i \in 1..n : st[i] = Parse(st[i - 1], pieces[i])
                  /\ t = st[n]
    <2> HIDE DEF text, t, n
    <2> QED  BY <1>4 DEF Pieces
  <1> DEFINE Ok(i) == InValue(st[i]) /\ st[i].param = s.param /\ st[i].query = s.query /\ st[i].value = Cut(v, i)
             Bad == {i \in 0..n : ~Ok(i)}
  <1>6. Ok(0)
    <2>1. Cut(v, 0) \in Text /\ Len(Cut(v, 0)) = 0
      <3>1. 0 \in 0..Len(v)
        BY <1>1
      <3>2. Smallest(0, URI_PARAM_VALUE_LENGTH) = 0
        BY UriAssumption DEF Smallest
      <3> QED  BY <3>1, <3>2, CutGrows
    <2>2. Cut(v, 0) = <<>>
      BY <2>1, EmptySeq DEF Text
    <2> QED  BY <1>5, <2>2
  <1>7. ASSUME NEW i \in 0..n, i < n, Ok(i) PROVE Ok(i + 1)
    <2>1. i + 1 \in 1..n /\ (i + 1) - 1 = i
      BY <1>1, <1>7
    <2>2. st[i + 1] = Parse(st[i], Encoded(v[i + 1]))
      BY <1>3, <1>5, <2>1
    <2>3. GoodChar(v[i + 1])
      BY <1>1, <2>1
    <2> DEFINE r == st[i]
               c == v[i + 1]
    <2>4. InValue(r) /\ GoodChar(c) /\ st[i + 1] = Parse(r, Encoded(c))
      BY <1>7, <2>2, <2>3
    <2> HIDE DEF r, c
    <2>5. /\ InValue(st[i + 1]) /\ st[i + 1].param = r.param /\ st[i + 1].query = r.query
          /\ st[i + 1].value = IF Len(r.value) < URI_PARAM_VALUE_LENGTH THEN Append(r.value, c.is) ELSE r.value
      BY <2>4, CharRead
    <2>6. Cut(v, i + 1) = IF Len(Cut(v, i)) < URI_PARAM_VALUE_LENGTH
                          THEN Append(Cut(v, i), v[i + 1].is) ELSE Cut(v, i)
      BY <1>7, CutGrows
    <2>7. r.param = s.param /\ r.query = s.query /\ r.value = Cut(v, i)
      BY <1>7 DEF r
    <2> QED  BY <2>5, <2>6, <2>7 DEF c
  <1>8. Bad = {}
    <2> HIDE DEF Ok
    <2> SUFFICES ASSUME Bad # {} PROVE FALSE
      OBVIOUS
    <2>0. Bad \in SUBSET Nat
      BY <1>1
    <2>1. PICK k \in Bad : \A j \in Bad : k <= j
      <3> HIDE DEF Bad
      <3> QED  BY <2>0, LeastNumber
    <2>2. k # 0 /\ k \in 0..n /\ ~Ok(k)
      BY <1>6, <2>1
    <2>3. k - 1 \in 0..n /\ k - 1 < n /\ (k - 1) + 1 = k /\ ~(k <= k - 1)
      BY <1>1, <2>2
    <2>4. k - 1 \notin Bad
      <3> HIDE DEF Bad
      <3> QED  BY <2>1, <2>3
    <2>5. Ok(k - 1)
      BY <2>3, <2>4
    <2> QED  BY <1>7, <2>2, <2>3, <2>5
  <1>9. Ok(n)
    <2>1. n \in 0..n
      BY <1>1
    <2> HIDE DEF Ok
    <2> QED  BY <1>8, <2>1
  <1>10. Plain(v) = Cut(v, n)
    BY DEF Plain, Cut
  <1> QED  BY <1>4, <1>5, <1>9, <1>10 DEF pieces

GoodField(f) ==
    /\ f \in [name : STRING, value : Seq(Chars)]
    /\ f.name \notin {" ", "=", "&"} /\ \A j \in DOMAIN f.value : GoodChar(f.value[j])

(* What a client may write. *)
LEMMA GoodRequest ==
    ASSUME NEW r \in Requests
    PROVE  /\ r.route \in Characters /\ r.route \notin {" ", "?"}
           /\ Len(r.fields) \in Nat /\ DOMAIN r.fields = 1..Len(r.fields)
           /\ \A i \in 1..Len(r.fields) : GoodField(r.fields[i])
  <1>1. /\ r.route \in STRING /\ r.route \notin {" ", "?"}
        /\ r.fields \in Seq([name : STRING, value : Seq(Chars)])
    BY RequestsAssumption DEF Chars
  <1>2. Len(r.fields) \in Nat /\ DOMAIN r.fields = 1..Len(r.fields)
    BY <1>1, LenProperties
  <1>3. ASSUME NEW i \in 1..Len(r.fields) PROVE GoodField(r.fields[i])
    <2> DEFINE f == r.fields[i]
    <2>1. f \in [name : STRING, value : Seq(Chars)]
      BY <1>1, ElementOfSeq
    <2>2. i \in DOMAIN r.fields
      BY <1>2
    <2>3. /\ f.name \notin {" ", "=", "&"}
          /\ \A j \in DOMAIN f.value :
                IF f.value[j].coded THEN f.value[j].is \in DOMAIN Hex
                ELSE f.value[j].is \notin {" ", "=", "&", "%"}
      BY <2>2, RequestsAssumption
    <2> HIDE DEF f
    <2>4. f.value \in Seq(Chars)
      BY <2>1
    <2>5. ASSUME NEW j \in DOMAIN f.value PROVE GoodChar(f.value[j])
      <3>1. j \in 1..Len(f.value)
        BY <2>4, LenProperties
      <3>2. f.value[j] \in Chars
        BY <2>4, <3>1, ElementOfSeq
      <3> QED  BY <2>3, <3>2 DEF GoodChar
    <2> QED  BY <2>1, <2>3, <2>5 DEF GoodField, f
  <1> QED  BY <1>1, <1>2, <1>3 DEF Characters

(* A parameter is read with its value. *)
LEMMA ParameterRead ==
    ASSUME NEW s \in ParserStates, s.status = "PARAM", s.param = <<>>, s.percent = 0,
           NEW f, GoodField(f)
    PROVE  /\ Parameter(f) \in Text
           /\ LET t == Parse(s, Parameter(f)) IN
                InValue(t) /\ t.param = <<f.name>> /\ t.query = s.query /\ t.value = Plain(f.value)
  <1> DEFINE n == f.name
             v == f.value
             x == "="
             text == FlattenSeq([i \in DOMAIN v |-> Encoded(v[i])])
             a == parseChar(s, n)
             b == parseChar(a, x)
  <1>1. n \in Characters /\ n \notin {" ", "=", "&"} /\ x \in Characters
    BY DEF GoodField, Characters
  <1>2. v \in Seq(Chars) /\ \A j \in DOMAIN v : GoodChar(v[j])
    BY DEF GoodField
  <1>3. a = ParamChar(s, n)
    <2> HIDE DEF n
    <2> QED  BY <1>1 DEF parseChar
  <1>4. a = [s EXCEPT !.param = <<n>>]
    <2>1. Len(s.param) < URI_PARAM_VALUE_LENGTH
      BY UriAssumption
    <2>2. Append(s.param, n) = <<n>>
      OBVIOUS
    <2> HIDE DEF a, n
    <2> QED  BY <1>3, <2>1, <2>2 DEF ParamChar
  <1>5. <<n>> \in Text /\ <<x>> \in Text /\ <<n>> \o <<x>> = <<n, x>> /\ <<n, x>> \in Text
    BY <1>1, ShortTexts
  <1>6. a \in ParserStates /\ a.status = "PARAM" /\ a.percent = 0 /\ a.param = <<n>> /\ a.query = s.query
    <2> DEFINE y == <<n>>
    <2>1. y \in Text /\ a = [s EXCEPT !.param = y]
      BY <1>4, <1>5
    <2> HIDE DEF y, a
    <2>2. a \in ParserStates /\ a.status = "PARAM" /\ a.percent = 0 /\ a.param = y /\ a.query = s.query
      BY <2>1 DEF ParserStates
    <2> QED  BY <2>2 DEF y
  <1>7. b = [a EXCEPT !.value = <<>>, !.status = "VALUE"]
    <2> HIDE DEF a
    <2> QED  BY <1>6 DEF parseChar
  <1>8. InValue(b) /\ b.param = <<n>> /\ b.query = s.query /\ b.value = <<>>
    <2> DEFINE y == <<>>
    <2>1. y \in Text /\ b = [a EXCEPT !.value = y, !.status = "VALUE"]
      BY <1>7, EmptySeq DEF Text
    <2> HIDE DEF y, a, b
    <2>2. b \in ParserStates /\ b.status = "VALUE" /\ b.percent = 0 /\ b.param = a.param
          /\ b.query = a.query /\ b.value = y
      BY <1>6, <2>1 DEF ParserStates
    <2> QED  BY <1>6, <2>2 DEF y, InValue
  <1>9. Parse(s, <<n, x>>) = b
    <2>1. Parse(s, <<n>>) = a /\ Parse(a, <<x>>) = b
      BY ParseOne
    <2>2. Parse(s, <<n>> \o <<x>>) = Parse(Parse(s, <<n>>), <<x>>)
      BY <1>5, ParseConcat
    <2> QED  BY <1>5, <2>1, <2>2
  <1> HIDE DEF a, b, v
  <1>10. LET t == Parse(b, text) IN
            text \in Text /\ InValue(t) /\ t.param = b.param /\ t.query = b.query /\ t.value = Plain(v)
    BY <1>2, <1>8, ValueRead
  <1> HIDE DEF text
  <1>11. Parameter(f) = <<n, x>> \o text
    BY DEF Parameter, text, v
  <1> HIDE DEF n, x
  <1>12. Parameter(f) \in Text
    <2>1. <<n, x>> \o text \in Text
      BY <1>5, <1>10, ConcatProperties DEF Text
    <2> QED  BY <1>11, <2>1
  <1>13. Parse(s, Parameter(f)) = Parse(b, text)
    <2>1. Parse(s, <<n, x>> \o text) = Parse(Parse(s, <<n, x>>), text)
      BY <1>5, <1>10, ParseConcat
    <2> QED  BY <1>9, <1>11, <2>1
  <1> QED  BY <1>8, <1>10, <1>12, <1>13 DEF n, v

(* A parameter of a known name is stored, and an info_hash is added as well. *)
LEMMA GetParamIs ==
    ASSUME NEW q \in Queries, NEW name, NEW value \in Text
    PROVE  LET p == getParam(q, <<name>>, value) IN
            /\ p \in Queries
            /\ \A n \in Names : p.params[n] = IF n = name THEN value ELSE q.params[n]
            /\ p.hashes = IF name = "info_hash" THEN Append(q.hashes, value) ELSE q.hashes
  <1> DEFINE p == getParam(q, <<name>>, value)
             x == <<name>>
  <1>1. (\E n \in Names : x = <<n>>) <=> name \in Names
    OBVIOUS
  <1>2. Head(x) = name
    OBVIOUS
  <1>3. x = <<"info_hash">> <=> name = "info_hash"
    OBVIOUS
  <1>4. CASE name \notin Names
    <2>1. name # "info_hash"
      BY <1>4, UriAssumption
    <2>2. p = q
      BY <1>1, <1>4 DEF getParam
    <2> QED  BY <1>4, <2>1, <2>2
  <1>5. CASE name \in Names
    <2> DEFINE h == IF name = "info_hash" THEN Append(q.hashes, value) ELSE q.hashes
    <2>1. p = [q EXCEPT !.params[name] = value, !.hashes = h]
      <3> HIDE DEF x
      <3>1. getParam(q, x, value) = [q EXCEPT !.params[name] = value, !.hashes = h]
        BY <1>1, <1>2, <1>3, <1>5 DEF getParam
      <3> QED  BY <3>1 DEF x
    <2>2. h \in Seq(Text)
      <3>1. q.hashes \in Seq(Text)
        BY DEF Queries
      <3>2. Append(q.hashes, value) \in Seq(Text)
        BY <3>1, AppendProperties
      <3> QED  BY <3>1, <3>2
    <2> HIDE DEF p, h
    <2>3. /\ p \in Queries /\ p.hashes = h
          /\ \A n \in Names : p.params[n] = IF n = name THEN value ELSE q.params[n]
      BY <1>5, <2>1, <2>2 DEF Queries
    <2> QED  BY <2>3 DEF p, h
  <1> QED  BY <1>4, <1>5

-----------------------------------------------------------------------------
(* The parameters and the hashes of a query. *)

(* What a query knows of the first k fields. *)
NamedTo(fields, n, k) == {i \in 1..k : fields[i].name = n}
ReadUpTo(q, fields, k) ==
    /\ q \in Queries
    /\ \A n \in Names : q.params[n] =
        IF NamedTo(fields, n, k) = {} THEN Unset ELSE Plain(fields[Max(NamedTo(fields, n, k))].value)
    /\ Len(q.hashes) = Cardinality(NamedTo(fields, "info_hash", k))
    /\ \A i \in NamedTo(fields, "info_hash", k) :
        q.hashes[Cardinality(NamedTo(fields, "info_hash", i))] = Plain(fields[i].value)

(* One field more has the name, or not. *)
LEMMA NamedGrows ==
    ASSUME NEW fields, NEW n, NEW k \in Nat
    PROVE  /\ NamedTo(fields, n, k + 1) =
                IF fields[k + 1].name = n THEN NamedTo(fields, n, k) \cup {k + 1} ELSE NamedTo(fields, n, k)
           /\ NamedTo(fields, n, k) \in SUBSET (1..k) /\ k + 1 \notin NamedTo(fields, n, k)
           /\ IsFiniteSet(NamedTo(fields, n, k)) /\ Cardinality(NamedTo(fields, n, k)) \in Nat
  <1> DEFINE S == NamedTo(fields, n, k)
             T == NamedTo(fields, n, k + 1)
  <1>1. \A i : i \in 1..k + 1 <=> i \in 1..k \/ i = k + 1
    OBVIOUS
  <1>2. T = IF fields[k + 1].name = n THEN S \cup {k + 1} ELSE S
    BY <1>1 DEF NamedTo
  <1>3. S \in SUBSET (1..k) /\ k + 1 \notin S
    BY DEF NamedTo
  <1> HIDE DEF S, T
  <1>5. IsFiniteSet(S) /\ Cardinality(S) \in Nat
    <2>1. IsFiniteSet(1..k)
      BY FS_Interval
    <2>2. IsFiniteSet(S)
      BY <1>3, <2>1, FS_Subset
    <2> QED  BY <2>2, FS_CardinalityType
  <1> QED  BY <1>2, <1>3, <1>5 DEF S, T

(* The cases of it. *)
LEMMA NamedSame ==
    ASSUME NEW fields, NEW n, NEW k \in Nat, fields[k + 1].name # n
    PROVE  NamedTo(fields, n, k + 1) = NamedTo(fields, n, k)
  <1>1. NamedTo(fields, n, k + 1) =
            IF fields[k + 1].name = n THEN NamedTo(fields, n, k) \cup {k + 1} ELSE NamedTo(fields, n, k)
    BY NamedGrows
  <1> QED  BY <1>1, Zenon

LEMMA NamedUnion ==
    ASSUME NEW fields, NEW n, NEW k \in Nat, fields[k + 1].name = n
    PROVE  NamedTo(fields, n, k + 1) = NamedTo(fields, n, k) \cup {k + 1}
  <1>1. NamedTo(fields, n, k + 1) =
            IF fields[k + 1].name = n THEN NamedTo(fields, n, k) \cup {k + 1} ELSE NamedTo(fields, n, k)
    BY NamedGrows
  <1> QED  BY <1>1, Zenon

LEMMA NamedAdded ==
    ASSUME NEW fields, NEW n, NEW k \in Nat, fields[k + 1].name = n
    PROVE  /\ NamedTo(fields, n, k + 1) # {}
           /\ Max(NamedTo(fields, n, k + 1)) = k + 1
           /\ Cardinality(NamedTo(fields, n, k + 1)) = Cardinality(NamedTo(fields, n, k)) + 1
  <1>2. NamedTo(fields, n, k + 1) = NamedTo(fields, n, k) \cup {k + 1}
    BY NamedUnion, Zenon
  <1> DEFINE S == NamedTo(fields, n, k)
             T == NamedTo(fields, n, k + 1)
  <1>3. T \in SUBSET (1..k + 1)
    BY DEF NamedTo
  <1>4. S \in SUBSET (1..k) /\ k + 1 \notin S /\ IsFiniteSet(S) /\ T = S \cup {k + 1}
    BY <1>2, NamedGrows
  <1> HIDE DEF S, T
  <1>5. Cardinality(T) = Cardinality(S) + 1
    BY <1>4, FS_AddElement
  <1>6. Max(T) = k + 1
    <2>1. k + 1 \in Nat /\ T # {} /\ k + 1 \in T
      BY <1>4
    <2>2. Max(T) \in T /\ \A y \in T : y <= Max(T)
      BY <1>3, <2>1, MaxOf
    <2>3. Max(T) \in 1..k + 1 /\ k + 1 <= Max(T)
      BY <1>3, <2>1, <2>2
    <2> QED  BY <2>3
  <1> QED  BY <1>4, <1>5, <1>6 DEF S, T

(* Which is how the info_hashes are counted. *)
LEMMA HashAdded ==
    ASSUME NEW fields, NEW k \in Nat, fields[k + 1].name = "info_hash"
    PROVE  /\ NamedTo(fields, "info_hash", k + 1) = NamedTo(fields, "info_hash", k) \cup {k + 1}
           /\ Cardinality(NamedTo(fields, "info_hash", k + 1)) = Cardinality(NamedTo(fields, "info_hash", k)) + 1
  <1> DEFINE n == "info_hash"
  <1>1. fields[k + 1].name = n
    OBVIOUS
  <1> HIDE DEF n
  <1>2. NamedTo(fields, n, k + 1) = NamedTo(fields, n, k) \cup {k + 1}
    BY <1>1, NamedUnion, Zenon
  <1>3. Cardinality(NamedTo(fields, n, k + 1)) = Cardinality(NamedTo(fields, n, k)) + 1
    BY <1>1, NamedAdded
  <1> QED  BY <1>2, <1>3 DEF n

(* The places of the info_hashes up to one of them. *)
LEMMA PlaceOf ==
    ASSUME NEW fields, NEW n, NEW k \in Nat, NEW i \in NamedTo(fields, n, k)
    PROVE  Cardinality(NamedTo(fields, n, i)) \in 1..Cardinality(NamedTo(fields, n, k))
  <1>1. i \in 1..k /\ i \in Nat /\ fields[i].name = n
    BY DEF NamedTo
  <1>2. NamedTo(fields, n, i) \subseteq NamedTo(fields, n, k)
    BY <1>1 DEF NamedTo
  <1>3. i \in NamedTo(fields, n, i)
    BY <1>1 DEF NamedTo
  <1> DEFINE S == NamedTo(fields, n, i)
             T == NamedTo(fields, n, k)
  <1>4. IsFiniteSet(S) /\ IsFiniteSet(T) /\ Cardinality(S) \in Nat /\ Cardinality(T) \in Nat
    BY <1>1, NamedGrows
  <1> HIDE DEF S, T
  <1>5. Cardinality(S) <= Cardinality(T)
    BY <1>2, <1>4, FS_Subset DEF S, T
  <1>6. Cardinality(S) # 0
    BY <1>3, <1>4, FS_EmptySet DEF S
  <1> QED  BY <1>4, <1>5, <1>6 DEF S, T

(* getParam reads one field more. *)
LEMMA FieldRead ==
    ASSUME NEW fields, NEW k \in Nat, NEW q, ReadUpTo(q, fields, k), Plain(fields[k + 1].value) \in Text
    PROVE  ReadUpTo(getParam(q, <<fields[k + 1].name>>, Plain(fields[k + 1].value)), fields, k + 1)
  <1> DEFINE name == fields[k + 1].name
             value == Plain(fields[k + 1].value)
             p == getParam(q, <<name>>, value)
             S(j) == NamedTo(fields, "info_hash", j)
  <1>0. q \in Queries /\ value \in Text
    BY DEF ReadUpTo
  <1>1. /\ p \in Queries
        /\ \A n \in Names : p.params[n] = IF n = name THEN value ELSE q.params[n]
        /\ p.hashes = IF name = "info_hash" THEN Append(q.hashes, value) ELSE q.hashes
    <2> HIDE DEF name, value
    <2> QED  BY <1>0, GetParamIs
  <1>2. ASSUME NEW n \in Names
        PROVE  p.params[n] = IF NamedTo(fields, n, k + 1) = {} THEN Unset
                             ELSE Plain(fields[Max(NamedTo(fields, n, k + 1))].value)
    <2>1. CASE n = name
      <3>1. Max(NamedTo(fields, n, k + 1)) = k + 1 /\ NamedTo(fields, n, k + 1) # {}
        <4>1. fields[k + 1].name = n
          BY <2>1
        <4> HIDE DEF S, name, value, p
        <4> QED  BY <4>1, NamedAdded
      <3>2. p.params[n] = value
        BY <1>1, <2>1
      <3> QED  BY <3>1, <3>2
    <2>2. CASE n # name
      <3>1. NamedTo(fields, n, k + 1) = NamedTo(fields, n, k)
        BY <2>2, NamedSame
      <3>2. p.params[n] = q.params[n]
        BY <1>1, <2>2
      <3> QED  BY <3>1, <3>2 DEF ReadUpTo
    <2> QED  BY <2>1, <2>2
  <1>3. /\ Len(q.hashes) = Cardinality(S(k)) /\ Cardinality(S(k)) \in Nat
        /\ \A i \in S(k) : q.hashes[Cardinality(S(i))] = Plain(fields[i].value)
        /\ q.hashes \in Seq(Text)
    BY <1>0, NamedGrows DEF ReadUpTo, Queries
  <1>4. \A i \in S(k) : Cardinality(S(i)) \in 1..Cardinality(S(k))
    BY PlaceOf
  <1>5. /\ Len(p.hashes) = Cardinality(S(k + 1))
        /\ \A i \in S(k + 1) : p.hashes[Cardinality(S(i))] = Plain(fields[i].value)
    <2>1. CASE name = "info_hash"
      <3>1. S(k + 1) = S(k) \cup {k + 1} /\ Cardinality(S(k + 1)) = Cardinality(S(k)) + 1
        <4>1. fields[k + 1].name = "info_hash"
          BY <2>1
        <4> HIDE DEF S, name, value, p
        <4>2. /\ NamedTo(fields, "info_hash", k + 1) = NamedTo(fields, "info_hash", k) \cup {k + 1}
              /\ Cardinality(NamedTo(fields, "info_hash", k + 1)) = Cardinality(NamedTo(fields, "info_hash", k)) + 1
          BY <4>1, HashAdded
        <4> QED  BY <4>2 DEF S
      <3> HIDE DEF S, name, value, p
      <3>2. /\ Len(p.hashes) = Len(q.hashes) + 1
            /\ \A j \in 1..Len(q.hashes) : p.hashes[j] = q.hashes[j]
            /\ p.hashes[Len(q.hashes) + 1] = value
        BY <1>0, <1>1, <1>3, <2>1, AppendProperties
      <3>3. ASSUME NEW i \in S(k + 1)
            PROVE  p.hashes[Cardinality(S(i))] = Plain(fields[i].value)
        <4>1. CASE i = k + 1
          <5>1. p.hashes[Cardinality(S(i))] = value
            BY <1>3, <3>1, <3>2, <4>1
          <5> QED  BY <4>1, <5>1 DEF value
        <4>2. CASE i # k + 1
          <5>1. i \in S(k)
            BY <3>1, <4>2
          <5> QED  BY <1>3, <1>4, <3>2, <5>1
        <4> QED  BY <4>1, <4>2
      <3> QED  BY <1>3, <3>1, <3>2, <3>3
    <2>2. CASE name # "info_hash"
      <3>1. S(k + 1) = S(k)
        BY <2>2, NamedSame
      <3>2. p.hashes = q.hashes
        BY <1>1, <2>2
      <3> HIDE DEF S, name, value, p
      <3> QED  BY <1>3, <3>1, <3>2
    <2> QED  BY <2>1, <2>2
  <1> HIDE DEF p
  <1>6. ReadUpTo(p, fields, k + 1)
    BY <1>1, <1>2, <1>5 DEF ReadUpTo
  <1> QED  BY <1>6 DEF p

(* What a parser knows when it has read k fields, the last of them not yet   *)
(* stored.                                                                   *)
FieldsRead(s, fields, k) ==
    IF k = 0
    THEN s \in ParserStates /\ s.status = "PATH" /\ s.percent = 0 /\ s.param = <<>> /\ ReadUpTo(s.query, fields, 0)
    ELSE /\ InValue(s) /\ s.param = <<fields[k].name>> /\ s.value = Plain(fields[k].value)
         /\ ReadUpTo(s.query, fields, k - 1)

(* So storing it, it knows the k fields. *)
LEMMA LastStored ==
    ASSUME NEW s, NEW fields, NEW k \in Nat, FieldsRead(s, fields, k)
    PROVE  ReadUpTo(getParam(s.query, s.param, s.value), fields, k)
  <1>1. CASE k = 0
    <2>1. \A n : <<>> # <<n>>
      OBVIOUS
    <2>2. getParam(s.query, s.param, s.value) = s.query
      BY <1>1, <2>1 DEF FieldsRead, getParam
    <2> QED  BY <1>1, <2>2 DEF FieldsRead
  <1>2. CASE k # 0
    <2>1. k - 1 \in Nat /\ (k - 1) + 1 = k
      BY <1>2
    <2>2. InValue(s) /\ s.param = <<fields[k].name>> /\ s.value = Plain(fields[k].value)
          /\ ReadUpTo(s.query, fields, k - 1)
      BY <1>2 DEF FieldsRead
    <2>3. Plain(fields[k].value) \in Text
      BY <2>2 DEF InValue, ParserStates
    <2> QED  BY <2>1, <2>2, <2>3, FieldRead
  <1> QED  BY <1>1, <1>2

(* A separator and a parameter. *)
LEMMA NextFieldRead ==
    ASSUME NEW s, NEW fields, NEW k \in Nat, FieldsRead(s, fields, k), GoodField(fields[k + 1]),
           NEW mark, mark = IF k = 0 THEN "?" ELSE "&"
    PROVE  /\ <<mark>> \o Parameter(fields[k + 1]) \in Text
           /\ FieldsRead(Parse(s, <<mark>> \o Parameter(fields[k + 1])), fields, k + 1)
  <1> DEFINE f == fields[k + 1]
             a == parseChar(s, mark)
             q == IF k = 0 THEN s.query ELSE getParam(s.query, s.param, s.value)
  <1>1. s \in ParserStates /\ s.percent = 0 /\ ReadUpTo(q, fields, k)
    <2>1. ReadUpTo(q, fields, k)
      BY LastStored DEF FieldsRead
    <2>2. s \in ParserStates /\ s.percent = 0
      BY DEF FieldsRead, InValue
    <2> QED  BY <2>1, <2>2
  <1>2. q \in Queries
    BY <1>1 DEF ReadUpTo
  <1>3. a \in ParserStates /\ a.status = "PARAM" /\ a.percent = 0 /\ a.param = <<>> /\ a.query = q
    <2>1. CASE k = 0
      <3>1. s.status = "PATH" /\ mark = "?" /\ s.param = <<>>
        BY <2>1 DEF FieldsRead
      <3>2. a = PathChar(s, mark)
        BY <3>1 DEF parseChar
      <3>3. a = [s EXCEPT !.status = "PARAM"]
        <4> HIDE DEF a
        <4> QED  BY <3>1, <3>2 DEF PathChar
      <3> HIDE DEF a
      <3> QED  BY <1>1, <2>1, <3>1, <3>3 DEF ParserStates
    <2>2. CASE k # 0
      <3>1. s.status = "VALUE" /\ mark = "&"
        BY <2>2 DEF FieldsRead, InValue
      <3>2. a = NextParam(s)
        BY <3>1 DEF parseChar
      <3>3. a = [s EXCEPT !.query = q, !.param = <<>>, !.status = "PARAM"]
        <4> HIDE DEF a
        <4> QED  BY <2>2, <3>2 DEF NextParam
      <3> DEFINE y == <<>>
      <3>4. y \in Text
        BY EmptySeq DEF Text
      <3>5. a = [s EXCEPT !.query = q, !.param = y, !.status = "PARAM"]
        BY <3>3
      <3> HIDE DEF a, q, y
      <3>6. a \in ParserStates /\ a.status = "PARAM" /\ a.percent = 0 /\ a.param = y /\ a.query = q
        BY <1>1, <1>2, <3>4, <3>5 DEF ParserStates
      <3> QED  BY <3>6 DEF y
    <2> QED  BY <2>1, <2>2
  <1> HIDE DEF f, a, q
  <1>4. GoodField(f)
    BY DEF f
  <1>5. /\ Parameter(f) \in Text
        /\ LET t == Parse(a, Parameter(f)) IN
            InValue(t) /\ t.param = <<f.name>> /\ t.query = a.query /\ t.value = Plain(f.value)
    BY <1>3, <1>4, ParameterRead
  <1>6. <<mark>> \in Text /\ Parse(s, <<mark>>) = a
    <2>1. mark \in Characters
      BY DEF Characters
    <2>2. <<mark>> \in Text
      BY <2>1, ShortTexts
    <2> QED  BY <2>2, ParseOne DEF a
  <1>7. /\ <<mark>> \o Parameter(f) \in Text
        /\ Parse(s, <<mark>> \o Parameter(f)) = Parse(a, Parameter(f))
    <2>1. <<mark>> \o Parameter(f) \in Text
      BY <1>5, <1>6, ConcatProperties DEF Text
    <2>2. Parse(s, <<mark>> \o Parameter(f)) = Parse(Parse(s, <<mark>>), Parameter(f))
      BY <1>5, <1>6, ParseConcat
    <2> QED  BY <1>6, <2>1, <2>2
  <1>8. FieldsRead(Parse(a, Parameter(f)), fields, k + 1)
    <2>1. k + 1 # 0 /\ (k + 1) - 1 = k
      OBVIOUS
    <2> QED  BY <1>1, <1>3, <1>5, <2>1 DEF FieldsRead, f
  <1> QED  BY <1>7, <1>8 DEF f

(* No field is read yet. *)
LEMMA StartRead ==
    ASSUME NEW fields
    PROVE  FieldsRead(UriStart, fields, 0)
  <1> DEFINE none == <<>>
             unset == <<"unset">>
             P == [n \in Names |-> unset]
             q == [path |-> none, params |-> P, hashes |-> none]
  <1>1. none \in Text /\ none \in Seq(Text) /\ Len(none) = 0 /\ unset \in Text
    <2>1. "unset" \in Characters
      BY DEF Characters
    <2> QED  BY <2>1, EmptySeq, ShortTexts DEF Text
  <1>2. P \in [Names -> Text] /\ \A n \in Names : P[n] = Unset
    <2> HIDE DEF unset
    <2>1. P \in [Names -> Text] /\ \A n \in Names : P[n] = unset
      BY <1>1
    <2> QED  BY <2>1 DEF Unset, unset
  <1>3. EmptyQuery = q
    BY DEF EmptyQuery, Unset
  <1>4. UriStart = [status |-> "PATH", param |-> none, value |-> none, percent |-> 0, digits |-> none, query |-> q]
    BY <1>3 DEF UriStart
  <1> HIDE DEF P, none
  <1>5. q \in Queries
    BY <1>1, <1>2 DEF Queries
  <1>6. \A n : NamedTo(fields, n, 0) = {}
    BY DEF NamedTo
  <1>7. ReadUpTo(q, fields, 0)
    <2>1. Cardinality({}) = 0
      BY FS_EmptySet
    <2> QED  BY <1>1, <1>2, <1>5, <1>6, <2>1 DEF ReadUpTo
  <1> HIDE DEF q
  <1>8. /\ UriStart \in ParserStates /\ UriStart.status = "PATH" /\ UriStart.percent = 0
        /\ UriStart.param = none /\ UriStart.query = q
    BY <1>1, <1>4, <1>5 DEF ParserStates
  <1> QED  BY <1>7, <1>8 DEF FieldsRead, none

(* The characters of a path tell nothing of the fields. *)
LEMMA PathRead ==
    ASSUME NEW s, NEW fields, FieldsRead(s, fields, 0), NEW c \in Characters, c \notin {" ", "?"}
    PROVE  FieldsRead(parseChar(s, c), fields, 0)
  <1>1. s \in ParserStates /\ s.status = "PATH" /\ s.percent = 0 /\ s.param = <<>> /\ ReadUpTo(s.query, fields, 0)
    BY DEF FieldsRead
  <1>2. parseChar(s, c) = PathChar(s, c)
    BY <1>1 DEF parseChar
  <1> DEFINE path == Append(s.query.path, c)
             q == [s.query EXCEPT !.path = path]
             t == [s EXCEPT !.query = q]
  <1>3. PathChar(s, c) \in {s, t}
    BY DEF PathChar
  <1>4. s.query \in Queries /\ path \in Text
    BY <1>1, AppendProperties DEF ParserStates, Queries, Text
  <1> HIDE DEF path
  <1>5. q \in Queries /\ q.params = s.query.params /\ q.hashes = s.query.hashes
    BY <1>4 DEF Queries
  <1> HIDE DEF q
  <1>6. t \in ParserStates /\ t.status = "PATH" /\ t.percent = 0 /\ t.param = s.param /\ t.query = q
    BY <1>1, <1>5 DEF ParserStates
  <1> HIDE DEF t
  <1>7. ReadUpTo(q, fields, 0)
    BY <1>1, <1>5 DEF ReadUpTo
  <1>8. FieldsRead(t, fields, 0)
    <2>1. t.param = <<>>
      BY <1>1, <1>6
    <2> QED  BY <1>6, <1>7, <2>1 DEF FieldsRead
  <1> QED  BY <1>2, <1>3, <1>8

(* A parameter is a text. *)
LEMMA ParameterIs ==
    ASSUME NEW f, GoodField(f)
    PROVE  Parameter(f) \in Text
  <1> DEFINE s == [UriStart EXCEPT !.status = "PARAM"]
  <1>1. UriStart \in ParserStates /\ UriStart.percent = 0 /\ UriStart.param = <<>>
    BY StartRead DEF FieldsRead
  <1>2. s \in ParserStates /\ s.status = "PARAM" /\ s.param = UriStart.param /\ s.percent = 0
    BY <1>1 DEF ParserStates
  <1> HIDE DEF s
  <1> QED  BY <1>1, <1>2, ParameterRead

(* The fields are read one after the other. *)
LEMMA SeparatedRead ==
    ASSUME NEW fields, NEW n \in Nat, DOMAIN fields = 1..n, \A i \in 1..n : GoodField(fields[i]),
           NEW s, FieldsRead(s, fields, 0)
    PROVE  Separated(fields) \in Text /\ FieldsRead(Parse(s, Separated(fields)), fields, n)
  <1> DEFINE mark(i) == IF i = 1 THEN "?" ELSE "&"
             pieces == [i \in 1..n |-> <<mark(i)>> \o Parameter(fields[i])]
  <1>1. Separated(fields) = FlattenSeq(pieces)
    <2>1. \A i : <<mark(i)>> = IF i = 1 THEN <<"?">> ELSE <<"&">>
      OBVIOUS
    <2> HIDE DEF mark
    <2> QED  BY <2>1 DEF Separated
  <1>2. \A i \in 1..n : <<mark(i)>> \o Parameter(fields[i]) \in Text
    <2> TAKE i \in 1..n
    <2>1. Parameter(fields[i]) \in Text
      BY ParameterIs
    <2>2. mark(i) \in Characters
      BY DEF Characters
    <2>3. <<mark(i)>> \in Text
      BY <2>2, ShortTexts
    <2> HIDE DEF mark
    <2> QED  BY <2>1, <2>3, ConcatProperties DEF Text
  <1>3. pieces \in Seq(Text) /\ Len(pieces) = n
    <2>1. pieces \in [1..n -> Text]
      <3> HIDE DEF mark
      <3> QED  BY <1>2
    <2> HIDE DEF pieces
    <2> QED  BY <2>1, FunctionSeq
  <1>4. \A i \in 1..n : pieces[i] = <<mark(i)>> \o Parameter(fields[i])
    <2> HIDE DEF mark
    <2> QED  OBVIOUS
  <1> HIDE DEF pieces
  <1>5. FlattenSeq(pieces) \in Text
    BY <1>3, ParsePieces
  <1>6. PICK st : Pieces(st, s, pieces, n) /\ Parse(s, FlattenSeq(pieces)) = st[n]
    BY <1>3, ParsePieces
  <1> DEFINE Bad == {k \in Nat : k <= n /\ ~FieldsRead(st[k], fields, k)}
  <1>7. Bad = {}
    <2> SUFFICES ASSUME Bad # {} PROVE FALSE
      OBVIOUS
    <2>0. Bad \in SUBSET Nat
      OBVIOUS
    <2>1. PICK k \in Bad : \A j \in Bad : k <= j
      <3> HIDE DEF Bad
      <3> QED  BY <2>0, LeastNumber
    <2>2. k \in Nat /\ k <= n /\ ~FieldsRead(st[k], fields, k)
      BY <2>1
    <2>3. k # 0
      BY <1>6, <2>2 DEF Pieces
    <2> DEFINE j == k - 1
    <2>4. j \in Nat /\ j <= n /\ j + 1 = k /\ k \in 1..n /\ ~(k <= j)
      BY <2>2, <2>3
    <2>5. FieldsRead(st[j], fields, j)
      <3>1. j \notin Bad
        <4> HIDE DEF Bad, j
        <4> QED  BY <2>1, <2>4
      <3> HIDE DEF j
      <3> QED  BY <2>4, <3>1
    <2>6. st[k] = Parse(st[j], pieces[k]) /\ pieces[k] = <<mark(k)>> \o Parameter(fields[k])
      <3> HIDE DEF mark
      <3> QED  BY <1>4, <1>6, <2>4 DEF Pieces
    <2>7. mark(k) = IF j = 0 THEN "?" ELSE "&"
      BY <2>4
    <2> HIDE DEF j, mark, Bad
    <2>8. GoodField(fields[j + 1])
      BY <2>4
    <2>9. FieldsRead(Parse(st[j], <<mark(k)>> \o Parameter(fields[j + 1])), fields, j + 1)
      BY <2>4, <2>5, <2>7, <2>8, NextFieldRead
    <2> QED  BY <2>2, <2>4, <2>6, <2>9
  <1>8. FieldsRead(st[n], fields, n)
    BY <1>7
  <1> QED  BY <1>1, <1>5, <1>6, <1>8

(* The message is read, field by field. *)
LEMMA MessageRead ==
    ASSUME NEW r \in Requests
    PROVE  ReadUpTo(parseUri(Message(r)), r.fields, Len(r.fields))
  <1> DEFINE fields == r.fields
             n == Len(fields)
             start == <<"/", r.route>>
             middle == Separated(fields)
             end == <<" ", "HTTP/1.1">>
             s1 == Parse(UriStart, start)
             s2 == Parse(s1, middle)
             s3 == parseChar(s2, " ")
  <1>1. /\ r.route \in Characters /\ r.route \notin {" ", "?"}
        /\ n \in Nat /\ DOMAIN fields = 1..n /\ \A i \in 1..n : GoodField(fields[i])
    BY GoodRequest
  <1>2. start \in Text /\ end \in Text /\ <<"/">> \o <<r.route>> = start /\ <<" ">> \o <<"HTTP/1.1">> = end
    BY <1>1, ShortTexts DEF Characters
  <1>3. "/" \in Characters /\ " " \in Characters /\ "HTTP/1.1" \in Characters
    BY DEF Characters
  <1>4. FieldsRead(s1, fields, 0)
    <2> DEFINE a == parseChar(UriStart, "/")
               b == parseChar(a, r.route)
    <2>1. FieldsRead(a, fields, 0)
      <3> DEFINE c == "/"
      <3>1. c \in Characters /\ c \notin {" ", "?"}
        BY <1>3
      <3> HIDE DEF c
      <3>2. FieldsRead(parseChar(UriStart, c), fields, 0)
        BY <3>1, StartRead, PathRead
      <3> QED  BY <3>2 DEF c
    <2> HIDE DEF a
    <2>2. FieldsRead(b, fields, 0)
      BY <1>1, <2>1, PathRead
    <2>3. Parse(UriStart, <<"/">> \o <<r.route>>) = Parse(Parse(UriStart, <<"/">>), <<r.route>>)
      <3> DEFINE x == <<"/">>
                 y == <<r.route>>
      <3>1. x \in Text /\ y \in Text
        BY <1>1, <1>3, ShortTexts
      <3> HIDE DEF x, y
      <3>2. Parse(UriStart, x \o y) = Parse(Parse(UriStart, x), y)
        BY <3>1, ParseConcat
      <3> QED  BY <3>2 DEF x, y
    <2>4. Parse(UriStart, <<"/">>) = a /\ Parse(a, <<r.route>>) = b
      BY ParseOne DEF a
    <2> QED  BY <1>2, <2>2, <2>3, <2>4
  <1> HIDE DEF s1
  <1>5. middle \in Text /\ FieldsRead(s2, fields, n)
    BY <1>1, <1>4, SeparatedRead
  <1> HIDE DEF s2
  <1>6. s3.status = "END" /\ ReadUpTo(s3.query, fields, n)
    <2> DEFINE q == getParam(s2.query, s2.param, s2.value)
    <2>1. ReadUpTo(q, fields, n)
      BY <1>1, <1>5, LastStored
    <2>2. s2 \in ParserStates /\ s2.status # "END"
      BY <1>5 DEF FieldsRead, InValue
    <2>3. s3 = [s2 EXCEPT !.query = q, !.status = "END"]
      BY <2>2 DEF parseChar
    <2> HIDE DEF q, s3
    <2>4. s3.status = "END" /\ s3.query = q
      BY <2>2, <2>3 DEF ParserStates
    <2> QED  BY <2>1, <2>4
  <1>7. Parse(s2, end) = s3
    <2> HIDE DEF s3
    <2>1. Parse(s2, <<" ">>) = s3
      BY ParseOne DEF s3
    <2>2. parseChar(s3, "HTTP/1.1") = s3
      BY <1>6 DEF parseChar
    <2>3. Parse(s3, <<"HTTP/1.1">>) = s3
      BY <2>2, ParseOne
    <2>4. Parse(s2, <<" ">> \o <<"HTTP/1.1">>) = Parse(Parse(s2, <<" ">>), <<"HTTP/1.1">>)
      <3> DEFINE x == <<" ">>
                 y == <<"HTTP/1.1">>
      <3>1. x \in Text /\ y \in Text
        BY <1>3, ShortTexts
      <3> HIDE DEF x, y
      <3>2. Parse(s2, x \o y) = Parse(Parse(s2, x), y)
        BY <3>1, ParseConcat
      <3> QED  BY <3>2 DEF x, y
    <2> QED  BY <1>2, <2>1, <2>3, <2>4
  <1> HIDE DEF start, middle, end, s3
  <1>8. start \o middle \in Text
    BY <1>2, <1>5, ConcatProperties DEF Text
  <1>9. Parse(UriStart, (start \o middle) \o end) = s3
    <2>1. Parse(UriStart, start \o middle) = s2
      BY <1>2, <1>5, ParseConcat DEF s1, s2
    <2>2. Parse(UriStart, (start \o middle) \o end) = Parse(Parse(UriStart, start \o middle), end)
      BY <1>2, <1>8, ParseConcat
    <2> QED  BY <1>7, <2>1, <2>2
  <1>10. Message(r) = (start \o middle) \o end
    BY DEF Message, start, middle, end
  <1>11. parseUri(Message(r)) = s3.query
    BY <1>9, <1>10 DEF parseUri, Parse
  <1> QED  BY <1>6, <1>11

-----------------------------------------------------------------------------
(* The header with the addresses. *)

ForwardedFolds(h, s, text, n) == h = [t \in SUBSET (1..n) |->
    IF t = {} THEN s ELSE ForwardedChar(h[t \ {Max(t)}], text[Max(t)])]

ForwardedStates(st, value, n) ==
    st[0] = [block |-> <<>>, reset |-> TRUE] /\ \A i \in 1..n : st[i] = ForwardedChar(st[i - 1], value[i])

(* So does reading the header. *)
LEMMA ForwardedSteps ==
    ASSUME NEW value, NEW n \in Nat, DOMAIN value = 1..n
    PROVE  \E st : ForwardedStates(st, value, n) /\ LastForwarded(value) = st[n].block
  <1> DEFINE s == [block |-> <<>>, reset |-> TRUE]
             h == CHOOSE f : ForwardedFolds(f, s, value, n)
             fold == "forwarded"
  <1>1. LastForwarded(value) = h[1..n].block
    BY DEF LastForwarded, FoldLeft, MapThenFoldSet, ForwardedFolds
  <1>2. \A a, c : Step(fold, a, c) = ForwardedChar(a, c)
    BY DEF Step
  <1> HIDE DEF fold, s
  <1>3. \A f : ForwardedFolds(f, s, value, n) <=> Folds(f, fold, s, value, n)
    BY <1>2 DEF ForwardedFolds, Folds
  <1>4. ForwardedFolds(h, s, value, n)
    BY <1>3, FoldExists
  <1> HIDE DEF h
  <1>5. Folds(h, fold, s, value, n)
    BY <1>3, <1>4
  <1>6. PICK st : FoldStates(st, fold, s, value, n) /\ st[n] = h[1..n]
    BY <1>5, FoldSteps
  <1>7. ForwardedStates(st, value, n)
    BY <1>2, <1>6 DEF s, ForwardedStates, FoldStates
  <1> QED  BY <1>1, <1>6, <1>7

(* Where the fold is after i characters, the last address being the m-th. *)
BlockIs(s, value, m, i) ==
    /\ \E b, r : s = [block |-> b, reset |-> r]
    /\ i = 0 \/ value[i] \in Separators => s.reset = TRUE
    /\ i >= m => s.block = <<value[m]>>

(* A separator leaves the block, ... *)
LEMMA SeparatorKeeps ==
    ASSUME NEW s, NEW value, NEW m, NEW i, NEW j, BlockIs(s, value, m, i),
           value[j] \in Separators, j >= m => i >= m
    PROVE  BlockIs(ForwardedChar(s, value[j]), value, m, j)
  <1>1. PICK b, r : s = [block |-> b, reset |-> r]
    BY DEF BlockIs
  <1>2. ForwardedChar(s, value[j]) = [block |-> b, reset |-> TRUE]
    BY <1>1 DEF ForwardedChar
  <1>3. j >= m => b = <<value[m]>>
    BY <1>1 DEF BlockIs
  <1> DEFINE t == ForwardedChar(s, value[j])
  <1>a. t = [block |-> b, reset |-> TRUE]
    BY <1>2
  <1> HIDE DEF t
  <1>4. t.reset = TRUE /\ t.block = b
    BY <1>a
  <1>5. \E x, y : t = [block |-> x, reset |-> y]
    BY <1>a, Zenon
  <1>6. BlockIs(t, value, m, j)
    BY <1>3, <1>4, <1>5, Zenon DEF BlockIs
  <1> QED  BY <1>6 DEF t

(* ... an address after one starts a new block. *)
LEMMA AddressStarts ==
    ASSUME NEW s, NEW value, NEW m, NEW i, NEW j, BlockIs(s, value, m, i),
           i = 0 \/ value[i] \in Separators, value[j] \notin Separators, j # 0, j >= m => j = m
    PROVE  BlockIs(ForwardedChar(s, value[j]), value, m, j)
  <1>1. s.reset = TRUE
    BY DEF BlockIs
  <1>2. ForwardedChar(s, value[j]) = [block |-> <<value[j]>>, reset |-> FALSE]
    BY <1>1 DEF ForwardedChar
  <1> DEFINE t == ForwardedChar(s, value[j])
  <1>b. t = [block |-> <<value[j]>>, reset |-> FALSE]
    BY <1>2
  <1> HIDE DEF t
  <1>3. t.block = <<value[j]>>
    BY <1>b
  <1>4. \E x, y : t = [block |-> x, reset |-> y]
    BY <1>b, Zenon
  <1>5. j >= m => t.block = <<value[m]>>
    BY <1>3, Zenon
  <1>6. BlockIs(t, value, m, j)
    BY <1>4, <1>5, Zenon DEF BlockIs
  <1> QED  BY <1>6 DEF t

(* The block ends up with the last address, when no two of them are adjacent. *)
LEMMA LastAddress ==
    ASSUME NEW value, NEW n \in Nat, DOMAIN value = 1..n,
           \A i \in 1..n - 1 : {value[i], value[i + 1]} \cap Separators # {},
           NEW m \in 1..n, value[m] \notin Separators, \A i \in m + 1..n : value[i] \in Separators
    PROVE  LastForwarded(value) = <<value[m]>>
  <1>1. PICK st : ForwardedStates(st, value, n) /\ LastForwarded(value) = st[n].block
    BY ForwardedSteps
  <1> DEFINE Bad == {i \in Nat : i <= n /\ ~BlockIs(st[i], value, m, i)}
  <1>2. BlockIs(st[0], value, m, 0)
    <2>1. ~(0 >= m)
      OBVIOUS
    <2>2. st[0] = [block |-> <<>>, reset |-> TRUE]
      BY <1>1, Zenon DEF ForwardedStates
    <2>3. \E b, r : st[0] = [block |-> b, reset |-> r]
      BY <2>2, Zenon
    <2>4. st[0].reset = TRUE
      <3> DEFINE t == st[0]
      <3>1. t = [block |-> <<>>, reset |-> TRUE]
        BY <2>2
      <3> HIDE DEF t
      <3> QED  BY <3>1 DEF t
    <2> QED  BY <2>1, <2>3, <2>4, Zenon DEF BlockIs
  <1>3. ASSUME NEW k \in 0..n - 1, BlockIs(st[k], value, m, k)
        PROVE  BlockIs(st[k + 1], value, m, k + 1)
    <2>0. k + 1 \in 1..n /\ (k + 1) - 1 = k
      OBVIOUS
    <2>1. st[k + 1] = ForwardedChar(st[k], value[k + 1])
      BY <1>1, <2>0 DEF ForwardedStates
    <2>2. CASE value[k + 1] \in Separators
      <3>1. k + 1 >= m => k >= m
        BY <2>2
      <3> QED  BY <1>3, <2>1, <2>2, <3>1, SeparatorKeeps
    <2>3. CASE value[k + 1] \notin Separators
      <3>1. k + 1 # 0 /\ (k + 1 >= m => k + 1 = m)
        BY <2>3
      <3>2. k = 0 \/ value[k] \in Separators
        <4>1. k # 0 => k \in 1..n - 1
          OBVIOUS
        <4> QED  BY <2>3, <4>1
      <3> QED  BY <1>3, <2>1, <2>3, <3>1, <3>2, AddressStarts
    <2> QED  BY <2>2, <2>3
  <1>4. Bad = {}
    <2> SUFFICES ASSUME Bad # {} PROVE FALSE
      OBVIOUS
    <2>0. Bad \in SUBSET Nat
      OBVIOUS
    <2>1. PICK k \in Bad : \A j \in Bad : k <= j
      <3> HIDE DEF Bad
      <3> QED  BY <2>0, LeastNumber
    <2>2. k \in Nat /\ k <= n /\ ~BlockIs(st[k], value, m, k) /\ k # 0
      BY <1>2, <2>1
    <2> DEFINE j == k - 1
    <2>3. j \in 0..n - 1 /\ j + 1 = k /\ ~(k <= j)
      BY <2>2
    <2>4. BlockIs(st[j], value, m, j)
      <3>1. j \notin Bad
        <4> HIDE DEF Bad, j
        <4> QED  BY <2>1, <2>3
      <3> HIDE DEF j
      <3> QED  BY <2>3, <3>1
    <2> HIDE DEF j
    <2> QED  BY <1>3, <2>2, <2>3, <2>4
  <1>5. BlockIs(st[n], value, m, n)
    BY <1>4
  <1> QED  BY <1>1, <1>5 DEF BlockIs

-----------------------------------------------------------------------------
(* Together. *)

(* What ParsedAsWritten asks of the parameters and of the hashes. *)
ParamsAsWritten(q, fields) ==
    \A n \in Names : q.params[n] =
        IF Named(fields, n) = {} THEN Unset ELSE Plain(fields[Max(Named(fields, n))].value)
HashesAsWritten(q, fields) ==
    LET hashes == Named(fields, "info_hash")
    IN  /\ Len(q.hashes) = Cardinality(hashes)
        /\ \A i \in hashes : q.hashes[Cardinality(hashes \cap 1..i)] = Plain(fields[i].value)

(* parseUri reads the parameters and the hashes of a request. *)
LEMMA QueryRead ==
    ASSUME NEW r \in Requests
    PROVE  LET q == parseUri(Message(r)) IN
            q \in Queries /\ ParamsAsWritten(q, r.fields) /\ HashesAsWritten(q, r.fields)
  <1> DEFINE fields == r.fields
             k == Len(fields)
             q == parseUri(Message(r))
             hashes == Named(fields, "info_hash")
  <1>1. k \in Nat /\ DOMAIN fields = 1..k
    BY GoodRequest
  <1>2. ReadUpTo(q, fields, k)
    BY MessageRead
  <1> HIDE DEF fields, k, q
  <1>3. \A n : Named(fields, n) = NamedTo(fields, n, k)
    BY <1>1 DEF Named, NamedTo
  <1>4. q \in Queries /\ ParamsAsWritten(q, fields)
    BY <1>2, <1>3 DEF ReadUpTo, ParamsAsWritten
  <1>5. \A i \in hashes : hashes \cap 1..i = NamedTo(fields, "info_hash", i)
    <2> TAKE i \in hashes
    <2>1. i \in 1..k
      BY <1>1 DEF Named
    <2>2. \A j : j \in 1..i => j \in 1..k
      BY <1>1, <2>1
    <2>3. hashes = {j \in 1..k : fields[j].name = "info_hash"}
      BY <1>1 DEF Named
    <2> HIDE DEF hashes
    <2> QED  BY <2>2, <2>3 DEF NamedTo
  <1>6. hashes = NamedTo(fields, "info_hash", k)
    BY <1>3
  <1>7. HashesAsWritten(q, fields)
    <2> HIDE DEF hashes
    <2>1. Len(q.hashes) = Cardinality(hashes)
      BY <1>2, <1>6 DEF ReadUpTo
    <2>2. ASSUME NEW i \in hashes
          PROVE  q.hashes[Cardinality(hashes \cap 1..i)] = Plain(fields[i].value)
      <3>1. i \in NamedTo(fields, "info_hash", k)
        BY <1>6
      <3>2. q.hashes[Cardinality(NamedTo(fields, "info_hash", i))] = Plain(fields[i].value)
        BY <1>2, <3>1 DEF ReadUpTo
      <3> QED  BY <1>5, <3>2
    <2> QED  BY <2>1, <2>2 DEF HashesAsWritten, hashes
  <1> QED  BY <1>4, <1>7 DEF q, fields

(* parseXForwardedFor takes the last address of the header. *)
LEMMA AddressRead ==
    ASSUME NEW r \in Requests, NEW enabled, enabled, NEW client,
           r.place = "headers", Addresses(r.forwarded) # {},
           r.forwarded[Max(Addresses(r.forwarded))] \in {"v4", "v6"}
    PROVE  parseXForwardedFor(enabled, r.place, r.forwarded, client) = r.forwarded[Max(Addresses(r.forwarded))]
  <1> DEFINE value == r.forwarded
             n == Len(value)
             A == Addresses(value)
             m == Max(A)
  <1>1. value \in Seq(STRING) /\ \A i \in 1..n - 1 : {value[i], value[i + 1]} \cap Separators # {}
    BY RequestsAssumption
  <1>2. n \in Nat /\ DOMAIN value = 1..n
    BY <1>1, LenProperties
  <1>3. A \in SUBSET (1..n) /\ A # {} /\ \A i \in 1..n : i \notin A => value[i] \in Separators
    BY <1>2 DEF Addresses
  <1>4. value[m] \in {"v4", "v6"} /\ \A i \in A : value[i] \notin Separators
    BY DEF Addresses
  <1> HIDE DEF value, n, A
  <1>5. m \in A /\ \A y \in A : y <= m
    BY <1>2, <1>3, MaxOf
  <1> HIDE DEF m
  <1>6. m \in 1..n /\ \A i \in m + 1..n : value[i] \in Separators
    <2>1. m \in 1..n
      BY <1>3, <1>5
    <2>2. ASSUME NEW i \in m + 1..n PROVE value[i] \in Separators
      <3>1. i \in 1..n /\ ~(i <= m)
        BY <1>2, <2>1
      <3> QED  BY <1>3, <1>5, <3>1
    <2> QED  BY <2>1, <2>2
  <1>7. LastForwarded(value) = <<value[m]>>
    BY <1>1, <1>2, <1>4, <1>5, <1>6, LastAddress
  <1>8. Head(<<value[m]>>) = value[m] /\ <<value[m]>> \in {<<"v4">>, <<"v6">>}
    BY <1>4
  <1>9. parseXForwardedFor(enabled, "headers", value, client) = value[m]
    BY <1>7, <1>8 DEF parseXForwardedFor
  <1> QED  BY <1>9 DEF value, m, A

(* The invariant: before the worker serves there is no request, and what it *)
(* has parsed is what the request under way says.                           *)
ParseInv ==
    /\ request \in Requests \/ request = NoRequest
    /\ pc # "serving" => request = NoRequest
    /\ ParsedAsWritten

(* A reply to /announce ... *)
LEMMA AnnounceParses == ASSUME ParseInv, announce PROVE ParsedAsWritten'
  <1>1. request \in Requests /\ request' = request /\ request.route = "announce"
    BY DEF ParseInv, announce, Complete, NoRequest
  <1>2. arguments' = arguments /\ query' = ParsedNoHashes
        /\ address' = parseXForwardedFor(arguments["xForwardedFor"], request.place, request.forwarded, "client")
    BY DEF announce
  <1> DEFINE fields == request.fields
             forwarded == request.forwarded
             q == parseUri(Message(request))
             A == Addresses(forwarded)
  <1>3. q \in Queries /\ ParamsAsWritten(q, fields)
    BY <1>1, QueryRead
  <1>4. Parsed = q
    BY DEF Parsed
  <1>5. ParamsAsWritten(query', fields)
    <2> HIDE DEF q
    <2>1. query' = [q EXCEPT !.hashes = <<>>]
      BY <1>2, <1>4 DEF ParsedNoHashes
    <2>2. query'.params = q.params
      BY <1>3, <2>1 DEF Queries
    <2> QED  BY <1>3, <2>2 DEF ParamsAsWritten
  <1>6. ASSUME arguments["xForwardedFor"], request.place = "headers", A # {}, forwarded[Max(A)] \in {"v4", "v6"}
        PROVE  address' = forwarded[Max(A)]
    BY <1>1, <1>2, <1>6, AddressRead
  <1> HIDE DEF q, A
  <1> QED  BY <1>1, <1>2, <1>5, <1>6 DEF ParsedAsWritten, ParamsAsWritten, A

(* ... and one to /scrape are to what the client wrote. *)
LEMMA ScrapeParses == ASSUME ParseInv, scrape PROVE ParsedAsWritten'
  <1>1. request \in Requests /\ request' = request /\ request.route = "scrape"
    BY DEF ParseInv, scrape, Complete, NoRequest
  <1>2. ParamsAsWritten(query', request.fields) /\ HashesAsWritten(query', request.fields)
    <2>1. query' = parseUri(Message(request))
      BY DEF scrape, Parsed
    <2> QED  BY <1>1, <2>1, QueryRead
  <1> QED  BY <1>1, <1>2 DEF ParsedAsWritten, ParamsAsWritten, HashesAsWritten

(* ParseInv is inductive: the other steps parse nothing of these requests. *)
LEMMA ParseInvNext ==
    ASSUME ParseInv, [Next]_vars
    PROVE  ParseInv'
  <1>1. CASE commandLine
    <2>1. request = NoRequest /\ request' = request
      BY <1>1 DEF commandLine, parseOption, parseLastOption, parseEnd, showHelp, startWorker, socket, ParseInv
    <2> QED  BY <2>1 DEF ParseInv, ParsedAsWritten, NoRequest
  <1>2. ASSUME NEW r \in Requests, clientBegins(r)
        PROVE  ParseInv'
    <2>1. request' = r /\ reply' = NoReply /\ pc' = "serving"
      BY <1>2 DEF clientBegins
    <2> QED  BY <2>1 DEF ParseInv, ParsedAsWritten
  <1>3. CASE clientGoesOn \/ deleteSocket \/ readFragment \/ recvFailed \/ websocketMessage \/ UNCHANGED vars
    <2>1. UNCHANGED <<pc, request, reply, query, address, arguments>>
      BY <1>3 DEF clientGoesOn, deleteSocket, readFragment, recvFailed, websocketMessage, vars
    <2> QED  BY <2>1 DEF ParseInv, ParsedAsWritten
  <1>4. CASE announce \/ scrape
    <2>1. pc = "serving" /\ pc' = pc /\ request' = request
      BY <1>4 DEF announce, scrape, Complete
    <2>2. ParsedAsWritten'
      BY <1>4, AnnounceParses, ScrapeParses
    <2> QED  BY <2>1, <2>2 DEF ParseInv
  <1>5. CASE readOversize \/ apiSet \/ apiWebsocket \/ apiWebsocketFailed \/ statsPage \/ root \/ file \/ post
    <2>1. pc = "serving" /\ pc' = pc /\ request' = request /\ request.route \notin {"announce", "scrape"}
      BY <1>5 DEF readOversize, apiSet, apiWebsocket, apiWebsocketFailed, statsPage, root, file, post, Complete
    <2> QED  BY <2>1 DEF ParseInv, ParsedAsWritten
  <1> QED  BY <1>1, <1>2, <1>3, <1>4, <1>5 DEF Next, processRead

(* parseUri and parseXForwardedFor (uri.c:44-191) read what the client      *)
(* wrote: the last value of a parameter that comes more than once, every    *)
(* info_hash in order, values decoded and cut, the last address.            *)
THEOREM ParsedAsWrittenCorrect == Spec => []ParsedAsWritten
  <1>1. Init => ParseInv
    BY DEF Init, ParseInv, ParsedAsWritten
  <1>2. ParseInv /\ [Next]_vars => ParseInv'
    BY ParseInvNext
  <1>3. ParseInv => ParsedAsWritten
    BY DEF ParseInv
  <1> QED  BY <1>1, <1>2, <1>3, PTL DEF Spec
=============================================================================
