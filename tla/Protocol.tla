------------------------------ MODULE Protocol ------------------------------
(***************************************************************************)
(* modules/protocol and modules/crc: the text messages between printer and *)
(* MMU, as bytes. The printer sends a request and waits until the lines    *)
(* are quiet; the MMU decodes byte by byte (Application::CheckMsgs), and   *)
(* answers a completed message in the same call (ProcessRequestMsg). The   *)
(* decoder of answers is in the repository too and runs in the printer.    *)
(* One of the two lines may disturb one byte of each message.              *)
(***************************************************************************)
EXTENDS Integers, Sequences

CONSTANTS Messages,   \* the requests the printer sends
          Statuses,   \* code and value of what RunningCommandStatus returns
          Registers,  \* values ReadRegister returns
          Noise       \* what a disturbed byte may become

ByteRange == 256
WordRange == 65536
Byte == 0 .. ByteRange - 1
Word == 0 .. WordRange - 1

ASSUME NoiseAssumption == Noise \subseteq Byte
ASSUME RegistersAssumption == Registers \subseteq Word

NewLine == 10
Return == 13
Space == 32
Star == 42
unknown == 0

\* The ASCII codes of RequestMsgCodes and ResponseMsgParamCodes.
Query == 81
Tool == 84
Load == 76
Mode == 77
Unload == 85
Reset == 88
Finda == 80
Version == 83
Button == 66
Eject == 69
Write == 87
Cut == 75
FilamentType == 70
FilamentSensor == 102
Home == 72
Read == 82
Commands == {Cut, Eject, Home, Load, Mode, Tool, Unload}
RequestCodes == Commands \cup {Query, Reset, Finda, Version, Button, Write,
                               FilamentType, FilamentSensor, Read}
Processing == 80
Failed == 69
Finished == 70
Accepted == 65
Rejected == 82
ParamCodes == {Processing, Failed, Finished, Accepted, Rejected, Button}

RequestMsg == [code: RequestCodes, value: Byte, value2: Word]

\* Only a write request is constructed with a second value.
ASSUME MessagesAssumption ==
    Messages \subseteq {msg \in RequestMsg : msg.code # Write => msg.value2 = 0}
ASSUME StatusesAssumption == Statuses \subseteq ParamCodes \X Word

VARIABLES rq,         \* the MMU's decoder: rqState, requestMsg, last result
          current,    \* currentCommandRq
          rsp,        \* the printer's decoder: rspState, responseMsg
          toMMU,      \* bytes on their way to the MMU
          toPrinter,  \* bytes on their way to the printer
          request,    \* msg: the request sent; last: the one before, if it was
                      \* not decoded to its end; sound, prev: whether this one
                      \* and the one before were left undisturbed
          answer,     \* the answer given, likewise
          noisy       \* the line that disturbs messages

vars == <<rq, current, rsp, toMMU, toPrinter, request, answer, noisy>>

-----------------------------------------------------------------------------
(***************************************************************************)
(* modules/crc                                                             *)
(***************************************************************************)

Bit(a, place) == (a \div place) % 2

\* Exclusive or of two bytes.
Xor(a, b) ==
    LET at(place) == IF Bit(a, place) = Bit(b, place) THEN 0 ELSE place
    IN  at(1) + at(2) + at(4) + at(8) + at(16) + at(32) + at(64) + at(128)

\* One turn of the loop of CRC8::CCITT_updateCX.
CRCShift(data) == IF data >= 128 THEN Xor((2 * data) % 256, 7) ELSE 2 * data

\* The eight turns of the loop, for every content of data.
CRCTable ==
    LET twice(data) == CRCShift(CRCShift(data))
    IN  [data \in Byte |-> twice(twice(twice(twice(data))))]

CCITT_updateCX(crc, b) == CRCTable[Xor(crc, b)]

\* The low byte first, as the AVR stores a word.
CCITT_updateW(crc, w) == CCITT_updateCX(CCITT_updateCX(crc, w % 256), w \div 256)

\* RequestMsg::ComputeCRC8
RequestCRC(msg) ==
    CCITT_updateW(CCITT_updateCX(CCITT_updateCX(0, msg.code), msg.value), msg.value2)

\* Mutant: the value of an answer is not covered.
ResponseCRCOfCode(msg) == CCITT_updateCX(RequestCRC(msg), msg.paramCode)

\* ResponseMsg::ComputeCRC8
ResponseCRC(msg) ==
    CCITT_updateW(CCITT_updateCX(RequestCRC(msg), msg.paramCode), msg.paramValue)

-----------------------------------------------------------------------------
(***************************************************************************)
(* Characters                                                              *)
(***************************************************************************)

IsNewLine(c) == c \in {NewLine, Return}
IsHexDigit(c) == c \in 48 .. 57 \/ c \in 97 .. 102
Char2Nibble(c) == IF c < 97 THEN c - 48 ELSE c - 97 + 10
Nibble2Char(n) == IF n < 10 THEN n + 48 ELSE n - 10 + 97

Power16 == <<1, 16, 256, 4096, 65536>>

\* The last n hexadecimal digits of a value.
Digits(value, n) ==
    [i \in 1 .. n |-> Nibble2Char((value \div Power16[n - i + 1]) % 16)]

\* UInt8ToHex, UInt16ToHex: no leading zeros.
ToHex(value) ==
    Digits(value, IF value < 16 THEN 1 ELSE IF value < 256 THEN 2
                  ELSE IF value < 4096 THEN 3 ELSE 4)

\* Mutant: the old digits are not shifted out.
WithDigitKept(value, c, range) == value * 16 + Char2Nibble(c)

\* One more digit into a field that counts to range - 1.
WithDigit(value, c, range) == ((value * 16) % range) + Char2Nibble(c)

-----------------------------------------------------------------------------
(***************************************************************************)
(* Encoders                                                                *)
(***************************************************************************)

AppendCRC(crc) == <<Star>> \o ToHex(crc)
BeginEncodeRequest(msg) == <<msg.code>> \o ToHex(msg.value) \o <<Space>>

\* EncodeRequest, EncodeWriteRequest
EncodeRequest(msg) ==
    (IF msg.code = Write THEN BeginEncodeRequest(msg) \o ToHex(msg.value2)
     ELSE <<msg.code>> \o ToHex(msg.value))
    \o AppendCRC(RequestCRC(msg)) \o <<NewLine>>

ResponseTo(msg, code, value) ==
    [code |-> msg.code, value |-> msg.value, value2 |-> msg.value2,
     paramCode |-> code, paramValue |-> value]

EncodeResponse(msg, withValue) ==
    BeginEncodeRequest(msg) \o <<msg.paramCode>>
    \o (IF withValue THEN ToHex(msg.paramValue) ELSE <<>>)
    \o AppendCRC(ResponseCRC(msg)) \o <<NewLine>>

\* Mutant: the value of a write request is kept.
EncodeResponseCmdARKeeps(msg, ar) == EncodeResponse(ResponseTo(msg, ar, 0), FALSE)

EncodeResponseCmdAR(msg, ar) ==
    EncodeResponse(ResponseTo([msg EXCEPT !.value2 = 0], ar, 0), FALSE)

EncodeResponseQueryOperation(msg, status) ==
    EncodeResponse(ResponseTo(msg, status[1], status[2]), TRUE)

EncodeResponseRead(msg, accepted, value) ==
    IF accepted THEN EncodeResponse(ResponseTo(msg, Accepted, value), TRUE)
    ELSE EncodeResponse(ResponseTo(msg, Rejected, 0), FALSE)

-----------------------------------------------------------------------------
(***************************************************************************)
(* Decoders: one byte                                                      *)
(***************************************************************************)

RequestDecoder ==
    [st |-> "Code", code |-> unknown, value |-> 0, value2 |-> 0, crc8 |-> 0,
     status |-> "NeedMoreData"]

\* The fields keep what they held, but without a code nothing reads them:
\* the model forgets them.
FailRequest(r) == [RequestDecoder EXCEPT !.st = "Error", !.status = "Error"]
Expect(r, st) == [r EXCEPT !.st = st, !.status = "NeedMoreData"]

\* Mutant: the CRC is not compared.
AnyCRC(r) == TRUE

RequestCRCMatches(r) == r.crc8 = RequestCRC(r)

DecodeRequest(r, c) ==
    CASE r.st = "Code" /\ c \in RequestCodes ->
           [RequestDecoder EXCEPT !.st = IF c = Write THEN "Address" ELSE "Value",
                                  !.code = c]
      [] r.st \in {"Value", "Address"} /\ IsHexDigit(c) ->
           Expect([r EXCEPT !.value = WithDigit(@, c, ByteRange)], r.st)
      [] r.st = "Address" /\ c = Space -> Expect(r, "WriteValue")
      [] r.st = "WriteValue" /\ IsHexDigit(c) ->
           Expect([r EXCEPT !.value2 = WithDigit(@, c, WordRange)], r.st)
      [] r.st \in {"Value", "WriteValue"} /\ c = Star -> Expect(r, "CRC")
      [] r.st = "CRC" /\ IsHexDigit(c) ->
           Expect([r EXCEPT !.crc8 = WithDigit(@, c, ByteRange)], r.st)
      [] /\ IsNewLine(c)
         /\ r.st = "Error" \/ (r.st = "CRC" /\ RequestCRCMatches(r)) ->
           [r EXCEPT !.st = "Code", !.status = "MessageCompleted"]
      [] OTHER -> FailRequest(r)

ResponseDecoder ==
    [st |-> "RequestCode", code |-> unknown, value |-> 0, value2 |-> 0,
     paramCode |-> unknown, paramValue |-> 0, crc8 |-> 0, status |-> "NeedMoreData"]

\* A garbled request in an answer leaves the code of the answer before; any
\* other failure, and the next byte, forgets it, and the model all fields.
FailResponse(r) ==
    IF r.st \in {"RequestCode", "RequestValue"}
    THEN [r EXCEPT !.st = "Error", !.status = "Error"]
    ELSE [ResponseDecoder EXCEPT !.st = "Error", !.status = "Error"]

DecodeResponse(r, c) ==
    CASE r.st = "RequestCode" /\ c \in RequestCodes ->
           [r EXCEPT !.st = "RequestValue", !.code = c, !.value = 0, !.value2 = 0,
                     !.crc8 = 0, !.status = "NeedMoreData"]
      [] r.st = "RequestCode" /\ IsNewLine(c) -> Expect(r, r.st)
      [] r.st = "RequestValue" /\ IsHexDigit(c) ->
           Expect([r EXCEPT !.value = WithDigit(@, c, ByteRange)], r.st)
      [] r.st = "RequestValue" /\ c = Space -> Expect(r, "ParamCode")
      [] r.st = "ParamCode" /\ c \in ParamCodes ->
           Expect([r EXCEPT !.paramCode = c, !.paramValue = 0], "ParamValue")
      [] r.st = "ParamValue" /\ IsHexDigit(c) ->
           Expect([r EXCEPT !.paramValue = WithDigit(@, c, WordRange)], r.st)
      [] r.st = "ParamValue" /\ c = Star -> Expect(r, "CRC")
      [] r.st = "CRC" /\ IsHexDigit(c) ->
           Expect([r EXCEPT !.crc8 = WithDigit(@, c, ByteRange)], r.st)
      [] /\ IsNewLine(c)
         /\ r.st = "Error" \/ (r.st = "CRC" /\ r.crc8 = ResponseCRC(r)) ->
           [r EXCEPT !.st = "RequestCode", !.status = "MessageCompleted"]
      [] OTHER -> FailResponse(r)

-----------------------------------------------------------------------------
(***************************************************************************)
(* Application                                                             *)
(***************************************************************************)

\* Write an answer to the line.
Answer(msg, bytes) ==
    /\ toPrinter' = toPrinter \o bytes
    /\ answer' = [msg |-> msg,
               last |-> IF rsp.st = "RequestCode" THEN msg ELSE answer.msg,
               sound |-> TRUE, prev |-> answer.sound]

ReportCommandAccepted(msg, ar) ==
    Answer(ResponseTo([msg EXCEPT !.value2 = 0], ar, 0), EncodeResponseCmdAR(msg, ar))

ReportRunningCommand ==
    \E s \in Statuses :
        Answer(ResponseTo(current, s[1], s[2]), EncodeResponseQueryOperation(current, s))

ReportRead(msg, accepted, value) ==
    Answer(ResponseTo(msg, IF accepted THEN Accepted ELSE Rejected,
                      IF accepted THEN value ELSE 0),
           EncodeResponseRead(msg, accepted, value))

\* The running command decides whether another one is planned (State), and
\* the new one whether it is accepted (Reset): choices here.
PlanCommand(msg) ==
    \/ /\ current' = msg
       /\ \E ar \in {Accepted, Rejected} : ReportCommandAccepted(msg, ar)
    \/ ReportCommandAccepted(msg, Rejected) /\ UNCHANGED current

\* Application::ProcessRequestMsg, but for the reset.
ProcessRequestMsg(msg) ==
    \/ msg.code \in {Button, FilamentSensor} /\ ReportCommandAccepted(msg, Accepted)
       /\ UNCHANGED current
    \/ msg.code = Finda /\ (\E v \in 0 .. 1 : ReportRead(msg, TRUE, v)) /\ UNCHANGED current
    \/ msg.code = Query /\ ReportRunningCommand /\ UNCHANGED current
    \/ msg.code \in {Version, Read}
       /\ (\/ \E v \in Registers : ReportRead(msg, TRUE, v)
           \/ ReportRead(msg, FALSE, 0))
       /\ UNCHANGED current
    \/ msg.code = Write /\ (\E ar \in {Accepted, Rejected} : ReportCommandAccepted(msg, ar))
       /\ UNCHANGED current
    \/ msg.code \in Commands /\ PlanCommand(msg)
    \/ msg.code \in {unknown, FilamentType} /\ UNCHANGED <<current, toPrinter, answer>>

MessageOf(r) == [code |-> r.code, value |-> r.value, value2 |-> r.value2]
ResetRq == [code |-> Reset, value |-> 0, value2 |-> 0]

\* Application::CheckMsgs, one byte.
CheckMsgs ==
    /\ toMMU # <<>>
    /\ LET r == DecodeRequest(rq, Head(toMMU))
       IN  /\ ~(r.status = "MessageCompleted" /\ r.code = Reset)
           /\ rq' = r
           /\ IF r.status = "MessageCompleted" THEN ProcessRequestMsg(MessageOf(r))
              ELSE UNCHANGED <<current, toPrinter, answer>>
    /\ toMMU' = Tail(toMMU)
    /\ UNCHANGED <<rsp, request, noisy>>

\* The byte completes a reset: the board restarts, without an answer.
ProcessReset ==
    /\ toMMU # <<>>
    /\ LET r == DecodeRequest(rq, Head(toMMU))
       IN  r.status = "MessageCompleted" /\ r.code = Reset
    /\ rq' = RequestDecoder
    /\ current' = ResetRq
    /\ toMMU' = <<>>
    /\ UNCHANGED <<rsp, toPrinter, request, answer, noisy>>

-----------------------------------------------------------------------------
(***************************************************************************)
(* The printer and the line                                                *)
(***************************************************************************)

SendRequest(msg) ==
    /\ toMMU = <<>> /\ toPrinter = <<>>
    /\ toMMU' = EncodeRequest(msg)
    /\ request' = [msg |-> msg,
                   last |-> IF rq.st = "Code" THEN msg ELSE request.msg,
                   sound |-> TRUE, prev |-> request.sound]
    /\ UNCHANGED <<rq, current, rsp, toPrinter, answer, noisy>>

ReceiveAnswer ==
    /\ toPrinter # <<>>
    /\ rsp' = DecodeResponse(rsp, Head(toPrinter))
    /\ toPrinter' = Tail(toPrinter)
    /\ UNCHANGED <<rq, current, toMMU, request, answer, noisy>>

\* The next byte is replaced, lost or doubled.
Disturbed(line) ==
    {<<c>> \o Tail(line) : c \in Noise \ {Head(line)}}
      \cup {Tail(line), <<Head(line)>> \o line}

DisturbRequest ==
    /\ noisy = "request" /\ toMMU # <<>> /\ request.sound
    /\ toMMU' \in Disturbed(toMMU)
    /\ request' = [request EXCEPT !.sound = FALSE]
    /\ UNCHANGED <<rq, current, rsp, toPrinter, answer, noisy>>

DisturbAnswer ==
    /\ noisy = "answer" /\ toPrinter # <<>> /\ answer.sound
    /\ toPrinter' \in Disturbed(toPrinter)
    /\ answer' = [answer EXCEPT !.sound = FALSE]
    /\ UNCHANGED <<rq, current, rsp, toMMU, request, noisy>>

Init ==
    /\ noisy \in {"request", "answer"}
    /\ rq = RequestDecoder
    /\ current = ResetRq
    /\ rsp = ResponseDecoder
    /\ toMMU = <<>>
    /\ toPrinter = <<>>
    /\ request = [msg |-> ResetRq, last |-> ResetRq, sound |-> FALSE, prev |-> FALSE]
    /\ LET ready == ResponseTo(ResetRq, Finished, 0)
       IN  answer = [msg |-> ready, last |-> ready, sound |-> FALSE, prev |-> FALSE]

Next ==
    \/ \E msg \in Messages : SendRequest(msg)
    \/ CheckMsgs
    \/ ProcessReset
    \/ ReceiveAnswer
    \/ DisturbRequest
    \/ DisturbAnswer

Spec == Init /\ [][Next]_vars

-----------------------------------------------------------------------------
(***************************************************************************)
(* Properties                                                              *)
(***************************************************************************)

MaxRequestSize == 13
MaxResponseSize == 14

Status == {"NeedMoreData", "Error", "MessageCompleted"}

\* Types: fields keep their width, and no request outgrows its buffer.
TypeOK ==
    /\ rq \in [st: {"Code", "Value", "Address", "WriteValue", "CRC", "Error"},
               code: RequestCodes \cup {unknown}, value: Byte, value2: Word,
               crc8: Byte, status: Status]
    /\ rsp \in [st: {"RequestCode", "RequestValue", "ParamCode", "ParamValue", "CRC", "Error"},
                code: RequestCodes \cup {unknown}, value: Byte, value2: Word,
                paramCode: ParamCodes \cup {unknown}, paramValue: Word,
                crc8: Byte, status: Status]
    /\ current.code \in Commands \cup {Reset}
    /\ Len(toMMU) <= MaxRequestSize

\* With one byte of each message disturbed the MMU never acts on a request
\* that was not sent, nor on any while its answer to the one before is still on
\* the line: no request is taken for two. It may take the one before late, when
\* its line end was lost and the first byte of a disturbed one is taken for it.
AcceptedWasSent ==
    [][rq' # rq /\ rq'.status = "MessageCompleted" =>
         \/ rq'.code = unknown
         \/ /\ toPrinter = <<>> /\ Len(toPrinter') <= MaxResponseSize
            /\ \/ MessageOf(rq') = request.msg
               \/ ~request.sound /\ MessageOf(rq') = request.last]_vars

\* Likewise the printer never reads an answer that was not given.
AnswerWasGiven ==
    [][rsp' # rsp /\ rsp'.status = "MessageCompleted" =>
         LET read == ResponseTo(MessageOf(rsp'), rsp'.paramCode, rsp'.paramValue)
         IN  \/ rsp'.paramCode = unknown
             \/ read = answer.msg
             \/ ~answer.sound /\ read = answer.last]_vars

\* Whatever was decoded before, the second of two undisturbed messages is
\* understood, in both directions: requests by the MMU, answers by the printer.
Resynchronises ==
    /\ toMMU = <<>> /\ request.sound /\ request.prev /\ request.msg.code # Reset =>
         rq.status = "MessageCompleted" /\ MessageOf(rq) = request.msg
    /\ toPrinter = <<>> /\ answer.sound /\ answer.prev =>
         /\ rsp.status = "MessageCompleted"
         /\ ResponseTo(MessageOf(rsp), rsp.paramCode, rsp.paramValue) = answer.msg
=============================================================================
