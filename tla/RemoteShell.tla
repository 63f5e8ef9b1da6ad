---------------------------- MODULE RemoteShell ----------------------------
(***************************************************************************)
(* A conversation over one connection of the remote shell: RshHandler, its *)
(* RshReader and CommandResponse on the client, RshShell on the server.    *)
(*                                                                         *)
(* There are no lengths and no request numbers: a response ends where a    *)
(* line begins with the prompt, a message that ends in CR alone is a       *)
(* temporary status, and the client may send a command when it has read a  *)
(* prompt.  A read that finds nothing for 30 seconds throws, which leaves  *)
(* the connection open and the stream wherever the reader stood.           *)
(*                                                                         *)
(* The bytes are grouped into tokens: the prompt (two bytes), a telnet     *)
(* option (three), CR, LF, and the text of a line (two or more).  Of the   *)
(* text it matters whether it is a number, whether a colon makes it a      *)
(* field of a header, and then under which name.                           *)
(***************************************************************************)
EXTENDS Naturals, Sequences, FiniteSets

CONSTANTS
  Messages,      \* messages a command may send: <<text, is it temporary>>
  MaxMessages,   \* bound: messages of one command
  MaxCalls       \* bound: calls of executeCommand

(* Fields of a header: two spellings of one name, another name, and one    *)
(* that is a number before its first blank, and passes for a status.       *)
Fields == {"field", "FIELD", "other", "numbered"}
FieldNames == {"field", "other", "numbered"}
Texts == {"status", "words", "blank", "quote"} \cup Fields
LowerCase(name) == IF name = "FIELD" THEN "field" ELSE name

ASSUME MessagesAssumption == Messages \subseteq Texts \X BOOLEAN
ASSUME BoundAssumption == MaxMessages \in Nat /\ MaxCalls \in Nat

VARIABLES
  toServer,       \* what the client has written
  toClient,       \* what the server has written
  call,           \* number of the current call of executeCommand
  callback,       \* it has a CommandResponseCallback
  pc,             \* what the client is reading
  readLine,       \* CommandReader.readLine: no line or one
  temporaryLine,  \* CommandReader.temporaryLine
  status,         \* the status line of the response: no line or one
  header,         \* of each name the line that gives its value, if any
  headerName,     \* the names of the header, as they are spelt
  body,           \* the lines of the body
  told,           \* lines the callback was given
  outcome,        \* of the call
  spc,            \* where RshShell.run() is
  command,        \* the command it has read last
  sent,           \* the messages of that command so far
  dead,           \* the server has closed the socket
  quoted,         \* history: a line began with the prompt
  unended         \* history: a command did not end with a complete line

content == <<header, headerName, body>>
client == <<call, callback, pc, readLine, temporaryLine, status, content, told,
            outcome>>
server == <<spc, command, sent, dead, quoted, unended>>
vars == <<toServer, toClient, client, server>>

Prompt == <<"prompt", 0, 0>>
CR == <<"cr", 0, 0>>
LF == <<"lf", 0, 0>>
Option(verb) == <<verb, 0, 0>>
Command(n) == <<"command", n, 0>>
Verbs == {"dont", "do", "will"}

NoHeader == [name \in FieldNames |-> <<>>]

Reading == {"temporary", "status", "header", "body"}

(* The constructor of RshHandler has connected and sent its options.       *)
Init ==
  /\ toServer = <<Option("dont"), Option("do")>>
  /\ toClient = <<>>
  /\ call = 0 /\ callback = FALSE /\ pc = "negotiation"
  /\ readLine = <<>> /\ temporaryLine = FALSE
  /\ status = <<>> /\ header = NoHeader /\ headerName = <<>> /\ body = <<>>
  /\ told = <<>> /\ outcome = "none"
  /\ spc = "start" /\ command = 0 /\ sent = <<>> /\ dead = FALSE
  /\ quoted = FALSE /\ unended = FALSE

-----------------------------------------------------------------------------
(* RshShell.                                                               *)

(* run(): the options and the first prompt.                                *)
Start ==
  /\ ~dead /\ spc = "start"
  /\ toClient' = toClient \o <<Option("dont"), Option("do"), Prompt>>
  /\ spc' = "read"
  /\ UNCHANGED <<toServer, client, command, sent, dead, quoted, unended>>

(* Faulty: a DO is not answered.                                           *)
ReadOptionSilently ==
  /\ ~dead /\ spc = "read"
  /\ toServer # <<>> /\ Head(toServer)[1] \in Verbs
  /\ toServer' = Tail(toServer)
  /\ UNCHANGED <<toClient, client, server>>

(* responseOption()                                                        *)
ReadOption ==
  /\ ~dead /\ spc = "read"
  /\ toServer # <<>> /\ Head(toServer)[1] \in Verbs
  /\ toServer' = Tail(toServer)
  /\ toClient' = IF Head(toServer) = Option("do")
                 THEN Append(toClient, Option("will")) ELSE toClient
  /\ UNCHANGED <<client, server>>

ReadCommand ==
  /\ ~dead /\ spc = "read"
  /\ toServer # <<>> /\ Head(toServer)[1] = "command"
  /\ toServer' = Tail(toServer)
  /\ command' = Head(toServer)[2]
  /\ sent' = <<>>
  /\ spc' = "exec"
  /\ UNCHANGED <<toClient, client, dead, quoted, unended>>

(* The line of a message.                                                  *)
LineOf(text, n, i) ==
  IF text = "blank" THEN <<>>
  ELSE IF text = "quote" THEN <<Prompt, <<"status", n, i>>>>
  ELSE <<<<text, n, i>>>>

(* sendMessage(), sendTemporaryMessage(), by the command or by             *)
(* executeCommand itself when the command is unknown or fails.             *)
SendMessage(text, temporary) ==
  LET line == LineOf(text, command, Len(sent) + 1)
  IN /\ ~dead /\ spc = "exec"
     /\ Len(sent) < MaxMessages
     /\ sent' = Append(sent, [line |-> line, temporary |-> temporary])
     /\ toClient' = toClient \o line \o IF temporary THEN <<CR>> ELSE <<CR, LF>>
     /\ quoted' = (quoted \/ text = "quote")
     /\ UNCHANGED <<toServer, client, spc, command, dead, unended>>

(* The command is done: the next prompt.                                   *)
EndCommand ==
  /\ ~dead /\ spc = "exec"
  /\ toClient' = Append(toClient, Prompt)
  /\ spc' = "read"
  /\ unended' = (unended \/ sent = <<>> \/ sent[Len(sent)].temporary)
  /\ UNCHANGED <<toServer, client, command, sent, dead, quoted>>

(* A RuntimeException of the command, or nothing to read for soTimeout: the*)
(* socket is closed.  What has been written still arrives.                 *)
Die ==
  /\ ~dead
  /\ dead' = TRUE
  /\ UNCHANGED <<toServer, toClient, client, spc, command, sent, quoted,
                 unended>>

-----------------------------------------------------------------------------
(* RshHandler.                                                             *)

(* negotiation(): three bytes are looked at; there is more to it than the  *)
(* prompt only because the server answers the options.                     *)
AtOption == toClient # <<>> /\ Head(toClient)[1] \in Verbs

NegotiateOption ==
  /\ pc = "negotiation"
  /\ AtOption
  /\ toClient' = Tail(toClient)
  /\ toServer' = IF Head(toClient) = Option("do")
                 THEN Append(toServer, Option("will")) ELSE toServer
  /\ UNCHANGED <<client, server>>

Negotiable == Len(toClient) > 1 \/ dead

EndNegotiation ==
  /\ pc = "negotiation"
  /\ ~AtOption /\ Negotiable
  /\ pc' = "idle"
  /\ UNCHANGED <<toServer, toClient, call, callback, readLine, temporaryLine,
                 status, content, told, outcome, server>>

(* executeCommand(): a new RshReader.                                      *)
ExecuteCommand(cb) ==
  /\ pc = "idle"
  /\ call < MaxCalls
  /\ call' = call + 1
  /\ callback' = cb
  /\ pc' = "sync"
  /\ readLine' = <<>> /\ temporaryLine' = FALSE
  /\ status' = <<>> /\ header' = NoHeader /\ headerName' = <<>> /\ body' = <<>>
  /\ told' = <<>> /\ outcome' = "none"
  /\ UNCHANGED <<toServer, toClient, server>>

Close ==
  /\ pc = "idle"
  /\ pc' = "closed"
  /\ UNCHANGED <<toServer, toClient, call, callback, readLine, temporaryLine,
                 status, content, told, outcome, server>>

(* Two bytes can be looked at, or the stream has ended.                    *)
Peekable ==
  \/ toClient # <<>> /\ (Head(toClient) \notin {CR, LF} \/ Len(toClient) > 1)
  \/ dead

AtPrompt == toClient # <<>> /\ Head(toClient) = Prompt

First(S) == CHOOSE i \in S : \A j \in S : i <= j

After(i) == SubSeq(toClient, i + 1, Len(toClient))

(* readUntilPrompt(): at a prompt, the command is sent; a line that does   *)
(* not begin with one is skipped.                                          *)
Feeds == {i \in 1 .. Len(toClient) : toClient[i] = LF}

(* Faulty: the command is sent without waiting for the prompt.             *)
SendCommandAtOnce ==
  /\ pc = "sync"
  /\ Peekable
  /\ toClient' = IF AtPrompt THEN Tail(toClient) ELSE toClient
  /\ toServer' = Append(toServer, Command(call))
  /\ pc' = IF callback THEN "temporary" ELSE "status"
  /\ UNCHANGED <<call, callback, readLine, temporaryLine, status, content, told,
                 outcome, server>>

SendCommand ==
  /\ pc = "sync"
  /\ Peekable /\ AtPrompt
  /\ toClient' = Tail(toClient)
  /\ toServer' = Append(toServer, Command(call))
  /\ pc' = IF callback THEN "temporary" ELSE "status"
  /\ UNCHANGED <<call, callback, readLine, temporaryLine, status, content, told,
                 outcome, server>>

SkipLine ==
  /\ pc = "sync"
  /\ Peekable /\ ~AtPrompt /\ Feeds # {}
  /\ toClient' = After(First(Feeds))
  /\ UNCHANGED <<toServer, client, server>>

(* The call throws; the connection stays as it is.                         *)
Throw ==
  /\ pc' = "idle"
  /\ outcome' = "thrown"
  /\ readLine' = <<>> /\ temporaryLine' = FALSE
  /\ status' = <<>> /\ header' = NoHeader /\ headerName' = <<>> /\ body' = <<>>
  /\ told' = <<>>
  /\ UNCHANGED <<call, callback, server>>

(* "Negotiation failure."                                                  *)
SyncEnds ==
  /\ pc = "sync"
  /\ dead /\ ~AtPrompt /\ Feeds = {}
  /\ toClient' = <<>>
  /\ Throw
  /\ UNCHANGED toServer

(* RshReader.fillLine(): nothing at a prompt or at the end of the stream;  *)
(* otherwise the bytes up to CR or LF, without those of options.           *)
Ends == {i \in 1 .. Len(toClient) : toClient[i] \in {CR, LF}}

IsText(token) == token[1] \notin Verbs

(* The places of S up to the i-th.                                         *)
UpTo(S, i) == {j \in S : j <= i}

FilledLine ==
  LET texts == {i \in 1 .. First(Ends) - 1 : IsText(toClient[i])}
  IN [k \in 1 .. Cardinality(texts) |->
        toClient[CHOOSE i \in texts : Cardinality(UpTo(texts, i)) = k]]

FillNothing ==
  /\ Peekable
  /\ \/ AtPrompt /\ UNCHANGED toClient
     \/ /\ ~AtPrompt /\ Ends = {} /\ dead
        /\ toClient' = <<>>

FillUpTo(end) ==
  /\ Peekable /\ ~AtPrompt
  /\ Ends # {} /\ toClient[First(Ends)] = end
  /\ toClient' = After(First(Ends))

FillLF == FillUpTo(LF) /\ temporaryLine' = FALSE
FillCR == FillUpTo(CR) /\ temporaryLine' = TRUE

(* What Integer.parseInt takes.                                            *)
Numeric(line) == Len(line) = 1 /\ line[1][1] \in {"status", "numbered"}

(* readTemporaryStatus(): the callback is given every line that CR ends,   *)
(* until an LF or a prompt shows that it was the last.                     *)
ReadTemporary ==
  /\ pc = "temporary"
  /\ FillCR
  /\ Numeric(FilledLine)
  /\ readLine' = <<FilledLine>>
  /\ told' = Append(told, FilledLine)
  /\ UNCHANGED <<toServer, call, callback, pc, status, content, outcome,
                 server>>

EndTemporary ==
  /\ pc = "temporary"
  /\ FillLF \/ (FillNothing /\ UNCHANGED temporaryLine)
  /\ pc' = "status"
  /\ UNCHANGED <<toServer, call, callback, readLine, status, content, told,
                 outcome, server>>

(* CommandReader.readLine(), which has a complete line already ...         *)
Pending == readLine # <<>> /\ ~temporaryLine

(* Faulty: what readTemporaryStatus() has read is not used.                *)
ReadPendingNot ==
  /\ pc = "status" /\ Pending
  /\ readLine' = <<>>
  /\ UNCHANGED <<toServer, toClient, call, callback, pc, temporaryLine, status,
                 content, told, outcome, server>>

ReadPendingStatus ==
  /\ pc = "status" /\ Pending
  /\ status' = readLine
  /\ readLine' = <<>>
  /\ pc' = "header"
  /\ UNCHANGED <<toServer, toClient, call, callback, temporaryLine, content,
                 told, outcome, server>>

(* ... or passes over LF and returns the next line that CR ends.           *)
PassLF ==
  /\ pc \in {"status", "header", "body"} /\ ~Pending
  /\ FillLF
  /\ UNCHANGED <<toServer, call, callback, pc, readLine, status, content, told,
                 outcome, server>>

ReadStatus ==
  /\ pc = "status" /\ ~Pending
  /\ FillCR
  /\ Numeric(FilledLine)
  /\ status' = <<FilledLine>>
  /\ readLine' = <<>>
  /\ pc' = "header"
  /\ UNCHANGED <<toServer, call, callback, content, told, outcome, server>>

(* A line that Integer.parseInt does not take.                             *)
ReadNoNumber ==
  /\ pc \in {"temporary", "status"} /\ (pc = "status" => ~Pending)
  /\ Peekable /\ ~AtPrompt
  /\ Ends # {} /\ toClient[First(Ends)] = CR
  /\ toClient' = After(First(Ends))
  /\ ~Numeric(FilledLine)
  /\ Throw
  /\ UNCHANGED toServer

(* "Cannot read status line."                                              *)
NoStatus ==
  /\ pc = "status" /\ ~Pending
  /\ FillNothing
  /\ Throw
  /\ UNCHANGED toServer

(* A line of one text with a colon behind the first character.             *)
IsField(line) == Len(line) = 1 /\ line[1][1] \in Fields

(* header.put(), which replaces a field of the same name, and              *)
(* headerName.add().                                                       *)
PutField(line) ==
  LET name == line[1][1]
  IN /\ header' = [header EXCEPT ![LowerCase(name)] = <<line>>]
     /\ headerName' = Append(headerName, name)

(* readHeader(): a blank line ends the header, and a line that is no field *)
(* is dropped.                                                             *)
ReadHeader ==
  /\ pc = "header"
  /\ FillCR
  /\ pc' = IF FilledLine = <<>> THEN "body" ELSE "header"
  /\ IF IsField(FilledLine) THEN PutField(FilledLine)
     ELSE UNCHANGED <<header, headerName>>
  /\ UNCHANGED <<toServer, call, callback, readLine, status, body, told, outcome,
                 server>>

(* readBody()                                                              *)
ReadBody ==
  /\ pc = "body"
  /\ FillCR
  /\ body' = Append(body, FilledLine)
  /\ UNCHANGED <<toServer, call, callback, pc, readLine, status, header,
                 headerName, told, outcome, server>>

(* No line: the response is complete.                                      *)
Return ==
  /\ pc \in {"header", "body"}
  /\ FillNothing
  /\ pc' = "idle"
  /\ outcome' = "returned"
  /\ UNCHANGED <<toServer, call, callback, readLine, temporaryLine, status,
                 content, told, server>>

(* A read has waited for 30 seconds: whatever had arrived is consumed.     *)
Blocked ==
  \/ pc = "negotiation" /\ ~AtOption /\ ~Negotiable
  \/ pc = "sync" /\ ~dead /\ (~Peekable \/ (~AtPrompt /\ Feeds = {}))
  \/ /\ pc \in Reading
     /\ ~Pending /\ ~dead /\ (~Peekable \/ (~AtPrompt /\ Ends = {}))

(* The constructor of RshHandler closes the connection; executeCommand()   *)
(* leaves it open.                                                         *)
Timeout ==
  /\ Blocked
  /\ toClient' = <<>>
  /\ IF pc = "negotiation"
     THEN /\ pc' = "closed"
          /\ UNCHANGED <<call, callback, readLine, temporaryLine, status, content,
                         told, outcome, server>>
     ELSE Throw
  /\ UNCHANGED toServer

-----------------------------------------------------------------------------
ServerStep == Start \/ ReadOption \/ ReadCommand \/ EndCommand

ClientStep ==
  \/ NegotiateOption \/ EndNegotiation
  \/ SendCommand \/ SkipLine \/ SyncEnds
  \/ ReadTemporary \/ EndTemporary \/ ReadPendingStatus \/ PassLF \/ ReadStatus
  \/ ReadNoNumber \/ NoStatus \/ ReadHeader \/ ReadBody \/ Return

Next ==
  \/ ServerStep \/ Die
  \/ \E m \in Messages : SendMessage(m[1], m[2])
  \/ ClientStep \/ Timeout \/ Close
  \/ \E cb \in BOOLEAN : ExecuteCommand(cb)

Spec == Init /\ [][Next]_vars

(* Both sides run, and a command ends.  Nothing makes a timeout happen.    *)
FairSpec == Spec /\ WF_vars(ServerStep) /\ WF_vars(ClientStep)

-----------------------------------------------------------------------------
(* A response is made of lines of its own command only, whatever timed out *)
(* before and whatever arrived late, if no line begins with the prompt.    *)
OwnLines ==
  ~quoted =>
    \A s \in {status, body, told} \cup {header[name] : name \in FieldNames} :
      \A i \in 1 .. Len(s) : \A j \in 1 .. Len(s[i]) : s[i][j][2] = call

Sent == [i \in 1 .. Len(sent) |-> sent[i].line]

(* The message that is the status: the first, or with a callback the first *)
(* that is not temporary.                                                  *)
StatusAt ==
  First({i \in 1 .. Len(sent) : callback => ~sent[i].temporary})

(* The message that ends the header, or the place behind the last message, *)
(* and the fields before it.                                               *)
HeaderEnd ==
  LET blanks == {i \in StatusAt + 1 .. Len(sent) : sent[i].line = <<>>}
  IN IF blanks = {} THEN Len(sent) + 1 ELSE First(blanks)

FieldsIn(from, to) == {i \in from .. to : IsField(sent[i].line)}

NameAt(i) == sent[i].line[1][1]

(* headerName has the names of these messages, in their order.             *)
ListsNames(S) ==
  \E at \in [1 .. Len(headerName) -> S] :
    /\ \A j, k \in 1 .. Len(headerName) : j < k => at[j] < at[k]
    /\ \A i \in S : \E k \in 1 .. Len(headerName) : at[k] = i
    /\ \A k \in 1 .. Len(headerName) : headerName[k] = NameAt(at[k])

(* The header has the last of these messages under each name.              *)
KeepsLast(S) ==
  \A name \in FieldNames :
    LET named == {i \in S : LowerCase(NameAt(i)) = name}
    IN IF named = {} THEN header[name] = <<>>
       ELSE \E i \in named : /\ \A j \in named : j <= i
                            /\ header[name] = <<sent[i].line>>

(* A response that is returned is what the command sent: its status, the   *)
(* fields before the first blank line, each name as often as it was sent   *)
(* and with the value sent last, and every line behind it; the command has *)
(* ended, or the server has closed the connection, which the client takes  *)
(* for the end.                                                            *)
ReturnsAll ==
  outcome = "returned" /\ pc = "idle" /\ ~quoted =>
    /\ command = call /\ (spc = "read" \/ dead)
    /\ status = <<Sent[StatusAt]>>
    /\ ListsNames(FieldsIn(StatusAt + 1, HeaderEnd - 1))
    /\ KeepsLast(FieldsIn(StatusAt + 1, HeaderEnd - 1))
    /\ body = SubSeq(Sent, HeaderEnd + 1, Len(Sent))
    /\ callback => told = SubSeq(Sent, 1, StatusAt)

(* Client and server never wait for each other: a call ends without a      *)
(* timeout, if the server lives and every command ends with a complete     *)
(* line.                                                                   *)
CallAnswered ==
  pc \in {"negotiation", "sync"} \cup Reading
    ~> pc \in {"idle", "closed"} \/ dead \/ unended
=============================================================================
