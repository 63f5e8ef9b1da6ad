------------------------- MODULE RemoteShellProofs -------------------------
(***************************************************************************)
(* Proofs about RemoteShell, for any messages and any number of them and of*)
(* calls: a response holds lines of its own command only, and one that is  *)
(* returned is what the header and the body keep of them, complete.        *)
(*                                                                         *)
(* The first needs what is on the way to be of one command.  The second    *)
(* needs more: where in the stream each message stands that has not been   *)
(* read (Remaining), and which of those that have been read is the status, *)
(* which the blank line, and what the header and the body have of the      *)
(* others (Progress).                                                      *)
(*                                                                         *)
(* At the end of the module, the service that accepts the connections,     *)
(* RshService: none is lost, and none waits with nobody to come for it.    *)
(***************************************************************************)
EXTENDS RemoteShell, RshService, FiniteSetTheorems, SequenceTheorems,
        WellFoundedInduction, TLAPS

ServerTokens == (Verbs \cup {"command"}) \X Nat \X Nat
ClientTokens == {Prompt, CR, LF} \cup ((Verbs \cup Texts) \X Nat \X Nat)
Line == Seq(ClientTokens)

ContentOK ==
  /\ header \in [FieldNames -> Seq(Line)]
  /\ headerName \in Seq(Fields)
  /\ body \in Seq(Line)

ClientTypeOK ==
  /\ call \in Nat /\ callback \in BOOLEAN
  /\ pc \in {"negotiation", "idle", "sync", "closed"} \cup Reading
  /\ readLine \in Seq(Line) /\ temporaryLine \in BOOLEAN
  /\ status \in Seq(Line) /\ ContentOK /\ told \in Seq(Line)
  /\ outcome \in {"none", "returned", "thrown"}

ServerTypeOK ==
  /\ spc \in {"start", "read", "exec"} /\ command \in Nat
  /\ sent \in Seq([line : Line, temporary : BOOLEAN])
  /\ dead \in BOOLEAN /\ quoted \in BOOLEAN /\ unended \in BOOLEAN

TypeOK ==
  /\ toServer \in Seq(ServerTokens) /\ toClient \in Line
  /\ ClientTypeOK /\ ServerTypeOK

IsCommand(token) == token[1] = "command"
IsOption(token) == token[1] \in Verbs

(* There is one prompt or one command on the way, not both, and nothing    *)
(* but answers to options comes behind a prompt.                           *)
OnePrompt ==
  /\ \A i, j \in 1 .. Len(toServer) :
       IsCommand(toServer[i]) /\ IsCommand(toServer[j]) => i = j
  /\ \A i \in 1 .. Len(toServer) : IsCommand(toServer[i]) =>
       spc = "read" /\ \A j \in 1 .. Len(toClient) : IsOption(toClient[j])
  /\ spc = "start" => toClient = <<>>
  /\ spc = "exec" => \A j \in 1 .. Len(toClient) : toClient[j] # Prompt
  /\ \A i, j \in 1 .. Len(toClient) :
       toClient[i] = Prompt /\ i < j => IsOption(toClient[j])

(* While the client reads, the server has the command of this call, or is  *)
(* going to, and what is on the way is the answer to it.                   *)
Answering ==
  pc \in Reading =>
    /\ \A i \in 1 .. Len(toServer) :
         IsCommand(toServer[i]) => toServer[i] = Command(call)
    /\ \/ \E i \in 1 .. Len(toServer) : IsCommand(toServer[i])
       \/ command = call
    /\ \A i \in 1 .. Len(toClient) :
         toClient[i][1] \in Texts => toClient[i][2] = call

(* What has been read is of this call.                                     *)
OwnLine(line, n) == \A j \in 1 .. Len(line) : line[j][2] = n
OwnRead(s, n) == \A i \in 1 .. Len(s) : OwnLine(s[i], n)
OwnContent ==
  /\ \A name \in FieldNames : OwnRead(header[name], call)
  /\ OwnRead(body, call)
AllOwn ==
  /\ OwnRead(readLine, call) /\ OwnRead(status, call)
  /\ OwnContent /\ OwnRead(told, call)

IInv == TypeOK /\ (~quoted => OnePrompt /\ Answering /\ AllOwn)

-----------------------------------------------------------------------------
(* The first element of a set of places, and the k-th.                     *)

LEMMA LeastNumber ==
  ASSUME NEW S \in SUBSET Nat, S # {}
  PROVE  First(S) \in S /\ \A j \in S : First(S) <= j
<1>1. PICK i \in S : \A j \in S : ~(<<j, i>> \in OpToRel(<, Nat))
  BY NatLessThanWellFounded, WFMin
<1>2. \A j \in S : ~(j < i)
  BY <1>1 DEF OpToRel
<1>3. \A j \in S : i <= j
  BY <1>2
<1>4. QED BY <1>3 DEF First

(* The k-th element of a set of numbers is there.                          *)
LEMMA Ranked ==
  ASSUME NEW n \in Nat, NEW T, T \subseteq 1 .. n,
         NEW k \in 1 .. Cardinality(T)
  PROVE  \E i \in T : Cardinality(UpTo(T, i)) = k
<1> DEFINE S == {i \in Nat : k <= Cardinality(UpTo(T, i))}
<1>1. IsFiniteSet(T) /\ Cardinality(T) \in Nat
  <2>1. IsFiniteSet(1 .. n)
    BY FS_Interval
  <2>2. IsFiniteSet(T)
    BY <2>1, FS_Subset
  <2>3. QED BY <2>2, FS_CardinalityType
<1>2. k \in Nat /\ 1 <= k /\ k <= Cardinality(T)
  BY <1>1
<1>3. \A j \in T : j \in Nat /\ 1 <= j /\ j <= n
  OBVIOUS
<1>4. ASSUME NEW i \in Nat
      PROVE  IsFiniteSet(UpTo(T, i)) /\ Cardinality(UpTo(T, i)) \in Nat
  <2>1. UpTo(T, i) \in SUBSET T
    BY DEF UpTo
  <2>2. QED BY <1>1, <2>1, FS_Subset, FS_CardinalityType
<1>5. n \in S
  <2>1. UpTo(T, n) = T
    BY <1>3 DEF UpTo
  <2>2. QED BY <1>2, <2>1
<1>6. 0 \notin S
  <2>1. UpTo(T, 0) = {}
    <3>1. \A j \in T : ~(j <= 0)
      BY <1>3
    <3>2. QED BY <3>1 DEF UpTo
  <2>2. Cardinality(UpTo(T, 0)) = 0
    BY <2>1, FS_EmptySet
  <2>3. QED BY <1>2, <2>2
<1>7. PICK m \in Nat : m # 0 /\ m \in S /\ \A j \in S : m <= j
  <2>1. S \in SUBSET Nat
    OBVIOUS
  <2> HIDE DEF S
  <2>2. First(S) \in S /\ \A j \in S : First(S) <= j
    BY <1>5, <2>1, LeastNumber
  <2>3. QED BY <1>6, <2>1, <2>2
<1>8. m - 1 \in Nat /\ m - 1 \notin S
  <2>1. m - 1 \in Nat /\ ~(m <= m - 1)
    BY <1>7
  <2> HIDE DEF S
  <2>2. QED BY <1>7, <2>1
<1>9. Cardinality(UpTo(T, m - 1)) < k /\ k <= Cardinality(UpTo(T, m))
  BY <1>2, <1>4, <1>7, <1>8
<1>10. m \in T
  <2>1. SUFFICES ASSUME m \notin T PROVE FALSE
    OBVIOUS
  <2>2. \A j \in T : j <= m <=> j <= m - 1
    BY <1>3, <1>7, <2>1
  <2>3. UpTo(T, m) = UpTo(T, m - 1)
    BY <2>2 DEF UpTo
  <2>4. QED BY <1>2, <1>4, <1>7, <1>8, <1>9, <2>3
<1>11. UpTo(T, m) = UpTo(T, m - 1) \cup {m} /\ m \notin UpTo(T, m - 1)
  <2>1. \A j \in T : j <= m <=> j <= m - 1 \/ j = m
    BY <1>3, <1>7
  <2>2. ~(m <= m - 1)
    BY <1>7
  <2>3. QED BY <1>10, <2>1, <2>2 DEF UpTo
<1>12. Cardinality(UpTo(T, m)) = Cardinality(UpTo(T, m - 1)) + 1
  <2>1. IsFiniteSet(UpTo(T, m - 1))
    BY <1>4, <1>8
  <2>2. QED BY <1>11, <2>1, FS_AddElement
<1>13. Cardinality(UpTo(T, m)) = k
  BY <1>2, <1>4, <1>7, <1>8, <1>9, <1>12
<1>14. QED BY <1>10, <1>13

-----------------------------------------------------------------------------
(* Streams.                                                                *)

(* The rest of what has arrived.                                           *)
LEMMA RestOf ==
  ASSUME toClient \in Line, NEW k \in 0 .. Len(toClient)
  PROVE  /\ After(k) \in Line
         /\ Len(After(k)) = Len(toClient) - k
         /\ \A i \in 1 .. Len(toClient) - k : After(k)[i] = toClient[i + k]
<1>1. Len(toClient) \in Nat /\ k \in Nat /\ k <= Len(toClient)
  BY LenProperties DEF Line
<1>2. \A i \in k + 1 .. Len(toClient) : toClient[i] \in ClientTokens
  BY <1>1, ElementOfSeq DEF Line
<1> DEFINE m == k + 1
<1>3. m \in Int /\ Len(toClient) \in Int
  BY <1>1
<1>4. /\ SubSeq(toClient, m, Len(toClient)) \in Seq(ClientTokens)
      /\ Len(SubSeq(toClient, m, Len(toClient))) =
           IF m <= Len(toClient) THEN Len(toClient) - m + 1 ELSE 0
      /\ \A i \in 1 .. Len(toClient) - m + 1 :
           SubSeq(toClient, m, Len(toClient))[i] = toClient[m + i - 1]
  <2> HIDE DEF m
  <2>1. \A i \in m .. Len(toClient) : toClient[i] \in ClientTokens
    BY <1>2 DEF m
  <2>2. QED BY <1>3, <2>1, SubSeqProperties
<1>5. QED BY <1>1, <1>4 DEF After, Line

LEMMA NoneOrTail ==
  ASSUME toClient \in Line
  PROVE  /\ After(0) = toClient
         /\ After(Len(toClient)) = <<>>
         /\ toClient # <<>> => /\ Tail(toClient) = After(1)
                               /\ Head(toClient) = toClient[1]
                               /\ Len(toClient) >= 1
<1>1. Len(toClient) \in Nat
  BY LenProperties DEF Line
<1>2. After(0) = toClient
  BY SubSeqFull DEF After, Line
<1>3. After(Len(toClient)) = <<>>
  BY <1>1, SubSeqEmpty DEF After
<1>4. ASSUME toClient # <<>>
      PROVE  /\ Tail(toClient) = After(1) /\ Head(toClient) = toClient[1]
             /\ Len(toClient) >= 1
  <2>1. Len(toClient) \in Nat \ {0}
    BY <1>4, EmptySeq DEF Line
  <2>2. Tail(toClient) = SubSeq(toClient, 2, Len(toClient))
    BY <1>4, TailIsSubSeq DEF Line
  <2>3. Head(toClient) = toClient[1]
    BY <1>4 DEF Line
  <2>4. QED BY <2>1, <2>2, <2>3 DEF After
<1>5. QED BY <1>2, <1>3, <1>4

(* The text before the first end of a line.                                *)
LEMMA FilledLineIs ==
  ASSUME toClient \in Line, Ends # {}
  PROVE  /\ First(Ends) \in 1 .. Len(toClient)
         /\ toClient[First(Ends)] \in {CR, LF}
         /\ \A i \in 1 .. First(Ends) - 1 : toClient[i] \notin {CR, LF}
         /\ FilledLine \in Line
         /\ \A k \in 1 .. Len(FilledLine) : \E i \in 1 .. First(Ends) - 1 :
              FilledLine[k] = toClient[i] /\ ~IsOption(toClient[i])
<1> DEFINE end == First(Ends)
<1>1. Len(toClient) \in Nat
  BY LenProperties DEF Line
<1>2. end \in Ends /\ \A j \in Ends : end <= j
  <2>1. Ends \in SUBSET Nat
    BY <1>1 DEF Ends
  <2>2. QED BY <2>1, LeastNumber
<1>3. /\ end \in Nat /\ 1 <= end /\ end <= Len(toClient)
      /\ toClient[end] \in {CR, LF}
  BY <1>1, <1>2 DEF Ends
<1> HIDE DEF end
<1>4. \A i \in 1 .. end - 1 : /\ i \in 1 .. Len(toClient)
                              /\ toClient[i] \notin {CR, LF}
                              /\ toClient[i] \in ClientTokens
  <2>1. SUFFICES ASSUME NEW i \in 1 .. end - 1
                 PROVE  /\ i \in 1 .. Len(toClient)
                        /\ toClient[i] \notin {CR, LF}
                        /\ toClient[i] \in ClientTokens
    OBVIOUS
  <2>2. i \in 1 .. Len(toClient) /\ ~(end <= i)
    BY <1>1, <1>3
  <2>3. QED BY <1>2, <2>2, ElementOfSeq DEF Ends, Line
<1> DEFINE texts == {i \in 1 .. end - 1 : IsText(toClient[i])}
<1> DEFINE at(k) == CHOOSE i \in texts : Cardinality(UpTo(texts, i)) = k
<1> DEFINE n == Cardinality(texts)
<1>5. n \in Nat
  <2>1. IsFiniteSet(1 .. end - 1)
    BY <1>3, FS_Interval
  <2>2. IsFiniteSet(texts)
    <3>1. texts \in SUBSET (1 .. end - 1)
      OBVIOUS
    <3>2. QED BY <2>1, <3>1, FS_Subset
  <2>3. QED BY <2>2, FS_CardinalityType
<1>6. \A k \in 1 .. n : at(k) \in texts
  <2>1. SUFFICES ASSUME NEW k \in 1 .. n PROVE at(k) \in texts
    OBVIOUS
  <2>2. end - 1 \in Nat /\ texts \subseteq 1 .. end - 1
    BY <1>3
  <2> HIDE DEF texts
  <2>3. \E i \in texts : Cardinality(UpTo(texts, i)) = k
    BY <2>2, Ranked
  <2>4. QED BY <2>3
<1>7. FilledLine = [k \in 1 .. n |-> toClient[at(k)]]
  BY DEF FilledLine, end
<1> HIDE DEF n, at
<1>8. \A k \in 1 .. n : /\ at(k) \in 1 .. end - 1
                        /\ toClient[at(k)] \in ClientTokens
                        /\ ~IsOption(toClient[at(k)])
  BY <1>4, <1>6 DEF IsText, IsOption
<1> HIDE DEF texts
<1>9. FilledLine \in Line /\ Len(FilledLine) = n
  BY <1>5, <1>7, <1>8 DEF Line
<1>10. \A k \in 1 .. n : FilledLine[k] = toClient[at(k)]
  BY <1>7
<1>11. QED BY <1>3, <1>4, <1>8, <1>9, <1>10 DEF end

(* The text is of this call: a prompt before it would be the last but      *)
(* options.                                                                *)
LEMMA FilledLineOwn ==
  ASSUME TypeOK, OnePrompt, Answering, pc \in Reading, Ends # {}
  PROVE  OwnLine(FilledLine, call)
<1> DEFINE end == First(Ends)
<1>1. /\ end \in 1 .. Len(toClient) /\ toClient[end] \in {CR, LF}
      /\ \A i \in 1 .. end - 1 : toClient[i] \notin {CR, LF}
      /\ \A k \in 1 .. Len(FilledLine) : \E i \in 1 .. end - 1 :
           FilledLine[k] = toClient[i] /\ ~IsOption(toClient[i])
  BY FilledLineIs DEF TypeOK
<1> HIDE DEF end
<1>2. Len(toClient) \in Nat /\ ~IsOption(toClient[end])
  BY <1>1, LenProperties DEF TypeOK, Line, IsOption, CR, LF, Verbs
<1>3. ASSUME NEW i \in 1 .. end - 1, ~IsOption(toClient[i])
      PROVE  toClient[i][2] = call
  <2>1. i \in 1 .. Len(toClient) /\ i < end
    BY <1>1, <1>2
  <2>2. toClient[i] # Prompt
    BY <1>1, <1>2, <2>1 DEF OnePrompt
  <2>3. toClient[i] \in (Verbs \cup Texts) \X Nat \X Nat
    <3>1. toClient[i] \in ClientTokens
      BY <2>1, ElementOfSeq DEF TypeOK, Line
    <3>2. QED BY <1>1, <2>2, <3>1 DEF ClientTokens
  <2>4. toClient[i][1] \in Texts
    BY <1>3, <2>3 DEF IsOption
  <2>5. QED BY <2>1, <2>4 DEF Answering
<1>4. QED BY <1>1, <1>3 DEF OwnLine

-----------------------------------------------------------------------------
(* What the client does with what has arrived.                             *)

LEMMA ClientReads ==
  ASSUME IInv, NEW k \in 0 .. Len(toClient), toClient' = After(k),
         UNCHANGED <<toServer, server>>, ClientTypeOK',
         pc' \in Reading => pc \in Reading /\ call' = call,
         ~quoted => AllOwn'
  PROVE  IInv'
<1>1. TypeOK /\ Len(toClient) \in Nat
  BY LenProperties DEF IInv, TypeOK, Line
<1>2. /\ toClient' \in Line /\ Len(toClient') = Len(toClient) - k
      /\ \A i \in 1 .. Len(toClient) - k : toClient'[i] = toClient[i + k]
  BY <1>1, RestOf DEF TypeOK
<1>3. UNCHANGED <<spc, command, sent, dead, quoted, unended, toServer>>
  BY DEF server
<1>4. \A i \in 1 .. Len(toClient') : /\ i + k \in 1 .. Len(toClient)
                                     /\ toClient'[i] = toClient[i + k]
  BY <1>1, <1>2
<1>5. TypeOK'
  BY <1>1, <1>2, <1>3 DEF TypeOK, ServerTypeOK
<1>6. ASSUME ~quoted PROVE OnePrompt' /\ Answering'
  <2>1. OnePrompt /\ Answering
    BY <1>6 DEF IInv
  <2>2. \A i, j \in 1 .. Len(toClient') :
          toClient'[i] = Prompt /\ i < j => IsOption(toClient'[j])
    <3>1. SUFFICES ASSUME NEW i \in 1 .. Len(toClient'),
                          NEW j \in 1 .. Len(toClient'),
                          toClient'[i] = Prompt, i < j
                   PROVE  IsOption(toClient'[j])
      OBVIOUS
    <3>2. i + k < j + k
      BY <1>1, <3>1
    <3>3. QED BY <1>4, <2>1, <3>1, <3>2 DEF OnePrompt
  <2>3. toClient = <<>> => toClient' = <<>>
    <3>1. SUFFICES ASSUME toClient = <<>> PROVE toClient' = <<>>
      OBVIOUS
    <3>2. Len(toClient) = 0
      BY <3>1
    <3>3. k = 0
      BY <3>2
    <3>4. QED BY <1>1, <3>1, <3>3, NoneOrTail DEF TypeOK
  <2>4. OnePrompt'
    BY <1>3, <1>4, <2>1, <2>2, <2>3 DEF OnePrompt, IsCommand
  <2>5. Answering'
    BY <1>3, <1>4, <2>1 DEF Answering, IsCommand
  <2>6. QED BY <2>4, <2>5
<1>7. QED BY <1>3, <1>5, <1>6 DEF IInv

(* A read that finds no line, and one that finds one.                      *)
LEMMA FillsNothing ==
  ASSUME TypeOK, UNCHANGED toClient \/ toClient' = <<>>
  PROVE  \E k \in 0 .. Len(toClient) : toClient' = After(k)
<1>1. Len(toClient) \in Nat /\ toClient \in Line
  BY LenProperties DEF TypeOK, Line
<1>2. 0 \in 0 .. Len(toClient) /\ Len(toClient) \in 0 .. Len(toClient)
  BY <1>1
<1>3. QED BY <1>1, <1>2, NoneOrTail

LEMMA FillsUpTo ==
  ASSUME TypeOK, Ends # {}
  PROVE  First(Ends) \in 0 .. Len(toClient) /\ FilledLine \in Line
<1>1. /\ First(Ends) \in 1 .. Len(toClient)
      /\ FilledLine \in Line
  BY FilledLineIs DEF TypeOK
<1>2. QED BY <1>1

(* Sequences of lines that are of one call.                                *)
LEMMA OwnSequences ==
  ASSUME NEW n, NEW line \in Line, OwnLine(line, n),
         NEW s \in Seq(Line), OwnRead(s, n)
  PROVE  /\ OwnRead(<<line>>, n) /\ <<line>> \in Seq(Line)
         /\ OwnRead(Append(s, line), n) /\ Append(s, line) \in Seq(Line)
<1>1. /\ <<line>> \in Seq(Line) /\ Len(<<line>>) = 1 /\ <<line>>[1] = line
  OBVIOUS
<1>2. OwnRead(<<line>>, n)
  BY <1>1 DEF OwnRead
<1>3. /\ Append(s, line) \in Seq(Line) /\ Len(Append(s, line)) = Len(s) + 1
      /\ Len(s) \in Nat
      /\ \A i \in 1 .. Len(s) : Append(s, line)[i] = s[i]
      /\ Append(s, line)[Len(s) + 1] = line
  BY AppendProperties, LenProperties
<1>4. OwnRead(Append(s, line), n)
  BY <1>3 DEF OwnRead
<1>5. QED BY <1>1, <1>2, <1>3, <1>4

LEMMA OwnNothing ==
  <<>> \in Seq(Line) /\ \A n : OwnRead(<<>>, n)
<1>1. <<>> \in Seq(Line) /\ Len(<<>>) = 0
  OBVIOUS
<1>2. QED BY <1>1 DEF OwnRead

(* The response of a call that has read nothing.                           *)
NoContent == header = NoHeader /\ headerName = <<>> /\ body = <<>>

LEMMA EmptyContent == NoContent => ContentOK /\ OwnContent
<1> SUFFICES ASSUME NoContent PROVE ContentOK /\ OwnContent
  OBVIOUS
<1>1. \A name \in FieldNames : header[name] = <<>>
  BY DEF NoContent, NoHeader
<1>2. header \in [FieldNames -> Seq(Line)]
  BY OwnNothing DEF NoContent, NoHeader
<1>3. headerName \in Seq(Fields) /\ body \in Seq(Line)
  BY OwnNothing DEF NoContent
<1>4. QED BY <1>1, <1>2, <1>3, OwnNothing DEF NoContent, ContentOK, OwnContent

(* A call that throws.                                                     *)
LEMMA ThrowInv ==
  ASSUME IInv, NEW k \in 0 .. Len(toClient), toClient' = After(k), Throw,
         UNCHANGED toServer
  PROVE  IInv'
<1>1. NoContent'
  BY DEF Throw, NoContent, NoHeader
<1>2. (NoContent => ContentOK /\ OwnContent)'
  BY EmptyContent, PTL
<1>3. ClientTypeOK' /\ AllOwn'
  BY <1>1, <1>2, OwnNothing DEF IInv, TypeOK, Throw, ClientTypeOK, AllOwn
<1>4. pc' \notin Reading
  BY DEF Throw, Reading
<1>5. QED BY <1>3, <1>4, ClientReads DEF Throw

LEMMA NewCallInv ==
  ASSUME IInv, NEW cb \in BOOLEAN, ExecuteCommand(cb)
  PROVE  IInv'
<1>1. PICK k \in 0 .. Len(toClient) : toClient' = After(k)
  BY FillsNothing DEF IInv, ExecuteCommand
<1>2. /\ readLine' = <<>> /\ status' = <<>> /\ told' = <<>>
      /\ pc' = "sync" /\ temporaryLine' = FALSE /\ outcome' = "none"
      /\ call' = call + 1 /\ callback' = cb
  BY DEF ExecuteCommand
<1>3. call' \in Nat /\ callback' \in BOOLEAN /\ temporaryLine' \in BOOLEAN
  <2>1. call \in Nat
    BY DEF IInv, TypeOK, ClientTypeOK
  <2>2. call' \in Nat
    BY <1>2, <2>1
  <2>3. QED BY <1>2, <2>2, Zenon
<1>4. NoContent'
  BY DEF ExecuteCommand, NoContent, NoHeader
<1>5. (NoContent => ContentOK /\ OwnContent)'
  BY EmptyContent, PTL
<1>6. ClientTypeOK' /\ AllOwn' /\ pc' \notin Reading
  BY <1>2, <1>3, <1>4, <1>5, OwnNothing DEF ClientTypeOK, AllOwn, Reading
<1>7. QED BY <1>1, <1>6, ClientReads DEF ExecuteCommand

(* Steps that change nothing but the place of the client.                  *)
LEMMA PlaceInv ==
  ASSUME IInv, EndNegotiation \/ Close \/ SkipLine
  PROVE  IInv'
<1>1. \E k \in 0 .. Len(toClient) : toClient' = After(k)
  <2>1. CASE EndNegotiation \/ Close
    BY <2>1, FillsNothing DEF IInv, EndNegotiation, Close
  <2>2. CASE SkipLine
    <3>1. Len(toClient) \in Nat
      BY LenProperties DEF IInv, TypeOK, Line
    <3>2. Feeds \in SUBSET Nat /\ Feeds # {}
      BY <2>2, <3>1 DEF SkipLine, Feeds
    <3>3. First(Feeds) \in Feeds
      BY <3>2, LeastNumber
    <3>4. First(Feeds) \in 0 .. Len(toClient)
      BY <3>1, <3>3 DEF Feeds
    <3>5. QED BY <2>2, <3>4 DEF SkipLine
  <2>3. QED BY <2>1, <2>2
<1>2. /\ UNCHANGED <<call, callback, readLine, temporaryLine, status, content>>
      /\ UNCHANGED <<told, outcome, toServer, server>>
      /\ pc' \in {pc, "idle", "closed"}
  BY DEF EndNegotiation, Close, SkipLine, client
<1>3. ClientTypeOK'
  BY <1>2 DEF IInv, TypeOK, ClientTypeOK, ContentOK, content
<1>4. ~quoted => AllOwn'
  BY <1>2 DEF IInv, AllOwn, OwnContent, content
<1>5. pc' \in Reading => pc \in Reading
  BY <1>2 DEF Reading
<1>6. QED BY <1>1, <1>2, <1>3, <1>4, <1>5, ClientReads

(* A field is put under the name it has.                                   *)
LEMMA FieldPut ==
  ASSUME ContentOK, NEW line \in Line, IsField(line), PutField(line),
         body' = body
  PROVE  /\ ContentOK'
         /\ call' = call /\ OwnContent /\ OwnLine(line, call) => OwnContent'
<1> DEFINE name == LowerCase(line[1][1])
<1>1. line[1][1] \in Fields /\ name \in FieldNames
  BY DEF IsField, LowerCase, Fields, FieldNames
<1>2. /\ header' = [header EXCEPT ![name] = <<line>>]
      /\ headerName' = Append(headerName, line[1][1])
  BY DEF PutField
<1> HIDE DEF name
<1>3. /\ header'[name] = <<line>>
      /\ \A m \in FieldNames : m # name => header'[m] = header[m]
      /\ header' \in [FieldNames -> Seq(Line)]
  BY <1>1, <1>2 DEF ContentOK
<1>4. ContentOK'
  BY <1>1, <1>2, <1>3, AppendProperties DEF ContentOK
<1>5. OwnLine(line, call) => OwnRead(<<line>>, call)
  BY DEF OwnRead
<1>6. QED BY <1>3, <1>4, <1>5 DEF OwnContent

(* A line that is read goes to the response of its own call.               *)
LEMMA LineReadInv ==
  ASSUME IInv, ReadTemporary \/ ReadStatus \/ ReadHeader \/ ReadBody
  PROVE  IInv'
<1>1. TypeOK /\ pc \in Reading
  BY DEF IInv, ReadTemporary, ReadStatus, ReadHeader, ReadBody, Reading
<1>2. /\ Ends # {} /\ toClient' = After(First(Ends)) /\ temporaryLine' = TRUE
      /\ UNCHANGED <<toServer, call, callback, outcome, server>>
      /\ pc' \in Reading
  BY
     DEF ReadTemporary, ReadStatus, ReadHeader, ReadBody, FillCR, FillUpTo,
         Reading
<1>3. First(Ends) \in 0 .. Len(toClient) /\ FilledLine \in Line
  BY <1>1, <1>2, FillsUpTo
<1>4. ~quoted => OwnLine(FilledLine, call)
  BY <1>1, <1>2, FilledLineOwn DEF IInv
<1>5. /\ readLine' \in {<<>>, readLine, <<FilledLine>>}
      /\ status' \in {status, <<FilledLine>>}
      /\ told' \in {told, Append(told, FilledLine)}
      /\ \/ content' = content
         \/ PutField(FilledLine) /\ IsField(FilledLine) /\ body' = body
         \/ body' = Append(body, FilledLine)
            /\ UNCHANGED <<header, headerName>>
  BY DEF ReadTemporary, ReadStatus, ReadHeader, ReadBody, content
<1>6. /\ readLine \in Seq(Line) /\ status \in Seq(Line)
      /\ ContentOK /\ told \in Seq(Line)
  BY <1>1 DEF TypeOK, ClientTypeOK
<1>7. ContentOK' /\ (~quoted => OwnContent')
  <2>1. CASE content' = content
    BY <1>2, <1>6, <2>1 DEF content, ContentOK, OwnContent, IInv, AllOwn
  <2>2. CASE PutField(FilledLine) /\ IsField(FilledLine) /\ body' = body
    BY <1>2, <1>3, <1>4, <1>6, <2>2, FieldPut DEF IInv, AllOwn
  <2>3. CASE body' = Append(body, FilledLine)
             /\ UNCHANGED <<header, headerName>>
    <3>1. body \in Seq(Line) /\ body' \in Seq(Line)
      BY <1>3, <1>6, <2>3, AppendProperties DEF ContentOK
    <3>2. ASSUME ~quoted PROVE OwnRead(body', call)
      <4>1. OwnRead(body, call)
        BY <3>2 DEF IInv, AllOwn, OwnContent
      <4>2. QED BY <1>3, <1>4, <2>3, <3>1, <3>2, <4>1, OwnSequences
    <3>3. QED BY <1>2, <1>6, <2>3, <3>1, <3>2
             DEF ContentOK, OwnContent, IInv, AllOwn
  <2>4. QED BY <1>5, <2>1, <2>2, <2>3
<1> DEFINE l == FilledLine
<1> HIDE DEF l
<1>8. /\ <<l>> \in Seq(Line)
      /\ Append(told, l) \in Seq(Line) /\ <<>> \in Seq(Line)
  BY <1>3, <1>6, AppendProperties DEF l
<1>9. ClientTypeOK'
  BY <1>1, <1>2, <1>5, <1>6, <1>7, <1>8 DEF TypeOK, ClientTypeOK, l
<1>10. ASSUME ~quoted PROVE AllOwn'
  <2>1. AllOwn /\ OwnLine(l, call) /\ l \in Line
    BY <1>3, <1>4, <1>10 DEF IInv, l
  <2>2. /\ OwnRead(<<>>, call) /\ OwnRead(<<l>>, call)
        /\ OwnRead(Append(told, l), call)
    BY <1>6, <2>1, OwnSequences, OwnNothing DEF AllOwn
  <2>3. QED BY <1>2, <1>5, <1>7, <1>10, <2>1, <2>2 DEF AllOwn, l
<1>11. QED BY <1>1, <1>2, <1>3, <1>9, <1>10, ClientReads

(* Steps that end a part of the response.                                  *)
LEMMA PartReadInv ==
  ASSUME IInv, EndTemporary \/ ReadPendingStatus \/ PassLF \/ Return
  PROVE  IInv'
<1>1. TypeOK /\ pc \in Reading
  BY DEF IInv, EndTemporary, ReadPendingStatus, PassLF, Return, Reading
<1>2. \E k \in 0 .. Len(toClient) : toClient' = After(k)
  <2>1. CASE FillLF
    <3>1. Ends # {} /\ toClient' = After(First(Ends))
      BY <2>1 DEF FillLF, FillUpTo
    <3>2. QED BY <1>1, <3>1, FillsUpTo
  <2>2. CASE FillNothing \/ UNCHANGED toClient
    BY <1>1, <2>2, FillsNothing DEF FillNothing
  <2>3. QED BY <2>1, <2>2 DEF EndTemporary, ReadPendingStatus, PassLF, Return
<1>3. /\ UNCHANGED <<toServer, call, callback, content, told, server>>
      /\ temporaryLine' \in {temporaryLine, FALSE}
      /\ outcome' \in {outcome, "returned"}
      /\ pc' \in Reading \cup {"idle"}
      /\ \/ UNCHANGED <<readLine, status>>
         \/ readLine' = <<>> /\ status' = readLine
  BY <1>1 DEF EndTemporary, ReadPendingStatus, PassLF, Return, FillLF, Reading
<1>4. ClientTypeOK'
  <2>1. readLine' \in Seq(Line) /\ status' \in Seq(Line)
    BY <1>1, <1>3, OwnNothing DEF TypeOK, ClientTypeOK, ContentOK, content
  <2>2. QED BY <1>1, <1>3, <2>1 DEF TypeOK, ClientTypeOK, ContentOK, content
<1>5. ASSUME ~quoted PROVE AllOwn'
  BY <1>3, <1>5, OwnNothing DEF IInv, AllOwn, OwnContent, content
<1>6. QED BY <1>1, <1>2, <1>3, <1>4, <1>5, ClientReads

LEMMA CallThrowsInv ==
  ASSUME IInv, SyncEnds \/ ReadNoNumber \/ NoStatus \/ Timeout
  PROVE  IInv'
<1>1. TypeOK
  BY DEF IInv
<1>2. UNCHANGED toServer
  BY DEF SyncEnds, ReadNoNumber, NoStatus, Timeout
<1>3. \E k \in 0 .. Len(toClient) : toClient' = After(k)
  <2>1. CASE ReadNoNumber
    BY <1>1, <2>1, FillsUpTo DEF ReadNoNumber
  <2>2. CASE SyncEnds \/ NoStatus \/ Timeout
    BY <1>1, <2>2, FillsNothing DEF SyncEnds, NoStatus, FillNothing, Timeout
  <2>3. QED BY <2>1, <2>2
<1>4. CASE Throw
  BY <1>2, <1>3, <1>4, ThrowInv
<1>5. CASE ~Throw
  <2>1. /\ UNCHANGED <<call, callback, readLine, temporaryLine, status, content>>
        /\ UNCHANGED <<told, outcome, server>>
        /\ pc' = "closed"
    BY <1>5 DEF SyncEnds, ReadNoNumber, NoStatus, Timeout
  <2>2. ClientTypeOK' /\ pc' \notin Reading
    BY <1>1, <2>1 DEF TypeOK, ClientTypeOK, ContentOK, content, Reading
  <2>3. ~quoted => AllOwn'
    BY <2>1 DEF IInv, AllOwn, OwnContent, content
  <2>4. QED BY <1>2, <1>3, <2>1, <2>2, <2>3, ClientReads
<1>6. QED BY <1>4, <1>5

-----------------------------------------------------------------------------
(* What is written.                                                        *)

(* The answer to an option, from the head of a stream.                     *)
LEMMA NegotiateOptionInv ==
  ASSUME IInv, NegotiateOption
  PROVE  IInv'
<1>1. TypeOK /\ toClient # <<>>
  BY DEF IInv, NegotiateOption, AtOption
<1>2. /\ UNCHANGED <<call, callback, pc, readLine, temporaryLine, status>>
      /\ UNCHANGED <<content, told, outcome, spc, command, sent, dead>>
      /\ UNCHANGED <<quoted, unended>>
      /\ pc \notin Reading
  BY DEF NegotiateOption, client, server, Reading
<1>3. /\ toClient' \in Line /\ Len(toClient') = Len(toClient) - 1
      /\ Len(toClient) \in Nat /\ Len(toClient) >= 1
      /\ \A i \in 1 .. Len(toClient) - 1 : toClient'[i] = toClient[i + 1]
  BY <1>1, HeadTailProperties, LenProperties, NoneOrTail
     DEF NegotiateOption, TypeOK, Line
<1>4. \/ toServer' = toServer
      \/ toServer' = Append(toServer, Option("will"))
  BY DEF NegotiateOption
<1>5. Option("will") \in ServerTokens /\ ~IsCommand(Option("will"))
  BY DEF Option, ServerTokens, Verbs, IsCommand
<1>6. toServer' \in Seq(ServerTokens)
  BY <1>1, <1>4, <1>5, AppendProperties DEF TypeOK
<1>7. \A i \in 1 .. Len(toServer') : IsCommand(toServer'[i]) =>
        i \in 1 .. Len(toServer) /\ toServer'[i] = toServer[i]
  <2>1. toServer \in Seq(ServerTokens) /\ Len(toServer) \in Nat
    BY <1>1, LenProperties DEF TypeOK
  <2>2. CASE toServer' = toServer
    BY <2>2
  <2>3. CASE toServer' = Append(toServer, Option("will"))
    <3>1. /\ Len(toServer') = Len(toServer) + 1
          /\ \A i \in 1 .. Len(toServer) : toServer'[i] = toServer[i]
          /\ toServer'[Len(toServer) + 1] = Option("will")
      BY <1>5, <2>1, <2>3, AppendProperties
    <3>2. \A i \in 1 .. Len(toServer') :
            i \in 1 .. Len(toServer) \/ i = Len(toServer) + 1
      BY <2>1, <3>1
    <3>3. QED BY <1>5, <3>1, <3>2
  <2>4. QED BY <1>4, <2>2, <2>3
<1>8. TypeOK'
  BY <1>1, <1>2, <1>3, <1>6
     DEF TypeOK, ClientTypeOK, ContentOK, content, ServerTypeOK
<1>9. ASSUME ~quoted PROVE OnePrompt'
  <2>1. OnePrompt
    BY <1>9 DEF IInv
  <2>2. \A i \in 1 .. Len(toClient') : /\ i + 1 \in 1 .. Len(toClient)
                                       /\ toClient'[i] = toClient[i + 1]
    BY <1>3
  <2>3. \A i, j \in 1 .. Len(toClient') :
          toClient'[i] = Prompt /\ i < j => IsOption(toClient'[j])
    <3>1. SUFFICES ASSUME NEW i \in 1 .. Len(toClient'),
                          NEW j \in 1 .. Len(toClient'),
                          toClient'[i] = Prompt, i < j
                   PROVE  IsOption(toClient'[j])
      OBVIOUS
    <3>2. i + 1 < j + 1
      BY <1>3, <3>1
    <3>3. QED BY <2>1, <2>2, <3>1, <3>2 DEF OnePrompt
  <2>4. QED BY <1>1, <1>2, <1>7, <2>1, <2>2, <2>3 DEF OnePrompt
<1>10. ~quoted => Answering' /\ AllOwn'
  BY <1>2 DEF IInv, Answering, AllOwn, OwnContent, content
<1>11. QED BY <1>2, <1>8, <1>9, <1>10 DEF IInv

(* The prompt is taken off, with which the right to send a command goes.   *)
LEMMA SendCommandInv ==
  ASSUME IInv, SendCommand
  PROVE  IInv'
<1>1. TypeOK /\ toClient # <<>> /\ Head(toClient) = Prompt
  BY DEF IInv, SendCommand, AtPrompt
<1>2. /\ UNCHANGED <<call, callback, readLine, temporaryLine, status>>
      /\ UNCHANGED <<content, told, outcome, spc, command, sent, dead>>
      /\ UNCHANGED <<quoted, unended>>
      /\ pc' \in {"temporary", "status"}
      /\ toServer' = Append(toServer, Command(call))
      /\ toClient' = Tail(toClient)
  BY DEF SendCommand, server
<1>3. /\ toClient' \in Line /\ Len(toClient') = Len(toClient) - 1
      /\ Len(toClient) \in Nat /\ Len(toClient) >= 1
      /\ \A i \in 1 .. Len(toClient) - 1 : toClient'[i] = toClient[i + 1]
      /\ toClient[1] = Prompt
  BY <1>1, <1>2, HeadTailProperties, LenProperties, NoneOrTail DEF TypeOK, Line
<1>4. Command(call) \in ServerTokens /\ IsCommand(Command(call))
  BY <1>1
     DEF TypeOK, ClientTypeOK, ContentOK, content, Command, ServerTokens,
         IsCommand
<1>5. /\ toServer' \in Seq(ServerTokens) /\ Len(toServer) \in Nat
      /\ Len(toServer') = Len(toServer) + 1
      /\ \A i \in 1 .. Len(toServer) : toServer'[i] = toServer[i]
      /\ toServer'[Len(toServer) + 1] = Command(call)
  BY <1>1, <1>2, <1>4, AppendProperties, LenProperties DEF TypeOK
<1>6. TypeOK'
  BY <1>1, <1>2, <1>3, <1>5
     DEF TypeOK, ClientTypeOK, ContentOK, content, ServerTypeOK, Reading
<1>7. ASSUME ~quoted PROVE OnePrompt' /\ Answering' /\ AllOwn'
  <2>1. OnePrompt /\ AllOwn
    BY <1>7 DEF IInv
  <2>2. 1 \in 1 .. Len(toClient) /\ ~IsOption(toClient[1])
    BY <1>3 DEF IsOption, Prompt, Verbs
  <2>3. \A i \in 1 .. Len(toServer) : ~IsCommand(toServer[i])
    BY <2>1, <2>2 DEF OnePrompt
  <2>4. spc = "read"
    BY <1>1, <1>3, <2>1, <2>2 DEF OnePrompt, TypeOK, ServerTypeOK
  <2>5. \A i \in 1 .. Len(toClient') : IsOption(toClient'[i])
    <3>1. \A i \in 1 .. Len(toClient') :
            /\ i + 1 \in 1 .. Len(toClient) /\ 1 < i + 1
            /\ toClient'[i] = toClient[i + 1]
      BY <1>3
    <3>2. QED BY <1>3, <2>1, <2>2, <3>1 DEF OnePrompt
  <2>6. \A i \in 1 .. Len(toServer') : IsCommand(toServer'[i]) =>
          i = Len(toServer) + 1
    <3>1. \A i \in 1 .. Len(toServer') :
            i \in 1 .. Len(toServer) \/ i = Len(toServer) + 1
      BY <1>5
    <3>2. QED BY <1>5, <2>3, <3>1
  <2>7. OnePrompt'
    <3>1. \A i \in 1 .. Len(toClient') : toClient'[i] # Prompt
      BY <2>5 DEF IsOption, Prompt, Verbs
    <3>2. QED BY <1>2, <2>4, <2>5, <2>6, <3>1 DEF OnePrompt
  <2>8. Answering'
    <3>1. Len(toServer) + 1 \in 1 .. Len(toServer')
      BY <1>5
    <3>2. \A i \in 1 .. Len(toClient') : toClient'[i][1] \notin Texts
      BY <2>5 DEF IsOption, Verbs, Texts, Fields
    <3>3. QED BY <1>2, <1>4, <1>5, <2>6, <3>1, <3>2 DEF Answering
  <2>9. AllOwn'
    BY <1>2, <2>1 DEF AllOwn, OwnContent, content
  <2>10. QED BY <2>7, <2>8, <2>9
<1>8. QED BY <1>2, <1>6, <1>7 DEF IInv

-----------------------------------------------------------------------------
(* The server.                                                             *)

LEMMA StartInv ==
  ASSUME IInv, Start
  PROVE  IInv'
<1>1. TypeOK
  BY DEF IInv
<1>2. /\ UNCHANGED <<call, callback, pc, readLine, temporaryLine, status>>
      /\ UNCHANGED <<content, told, outcome, toServer, command, sent, dead>>
      /\ UNCHANGED <<quoted, unended>>
      /\ spc = "start" /\ spc' = "read"
      /\ toClient' = toClient \o <<Option("dont"), Option("do"), Prompt>>
  BY DEF Start, client
<1>3. /\ Option("dont") \in ClientTokens /\ Option("do") \in ClientTokens
      /\ Prompt \in ClientTokens
      /\ IsOption(Option("dont")) /\ IsOption(Option("do"))
      /\ Option("dont") # Prompt /\ Option("do") # Prompt
  BY DEF Option, ClientTokens, Verbs, Prompt, IsOption
<1>4. TypeOK'
  <2>1. <<Option("dont"), Option("do"), Prompt>> \in Seq(ClientTokens)
    BY <1>3
  <2>2. toClient' \in Line
    BY <1>1, <1>2, <2>1, ConcatProperties DEF TypeOK, Line
  <2>3. QED BY <1>1, <1>2, <2>2
         DEF TypeOK, ClientTypeOK, ContentOK, content, ServerTypeOK
<1>5. ASSUME ~quoted PROVE OnePrompt' /\ Answering' /\ AllOwn'
  <2>1. OnePrompt /\ Answering /\ AllOwn /\ toClient = <<>>
    BY <1>2, <1>5 DEF IInv, OnePrompt
  <2>2. toClient' = <<Option("dont"), Option("do"), Prompt>>
    BY <1>2, <2>1
  <2>3. /\ Len(toClient') = 3 /\ toClient'[1] = Option("dont")
        /\ toClient'[2] = Option("do") /\ toClient'[3] = Prompt
    BY <2>2
  <2>4. \A i \in 1 .. Len(toServer) : ~IsCommand(toServer[i])
    BY <1>2, <2>1 DEF OnePrompt
  <2>5. \A i, j \in 1 .. Len(toClient') : ~(toClient'[i] = Prompt /\ i < j)
    <3>1. \A i \in 1 .. Len(toClient') : i = 1 \/ i = 2 \/ i = 3
      BY <2>3
    <3>2. QED BY <1>3, <2>3, <3>1
  <2>6. OnePrompt'
    BY <1>2, <2>4, <2>5 DEF OnePrompt
  <2>7. \A i \in 1 .. Len(toClient') : toClient'[i][1] \notin Texts
    <3>1. \A i \in 1 .. Len(toClient') : i = 1 \/ i = 2 \/ i = 3
      BY <2>3
    <3>2. QED BY <2>3, <3>1 DEF Option, Prompt, Texts, Fields
  <2>8. Answering' /\ AllOwn'
    BY <1>2, <2>1, <2>7 DEF Answering, AllOwn, OwnContent, content
  <2>9. QED BY <2>6, <2>8
<1>6. QED BY <1>2, <1>4, <1>5 DEF IInv

(* What is left of toServer when its head has been read.                   *)
LEMMA HeadRead ==
  ASSUME TypeOK, toServer # <<>>
  PROVE  /\ Tail(toServer) \in Seq(ServerTokens)
         /\ Head(toServer) = toServer[1] /\ Head(toServer) \in ServerTokens
         /\ 1 \in 1 .. Len(toServer)
         /\ \A i \in 1 .. Len(Tail(toServer)) :
              /\ i + 1 \in 1 .. Len(toServer) /\ i + 1 # 1
              /\ Tail(toServer)[i] = toServer[i + 1]
<1>1. Len(toServer) \in Nat \ {0}
  BY EmptySeq DEF TypeOK
<1>2. /\ Tail(toServer) \in Seq(ServerTokens) /\ Head(toServer) \in ServerTokens
      /\ Len(Tail(toServer)) = Len(toServer) - 1
      /\ \A i \in 1 .. Len(Tail(toServer)) : Tail(toServer)[i] = toServer[i + 1]
  BY HeadTailProperties DEF TypeOK
<1>3. Head(toServer) = toServer[1]
  BY DEF TypeOK
<1>4. QED BY <1>1, <1>2, <1>3

LEMMA ReadOptionInv ==
  ASSUME IInv, ReadOption
  PROVE  IInv'
<1>1. TypeOK
  BY DEF IInv
<1>2. /\ UNCHANGED <<call, callback, pc, readLine, temporaryLine, status>>
      /\ UNCHANGED <<content, told, outcome, spc, command, sent, dead>>
      /\ UNCHANGED <<quoted, unended>>
      /\ spc = "read" /\ toServer # <<>> /\ Head(toServer)[1] \in Verbs
      /\ toServer' = Tail(toServer)
      /\ toClient' = toClient \/ toClient' = Append(toClient, Option("will"))
  BY DEF ReadOption, client, server
<1>3. /\ Option("will") \in ClientTokens /\ IsOption(Option("will"))
      /\ Option("will") # Prompt /\ Option("will")[1] \notin Texts
  BY DEF Option, ClientTokens, Verbs, IsOption, Prompt, Texts, Fields
<1>4. /\ toClient' \in Line /\ Len(toClient) \in Nat
      /\ \A i \in 1 .. Len(toClient') :
           \/ i \in 1 .. Len(toClient) /\ toClient'[i] = toClient[i]
           \/ toClient'[i] = Option("will")
  <2>1. toClient \in Seq(ClientTokens) /\ Len(toClient) \in Nat
    BY <1>1, LenProperties DEF TypeOK, Line
  <2>2. CASE toClient' = toClient
    BY <2>1, <2>2 DEF Line
  <2>3. CASE toClient' = Append(toClient, Option("will"))
    <3>1. /\ toClient' \in Seq(ClientTokens)
          /\ Len(toClient') = Len(toClient) + 1
          /\ \A i \in 1 .. Len(toClient) : toClient'[i] = toClient[i]
          /\ toClient'[Len(toClient) + 1] = Option("will")
      BY <1>3, <2>1, <2>3, AppendProperties
    <3>2. \A i \in 1 .. Len(toClient') :
            i \in 1 .. Len(toClient) \/ i = Len(toClient) + 1
      BY <2>1, <3>1
    <3>3. QED BY <2>1, <3>1, <3>2 DEF Line
  <2>4. QED BY <1>2, <2>2, <2>3
<1>5. /\ toServer' \in Seq(ServerTokens)
      /\ \A i \in 1 .. Len(toServer') : i + 1 \in 1 .. Len(toServer)
                                        /\ toServer'[i] = toServer[i + 1]
      /\ 1 \in 1 .. Len(toServer) /\ ~IsCommand(toServer[1])
      /\ Len(toServer) \in Nat /\ Len(toServer') \in Nat
  BY <1>1, <1>2, HeadRead, LenProperties DEF IsCommand, Verbs, TypeOK
<1>6. TypeOK'
  BY <1>1, <1>2, <1>4, <1>5
     DEF TypeOK, ClientTypeOK, ContentOK, content, ServerTypeOK
<1>7. ASSUME ~quoted PROVE OnePrompt' /\ Answering' /\ AllOwn'
  <2>1. OnePrompt /\ Answering /\ AllOwn
    BY <1>7 DEF IInv
  <2>2. \A i, j \in 1 .. Len(toServer') :
          IsCommand(toServer'[i]) /\ IsCommand(toServer'[j]) => i = j
    <3>1. SUFFICES ASSUME NEW i \in 1 .. Len(toServer'),
                          NEW j \in 1 .. Len(toServer'),
                          IsCommand(toServer'[i]), IsCommand(toServer'[j])
                   PROVE  i = j
      OBVIOUS
    <3>2. i + 1 = j + 1
      BY <1>5, <2>1, <3>1 DEF OnePrompt
    <3>3. QED BY <1>5, <3>2
  <2>3. OnePrompt'
    BY <1>2, <1>3, <1>4, <1>5, <2>1, <2>2 DEF OnePrompt
  <2>4. Answering'
    <3>1. ASSUME NEW i \in 1 .. Len(toServer), IsCommand(toServer[i])
          PROVE  \E k \in 1 .. Len(toServer') : IsCommand(toServer'[k])
      <4>1. i # 1 /\ i - 1 \in 1 .. Len(toServer) - 1
        BY <1>5, <3>1
      <4>2. Len(toServer') = Len(toServer) - 1
        BY <1>1, <1>2, HeadTailProperties DEF TypeOK
      <4>3. toServer'[i - 1] = toServer[i - 1 + 1]
        BY <1>5, <4>1, <4>2
      <4>4. i - 1 + 1 = i
        BY <1>5, <3>1
      <4>5. QED BY <3>1, <4>1, <4>2, <4>3, <4>4
    <3>2. QED BY <1>2, <1>3, <1>4, <1>5, <2>1, <3>1 DEF Answering
  <2>5. AllOwn'
    BY <1>2, <2>1 DEF AllOwn, OwnContent, content
  <2>6. QED BY <2>3, <2>4, <2>5
<1>8. QED BY <1>2, <1>6, <1>7 DEF IInv

LEMMA ReadCommandInv ==
  ASSUME IInv, ReadCommand
  PROVE  IInv'
<1>1. TypeOK
  BY DEF IInv
<1>2. /\ UNCHANGED <<call, callback, pc, readLine, temporaryLine, status>>
      /\ UNCHANGED <<content, told, outcome, toClient, dead, quoted, unended>>
      /\ toServer # <<>> /\ Head(toServer)[1] = "command"
      /\ toServer' = Tail(toServer)
      /\ spc' = "exec" /\ command' = Head(toServer)[2] /\ sent' = <<>>
  BY DEF ReadCommand, client
<1>3. /\ toServer' \in Seq(ServerTokens)
      /\ \A i \in 1 .. Len(toServer') : /\ i + 1 \in 1 .. Len(toServer)
                                        /\ i + 1 # 1
                                        /\ toServer'[i] = toServer[i + 1]
      /\ 1 \in 1 .. Len(toServer) /\ IsCommand(toServer[1])
      /\ command' = toServer[1][2] /\ toServer[1] \in ServerTokens
  BY <1>1, <1>2, HeadRead DEF IsCommand
<1>4. command' \in Nat
  BY <1>3 DEF ServerTokens
<1>5. sent' \in Seq([line : Line, temporary : BOOLEAN])
  BY <1>2
<1>6. TypeOK'
  BY <1>1, <1>2, <1>3, <1>4, <1>5
     DEF TypeOK, ClientTypeOK, ContentOK, content, ServerTypeOK
<1>7. ASSUME ~quoted PROVE OnePrompt' /\ Answering' /\ AllOwn'
  <2>1. OnePrompt /\ Answering /\ AllOwn
    BY <1>7 DEF IInv
  <2>2. \A i \in 1 .. Len(toServer') : ~IsCommand(toServer'[i])
    BY <1>3, <2>1 DEF OnePrompt
  <2>3. \A i \in 1 .. Len(toClient) : IsOption(toClient[i])
    BY <1>3, <2>1 DEF OnePrompt
  <2>4. \A i \in 1 .. Len(toClient) : toClient[i] # Prompt
    BY <2>3 DEF IsOption, Prompt, Verbs
  <2>5. OnePrompt'
    BY <1>2, <2>2, <2>4 DEF OnePrompt
  <2>6. Answering'
    <3>1. pc \in Reading => command' = call
      BY <1>3, <2>1 DEF Answering, Command
    <3>2. QED BY <1>2, <2>1, <2>2, <3>1 DEF Answering
  <2>7. AllOwn'
    BY <1>2, <2>1 DEF AllOwn, OwnContent, content
  <2>8. QED BY <2>5, <2>6, <2>7
<1>8. QED BY <1>2, <1>6, <1>7 DEF IInv

(* What comes behind what is already on the way.                           *)
LEMMA Behind ==
  ASSUME NEW s \in Line, NEW t \in Line
  PROVE  /\ s \o t \in Line
         /\ \A i \in 1 .. Len(s \o t) :
              \/ i \in 1 .. Len(s) /\ (s \o t)[i] = s[i]
              \/ \E j \in 1 .. Len(t) : (s \o t)[i] = t[j]
<1>1. Len(s) \in Nat /\ Len(t) \in Nat
  BY LenProperties DEF Line
<1>2. /\ s \o t \in Line /\ Len(s \o t) = Len(s) + Len(t)
      /\ \A i \in 1 .. Len(s) + Len(t) : (s \o t)[i] =
           IF i <= Len(s) THEN s[i] ELSE t[i - Len(s)]
  BY ConcatProperties DEF Line
<1>3. \A i \in 1 .. Len(s) + Len(t) :
        i \in 1 .. Len(s) \/ (~(i <= Len(s)) /\ i - Len(s) \in 1 .. Len(t))
  BY <1>1
<1>4. \A i \in 1 .. Len(s) : i <= Len(s)
  BY <1>1
<1>5. QED BY <1>2, <1>3, <1>4

LEMMA SendMessageInv ==
  ASSUME IInv, NEW m \in Messages, SendMessage(m[1], m[2])
  PROVE  IInv'
<1> DEFINE text == m[1]
<1> DEFINE place == Len(sent) + 1
<1> DEFINE line == LineOf(text, command, place)
<1> DEFINE end == IF m[2] THEN <<CR>> ELSE <<CR, LF>>
<1>1. TypeOK /\ text \in Texts /\ m[2] \in BOOLEAN
  BY MessagesAssumption DEF IInv
<1>2. /\ UNCHANGED <<call, callback, pc, readLine, temporaryLine, status>>
      /\ UNCHANGED <<content, told, outcome, toServer, spc, command, dead>>
      /\ UNCHANGED unended
      /\ spc = "exec"
      /\ sent' = Append(sent, [line |-> line, temporary |-> m[2]])
      /\ toClient' = toClient \o line \o end
      /\ quoted' = (quoted \/ text = "quote")
  BY DEF SendMessage, client
<1>3. command \in Nat /\ place \in Nat
  BY <1>1, LenProperties DEF TypeOK, ServerTypeOK
<1> HIDE DEF text, place
<1>4. /\ CR \in ClientTokens /\ LF \in ClientTokens /\ Prompt \in ClientTokens
      /\ \A w \in Texts : <<w, command, place>> \in ClientTokens
  BY <1>3 DEF ClientTokens
<1>5. line \in Line /\ end \in Line
  BY <1>1, <1>4 DEF Line, LineOf, Texts, Fields
<1>6. text # "quote" =>
        \A i \in 1 .. Len(line) : line[i] = <<text, command, place>>
  BY <1>1 DEF LineOf
<1>7. \A i \in 1 .. Len(end) : end[i] \in {CR, LF}
  BY <1>1
<1> HIDE DEF line, end
<1>8. /\ toClient' \in Line
      /\ \A i \in 1 .. Len(toClient') :
           \/ i \in 1 .. Len(toClient) /\ toClient'[i] = toClient[i]
           \/ \E j \in 1 .. Len(line) : toClient'[i] = line[j]
           \/ \E j \in 1 .. Len(end) : toClient'[i] = end[j]
  <2>1. toClient \in Line
    BY <1>1 DEF TypeOK
  <2> DEFINE u == toClient \o line
  <2>2. /\ u \in Line
        /\ \A i \in 1 .. Len(u) :
             \/ i \in 1 .. Len(toClient) /\ u[i] = toClient[i]
             \/ \E j \in 1 .. Len(line) : u[i] = line[j]
    BY <1>5, <2>1, Behind
  <2> HIDE DEF u
  <2>3. /\ u \o end \in Line
        /\ \A i \in 1 .. Len(u \o end) :
             \/ i \in 1 .. Len(u) /\ (u \o end)[i] = u[i]
             \/ \E j \in 1 .. Len(end) : (u \o end)[i] = end[j]
    BY <1>5, <2>2, Behind
  <2>4. toClient' = u \o end
    BY <1>2 DEF u
  <2>5. QED BY <2>2, <2>3, <2>4
<1>9. sent' \in Seq([line : Line, temporary : BOOLEAN])
  <2> DEFINE message == [line |-> line, temporary |-> m[2]]
  <2>1. message \in [line : Line, temporary : BOOLEAN]
    BY <1>1, <1>5
  <2> HIDE DEF message
  <2>2. Append(sent, message) \in Seq([line : Line, temporary : BOOLEAN])
    BY <1>1, <2>1, AppendProperties DEF TypeOK, ServerTypeOK
  <2>3. QED BY <1>2, <2>2 DEF message
<1>10. TypeOK'
  <2>1. quoted' \in BOOLEAN
    BY <1>2
  <2>2. QED BY <1>1, <1>2, <1>8, <1>9, <2>1
            DEF TypeOK, ClientTypeOK, ContentOK, content, ServerTypeOK
<1>11. ASSUME ~quoted' PROVE OnePrompt' /\ Answering' /\ AllOwn'
  <2>1. OnePrompt /\ Answering /\ AllOwn /\ text # "quote"
    BY <1>2, <1>11 DEF IInv
  <2>2. \A i \in 1 .. Len(toServer) : ~IsCommand(toServer[i])
    BY <1>2, <2>1 DEF OnePrompt
  <2>3. \A i \in 1 .. Len(toClient') :
          \/ i \in 1 .. Len(toClient) /\ toClient'[i] = toClient[i]
          \/ toClient'[i] \in {<<text, command, place>>, CR, LF}
    BY <1>6, <1>7, <1>8, <2>1
  <2>4. Prompt \notin {<<text, command, place>>, CR, LF}
    BY <1>1 DEF Prompt, CR, LF, Texts, Fields
  <2>5. \A i \in 1 .. Len(toClient') : toClient'[i] # Prompt
    BY <1>2, <2>1, <2>3, <2>4 DEF OnePrompt
  <2>6. OnePrompt'
    BY <1>2, <2>2, <2>5 DEF OnePrompt
  <2>7. \A token \in {<<text, command, place>>, CR, LF} :
          token[1] \in Texts => token[2] = command
    BY DEF CR, LF, Texts, Fields
  <2>8. pc \in Reading => command = call
    BY <2>1, <2>2 DEF Answering
  <2>9. Answering'
    BY <1>2, <2>1, <2>3, <2>7, <2>8 DEF Answering
  <2>10. AllOwn'
    BY <1>2, <2>1 DEF AllOwn, OwnContent, content
  <2>11. QED BY <2>6, <2>9, <2>10
<1>12. QED BY <1>10, <1>11 DEF IInv

LEMMA EndCommandInv ==
  ASSUME IInv, EndCommand
  PROVE  IInv'
<1>1. TypeOK
  BY DEF IInv
<1>2. /\ UNCHANGED <<call, callback, pc, readLine, temporaryLine, status>>
      /\ UNCHANGED <<content, told, outcome, toServer, command, sent, dead>>
      /\ UNCHANGED quoted
      /\ spc = "exec" /\ spc' = "read"
      /\ toClient' = Append(toClient, Prompt)
      /\ unended' = (unended \/ sent = <<>> \/ sent[Len(sent)].temporary)
  BY DEF EndCommand, client
<1>3. unended' \in BOOLEAN
  BY <1>2
<1>4. /\ toClient' \in Line /\ Len(toClient) \in Nat
      /\ Len(toClient') = Len(toClient) + 1
      /\ \A i \in 1 .. Len(toClient) : toClient'[i] = toClient[i]
      /\ toClient'[Len(toClient) + 1] = Prompt
  <2>1. Prompt \in ClientTokens
    BY DEF ClientTokens
  <2>2. toClient \in Seq(ClientTokens)
    BY <1>1 DEF TypeOK, Line
  <2>3. QED BY <1>2, <2>1, <2>2, AppendProperties, LenProperties DEF Line
<1>5. TypeOK'
  BY <1>1, <1>2, <1>3, <1>4
     DEF TypeOK, ClientTypeOK, ContentOK, content, ServerTypeOK
<1>6. ASSUME ~quoted PROVE OnePrompt' /\ Answering' /\ AllOwn'
  <2>1. OnePrompt /\ Answering /\ AllOwn
    BY <1>6 DEF IInv
  <2>2. \A i \in 1 .. Len(toServer) : ~IsCommand(toServer[i])
    BY <1>2, <2>1 DEF OnePrompt
  <2>3. \A i \in 1 .. Len(toClient') :
          i \in 1 .. Len(toClient) \/ i = Len(toClient) + 1
    BY <1>4
  <2>4. \A i \in 1 .. Len(toClient') : toClient'[i] = Prompt =>
          i = Len(toClient) + 1
    BY <1>2, <1>4, <2>1, <2>3 DEF OnePrompt
  <2>5. \A i \in 1 .. Len(toClient') : ~(Len(toClient) + 1 < i)
    BY <1>4
  <2>6. OnePrompt'
    BY <1>2, <2>2, <2>4, <2>5 DEF OnePrompt
  <2>7. Answering'
    BY <1>2, <1>4, <2>1, <2>3 DEF Answering, Prompt, Texts, Fields
  <2>8. AllOwn'
    BY <1>2, <2>1 DEF AllOwn, OwnContent, content
  <2>9. QED BY <2>6, <2>7, <2>8
<1>7. QED BY <1>2, <1>5, <1>6 DEF IInv

LEMMA DieInv ==
  ASSUME IInv, Die
  PROVE  IInv'
BY
   DEF Die, client, IInv, TypeOK, ClientTypeOK, ContentOK, content,
       ServerTypeOK, OnePrompt, Answering, AllOwn, OwnContent

-----------------------------------------------------------------------------
LEMMA InitInv == Init => IInv
<1>1. SUFFICES ASSUME Init PROVE IInv OBVIOUS
<1>2. toServer = <<Option("dont"), Option("do")>>
  BY <1>1 DEF Init
<1>3. Option("dont") \in ServerTokens /\ Option("do") \in ServerTokens
  BY DEF Option, ServerTokens, Verbs
<1>4. toServer \in Seq(ServerTokens)
  BY <1>2, <1>3
<1>5. \A i \in 1 .. Len(toServer) : ~IsCommand(toServer[i])
  <2>1. /\ Len(toServer) = 2 /\ toServer[1] = Option("dont")
        /\ toServer[2] = Option("do")
    BY <1>2
  <2>2. \A i \in 1 .. Len(toServer) : i = 1 \/ i = 2
    BY <2>1
  <2>3. QED BY <2>1, <2>2 DEF IsCommand, Option
<1>6. ContentOK /\ OwnContent
  BY <1>1, EmptyContent DEF Init, NoContent
<1>7. TypeOK
  <2>1. toClient \in Line /\ sent \in Seq([line : Line, temporary : BOOLEAN])
    BY <1>1 DEF Init, Line
  <2>2. ClientTypeOK
    BY <1>1, <1>6, OwnNothing DEF Init, ClientTypeOK
  <2>3. dead \in BOOLEAN /\ quoted \in BOOLEAN /\ unended \in BOOLEAN
    BY <1>1, Zenon DEF Init
  <2>4. QED BY <1>1, <1>4, <2>1, <2>2, <2>3 DEF Init, TypeOK, ServerTypeOK
<1>8. OnePrompt
  BY <1>1, <1>5 DEF Init, OnePrompt
<1>9. Answering
  BY <1>1 DEF Init, Answering, Reading
<1>10. AllOwn
  BY <1>1, <1>6, OwnNothing DEF Init, AllOwn
<1>11. QED BY <1>7, <1>8, <1>9, <1>10 DEF IInv

LEMMA NextInv == IInv /\ [Next]_vars => IInv'
<1>1. SUFFICES ASSUME IInv, [Next]_vars PROVE IInv' OBVIOUS
<1>2. CASE UNCHANGED vars
  BY <1>1, <1>2
     DEF vars, client, server, IInv, TypeOK, ClientTypeOK, ContentOK, content,
         ServerTypeOK, OnePrompt, Answering, AllOwn, OwnContent
<1>3. CASE ServerStep \/ Die
  BY <1>1, <1>3, StartInv, ReadOptionInv, ReadCommandInv, EndCommandInv, DieInv
     DEF ServerStep
<1>4. CASE ClientStep \/ Timeout \/ Close
  BY <1>1, <1>4, NegotiateOptionInv, PlaceInv, SendCommandInv, LineReadInv,
     PartReadInv, CallThrowsInv DEF ClientStep
<1>5. QED BY <1>1, <1>2, <1>3, <1>4, SendMessageInv, NewCallInv DEF Next

(* The variables keep their types, and while a client reads, the server    *)
(* has the command of its call and no other.                               *)
THEOREM InvariantCorrect == Spec => []IInv
BY InitInv, NextInv, PTL DEF Spec

(* A response is made of lines of its own command only, whatever timed out *)
(* before and whatever arrived late, if no line begins with the prompt.    *)
THEOREM OwnLinesCorrect == Spec => []OwnLines
<1>1. IInv => OwnLines
  BY DEF IInv, AllOwn, OwnContent, content, OwnRead, OwnLine, OwnLines
<1>2. QED BY <1>1, InvariantCorrect, PTL

-----------------------------------------------------------------------------
(* What a command sends, as it stands in the stream: a line of text or     *)
(* nothing, and its end.                                                   *)
Plain(line) == line = <<>> \/ (Len(line) = 1 /\ line[1][1] \in Texts)
PlainLines == \A i \in 1 .. Len(sent) : Plain(sent[i].line)

EndOf(i, p) == p + Len(sent[i].line) + IF sent[i].temporary THEN 1 ELSE 2

Stands(i, p) ==
  LET cr == p + Len(sent[i].line) + 1
  IN /\ sent[i].line # <<>> => toClient[p + 1] = sent[i].line[1]
     /\ toClient[cr] = CR
     /\ ~sent[i].temporary => toClient[cr + 1] = LF

(* The client has the line of the k-th message, and LF is still to come.   *)
Owed(k, at) ==
  k > 0 /\ ~sent[k].temporary /\ at[k] = 1 /\ toClient[1] = LF

(* The messages after the k-th are on the way, the i-th of all up to the   *)
(* place at[i], and then the prompt, when the command is done.             *)
Remaining(k, at) ==
  /\ spc # "start"
  /\ at \in [k .. Len(sent) -> Nat]
  /\ \A i, j \in k .. Len(sent) : i <= j => at[i] <= at[j]
  /\ \A i \in k + 1 .. Len(sent) :
       at[i] = EndOf(i, at[i - 1]) /\ Stands(i, at[i - 1])
  /\ Owed(k, at) \/ \A j \in 1 .. at[k] : IsOption(toClient[j])
  /\ spc = "exec" => at[Len(sent)] = Len(toClient)
  /\ spc = "read" => /\ at[Len(sent)] < Len(toClient)
                     /\ toClient[at[Len(sent)] + 1] = Prompt

(* The lines that have been read are those of the first k messages.        *)
Given(n) == Len(told) = n /\ \A i \in 1 .. n : told[i] = sent[i].line

IsStatus(s) ==
  /\ callback => ~sent[s].temporary
  /\ \A i \in 1 .. s - 1 : callback /\ sent[i].temporary

(* The header is made of the fields of these messages.                     *)
HeaderOf(from, to) ==
  ListsNames(FieldsIn(from, to)) /\ KeepsLast(FieldsIn(from, to))

AllLines(s, k) ==
  /\ \A i \in s + 1 .. k : sent[i].line # <<>>
  /\ HeaderOf(s + 1, k)
  /\ body = <<>>

LinesBut(s, b, k) ==
  /\ b \in s + 1 .. k /\ sent[b].line = <<>>
  /\ \A i \in s + 1 .. b - 1 : sent[i].line # <<>>
  /\ HeaderOf(s + 1, b - 1)
  /\ Len(body) = k - b /\ \A i \in 1 .. k - b : body[i] = sent[b + i].line

HasStatus(s, k) ==
  /\ IsStatus(s) /\ status = <<sent[s].line>>
  /\ callback => Given(s)
  /\ pc = "header" => AllLines(s, k)
  /\ pc = "body" => \E b \in Nat : LinesBut(s, b, k)

ReadTold(k, at) ==
  /\ callback /\ Given(k)
  /\ status = <<>> /\ NoContent
  /\ \A i \in 1 .. k - 1 : sent[i].temporary
  /\ IF k = 0 THEN readLine = <<>>
     ELSE /\ readLine = <<sent[k].line>> /\ temporaryLine
          /\ sent[k].temporary \/ Owed(k, at)

ReadBefore(k) ==
  /\ status = <<>> /\ NoContent
  /\ IF callback
     THEN /\ k > 0 /\ Given(k) /\ IsStatus(k)
          /\ readLine = <<sent[k].line>> /\ ~temporaryLine
     ELSE k = 0 /\ readLine = <<>>

Progress(k, at) ==
  /\ pc = "temporary" => ReadTold(k, at)
  /\ pc = "status" => ReadBefore(k)
  /\ pc \in {"header", "body"} =>
       readLine = <<>> /\ \E s \in 1 .. k : HasStatus(s, k)

HasCommand == \E i \in 1 .. Len(toServer) : IsCommand(toServer[i])

NothingRead ==
  /\ readLine = <<>> /\ ~temporaryLine
  /\ status = <<>> /\ NoContent /\ told = <<>>

FirstPlace == IF callback THEN "temporary" ELSE "status"

(* The command has not been read; or the messages up to the k-th have; or  *)
(* there was no line that ends in LF, and nothing comes any more.          *)
Waiting == HasCommand /\ NothingRead /\ pc = FirstPlace

MidWay ==
  /\ ~HasCommand
  /\ \E k \in 0 .. Len(sent) : \E at \in [k .. Len(sent) -> Nat] :
       Remaining(k, at) /\ Progress(k, at)

NoMore ==
  \/ spc = "read" /\ AtPrompt
  \/ dead /\ ~AtPrompt /\ Ends = {}

WithoutStatus == pc = "status" /\ callback /\ ~Pending /\ NoMore

(* A call that has not ended, and one that has returned.                   *)
Whole ==
  /\ PlainLines
  /\ pc \in Reading => Waiting \/ MidWay \/ WithoutStatus
  /\ outcome = "returned" /\ pc = "idle" => ~HasCommand
  /\ ReturnsAll

Begun ==
  /\ pc \notin {"idle", "closed"} => outcome = "none"
  /\ pc = "sync" => NothingRead

WInv == IInv /\ Begun /\ (~quoted => Whole)

LEMMA Sizes ==
  ASSUME TypeOK
  PROVE  /\ Len(sent) \in Nat /\ Len(toClient) \in Nat
         /\ \A i \in 1 .. Len(sent) :
              /\ sent[i] \in [line : Line, temporary : BOOLEAN]
              /\ Len(sent[i].line) \in Nat
              /\ sent[i].temporary \in BOOLEAN
         /\ \A i \in 1 .. Len(toClient) : toClient[i] \in ClientTokens
<1>1. Len(sent) \in Nat /\ Len(toClient) \in Nat
  BY LenProperties DEF TypeOK, ServerTypeOK, Line
<1>2. ASSUME NEW i \in 1 .. Len(sent)
      PROVE  /\ sent[i] \in [line : Line, temporary : BOOLEAN]
             /\ Len(sent[i].line) \in Nat /\ sent[i].temporary \in BOOLEAN
  <2>1. sent[i] \in [line : Line, temporary : BOOLEAN]
    BY ElementOfSeq DEF TypeOK, ServerTypeOK
  <2>2. sent[i].line \in Line
    BY <2>1
  <2>3. QED BY <2>1, <2>2, LenProperties DEF Line
<1>3. \A i \in 1 .. Len(toClient) : toClient[i] \in ClientTokens
  BY ElementOfSeq DEF TypeOK, Line
<1>4. QED BY <1>1, <1>2, <1>3

(* Tokens that are not one another.                                        *)
LEMMA Different ==
  /\ CR # LF /\ Prompt \notin {CR, LF}
  /\ \A t : IsOption(t) => t \notin {CR, LF, Prompt}
  /\ \A t : t[1] \in Texts => t \notin {CR, LF, Prompt} /\ ~IsOption(t)
BY DEF CR, LF, Prompt, IsOption, Verbs, Texts, Fields

LEMMA PlacesOf ==
  ASSUME TypeOK, NEW k \in 0 .. Len(sent), NEW at, Remaining(k, at)
  PROVE  /\ \A i \in k .. Len(sent) : at[i] \in Nat /\ at[i] <= Len(toClient)
         /\ spc \in {"read", "exec"}
<1>1. Len(sent) \in Nat /\ Len(toClient) \in Nat
  BY Sizes
<1>2. spc \in {"read", "exec"}
  BY DEF TypeOK, ServerTypeOK, Remaining
<1>3. at[Len(sent)] \in Nat /\ at[Len(sent)] <= Len(toClient)
  BY <1>1, <1>2 DEF Remaining
<1>4. ASSUME NEW i \in k .. Len(sent)
      PROVE  at[i] \in Nat /\ at[i] <= Len(toClient)
  <2>1. at[i] \in Nat /\ at[i] <= at[Len(sent)]
    BY <1>1, <1>4 DEF Remaining
  <2>2. QED BY <1>1, <1>3, <2>1
<1>5. QED BY <1>2, <1>4

(* The next line that can be read.                                         *)
LEMMA NextLine ==
  ASSUME TypeOK, PlainLines, NEW k \in 0 .. Len(sent), NEW at,
         Remaining(k, at), ~Owed(k, at), k < Len(sent),
         NEW e, e = at[k] + Len(sent[k + 1].line) + 1
  PROVE  /\ e \in 1 .. Len(toClient) /\ e <= at[k + 1] /\ at[k + 1] \in Nat
         /\ toClient[e] = CR /\ toClient[1] # Prompt
         /\ Ends # {} /\ First(Ends) = e
         /\ FilledLine = sent[k + 1].line
         /\ sent[k + 1].temporary => at[k + 1] = e
         /\ ~sent[k + 1].temporary => at[k + 1] = e + 1 /\ toClient[e + 1] = LF
<1> DEFINE line == sent[k + 1].line
<1>1. /\ Len(sent) \in Nat /\ Len(toClient) \in Nat /\ k \in Nat
      /\ k + 1 \in 1 .. Len(sent) /\ k + 1 \in k .. Len(sent)
      /\ k \in k .. Len(sent)
  BY Sizes
<1>2. Len(line) \in Nat /\ sent[k + 1].temporary \in BOOLEAN
  BY <1>1, Sizes
<1>3. at[k] \in Nat /\ at[k + 1] \in Nat /\ at[k + 1] <= Len(toClient)
  BY <1>1, PlacesOf
<1>4. at[k + 1] = EndOf(k + 1, at[k]) /\ Stands(k + 1, at[k])
  <2>1. k + 1 \in k + 1 .. Len(sent) /\ k + 1 - 1 = k
    BY <1>1
  <2>2. QED BY <2>1 DEF Remaining
<1>5. /\ e \in Nat /\ 1 <= e /\ e <= Len(toClient) /\ e <= at[k + 1]
      /\ toClient[e] = CR
      /\ sent[k + 1].temporary => at[k + 1] = e
      /\ ~sent[k + 1].temporary => at[k + 1] = e + 1 /\ toClient[e + 1] = LF
  <2>1. e \in Nat /\ 1 <= e
    BY <1>2, <1>3, SMTT(30)
  <2>2. at[k + 1] = e + IF sent[k + 1].temporary THEN 0 ELSE 1
    BY <1>2, <1>3, <1>4 DEF EndOf
  <2>3. /\ sent[k + 1].temporary => at[k + 1] = e
        /\ ~sent[k + 1].temporary => at[k + 1] = e + 1
    BY <2>1, <2>2
  <2>4. toClient[e] = CR
    BY <1>4 DEF Stands
  <2>5. ~sent[k + 1].temporary => toClient[e + 1] = LF
    BY <1>4 DEF Stands
  <2>6. e <= at[k + 1] /\ e <= Len(toClient)
    BY <1>1, <1>2, <1>3, <2>1, <2>3
  <2>7. QED BY <2>1, <2>3, <2>4, <2>5, <2>6
<1>6. \A j \in 1 .. at[k] : IsOption(toClient[j])
  BY DEF Remaining
<1>7. Plain(line)
  BY <1>1 DEF PlainLines
<1>8. line # <<>> => /\ Len(line) = 1 /\ toClient[at[k] + 1] = line[1]
                     /\ line[1][1] \in Texts
  BY <1>4, <1>7 DEF Stands, Plain
<1>9. line = <<>> => Len(line) = 0
  OBVIOUS
<1> HIDE DEF line
<1>10. e = at[k] + Len(line) + 1
  BY DEF line
<1>11. \/ line = <<>> /\ e = at[k] + 1
       \/ line # <<>> /\ e = at[k] + 2
  <2>1. \/ line = <<>> /\ Len(line) = 0
        \/ line # <<>> /\ Len(line) = 1
    BY <1>8, <1>9
  <2>2. Len(line) = 0 => e = at[k] + 1
    BY <1>3, <1>10
  <2>3. Len(line) = 1 => e = at[k] + 2
    BY <1>3, <1>10
  <2>4. QED BY <2>1, <2>2, <2>3, Zenon
<1>12. \A j \in 1 .. e - 1 :
         \/ j \in 1 .. at[k]
         \/ line # <<>> /\ j = at[k] + 1 /\ j = e - 1
  BY <1>3, <1>11
<1>13. \A j \in 1 .. e - 1 : toClient[j] \notin {CR, LF, Prompt}
  BY <1>6, <1>8, <1>12, Different
<1>14. e \in Ends /\ \A j \in Ends : j \in Nat /\ e <= j
  <2>1. \A j \in 1 .. Len(toClient) : e <= j \/ j \in 1 .. e - 1
    BY <1>1, <1>5
  <2>2. QED BY <1>1, <1>5, <1>13, <2>1 DEF Ends
<1>15. First(Ends) = e
  <2>1. Ends \in SUBSET Nat
    BY <1>14
  <2>2. Ends # {}
    BY <1>14
  <2>3. First(Ends) \in Ends /\ First(Ends) <= e
    BY <1>14, <2>1, <2>2, LeastNumber
  <2>4. First(Ends) \in Nat /\ e <= First(Ends)
    BY <1>14, <2>3
  <2>5. QED BY <1>5, <2>3, <2>4
<1> DEFINE texts == {i \in 1 .. First(Ends) - 1 : IsText(toClient[i])}
<1>16. texts = {i \in 1 .. e - 1 : ~IsOption(toClient[i])}
  BY <1>15 DEF IsText, IsOption
<1> DEFINE ranked(n) == CHOOSE i \in texts : Cardinality(UpTo(texts, i)) = n
<1>17. FilledLine = [n \in 1 .. Cardinality(texts) |-> toClient[ranked(n)]]
  BY DEF FilledLine
<1> HIDE DEF texts
<1>18. CASE line = <<>>
  <2>1. texts = {}
    BY <1>6, <1>12, <1>16, <1>18
  <2>2. Cardinality(texts) = 0
    BY <2>1, FS_EmptySet
  <2>3. FilledLine = <<>>
    BY <1>17, <2>2
  <2>4. QED BY <1>5, <1>13, <1>14, <1>15, <1>18, <2>3, Different DEF line
<1>19. CASE line # <<>>
  <2>1. e - 1 = at[k] + 1 /\ e - 1 \in 1 .. e - 1
    BY <1>3, <1>19, <1>11, SMTT(30)
  <2>2. ~IsOption(toClient[e - 1])
    BY <1>8, <1>19, <2>1, Different
  <2>3. texts = {e - 1}
    BY <1>6, <1>12, <1>16, <2>1, <2>2
  <2>4. Cardinality(texts) = 1
    BY <2>3, FS_Singleton
  <2>5. UpTo(texts, e - 1) = texts
    BY <1>5, <2>3 DEF UpTo
  <2>6. ranked(1) = e - 1
    BY <2>3, <2>4, <2>5
  <2> HIDE DEF ranked
  <2>7. FilledLine = <<line[1]>>
    <3>1. toClient[e - 1] = line[1]
      BY <1>8, <1>19, <2>1
    <3>2. FilledLine = [n \in 1 .. 1 |-> toClient[ranked(n)]]
      BY <1>17, <2>4
    <3>3. QED BY <2>6, <3>1, <3>2
  <2>8. line \in Line
    BY <1>1, Sizes DEF line
  <2>9. line = <<line[1]>>
    BY <1>8, <1>19, <2>8 DEF Line
  <2>10. QED BY <1>5, <1>13, <1>14, <1>15, <2>1, <2>7, <2>9, Different DEF line
<1>20. QED BY <1>18, <1>19

(* Behind the last line there are the prompt and options.                  *)
LEMMA LastLine ==
  ASSUME TypeOK, OnePrompt, NEW k \in 0 .. Len(sent), NEW at,
         Remaining(k, at), ~Owed(k, at), k = Len(sent)
  PROVE  Ends = {}
<1>1. /\ Len(toClient) \in Nat /\ spc \in {"read", "exec"}
      /\ at[k] \in Nat /\ at[k] <= Len(toClient)
  BY Sizes, PlacesOf
<1>2. \A j \in 1 .. at[k] : IsOption(toClient[j])
  BY DEF Remaining
<1>3. CASE spc = "exec"
  <2>1. at[k] = Len(toClient)
    BY <1>3 DEF Remaining
  <2>2. \A j \in 1 .. Len(toClient) : toClient[j] \notin {CR, LF}
    BY <1>2, <2>1, Different
  <2>3. QED BY <2>2 DEF Ends
<1>4. CASE spc = "read"
  <2>1. at[k] + 1 \in 1 .. Len(toClient) /\ toClient[at[k] + 1] = Prompt
    BY <1>1, <1>4 DEF Remaining
  <2>2. \A j \in 1 .. Len(toClient) : at[k] + 1 < j => IsOption(toClient[j])
    BY <2>1 DEF OnePrompt
  <2>3. \A j \in 1 .. Len(toClient) :
          j \in 1 .. at[k] \/ j = at[k] + 1 \/ at[k] + 1 < j
    BY <1>1
  <2>4. \A j \in 1 .. Len(toClient) : toClient[j] \notin {CR, LF}
    BY <1>2, <2>1, <2>2, <2>3, Different
  <2>5. QED BY <2>4 DEF Ends
<1>5. QED BY <1>1, <1>3, <1>4

LEMMA OwedIsFirst ==
  ASSUME TypeOK, NEW k \in 0 .. Len(sent), NEW at,
         Remaining(k, at), Owed(k, at)
  PROVE  /\ 1 \in 1 .. Len(toClient) /\ toClient[1] = LF
         /\ Ends # {} /\ First(Ends) = 1
<1>1. Len(sent) \in Nat /\ Len(toClient) \in Nat
  BY Sizes
<1>2. 1 \in 1 .. Len(toClient) /\ toClient[1] = LF
  <2>1. k \in k .. Len(sent) /\ at[k] = 1
    BY <1>1 DEF Owed
  <2>2. 1 <= Len(toClient)
    BY <2>1, PlacesOf
  <2>3. QED BY <1>1, <2>2 DEF Owed
<1>3. 1 \in Ends /\ Ends \in SUBSET Nat /\ \A j \in Ends : 1 <= j
  BY <1>1, <1>2 DEF Ends
<1>4. First(Ends) \in Ends /\ First(Ends) <= 1
  BY <1>3, LeastNumber
<1>5. First(Ends) = 1
  <2>1. First(Ends) \in Nat /\ 1 <= First(Ends)
    BY <1>3, <1>4
  <2>2. QED BY <1>4, <2>1
<1>6. QED BY <1>2, <1>3, <1>5

(* What a read up to the end of a line takes.                              *)
LEMMA ReadsLF ==
  ASSUME TypeOK, OnePrompt, PlainLines, NEW k \in 0 .. Len(sent), NEW at,
         Remaining(k, at), FillUpTo(LF)
  PROVE  Owed(k, at) /\ toClient' = After(1)
<1>1. Len(sent) \in Nat
  BY Sizes
<1>2. Ends # {} /\ toClient[First(Ends)] = LF /\ toClient' = After(First(Ends))
  BY DEF FillUpTo
<1>3. ASSUME ~Owed(k, at) PROVE FALSE
  <2>1. k < Len(sent)
    BY <1>1, <1>2, <1>3, LastLine
  <2>2. toClient[First(Ends)] = CR
    BY <1>3, <2>1, NextLine
  <2>3. QED BY <1>2, <2>2, Different
<1>4. QED BY <1>2, <1>3, OwedIsFirst

LEMMA ReadsCR ==
  ASSUME TypeOK, OnePrompt, PlainLines, NEW k \in 0 .. Len(sent), NEW at,
         Remaining(k, at), FillUpTo(CR)
  PROVE  /\ ~Owed(k, at) /\ k < Len(sent) /\ FilledLine = sent[k + 1].line
         /\ toClient' = After(at[k] + Len(sent[k + 1].line) + 1)
<1>1. Len(sent) \in Nat
  BY Sizes
<1>2. Ends # {} /\ toClient[First(Ends)] = CR /\ toClient' = After(First(Ends))
  BY DEF FillUpTo
<1>3. ~Owed(k, at)
  BY <1>2, OwedIsFirst, Different
<1>4. k < Len(sent)
  BY <1>1, <1>2, <1>3, LastLine
<1>5. QED BY <1>2, <1>3, <1>4, NextLine

(* And when there is none.                                                 *)
LEMMA ReadsNothing ==
  ASSUME TypeOK, OnePrompt, PlainLines, NEW k \in 0 .. Len(sent), NEW at,
         Remaining(k, at), FillNothing
  PROVE  k = Len(sent) /\ ~Owed(k, at) /\ (spc = "read" \/ dead)
<1>1. Len(sent) \in Nat
  BY Sizes
<1>2. AtPrompt \/ (Ends = {} /\ dead)
  BY DEF FillNothing
<1>3. AtPrompt => /\ toClient[1] = Prompt /\ 1 \in 1 .. Len(toClient)
  BY Sizes, NoneOrTail DEF AtPrompt, TypeOK
<1>4. ~Owed(k, at)
  BY <1>2, <1>3, OwedIsFirst, Different
<1>5. k = Len(sent)
  <2>1. ASSUME k < Len(sent) PROVE FALSE
    BY <1>2, <1>3, <1>4, <2>1, NextLine
  <2>2. QED BY <1>1, <2>1
<1>6. spc = "read" \/ dead
  BY <1>2, <1>3, PlacesOf DEF OnePrompt
<1>7. QED BY <1>4, <1>5, <1>6

(* The places move up when something is read.                              *)
LEMMA MovesUp ==
  ASSUME TypeOK, NEW k \in 0 .. Len(sent), NEW at, Remaining(k, at),
         NEW h \in k .. Len(sent), NEW e \in Nat, e <= at[h],
         toClient' = After(e), UNCHANGED <<spc, sent>>,
         \/ h > 0 /\ ~sent[h].temporary /\ at[h] = e + 1 /\ toClient[e + 1] = LF
         \/ \A j \in 1 .. at[h] - e : IsOption(toClient[j + e])
  PROVE  \E b \in [h .. Len(sent) -> Nat] :
           /\ Remaining(h, b)'
           /\ h > 0 /\ ~sent[h].temporary /\ at[h] = e + 1 /\ toClient[e + 1] = LF
              => Owed(h, b)'
<1>1. /\ Len(sent) \in Nat /\ Len(toClient) \in Nat
      /\ \A i \in 1 .. Len(sent) : Len(sent[i].line) \in Nat
      /\ spc \in {"read", "exec"}
  BY Sizes, PlacesOf
<1>2. h \in Nat /\ h <= Len(sent) /\ h \in h .. Len(sent)
      /\ Len(sent) \in h .. Len(sent)
  BY <1>1
<1>3. \A i \in h .. Len(sent) :
        at[i] \in Nat /\ at[i] <= Len(toClient) /\ e <= at[i]
  <2>1. SUFFICES ASSUME NEW i \in h .. Len(sent)
                 PROVE  at[i] \in Nat /\ at[i] <= Len(toClient) /\ e <= at[i]
    OBVIOUS
  <2>2. i \in k .. Len(sent) /\ h <= i
    BY <1>1
  <2>3. at[i] \in Nat /\ at[h] \in Nat /\ at[h] <= at[i] /\ at[i] <= Len(toClient)
    BY <1>1, <2>2, PlacesOf DEF Remaining
  <2>4. QED BY <2>3
<1>4. e \in 0 .. Len(toClient)
  BY <1>1, <1>2, <1>3
<1>5. /\ Len(toClient') = Len(toClient) - e
      /\ \A i \in 1 .. Len(toClient) - e : toClient'[i] = toClient[i + e]
  BY <1>4, RestOf DEF TypeOK
<1>6. PICK b : b = [i \in h .. Len(sent) |-> at[i] - e]
  OBVIOUS
<1>7. /\ b \in [h .. Len(sent) -> Nat]
      /\ \A i \in h .. Len(sent) : b[i] = at[i] - e /\ b[i] \in Nat
  BY <1>3, <1>6
<1>8. \A i, j \in h .. Len(sent) : i <= j => b[i] <= b[j]
  <2>1. SUFFICES ASSUME NEW i \in h .. Len(sent), NEW j \in h .. Len(sent), i <= j
                 PROVE  b[i] <= b[j]
    OBVIOUS
  <2>2. i \in k .. Len(sent) /\ j \in k .. Len(sent)
    BY <1>1
  <2>3. at[i] <= at[j]
    BY <2>1, <2>2 DEF Remaining
  <2>4. QED BY <1>3, <1>7, <2>3
<1>9. ASSUME NEW i \in h + 1 .. Len(sent)
      PROVE  b[i] = EndOf(i, b[i - 1]) /\ Stands(i, b[i - 1])'
  <2>1. /\ i \in k + 1 .. Len(sent) /\ i \in h .. Len(sent)
        /\ i - 1 \in h .. Len(sent) /\ i \in 1 .. Len(sent)
    BY <1>1, <1>2
  <2>2. at[i] = EndOf(i, at[i - 1]) /\ Stands(i, at[i - 1])
    BY <2>1 DEF Remaining
  <2> DEFINE p == at[i - 1]
  <2> DEFINE n == Len(sent[i].line)
  <2>3. /\ p \in Nat /\ e <= p /\ at[i] \in Nat /\ at[i] <= Len(toClient)
        /\ n \in Nat /\ b[i] = at[i] - e /\ b[i - 1] = p - e
    BY <1>1, <1>3, <1>7, <2>1
  <2>4. at[i] = p + n + IF sent[i].temporary THEN 1 ELSE 2
    BY <2>2 DEF EndOf
  <2>5. b[i] = b[i - 1] + n + IF sent[i].temporary THEN 1 ELSE 2
    <3> HIDE DEF p, n
    <3>1. QED BY <2>3, <2>4
  <2>6. /\ sent[i].line # <<>> => toClient[p + 1] = sent[i].line[1]
        /\ toClient[p + n + 1] = CR
        /\ ~sent[i].temporary => toClient[p + n + 2] = LF
    <3>1. p + n + 1 + 1 = p + n + 2
      BY <2>3
    <3>2. QED BY <2>2, <3>1 DEF Stands
  <2> HIDE DEF p, n
  <2>7. toClient'[p - e + 1] = toClient[p + 1]
    <3>1. p - e + 1 \in 1 .. Len(toClient) - e
      BY <1>1, <2>3, <2>4
    <3>2. p - e + 1 + e = p + 1
      BY <2>3
    <3>3. QED BY <1>5, <3>1, <3>2
  <2>8. toClient'[p - e + n + 1] = toClient[p + n + 1]
    <3>1. p - e + n + 1 \in 1 .. Len(toClient) - e
      BY <1>1, <2>3, <2>4
    <3>2. p - e + n + 1 + e = p + n + 1
      BY <2>3
    <3>3. QED BY <1>5, <3>1, <3>2
  <2>9. ~sent[i].temporary => toClient'[p - e + n + 1 + 1] = toClient[p + n + 2]
    <3>1. SUFFICES ASSUME ~sent[i].temporary
                   PROVE  toClient'[p - e + n + 1 + 1] = toClient[p + n + 2]
      OBVIOUS
    <3>2. p - e + n + 1 + 1 \in 1 .. Len(toClient) - e
      BY <1>1, <2>3, <2>4, <3>1
    <3>3. p - e + n + 1 + 1 + e = p + n + 2
      BY <2>3
    <3>4. QED BY <1>5, <3>2, <3>3
  <2>10. Stands(i, b[i - 1])'
    BY <2>3, <2>6, <2>7, <2>8, <2>9 DEF Stands, n
  <2>11. QED BY <2>5, <2>10 DEF EndOf, n
<1>10. h > 0 /\ ~sent[h].temporary /\ at[h] = e + 1 /\ toClient[e + 1] = LF
         => Owed(h, b)'
  <2>1. SUFFICES ASSUME h > 0, ~sent[h].temporary, at[h] = e + 1,
                        toClient[e + 1] = LF
                 PROVE  Owed(h, b)'
    OBVIOUS
  <2>2. b[h] = at[h] - e /\ at[h] \in Nat /\ at[h] <= Len(toClient)
    BY <1>2, <1>3, <1>7
  <2>3. b[h] = 1 /\ 1 \in 1 .. Len(toClient) - e /\ 1 + e = e + 1
    BY <1>1, <2>1, <2>2
  <2>4. toClient'[1] = LF
    BY <1>5, <2>1, <2>3
  <2>5. QED BY <2>1, <2>3, <2>4 DEF Owed
<1>11. Owed(h, b)' \/ \A j \in 1 .. b[h] : IsOption(toClient'[j])
  <2>1. \A j \in 1 .. b[h] : j \in 1 .. Len(toClient) - e
    BY <1>1, <1>2, <1>3, <1>7
  <2>2. b[h] = at[h] - e
    BY <1>2, <1>7
  <2>3. QED BY <1>5, <1>10, <2>1, <2>2
<1>12. spc = "exec" => b[Len(sent)] = Len(toClient')
  <2>1. spc = "exec" => at[Len(sent)] = Len(toClient)
    BY DEF Remaining
  <2>2. QED BY <1>2, <1>5, <1>7, <2>1
<1>13. spc = "read" => /\ b[Len(sent)] < Len(toClient')
                       /\ toClient'[b[Len(sent)] + 1] = Prompt
  <2>1. SUFFICES ASSUME spc = "read"
                 PROVE  /\ b[Len(sent)] < Len(toClient')
                        /\ toClient'[b[Len(sent)] + 1] = Prompt
    OBVIOUS
  <2> DEFINE p == at[Len(sent)]
  <2>2. p < Len(toClient) /\ toClient[p + 1] = Prompt
    BY <2>1 DEF Remaining
  <2>3. b[Len(sent)] = p - e /\ p \in Nat /\ e <= p
    BY <1>2, <1>3, <1>7
  <2> HIDE DEF p
  <2>4. p - e + 1 \in 1 .. Len(toClient) - e /\ p - e + 1 + e = p + 1
    BY <1>1, <2>2, <2>3
  <2>5. QED BY <1>1, <1>5, <2>2, <2>3, <2>4
<1>14. Remaining(h, b)'
  BY <1>1, <1>7, <1>8, <1>9, <1>11, <1>12, <1>13 DEF Remaining, EndOf
<1>15. QED BY <1>7, <1>14, <1>10

-----------------------------------------------------------------------------
(* The response, line by line.                                             *)

LEMMA StaysReading ==
  ASSUME PlainLines, UNCHANGED sent, pc' \in Reading,
         Waiting' \/ MidWay' \/ WithoutStatus'
  PROVE  Whole'
<1>1. PlainLines'
  BY DEF PlainLines
<1>2. pc' # "idle"
  BY DEF Reading
<1>3. QED BY <1>1, <1>2 DEF Whole, ReturnsAll

LEMMA LineMidWay ==
  ASSUME WInv, ~quoted, pc \in Reading, NEW end, FillUpTo(end)
  PROVE  TypeOK /\ OnePrompt /\ PlainLines /\ MidWay
<1>1. TypeOK /\ OnePrompt /\ PlainLines
  BY DEF WInv, IInv, Whole
<1>2. ASSUME Waiting PROVE FALSE
  <2>1. \A j \in 1 .. Len(toClient) : IsOption(toClient[j])
    BY <1>1, <1>2 DEF Waiting, HasCommand, OnePrompt
  <2>2. Ends = {}
    BY <2>1, Different DEF Ends
  <2>3. QED BY <2>2 DEF FillUpTo
<1>3. ~WithoutStatus
  BY DEF WithoutStatus, NoMore, FillUpTo
<1>4. QED BY <1>1, <1>2, <1>3 DEF WInv, Whole

(* The header of no messages.                                              *)
LEMMA HeaderBegins ==
  \A a, n : NoContent /\ a .. n = {} => HeaderOf(a, n)
<1>1. SUFFICES ASSUME NEW a, NEW n, NoContent, a .. n = {}
               PROVE  HeaderOf(a, n)
  OBVIOUS
<1>2. FieldsIn(a, n) = {}
  BY <1>1 DEF FieldsIn
<1>3. Len(headerName) = 0 /\ 1 .. Len(headerName) = {}
  BY <1>1 DEF NoContent
<1>4. ListsNames({})
  <2> DEFINE at == [k \in 1 .. Len(headerName) |-> k]
  <2>1. at \in [1 .. Len(headerName) -> {}]
    BY <1>3
  <2>2. QED BY <1>3, <2>1 DEF ListsNames
<1>5. KeepsLast({})
  BY <1>1 DEF KeepsLast, NoContent, NoHeader
<1>6. QED BY <1>2, <1>4, <1>5 DEF HeaderOf

(* The header of messages that stay as they are.                           *)
LEMMA HeaderKept ==
  ASSUME NEW a, NEW n, HeaderOf(a, n), UNCHANGED <<header, headerName>>,
         \A i \in a .. n : sent'[i] = sent[i]
  PROVE  HeaderOf(a, n)'
<1>1. PICK S : S = FieldsIn(a, n)
  OBVIOUS
<1>2. FieldsIn(a, n)' = S
  BY <1>1 DEF FieldsIn
<1>3. \A i \in S : sent'[i] = sent[i]
  BY <1>1 DEF FieldsIn
<1>4. header' = header /\ headerName' = headerName
  OBVIOUS
<1>5. ListsNames(S)'
  <2>1. PICK at \in [1 .. Len(headerName) -> S] :
          /\ \A j, k \in 1 .. Len(headerName) : j < k => at[j] < at[k]
          /\ \A i \in S : \E k \in 1 .. Len(headerName) : at[k] = i
          /\ \A k \in 1 .. Len(headerName) : headerName[k] = NameAt(at[k])
    BY <1>1 DEF HeaderOf, ListsNames
  <2>2. \A k \in 1 .. Len(headerName) : NameAt(at[k])' = NameAt(at[k])
    BY <1>3, <2>1 DEF NameAt
  <2>3. QED BY <1>4, <2>1, <2>2 DEF ListsNames
<1>6. KeepsLast(S)'
  <2>1. KeepsLast(S)
    BY <1>1 DEF HeaderOf
  <2>2. \A i \in S : NameAt(i)' = NameAt(i)
    BY <1>3 DEF NameAt
  <2>3. QED BY <1>3, <1>4, <2>1, <2>2 DEF KeepsLast
<1>7. QED BY <1>2, <1>5, <1>6 DEF HeaderOf

(* A response that has been returned stays as it is.                       *)
LEMMA ReturnedKept ==
  ASSUME ReturnsAll, UNCHANGED <<call, callback, pc, outcome, command, quoted>>,
         UNCHANGED <<sent, status, told, content>>,
         spc = "read" \/ dead => spc' = "read" \/ dead'
  PROVE  ReturnsAll'
<1>1. SUFFICES ASSUME outcome = "returned" /\ pc = "idle" /\ ~quoted
               PROVE  ReturnsAll'
  BY DEF ReturnsAll
<1>2. /\ Sent' = Sent /\ StatusAt' = StatusAt /\ HeaderEnd' = HeaderEnd
      /\ body' = body
  BY DEF Sent, StatusAt, HeaderEnd, content
<1>3. PICK a, n : a = StatusAt + 1 /\ n = HeaderEnd - 1
  OBVIOUS
<1>4. HeaderOf(a, n)
  BY <1>1, <1>3 DEF ReturnsAll, HeaderOf
<1>5. HeaderOf(a, n)'
  BY <1>4, HeaderKept DEF content
<1>6. ListsNames(FieldsIn(a, n))' /\ KeepsLast(FieldsIn(a, n))'
  BY <1>5 DEF HeaderOf
<1>7. (/\ ListsNames(FieldsIn(StatusAt + 1, HeaderEnd - 1))
       /\ KeepsLast(FieldsIn(StatusAt + 1, HeaderEnd - 1)))'
  BY <1>2, <1>3, <1>6
<1>8. QED BY <1>1, <1>2, <1>7 DEF ReturnsAll

(* The names with one more.                                                *)
LEMMA NameAdded ==
  ASSUME ContentOK, NEW S \in SUBSET Nat, ListsNames(S),
         NEW m \in Nat, \A i \in S : i < m,
         sent' = sent, NameAt(m) \in Fields,
         headerName' = Append(headerName, NameAt(m))
  PROVE  ListsNames(S \cup {m})'
<1>1. PICK q \in Nat : q = Len(headerName)
  BY LenProperties DEF ContentOK
<1>2. PICK at \in [1 .. q -> S] :
        /\ \A j, k \in 1 .. q : j < k => at[j] < at[k]
        /\ \A i \in S : \E k \in 1 .. q : at[k] = i
        /\ \A k \in 1 .. q : headerName[k] = NameAt(at[k])
  BY <1>1 DEF ListsNames
<1>3. /\ q \in Nat /\ Len(headerName') = q + 1
      /\ \A k \in 1 .. q : headerName'[k] = headerName[k]
      /\ headerName'[q + 1] = NameAt(m)
  BY <1>1, AppendProperties DEF ContentOK
<1>4. PICK more : more = [k \in 1 .. q + 1 |-> IF k \in 1 .. q THEN at[k] ELSE m]
  OBVIOUS
<1>5. /\ q + 1 \in 1 .. q + 1 /\ q + 1 \notin 1 .. q
      /\ \A k \in 1 .. q + 1 : k \in 1 .. q \/ k = q + 1
      /\ \A k \in 1 .. q : k \in 1 .. q + 1
  BY <1>3
<1>6. /\ more \in [1 .. q + 1 -> S \cup {m}]
      /\ \A k \in 1 .. q : more[k] = at[k]
      /\ more[q + 1] = m
  BY <1>2, <1>5, <1>4
<1>7. \A j, k \in 1 .. q + 1 : j < k => more[j] < more[k]
  <2>1. SUFFICES ASSUME NEW j \in 1 .. q + 1, NEW k \in 1 .. q + 1, j < k
                 PROVE  more[j] < more[k]
    OBVIOUS
  <2>2. j \in 1 .. q
    BY <1>3, <2>1
  <2>3. CASE k \in 1 .. q
    BY <1>2, <1>6, <2>1, <2>2, <2>3
  <2>4. CASE k = q + 1
    BY <1>2, <1>6, <2>2, <2>4
  <2>5. QED BY <1>5, <2>1, <2>3, <2>4
<1>8. \A i \in S \cup {m} : \E k \in 1 .. q + 1 : more[k] = i
  BY <1>2, <1>5, <1>6
<1>9. \A k \in 1 .. q + 1 : headerName'[k] = NameAt(more[k])'
  <2>1. \A i : NameAt(i)' = NameAt(i)
    BY DEF NameAt
  <2>2. SUFFICES ASSUME NEW k \in 1 .. q + 1
                 PROVE  headerName'[k] = NameAt(more[k])
    BY <2>1
  <2>3. CASE k \in 1 .. q
    BY <1>2, <1>3, <1>6, <2>3
  <2>4. CASE k = q + 1
    BY <1>3, <1>6, <2>4
  <2>5. QED BY <1>5, <2>3, <2>4
<1>10. PICK new : new = S \cup {m}
  OBVIOUS
<1>11. QED
  <2>1. Len(headerName') = q + 1
    BY <1>3
  <2>2. /\ more \in [1 .. Len(headerName') -> new]
        /\ \A j, k \in 1 .. Len(headerName') : j < k => more[j] < more[k]
        /\ \A i \in new : \E k \in 1 .. Len(headerName') : more[k] = i
        /\ \A k \in 1 .. Len(headerName') : headerName'[k] = NameAt(more[k])'
    BY <1>6, <1>7, <1>8, <1>9, <1>10, <2>1
  <2>3. ListsNames(new)'
    BY <2>2, Zenon DEF ListsNames
  <2>4. QED BY <1>10, <2>3

(* The values with one more, which replaces the one of the same name.      *)
LEMMA ValueReplaced ==
  ASSUME ContentOK, NEW S \in SUBSET Nat, KeepsLast(S),
         NEW m \in Nat, \A i \in S : i < m, sent' = sent,
         header' = [header EXCEPT ![LowerCase(NameAt(m))] = <<sent[m].line>>]
  PROVE  KeepsLast(S \cup {m})'
<1>1. \A i : NameAt(i)' = NameAt(i)
  BY DEF NameAt
<1> DEFINE Named(name, T) == {i \in T : LowerCase(NameAt(i)) = name}
<1>2. ASSUME NEW name \in FieldNames
      PROVE  LET named == Named(name, S \cup {m})
             IN IF named = {} THEN header'[name] = <<>>
                ELSE \E i \in named : /\ \A j \in named : j <= i
                                      /\ header'[name] = <<sent[i].line>>
  <2>1. CASE LowerCase(NameAt(m)) = name
    <3>1. header'[name] = <<sent[m].line>>
      BY <1>2, <2>1 DEF ContentOK
    <3>2. m \in Named(name, S \cup {m})
      BY <2>1
    <3>3. \A j \in Named(name, S \cup {m}) : j <= m
      OBVIOUS
    <3>4. QED BY <3>1, <3>2, <3>3
  <2>2. CASE LowerCase(NameAt(m)) # name
    <3>1. Named(name, S \cup {m}) = Named(name, S)
      BY <2>2
    <3>2. header'[name] = header[name]
      BY <1>2, <2>2 DEF ContentOK
    <3>3. IF Named(name, S) = {} THEN header[name] = <<>>
          ELSE \E i \in Named(name, S) :
                 /\ \A j \in Named(name, S) : j <= i
                 /\ header[name] = <<sent[i].line>>
      BY <1>2 DEF KeepsLast
    <3> HIDE DEF Named
    <3>4. QED BY <3>1, <3>2, <3>3
  <2>3. QED BY <2>1, <2>2
<1>3. QED BY <1>1, <1>2 DEF KeepsLast

(* One more line of a header has been read.                                *)
LEMMA HeaderGrows ==
  ASSUME ContentOK, NEW a \in Nat, NEW n \in Nat, a <= n + 1, HeaderOf(a, n),
         sent' = sent,
         IF IsField(sent[n + 1].line) THEN PutField(sent[n + 1].line)
         ELSE UNCHANGED <<header, headerName>>
  PROVE  HeaderOf(a, n + 1)'
<1>1. PICK S : S = FieldsIn(a, n)
  OBVIOUS
<1>2. PICK m \in Nat : m = n + 1
  OBVIOUS
<1>3. S \in SUBSET Nat /\ \A i \in S : i < m
  BY <1>1, <1>2 DEF FieldsIn
<1>4. \A i : i \in a .. m <=> i \in a .. n \/ i = m
  BY <1>2
<1>5. FieldsIn(a, m)' = IF IsField(sent[m].line) THEN S \cup {m} ELSE S
  BY <1>1, <1>4 DEF FieldsIn
<1>6. ListsNames(S) /\ KeepsLast(S)
  BY <1>1 DEF HeaderOf
<1>7. CASE IsField(sent[m].line)
  <2>1. /\ NameAt(m) \in Fields
        /\ headerName' = Append(headerName, NameAt(m))
        /\ header' = [header EXCEPT ![LowerCase(NameAt(m))] = <<sent[m].line>>]
    BY <1>2, <1>7 DEF PutField, IsField, NameAt
  <2>2. ListsNames(S \cup {m})'
    BY <1>3, <1>6, <2>1, NameAdded
  <2>3. KeepsLast(S \cup {m})'
    BY <1>3, <1>6, <2>1, ValueReplaced
  <2>4. QED BY <1>2, <1>5, <1>7, <2>2, <2>3 DEF HeaderOf
<1>8. CASE ~IsField(sent[m].line)
  <2>1. header' = header /\ headerName' = headerName
    BY <1>2, <1>8
  <2>2. \A i : NameAt(i)' = NameAt(i)
    BY DEF NameAt
  <2>3. ListsNames(S)'
    BY <1>6, <2>1, <2>2 DEF ListsNames
  <2>4. KeepsLast(S)'
    BY <1>6, <2>1, <2>2 DEF KeepsLast
  <2>5. QED BY <1>2, <1>5, <1>8, <2>3, <2>4 DEF HeaderOf
<1>9. QED BY <1>7, <1>8

LEMMA NewLast ==
  ASSUME NEW s \in Seq(Line), NEW line \in Line
  PROVE  /\ Len(s) \in Nat /\ Len(Append(s, line)) = Len(s) + 1
         /\ \A i \in 1 .. Len(s) : Append(s, line)[i] = s[i]
         /\ Append(s, line)[Len(s) + 1] = line
BY AppendProperties, LenProperties

LEMMA LineReadWhole ==
  ASSUME WInv, ~quoted, ReadTemporary \/ ReadStatus \/ ReadHeader \/ ReadBody
  PROVE  Whole'
<1>1. /\ pc \in Reading /\ pc' \in Reading /\ FillUpTo(CR)
      /\ temporaryLine' = TRUE
      /\ UNCHANGED <<toServer, call, callback, outcome, server>>
  BY DEF ReadTemporary, ReadStatus, ReadHeader, ReadBody, FillCR, Reading
<1>2. UNCHANGED <<spc, sent, command, dead, quoted>>
  BY <1>1 DEF server
<1>3. TypeOK /\ OnePrompt /\ PlainLines /\ MidWay
  BY <1>1, LineMidWay
<1>4. PICK k \in 0 .. Len(sent) : \E at \in [k .. Len(sent) -> Nat] :
        Remaining(k, at) /\ Progress(k, at)
  BY <1>3 DEF MidWay
<1>5. PICK at \in [k .. Len(sent) -> Nat] : Remaining(k, at) /\ Progress(k, at)
  BY <1>4
<1>6. PICK e : e = at[k] + Len(sent[k + 1].line) + 1
  OBVIOUS
<1>7. /\ ~Owed(k, at) /\ k < Len(sent) /\ FilledLine = sent[k + 1].line
      /\ toClient' = After(e)
  BY <1>1, <1>3, <1>5, <1>6, ReadsCR
<1>8. /\ e \in 1 .. Len(toClient) /\ e <= at[k + 1] /\ at[k + 1] \in Nat
      /\ sent[k + 1].temporary => at[k + 1] = e
      /\ ~sent[k + 1].temporary => at[k + 1] = e + 1 /\ toClient[e + 1] = LF
  <2>1. TypeOK /\ PlainLines /\ Remaining(k, at) /\ ~Owed(k, at) /\ k < Len(sent)
    BY <1>3, <1>5, <1>7
  <2>2. QED BY <1>6, <2>1, NextLine
<1>9. /\ Len(sent) \in Nat /\ k \in Nat /\ e \in Nat
      /\ k + 1 \in k .. Len(sent) /\ k + 1 \in 0 .. Len(sent) /\ k + 1 > 0
      /\ k + 1 \in 1 .. Len(sent) /\ sent[k + 1].line \in Line
  BY <1>3, <1>7, <1>8, Sizes
<1>10. \/ k + 1 > 0 /\ ~sent[k + 1].temporary /\ at[k + 1] = e + 1
          /\ toClient[e + 1] = LF
       \/ \A j \in 1 .. at[k + 1] - e : IsOption(toClient[j + e])
  <2>1. ASSUME sent[k + 1].temporary PROVE 1 .. at[k + 1] - e = {}
    BY <1>8, <2>1
  <2>2. QED BY <1>8, <1>9, <2>1
<1>11. PICK b \in [k + 1 .. Len(sent) -> Nat] :
         /\ Remaining(k + 1, b)'
         /\ k + 1 > 0 /\ ~sent[k + 1].temporary /\ at[k + 1] = e + 1
            /\ toClient[e + 1] = LF => Owed(k + 1, b)'
  <2> DEFINE h == k + 1
  <2>1. h \in k .. Len(sent) /\ e <= at[h]
    BY <1>8, <1>9
  <2>2. \/ h > 0 /\ ~sent[h].temporary /\ at[h] = e + 1 /\ toClient[e + 1] = LF
        \/ \A j \in 1 .. at[h] - e : IsOption(toClient[j + e])
    BY <1>10
  <2> HIDE DEF h
  <2>3. \E b \in [h .. Len(sent) -> Nat] :
           /\ Remaining(h, b)'
           /\ h > 0 /\ ~sent[h].temporary /\ at[h] = e + 1 /\ toClient[e + 1] = LF
              => Owed(h, b)'
    BY <1>2, <1>3, <1>5, <1>7, <1>9, <2>1, <2>2, MovesUp
  <2>4. QED BY <2>3 DEF h
<1>12. ~sent[k + 1].temporary => Owed(k + 1, b)'
  BY <1>8, <1>9, <1>11
<1>13. told \in Seq(Line) /\ ContentOK
  BY <1>3 DEF TypeOK, ClientTypeOK, ContentOK, content
<1>14. CASE ReadTemporary
  <2>1. /\ pc = "temporary" /\ pc' = "temporary" /\ callback'
        /\ readLine' = <<sent[k + 1].line>>
        /\ told' = Append(told, sent[k + 1].line)
        /\ status' = status /\ content' = content
    BY <1>5, <1>7, <1>14 DEF ReadTemporary, Progress, ReadTold
  <2>2. ReadTold(k, at)
    BY <1>5, <2>1 DEF Progress
  <2>3. Given(k + 1)'
    <3>1. Len(told) = k /\ \A i \in 1 .. k : told[i] = sent[i].line
      BY <2>2 DEF ReadTold, Given
    <3>2. /\ Len(told') = k + 1 /\ told'[k + 1] = sent[k + 1].line
          /\ \A i \in 1 .. k : told'[i] = told[i]
      BY <1>9, <1>13, <2>1, <3>1, NewLast
    <3>3. \A i \in 1 .. k + 1 : i \in 1 .. k \/ i = k + 1
      BY <1>9
    <3>4. QED BY <1>2, <3>1, <3>2, <3>3 DEF Given
  <2>4. \A i \in 1 .. k + 1 - 1 : sent[i].temporary
    <3>1. k # 0 => sent[k].temporary
      BY <1>7, <2>2 DEF ReadTold
    <3>2. \A i \in 1 .. k + 1 - 1 : i \in 1 .. k - 1 \/ (i = k /\ k # 0)
      BY <1>9
    <3>3. QED BY <2>2, <3>1, <3>2 DEF ReadTold
  <2>5. ReadTold(k + 1, b)'
    <3>1. k + 1 # 0
      BY <1>9
    <3>2. NoContent'
      BY <2>1, <2>2 DEF ReadTold, NoContent, content
    <3>3. QED BY <1>1, <1>2, <1>12, <2>1, <2>2, <2>3, <2>4, <3>1, <3>2
             DEF ReadTold
  <2>6. Progress(k + 1, b)'
    BY <2>1, <2>5 DEF Progress
  <2>7. MidWay'
    BY <1>1, <1>2, <1>3, <1>9, <1>11, <2>6 DEF MidWay, HasCommand
  <2>8. QED BY <1>1, <1>2, <1>3, <2>7, StaysReading
<1>15. CASE ReadStatus
  <2>1. /\ pc = "status" /\ pc' = "header" /\ ~Pending /\ readLine' = <<>>
        /\ status' = <<sent[k + 1].line>> /\ content' = content
    BY <1>7, <1>15 DEF ReadStatus
  <2>2. ReadBefore(k)
    BY <1>5, <2>1 DEF Progress
  <2>3. ~callback /\ k = 0 /\ NoContent
    <3>1. callback => FALSE
      <4>1. callback => readLine = <<sent[k].line>> /\ ~temporaryLine
        BY <2>2 DEF ReadBefore
      <4>2. <<sent[k].line>> # <<>>
        OBVIOUS
      <4>3. QED BY <2>1, <4>1, <4>2 DEF Pending
    <3>2. QED BY <2>2, <3>1 DEF ReadBefore
  <2>4. HasStatus(1, 1)'
    <3>1. 1 + 1 .. 1 = {} /\ NoContent'
      BY <2>1, <2>3 DEF NoContent, content
    <3>2. (\A a, n : NoContent /\ a .. n = {} => HeaderOf(a, n))'
      BY HeaderBegins, PTL
    <3>3. HeaderOf(1 + 1, 1)'
      BY <3>1, <3>2
    <3>4. AllLines(1, 1)'
      BY <3>1, <3>3 DEF AllLines, NoContent
    <3>5. IsStatus(1)'
      BY <1>1, <2>3 DEF IsStatus
    <3>6. QED BY <1>1, <1>2, <2>1, <2>3, <3>4, <3>5 DEF HasStatus
  <2>5. Progress(1, b)'
    BY <2>1, <2>4 DEF Progress
  <2>6. MidWay'
    BY <1>1, <1>2, <1>3, <1>9, <1>11, <2>3, <2>5 DEF MidWay, HasCommand
  <2>7. QED BY <1>1, <1>2, <1>3, <2>6, StaysReading
<1>16. CASE ReadHeader \/ ReadBody
  <2>1. /\ pc \in {"header", "body"} /\ readLine' = readLine
        /\ status' = status /\ told' = told
        /\ pc = "header" =>
             /\ body' = body
             /\ pc' = IF sent[k + 1].line = <<>> THEN "body" ELSE "header"
             /\ IF IsField(sent[k + 1].line) THEN PutField(sent[k + 1].line)
                ELSE UNCHANGED <<header, headerName>>
        /\ pc = "body" =>
             /\ pc' = "body" /\ body' = Append(body, sent[k + 1].line)
             /\ UNCHANGED <<header, headerName>>
    BY <1>7, <1>16 DEF ReadHeader, ReadBody
  <2>2. PICK s \in 1 .. k : HasStatus(s, k)
    BY <1>5, <2>1 DEF Progress
  <2>3. readLine = <<>>
    BY <1>5, <2>1 DEF Progress
  <2>4. IsStatus(s)' /\ status' = <<sent[s].line>>' /\ (callback => Given(s))'
    BY <1>1, <1>2, <2>1, <2>2 DEF HasStatus, IsStatus, Given
  <2>5. /\ s \in Nat /\ 1 <= s /\ s <= k /\ s + 1 \in Nat /\ k \in Nat
        /\ s + 1 <= k + 1
        /\ \A i \in s + 1 .. k + 1 : i \in s + 1 .. k \/ i = k + 1
    BY <1>9
  <2>6. ASSUME pc = "header" /\ sent[k + 1].line # <<>>
        PROVE  HasStatus(s, k + 1)'
    <3>1. AllLines(s, k) /\ pc' = "header" /\ body' = body
      BY <2>1, <2>2, <2>6 DEF HasStatus
    <3>2. HeaderOf(s + 1, k)
      BY <3>1 DEF AllLines
    <3>3. HeaderOf(s + 1, k + 1)'
      BY <1>2, <1>13, <2>1, <2>5, <2>6, <3>2, HeaderGrows
    <3>4. \A i \in s + 1 .. k + 1 : sent'[i].line # <<>>
      BY <1>2, <2>5, <2>6, <3>1 DEF AllLines
    <3>5. AllLines(s, k + 1)'
      BY <3>1, <3>3, <3>4 DEF AllLines
    <3>6. QED BY <2>4, <3>1, <3>5 DEF HasStatus
  <2>7. ASSUME pc = "header" /\ sent[k + 1].line = <<>>
        PROVE  HasStatus(s, k + 1)'
    <3>1. AllLines(s, k) /\ pc' = "body" /\ body' = body
      BY <2>1, <2>2, <2>7 DEF HasStatus
    <3>2. content' = content
      BY <2>1, <2>7, <3>1 DEF IsField, content
    <3>3. HeaderOf(s + 1, k)'
      BY <1>2, <3>1, <3>2, HeaderKept DEF AllLines, content
    <3>4. PICK c \in Nat : c = k + 1
      BY <2>5
    <3>5. /\ c \in s + 1 .. c /\ c - 1 = k /\ c - c = 0 /\ 1 .. 0 = {}
      BY <2>5, <3>4
    <3>6. sent'[c].line = <<>> /\ HeaderOf(s + 1, c - 1)'
      BY <1>2, <2>7, <3>3, <3>4, <3>5
    <3>7. Len(body') = 0
      BY <3>1 DEF AllLines
    <3>8. \A i \in s + 1 .. c - 1 : sent'[i].line # <<>>
      BY <1>2, <3>1, <3>5 DEF AllLines
    <3>9. LinesBut(s, c, c)'
      BY <3>5, <3>6, <3>7, <3>8 DEF LinesBut
    <3>10. QED BY <2>4, <3>1, <3>4, <3>9 DEF HasStatus
  <2>8. ASSUME pc = "body"
        PROVE  HasStatus(s, k + 1)'
    <3>1. PICK c \in Nat : LinesBut(s, c, k)
      BY <2>2, <2>8 DEF HasStatus
    <3>2. /\ pc' = "body" /\ body' = Append(body, sent[k + 1].line)
          /\ UNCHANGED <<header, headerName>>
      BY <2>1, <2>8
    <3>3. /\ c \in s + 1 .. k /\ sent[c].line = <<>>
          /\ \A i \in s + 1 .. c - 1 : sent[i].line # <<>>
          /\ HeaderOf(s + 1, c - 1)
          /\ Len(body) = k - c /\ \A i \in 1 .. k - c : body[i] = sent[c + i].line
      BY <3>1 DEF LinesBut
    <3>4. PICK d \in Nat : d = k - c
      BY <2>5, <3>3
    <3>5. /\ c \in s + 1 .. k + 1 /\ k + 1 - c = d + 1 /\ c + (d + 1) = k + 1
          /\ \A i \in 1 .. d + 1 : i \in 1 .. d \/ i = d + 1
      BY <2>5, <3>3, <3>4
    <3>6. body \in Seq(Line)
      BY <1>13 DEF ContentOK
    <3>7. /\ Len(body') = d + 1 /\ body'[d + 1] = sent[k + 1].line
          /\ \A i \in 1 .. d : body'[i] = body[i]
      <4>1. sent[k + 1].line \in Line /\ Len(body) = d
        BY <1>9, <3>3, <3>4
      <4>2. QED BY <3>2, <3>6, <4>1, NewLast
    <3>8. \A i \in 1 .. d + 1 : body'[i] = sent'[c + i].line
      BY <1>2, <3>3, <3>4, <3>5, <3>7
    <3>9. HeaderOf(s + 1, c - 1)
      BY <3>3
    <3>10. HeaderOf(s + 1, c - 1)'
      BY <1>2, <3>2, <3>9, HeaderKept
    <3>11. LinesBut(s, c, k + 1)'
      BY <1>2, <3>3, <3>5, <3>7, <3>8, <3>10 DEF LinesBut
    <3>12. QED BY <2>4, <3>2, <3>11 DEF HasStatus
  <2>9. HasStatus(s, k + 1)' /\ pc' \in {"header", "body"}
    BY <2>1, <2>6, <2>7, <2>8, Zenon
  <2>10. s \in 1 .. k + 1
    BY <1>9
  <2>11. Progress(k + 1, b)'
    BY <2>1, <2>3, <2>9, <2>10 DEF Progress
  <2>12. MidWay'
    BY <1>1, <1>2, <1>3, <1>9, <1>11, <2>11 DEF MidWay, HasCommand
  <2>13. QED BY <1>1, <1>2, <1>3, <2>12, StaysReading
<1>17. QED BY <1>14, <1>15, <1>16

(* LF of a line whose CR has been read.                                    *)
LEMMA FeedPassed ==
  ASSUME TypeOK, OnePrompt, PlainLines, NEW k \in 0 .. Len(sent), NEW at,
         Remaining(k, at), FillUpTo(LF), UNCHANGED <<spc, sent>>
  PROVE  Owed(k, at) /\ \E b \in [k .. Len(sent) -> Nat] : Remaining(k, b)'
<1>1. Owed(k, at) /\ toClient' = After(1)
  BY ReadsLF
<1>2. at[k] = 1 /\ k \in k .. Len(sent)
  BY <1>1, Sizes DEF Owed
<1>3. PICK e \in Nat : e = 1
  OBVIOUS
<1>4. e <= at[k] /\ toClient' = After(e)
  BY <1>1, <1>2, <1>3
<1>5. 1 .. at[k] - e = {}
  BY <1>2, <1>3
<1>6. \A j \in 1 .. at[k] - e : IsOption(toClient[j + e])
  BY <1>5
<1>7. \E b \in [k .. Len(sent) -> Nat] : Remaining(k, b)'
  BY <1>2, <1>4, <1>6, MovesUp
<1>8. QED BY <1>1, <1>7

LEMMA EndTemporaryWhole ==
  ASSUME WInv, ~quoted, EndTemporary
  PROVE  Whole'
<1>1. /\ pc = "temporary" /\ pc \in Reading /\ pc' = "status" /\ pc' \in Reading
      /\ UNCHANGED <<toServer, call, callback, readLine, status, content, told>>
      /\ UNCHANGED <<outcome, spc, sent, command, dead, quoted>>
  BY DEF EndTemporary, Reading, server
<1>2. TypeOK /\ OnePrompt /\ PlainLines /\ (Waiting \/ MidWay)
  BY <1>1 DEF WInv, IInv, Whole, WithoutStatus
<1>3. CASE FillLF
  <2>1. FillUpTo(LF) /\ temporaryLine' = FALSE
    BY <1>3 DEF FillLF
  <2>2. MidWay
    BY <1>1, <2>1, LineMidWay
  <2>3. PICK k \in 0 .. Len(sent) : \E at \in [k .. Len(sent) -> Nat] :
          Remaining(k, at) /\ Progress(k, at)
    BY <2>2 DEF MidWay
  <2>4. PICK at \in [k .. Len(sent) -> Nat] : Remaining(k, at) /\ Progress(k, at)
    BY <2>3
  <2>5. /\ Owed(k, at)
        /\ \E b \in [k .. Len(sent) -> Nat] : Remaining(k, b)'
    BY <1>1, <1>2, <2>1, <2>4, FeedPassed
  <2>6. PICK b \in [k .. Len(sent) -> Nat] : Remaining(k, b)'
    BY <2>5
  <2>7. ReadTold(k, at) /\ k > 0 /\ k # 0 /\ ~sent[k].temporary
    BY <1>1, <2>4, <2>5, Sizes DEF Progress, Owed
  <2>8. ReadBefore(k)'
    <3>1. Given(k)'
      BY <1>1, <2>7 DEF ReadTold, Given
    <3>2. IsStatus(k)'
      BY <1>1, <2>7 DEF ReadTold, IsStatus
    <3>3. NoContent'
      BY <1>1, <2>7 DEF ReadTold, NoContent, content
    <3>4. QED BY <1>1, <2>1, <2>7, <3>1, <3>2, <3>3 DEF ReadTold, ReadBefore
  <2>9. Progress(k, b)'
    BY <1>1, <2>8 DEF Progress
  <2>10. MidWay'
    BY <1>1, <2>2, <2>6, <2>9 DEF MidWay, HasCommand
  <2>11. QED BY <1>1, <1>2, <2>10, StaysReading
<1>4. CASE FillNothing /\ UNCHANGED temporaryLine
  <2>1. callback /\ ~Pending
    <3>1. CASE Waiting
      BY <1>1, <3>1 DEF Waiting, NothingRead, FirstPlace, Pending
    <3>2. CASE MidWay
      <4>1. PICK k \in 0 .. Len(sent) : \E at : ReadTold(k, at)
        BY <1>1, <3>2 DEF MidWay, Progress
      <4>2. PICK at : ReadTold(k, at)
        BY <4>1
      <4>3. QED BY <4>2 DEF ReadTold, Pending
    <3>3. QED BY <1>2, <3>1, <3>2
  <2>2. ~Pending'
    BY <1>1, <1>4, <2>1 DEF Pending
  <2>3. NoMore'
    <3>1. CASE AtPrompt /\ UNCHANGED toClient
      <4>1. 1 \in 1 .. Len(toClient) /\ toClient[1] = Prompt
        BY <1>2, <3>1, Sizes, NoneOrTail DEF AtPrompt, TypeOK
      <4>2. spc = "read"
        BY <1>2, <3>1, <4>1 DEF OnePrompt, AtPrompt, TypeOK, ServerTypeOK
      <4>3. QED BY <1>1, <3>1, <4>2 DEF NoMore, AtPrompt
    <3>2. CASE dead /\ toClient' = <<>>
      BY <1>1, <3>2 DEF NoMore, AtPrompt, Ends
    <3>3. QED BY <1>4, <3>1, <3>2 DEF FillNothing
  <2>4. WithoutStatus'
    BY <1>1, <2>1, <2>2, <2>3 DEF WithoutStatus
  <2>5. QED BY <1>1, <1>2, <2>4, StaysReading
<1>5. QED BY <1>3, <1>4 DEF EndTemporary

LEMMA PendingWhole ==
  ASSUME WInv, ~quoted, ReadPendingStatus
  PROVE  Whole'
<1>1. /\ pc = "status" /\ pc \in Reading /\ pc' = "header" /\ pc' \in Reading
      /\ readLine # <<>> /\ ~temporaryLine
      /\ status' = readLine /\ readLine' = <<>>
      /\ UNCHANGED <<toServer, toClient, call, callback, content, told>>
      /\ UNCHANGED <<outcome, spc, sent, command, dead, quoted>>
  BY DEF ReadPendingStatus, Pending, Reading, server
<1>2. PlainLines /\ MidWay
  BY <1>1 DEF WInv, Whole, WithoutStatus, Pending, Waiting, NothingRead
<1>3. PICK k \in 0 .. Len(sent) : \E at \in [k .. Len(sent) -> Nat] :
        Remaining(k, at) /\ Progress(k, at)
  BY <1>2 DEF MidWay
<1>4. PICK at \in [k .. Len(sent) -> Nat] : Remaining(k, at) /\ Progress(k, at)
  BY <1>3
<1>5. ReadBefore(k)
  BY <1>1, <1>4 DEF Progress
<1>6. /\ callback /\ k > 0 /\ Given(k) /\ IsStatus(k)
      /\ readLine = <<sent[k].line>> /\ NoContent
  BY <1>1, <1>5 DEF ReadBefore
<1>7. TypeOK
  BY DEF WInv, IInv
<1>8. k \in 1 .. k /\ k \in Nat
  BY <1>6, <1>7, Sizes
<1>9. AllLines(k, k)'
  <2>1. NoContent' /\ k + 1 .. k = {}
    BY <1>1, <1>6, <1>8 DEF NoContent, content
  <2>2. (\A a, n : NoContent /\ a .. n = {} => HeaderOf(a, n))'
    BY HeaderBegins, PTL
  <2>3. HeaderOf(k + 1, k)'
    BY <2>1, <2>2
  <2>4. QED BY <2>1, <2>3 DEF AllLines, NoContent
<1>10. HasStatus(k, k)'
  BY <1>1, <1>6, <1>9 DEF HasStatus, IsStatus, Given
<1>11. Progress(k, at)'
  BY <1>1, <1>8, <1>10 DEF Progress
<1>12. Remaining(k, at)'
  BY <1>1, <1>4 DEF Remaining, EndOf, Stands, Owed
<1>13. MidWay'
  BY <1>1, <1>2, <1>11, <1>12 DEF MidWay, HasCommand
<1>14. QED BY <1>1, <1>2, <1>13, StaysReading

LEMMA PassLFWhole ==
  ASSUME WInv, ~quoted, PassLF
  PROVE  Whole'
<1>1. /\ pc \in {"status", "header", "body"} /\ pc \in Reading /\ pc' = pc
      /\ ~Pending /\ FillUpTo(LF) /\ pc' \in Reading
      /\ UNCHANGED <<toServer, call, callback, readLine, status, content, told>>
      /\ UNCHANGED <<outcome, spc, sent, command, dead, quoted>>
  BY DEF PassLF, FillLF, Reading, server
<1>2. TypeOK /\ OnePrompt /\ PlainLines /\ MidWay
  BY <1>1, LineMidWay
<1>3. PICK k \in 0 .. Len(sent) : \E at \in [k .. Len(sent) -> Nat] :
        Remaining(k, at) /\ Progress(k, at)
  BY <1>2 DEF MidWay
<1>4. PICK at \in [k .. Len(sent) -> Nat] : Remaining(k, at) /\ Progress(k, at)
  BY <1>3
<1>5. Owed(k, at) /\ \E b \in [k .. Len(sent) -> Nat] : Remaining(k, b)'
  BY <1>1, <1>2, <1>4, FeedPassed
<1>6. PICK b \in [k .. Len(sent) -> Nat] : Remaining(k, b)'
  BY <1>5
<1>7. pc # "status"
  <2>1. SUFFICES ASSUME pc = "status" PROVE FALSE
    OBVIOUS
  <2>2. ReadBefore(k) /\ k > 0
    BY <1>4, <1>5, <2>1 DEF Progress, Owed
  <2>3. k # 0
    BY <1>2, <2>2, Sizes
  <2>4. readLine = <<sent[k].line>> /\ ~temporaryLine
    BY <2>2, <2>3 DEF ReadBefore
  <2>5. readLine # <<>>
    BY <2>4
  <2>6. QED BY <1>1, <2>4, <2>5 DEF Pending
<1>8. PICK s \in 1 .. k : HasStatus(s, k)
  BY <1>1, <1>4, <1>7 DEF Progress
<1>9. HasStatus(s, k)'
  <2>1. (callback => Given(s)) => (callback => Given(s))'
    BY <1>1 DEF Given
  <2>2. AllLines(s, k) => AllLines(s, k)'
    BY <1>1, HeaderKept DEF AllLines, content
  <2>3. \A c \in Nat : LinesBut(s, c, k) => LinesBut(s, c, k)'
    BY <1>1, HeaderKept DEF LinesBut, content
  <2>4. IsStatus(s) => IsStatus(s)'
    BY <1>1 DEF IsStatus
  <2>5. QED BY <1>1, <1>8, <2>1, <2>2, <2>3, <2>4 DEF HasStatus
<1>10. Progress(k, b)'
  BY <1>1, <1>4, <1>7, <1>9 DEF Progress
<1>11. MidWay'
  BY <1>1, <1>2, <1>6, <1>10 DEF MidWay, HasCommand
<1>12. QED BY <1>1, <1>2, <1>11, StaysReading

(* The lines of a part of what was sent.                                   *)
LEMMA PartOf ==
  ASSUME NEW q \in Seq(Line), NEW m \in Nat, NEW n \in Nat,
         1 <= m, m <= n + 1, n <= Len(q)
  PROVE  /\ SubSeq(q, m, n) \in Seq(Line)
         /\ Len(SubSeq(q, m, n)) = n - m + 1
         /\ \A i \in 1 .. n - m + 1 : SubSeq(q, m, n)[i] = q[m + i - 1]
<1>1. Len(q) \in Nat
  BY LenProperties
<1>2. \A i \in m .. n : q[i] \in Line
  <2>1. \A i \in m .. n : i \in 1 .. Len(q)
    BY <1>1
  <2>2. QED BY <2>1, ElementOfSeq
<1>3. /\ SubSeq(q, m, n) \in Seq(Line)
      /\ Len(SubSeq(q, m, n)) = IF m <= n THEN n - m + 1 ELSE 0
      /\ \A i \in 1 .. n - m + 1 : SubSeq(q, m, n)[i] = q[m + i - 1]
  BY <1>2, SubSeqProperties
<1>4. QED BY <1>3

(* All that was sent has been read.                                        *)
LEMMA AllIsReturned ==
  ASSUME TypeOK, pc \in {"header", "body"},
         NEW s \in 1 .. Len(sent), HasStatus(s, Len(sent))
  PROVE  /\ status = <<Sent[StatusAt]>>
         /\ HeaderOf(StatusAt + 1, HeaderEnd - 1)
         /\ body = SubSeq(Sent, HeaderEnd + 1, Len(Sent))
         /\ callback => told = SubSeq(Sent, 1, StatusAt)
<1> DEFINE n == Len(sent)
<1>1. /\ n \in Nat /\ s \in Nat /\ 1 <= s /\ s <= n
      /\ \A i \in 1 .. n : sent[i].line \in Line
      /\ body \in Seq(Line) /\ told \in Seq(Line)
  <2>1. body \in Seq(Line) /\ told \in Seq(Line)
    BY DEF TypeOK, ClientTypeOK, ContentOK
  <2>2. QED BY <2>1, Sizes
<1>2. /\ Sent \in Seq(Line) /\ Len(Sent) = n
      /\ \A i \in 1 .. n : Sent[i] = sent[i].line
  BY <1>1 DEF Sent
<1>3. StatusAt = s
  <2> DEFINE S == {i \in 1 .. Len(sent) : callback => ~sent[i].temporary}
  <2>1. s \in S
    BY DEF HasStatus, IsStatus
  <2>2. \A i \in S : i \in Nat /\ s <= i
    <3>1. \A i \in 1 .. Len(sent) : i \in Nat /\ (s <= i \/ i \in 1 .. s - 1)
      BY <1>1
    <3>2. \A i \in 1 .. s - 1 : callback /\ sent[i].temporary
      BY DEF HasStatus, IsStatus
    <3>3. QED BY <3>1, <3>2
  <2>3. StatusAt = First(S)
    BY DEF StatusAt
  <2> HIDE DEF S
  <2>4. S \in SUBSET Nat /\ S # {}
    BY <2>1, <2>2
  <2>5. First(S) \in S /\ First(S) <= s
    BY <2>1, <2>4, LeastNumber
  <2>6. First(S) \in Nat /\ s <= First(S)
    BY <2>2, <2>5
  <2>7. First(S) = s
    BY <1>1, <2>5, <2>6
  <2>8. QED BY <2>3, <2>7
<1> HIDE DEF n
<1>4. status = <<Sent[s]>>
  BY <1>2 DEF HasStatus, n
<1>5. callback => told = SubSeq(Sent, 1, s)
  <2>1. SUFFICES ASSUME callback PROVE told = SubSeq(Sent, 1, s)
    OBVIOUS
  <2>2. Len(told) = s /\ \A i \in 1 .. s : told[i] = sent[i].line
    BY <2>1 DEF HasStatus, Given
  <2>3. /\ SubSeq(Sent, 1, s) \in Seq(Line)
        /\ Len(SubSeq(Sent, 1, s)) = s - 1 + 1
        /\ \A i \in 1 .. s - 1 + 1 : SubSeq(Sent, 1, s)[i] = Sent[1 + i - 1]
    BY <1>1, <1>2, PartOf
  <2>4. \A i \in 1 .. s : SubSeq(Sent, 1, s)[i] = Sent[i]
    <3>1. \A i \in 1 .. s : i \in 1 .. s - 1 + 1 /\ 1 + i - 1 = i
      BY <1>1
    <3>2. QED BY <2>3, <3>1
  <2>5. \A i \in 1 .. s : i \in 1 .. n
    BY <1>1
  <2>6. Len(told) = Len(SubSeq(Sent, 1, s))
    BY <1>1, <2>2, <2>3
  <2>7. \A i \in 1 .. Len(told) : told[i] = SubSeq(Sent, 1, s)[i]
    BY <1>2, <2>2, <2>4, <2>5
  <2>8. QED BY <1>1, <2>3, <2>6, <2>7, SeqEqual
<1> DEFINE blanks == {i \in s + 1 .. n : sent[i].line = <<>>}
<1>6. HeaderEnd = IF blanks = {} THEN n + 1 ELSE First(blanks)
  BY <1>3 DEF HeaderEnd, n
<1>7. HeaderOf(s + 1, HeaderEnd - 1) /\ body = SubSeq(Sent, HeaderEnd + 1, n)
  <2>1. CASE pc = "header"
    <3>1. /\ \A i \in s + 1 .. n : sent[i].line # <<>>
          /\ HeaderOf(s + 1, n) /\ body = <<>>
      BY <2>1 DEF HasStatus, AllLines, n
    <3>2. HeaderEnd = n + 1
      BY <1>6, <3>1
    <3>3. PICK m \in Nat : m = n + 1
      BY <1>1
    <3>4. m - 1 = n /\ m + 1 > n /\ m + 1 \in Int /\ n \in Int
      BY <1>1, <3>3
    <3>5. SubSeq(Sent, m + 1, n) = <<>>
      BY <3>4, SubSeqEmpty
    <3>6. QED BY <3>1, <3>2, <3>3, <3>4, <3>5
  <2>2. CASE pc = "body"
    <3>1. PICK b \in Nat : LinesBut(s, b, n)
      BY <2>2 DEF HasStatus, n
    <3>2. /\ b \in s + 1 .. n /\ sent[b].line = <<>>
          /\ \A i \in s + 1 .. b - 1 : sent[i].line # <<>>
          /\ HeaderOf(s + 1, b - 1)
          /\ Len(body) = n - b
          /\ \A i \in 1 .. n - b : body[i] = sent[b + i].line
      BY <3>1 DEF LinesBut
    <3>3. HeaderEnd = b
      <4>1. b \in blanks
        BY <3>2
      <4>2. \A i \in blanks : i \in Nat /\ b <= i
        <5>1. \A i \in s + 1 .. n : i \in Nat /\ (b <= i \/ i \in s + 1 .. b - 1)
          BY <1>1
        <5>2. QED BY <3>2, <5>1
      <4> HIDE DEF blanks
      <4>3. blanks \in SUBSET Nat /\ blanks # {}
        BY <4>1, <4>2
      <4>4. First(blanks) \in blanks /\ First(blanks) <= b
        BY <4>1, <4>3, LeastNumber
      <4>5. First(blanks) \in Nat /\ b <= First(blanks)
        BY <4>2, <4>4
      <4>6. First(blanks) = b
        BY <4>4, <4>5
      <4>7. QED BY <1>6, <4>3, <4>6
    <3>4. PICK m \in Nat : m = b + 1
      OBVIOUS
    <3>5. /\ 1 <= m /\ m <= n + 1 /\ n - m + 1 = n - b
          /\ \A i \in 1 .. n - b : m + i - 1 = b + i /\ b + i \in 1 .. n
      BY <1>1, <3>2, <3>4
    <3>6. /\ SubSeq(Sent, m, n) \in Seq(Line)
          /\ Len(SubSeq(Sent, m, n)) = n - m + 1
          /\ \A i \in 1 .. n - m + 1 : SubSeq(Sent, m, n)[i] = Sent[m + i - 1]
      BY <1>1, <1>2, <3>5, PartOf
    <3>7. \A i \in 1 .. n - b : SubSeq(Sent, m, n)[i] = body[i]
      <4>1. SUFFICES ASSUME NEW i \in 1 .. n - b
                     PROVE  SubSeq(Sent, m, n)[i] = body[i]
        OBVIOUS
      <4>2. i \in 1 .. n - m + 1 /\ m + i - 1 = b + i /\ b + i \in 1 .. n
        BY <3>5
      <4>3. SubSeq(Sent, m, n)[i] = Sent[b + i]
        BY <3>6, <4>2
      <4>4. Sent[b + i] = sent[b + i].line /\ body[i] = sent[b + i].line
        BY <1>2, <3>2, <4>2
      <4>5. QED BY <4>3, <4>4
    <3>8. Len(body) = Len(SubSeq(Sent, m, n))
      BY <3>2, <3>5, <3>6
    <3>9. body = SubSeq(Sent, m, n)
      BY <1>1, <3>2, <3>6, <3>7, <3>8, SeqEqual
    <3>10. QED BY <3>2, <3>3, <3>4, <3>9
  <2>3. QED BY <2>1, <2>2
<1>8. QED BY <1>2, <1>3, <1>4, <1>5, <1>7

LEMMA ReturnWhole ==
  ASSUME WInv, ~quoted, Return
  PROVE  Whole'
<1>1. /\ pc \in {"header", "body"} /\ pc \in Reading /\ pc' = "idle"
      /\ FillNothing
      /\ UNCHANGED <<toServer, call, callback, readLine, status, content, told>>
      /\ UNCHANGED <<spc, sent, command, dead, quoted>>
  BY DEF Return, Reading, server
<1>2. TypeOK /\ OnePrompt /\ Answering /\ PlainLines /\ MidWay
  BY <1>1 DEF WInv, IInv, Whole, WithoutStatus, Waiting, FirstPlace
<1>3. PICK k \in 0 .. Len(sent) : \E at \in [k .. Len(sent) -> Nat] :
        Remaining(k, at) /\ Progress(k, at)
  BY <1>2 DEF MidWay
<1>4. PICK at \in [k .. Len(sent) -> Nat] : Remaining(k, at) /\ Progress(k, at)
  BY <1>3
<1>5. k = Len(sent) /\ (spc = "read" \/ dead)
  BY <1>1, <1>2, <1>4, ReadsNothing
<1>6. PICK s \in 1 .. Len(sent) : HasStatus(s, Len(sent))
  BY <1>1, <1>4, <1>5 DEF Progress
<1>7. /\ status = <<Sent[StatusAt]>>
      /\ HeaderOf(StatusAt + 1, HeaderEnd - 1)
      /\ body = SubSeq(Sent, HeaderEnd + 1, Len(Sent))
      /\ callback => told = SubSeq(Sent, 1, StatusAt)
  BY <1>1, <1>2, <1>6, AllIsReturned
<1>8. ~HasCommand /\ command = call
  BY <1>1, <1>2 DEF MidWay, HasCommand, Answering
<1>9. /\ Sent' = Sent /\ StatusAt' = StatusAt /\ HeaderEnd' = HeaderEnd
      /\ body' = body
  BY <1>1 DEF Sent, StatusAt, HeaderEnd, content
<1>10. ReturnsAll'
  <2>1. PICK a, n : a = StatusAt + 1 /\ n = HeaderEnd - 1
    OBVIOUS
  <2>2. HeaderOf(a, n)'
    BY <1>1, <1>7, <2>1, HeaderKept DEF content
  <2>3. ListsNames(FieldsIn(a, n))' /\ KeepsLast(FieldsIn(a, n))'
    BY <2>2 DEF HeaderOf
  <2>4. (/\ ListsNames(FieldsIn(StatusAt + 1, HeaderEnd - 1))
         /\ KeepsLast(FieldsIn(StatusAt + 1, HeaderEnd - 1)))'
    BY <1>9, <2>1, <2>3
  <2>5. QED BY <1>1, <1>5, <1>7, <1>8, <1>9, <2>4 DEF ReturnsAll
<1>11. PlainLines' /\ ~HasCommand' /\ pc' \notin Reading
  BY <1>1, <1>2, <1>8 DEF PlainLines, HasCommand, Reading
<1>12. QED BY <1>10, <1>11 DEF Whole

-----------------------------------------------------------------------------
(* What the server adds.                                                   *)

LEMMA StandsKept ==
  ASSUME TypeOK, NEW k \in 0 .. Len(sent), NEW at, Remaining(k, at),
         NEW i \in k + 1 .. Len(sent), sent'[i] = sent[i],
         \A j \in 1 .. Len(toClient) : toClient'[j] = toClient[j]
  PROVE  at[i] = EndOf(i, at[i - 1])' /\ Stands(i, at[i - 1])'
<1> DEFINE p == at[i - 1]
<1> DEFINE n == Len(sent[i].line)
<1>1. /\ Len(sent) \in Nat /\ Len(toClient) \in Nat
      /\ i \in 1 .. Len(sent) /\ i \in k .. Len(sent) /\ i - 1 \in k .. Len(sent)
      /\ n \in Nat
  BY Sizes
<1>2. p \in Nat /\ at[i] \in Nat /\ at[i] <= Len(toClient)
  BY <1>1, PlacesOf
<1>3. at[i] = EndOf(i, p) /\ Stands(i, p)
  BY DEF Remaining
<1>4. at[i] = p + n + IF sent[i].temporary THEN 1 ELSE 2
  BY <1>3 DEF EndOf
<1>5. /\ sent[i].line # <<>> => toClient[p + 1] = sent[i].line[1]
      /\ toClient[p + n + 1] = CR
      /\ ~sent[i].temporary => toClient[p + n + 1 + 1] = LF
  BY <1>3 DEF Stands
<1> HIDE DEF p, n
<1>6. /\ p + 1 \in 1 .. Len(toClient) /\ p + n + 1 \in 1 .. Len(toClient)
      /\ ~sent[i].temporary => p + n + 1 + 1 \in 1 .. Len(toClient)
  <2>1. sent[i].temporary => at[i] = p + n + 1
    BY <1>4
  <2>2. ~sent[i].temporary => at[i] = p + n + 2
    BY <1>4
  <2>3. PICK a \in Nat : a = at[i]
    BY <1>2
  <2>4. CASE sent[i].temporary
    BY <1>1, <1>2, <2>1, <2>3, <2>4
  <2>5. CASE ~sent[i].temporary
    BY <1>1, <1>2, <2>2, <2>3, <2>5
  <2>6. QED BY <2>4, <2>5
<1>7. Stands(i, p)'
  BY <1>5, <1>6 DEF Stands, n, p
<1>8. at[i] = EndOf(i, p)'
  BY <1>4 DEF EndOf, n, p
<1>9. QED BY <1>7, <1>8 DEF p

LEMMA ProgressKept ==
  ASSUME NEW k \in Nat, NEW at, NEW b, Progress(k, at),
         UNCHANGED <<callback, pc, readLine, temporaryLine, status, content, told>>,
         \A i \in 1 .. k : sent'[i] = sent[i],
         Owed(k, at) => Owed(k, b)'
  PROVE  Progress(k, b)'
<1>1. /\ \A i \in 1 .. k - 1 : i \in 1 .. k
      /\ k # 0 => k \in 1 .. k
      /\ k > 0 <=> k # 0
  OBVIOUS
<1>2. (Given(k) => Given(k)') /\ (NoContent => NoContent')
  BY DEF Given, NoContent, content
<1>3. ASSUME pc = "temporary" PROVE ReadTold(k, b)'
  <2>1. ReadTold(k, at)
    BY <1>3 DEF Progress
  <2>2. CASE k = 0
    BY <1>1, <1>2, <2>1, <2>2 DEF ReadTold
  <2>3. CASE k # 0
    BY <1>1, <1>2, <2>1, <2>3 DEF ReadTold
  <2>4. QED BY <2>2, <2>3
<1>4. ASSUME pc = "status" PROVE ReadBefore(k)'
  <2>1. ReadBefore(k)
    BY <1>4 DEF Progress
  <2>2. CASE callback
    <3>1. k > 0 /\ IsStatus(k) /\ k \in 1 .. k
      BY <1>1, <2>1, <2>2 DEF ReadBefore
    <3>2. IsStatus(k)'
      BY <1>1, <3>1 DEF IsStatus
    <3>3. QED BY <1>2, <2>1, <2>2, <3>1, <3>2 DEF ReadBefore
  <2>3. CASE ~callback
    BY <1>2, <2>1, <2>3 DEF ReadBefore
  <2>4. QED BY <2>2, <2>3
<1>5. ASSUME NEW s \in 1 .. k, HasStatus(s, k)
      PROVE  HasStatus(s, k)'
  <2>1. \A i \in 1 .. s : i \in 1 .. k
    OBVIOUS
  <2>2. s \in 1 .. s /\ \A i \in 1 .. s - 1 : i \in 1 .. s
    OBVIOUS
  <2>3. IsStatus(s)' /\ status' = <<sent'[s].line>>
    BY <1>5, <2>1, <2>2 DEF HasStatus, IsStatus
  <2>4. callback' => Given(s)'
    BY <1>5, <2>1 DEF HasStatus, Given
  <2>5. ASSUME pc' = "header" PROVE AllLines(s, k)'
    <3>1. AllLines(s, k) /\ \A i \in s + 1 .. k : i \in 1 .. k
      BY <1>5, <2>5 DEF HasStatus
    <3>2. HeaderOf(s + 1, k)'
      BY <3>1, HeaderKept DEF AllLines, content
    <3>3. body' = body
      BY DEF content
    <3>4. QED BY <3>1, <3>2, <3>3 DEF AllLines
  <2>6. ASSUME pc' = "body" PROVE \E c \in Nat : LinesBut(s, c, k)'
    <3>1. PICK c \in Nat : LinesBut(s, c, k)
      BY <1>5, <2>6 DEF HasStatus
    <3>2. c \in s + 1 .. k /\ HeaderOf(s + 1, c - 1)
      BY <3>1 DEF LinesBut
    <3>3. /\ c \in 1 .. k /\ \A i \in s + 1 .. c - 1 : i \in 1 .. k
          /\ \A i \in 1 .. k - c : c + i \in 1 .. k
      BY <3>2
    <3>4. HeaderOf(s + 1, c - 1)'
      BY <3>2, <3>3, HeaderKept DEF content
    <3>5. body' = body
      BY DEF content
    <3>6. LinesBut(s, c, k)'
      BY <3>1, <3>3, <3>4, <3>5 DEF LinesBut
    <3>7. QED BY <3>6
  <2>7. QED BY <2>3, <2>4, <2>5, <2>6 DEF HasStatus
<1>6. QED BY <1>3, <1>4, <1>5 DEF Progress

(* The server does nothing that a response waits for unless it has the     *)
(* command.                                                                *)
LEMMA OnlyMidWay ==
  ASSUME WInv, ~quoted, ~dead, spc # "read"
  PROVE  /\ TypeOK /\ OnePrompt /\ PlainLines /\ ~HasCommand
         /\ pc \in Reading => MidWay
         /\ ~(outcome = "returned" /\ pc = "idle")
<1>1. TypeOK /\ OnePrompt /\ Whole
  BY DEF WInv, IInv
<1>2. ~HasCommand
  BY <1>1 DEF OnePrompt, HasCommand
<1>3. QED BY <1>1, <1>2 DEF Whole, Waiting, WithoutStatus, NoMore, ReturnsAll

LEMMA StartWhole ==
  ASSUME WInv, ~quoted, Start
  PROVE  Whole'
<1>1. /\ ~dead /\ spc = "start" /\ UNCHANGED <<sent, pc, outcome, toServer>>
  BY DEF Start, client
<1>2. /\ PlainLines /\ pc \notin Reading
      /\ ~(outcome = "returned" /\ pc = "idle")
  BY <1>1, OnlyMidWay DEF MidWay, Remaining
<1>3. QED BY <1>1, <1>2 DEF Whole, PlainLines, ReturnsAll

LEMMA EndCommandWhole ==
  ASSUME WInv, ~quoted, EndCommand
  PROVE  Whole'
<1>1. /\ ~dead /\ spc = "exec" /\ spc' = "read"
      /\ toClient' = Append(toClient, Prompt)
      /\ UNCHANGED <<toServer, sent, pc, outcome, callback, readLine>>
      /\ UNCHANGED <<temporaryLine, status, content, told>>
  BY DEF EndCommand, client
<1>2. /\ TypeOK /\ PlainLines /\ ~HasCommand /\ (pc \in Reading => MidWay)
      /\ ~(outcome = "returned" /\ pc = "idle")
  BY <1>1, OnlyMidWay
<1>3. PlainLines' /\ ~HasCommand'
  BY <1>1, <1>2 DEF PlainLines, HasCommand
<1>4. ASSUME pc \in Reading PROVE MidWay'
  <2>1. PICK k \in 0 .. Len(sent) : \E at \in [k .. Len(sent) -> Nat] :
          Remaining(k, at) /\ Progress(k, at)
    BY <1>2, <1>4 DEF MidWay
  <2>2. PICK at \in [k .. Len(sent) -> Nat] : Remaining(k, at) /\ Progress(k, at)
    BY <2>1
  <2>3. /\ Len(toClient) \in Nat /\ Len(toClient') = Len(toClient) + 1
        /\ \A j \in 1 .. Len(toClient) : toClient'[j] = toClient[j]
        /\ toClient'[Len(toClient) + 1] = Prompt
    <3>1. toClient \in Seq(ClientTokens) /\ Prompt \in ClientTokens
      BY <1>2 DEF TypeOK, Line, ClientTokens
    <3>2. QED BY <1>1, <3>1, AppendProperties, LenProperties
  <2>4. /\ Len(sent) \in Nat /\ k \in k .. Len(sent) /\ k \in Nat
        /\ at[k] \in Nat /\ at[k] <= Len(toClient)
    BY <1>2, <2>2, Sizes, PlacesOf
  <2>5. \A i \in k + 1 .. Len(sent) :
          at[i] = EndOf(i, at[i - 1])' /\ Stands(i, at[i - 1])'
    BY <1>1, <1>2, <2>2, <2>3, StandsKept
  <2>6. Owed(k, at) => Owed(k, at)'
    <3>1. Owed(k, at) => 1 \in 1 .. Len(toClient)
      BY <1>2, <2>2, OwedIsFirst
    <3>2. QED BY <1>1, <2>3, <3>1 DEF Owed
  <2>7. Owed(k, at)' \/ \A j \in 1 .. at[k] : IsOption(toClient'[j])
    <3>1. \A j \in 1 .. at[k] : j \in 1 .. Len(toClient)
      BY <2>3, <2>4
    <3>2. Owed(k, at) \/ \A j \in 1 .. at[k] : IsOption(toClient[j])
      BY <2>2 DEF Remaining
    <3>3. QED BY <2>3, <2>6, <3>1, <3>2
  <2>8. at[Len(sent)] = Len(toClient)
    BY <1>1, <2>2 DEF Remaining
  <2>9. Remaining(k, at)'
    BY <1>1, <2>2, <2>3, <2>5, <2>7, <2>8 DEF Remaining
  <2>10. Progress(k, at)'
    BY <1>1, <2>2, <2>4, <2>6, ProgressKept
  <2>11. QED BY <1>1, <1>3, <2>9, <2>10 DEF MidWay
<1>5. QED BY <1>1, <1>2, <1>3, <1>4 DEF Whole, ReturnsAll

LEMMA DieWhole ==
  ASSUME WInv, ~quoted, Die
  PROVE  Whole'
<1>1. /\ dead' = TRUE
      /\ UNCHANGED <<spc, sent, command, toServer, toClient, quoted, call>>
      /\ UNCHANGED <<pc, outcome, callback, readLine, temporaryLine>>
      /\ UNCHANGED <<status, content, told>>
  BY DEF Die, client
<1>2. Whole
  BY DEF WInv
<1>3. PlainLines' /\ (Waiting => Waiting')
  BY <1>1, <1>2
     DEF Whole, PlainLines, Waiting, HasCommand, NothingRead, FirstPlace,
         NoContent, content
<1>4. ASSUME MidWay PROVE MidWay'
  <2>1. PICK k \in 0 .. Len(sent) : \E at \in [k .. Len(sent) -> Nat] :
          Remaining(k, at) /\ Progress(k, at)
    BY <1>4 DEF MidWay
  <2>2. PICK at \in [k .. Len(sent) -> Nat] : Remaining(k, at) /\ Progress(k, at)
    BY <2>1
  <2>3. k \in Nat
    BY DEF WInv, IInv
  <2>4. Owed(k, at) => Owed(k, at)'
    BY <1>1 DEF Owed
  <2>5. Progress(k, at)'
    BY <1>1, <2>2, <2>3, <2>4, ProgressKept
  <2>6. Remaining(k, at)'
    BY <1>1, <2>2 DEF Remaining, EndOf, Stands, Owed
  <2>7. QED BY <1>1, <1>4, <2>5, <2>6 DEF MidWay, HasCommand
<1>5. WithoutStatus => WithoutStatus'
  BY <1>1 DEF WithoutStatus, Pending, NoMore, AtPrompt, Ends
<1>6. ReturnsAll'
  BY <1>1, <1>2, ReturnedKept DEF Whole
<1>7. QED BY <1>1, <1>2, <1>3, <1>4, <1>5, <1>6 DEF Whole, HasCommand

LEMMA ReadOptionWhole ==
  ASSUME WInv, ~quoted, ReadOption
  PROVE  Whole'
<1>1. /\ ~dead /\ spc = "read" /\ spc' = "read"
      /\ toServer # <<>> /\ Head(toServer)[1] \in Verbs
      /\ toServer' = Tail(toServer)
      /\ toClient' = toClient \/ toClient' = Append(toClient, Option("will"))
      /\ UNCHANGED <<sent, dead, command, call, pc, outcome, callback>>
      /\ UNCHANGED <<readLine, temporaryLine, status, content, told, quoted>>
  BY DEF ReadOption, client, server
<1>2. TypeOK /\ Whole /\ PlainLines
  BY DEF WInv, IInv, Whole
<1>3. /\ Len(toClient) \in Nat /\ Len(toClient') \in Nat
      /\ Len(toClient) <= Len(toClient')
      /\ \A j \in 1 .. Len(toClient) : toClient'[j] = toClient[j]
      /\ toClient' \in Line
  <2>1. toClient \in Seq(ClientTokens) /\ Len(toClient) \in Nat
    BY <1>2, LenProperties DEF TypeOK, Line
  <2>2. CASE toClient' = toClient
    BY <2>1, <2>2 DEF Line
  <2>3. CASE toClient' = Append(toClient, Option("will"))
    <3>1. Option("will") \in ClientTokens
      BY DEF Option, ClientTokens, Verbs
    <3>2. /\ toClient' \in Seq(ClientTokens)
          /\ Len(toClient') = Len(toClient) + 1
          /\ \A j \in 1 .. Len(toClient) : toClient'[j] = toClient[j]
      BY <2>1, <2>3, <3>1, AppendProperties
    <3>3. QED BY <2>1, <3>2 DEF Line
  <2>4. QED BY <1>1, <2>2, <2>3
<1>4. HasCommand' <=> HasCommand
  <2>1. /\ \A i \in 1 .. Len(toServer') : /\ i + 1 \in 1 .. Len(toServer)
                                          /\ toServer'[i] = toServer[i + 1]
        /\ 1 \in 1 .. Len(toServer) /\ ~IsCommand(toServer[1])
        /\ Len(toServer) \in Nat /\ Len(toServer') = Len(toServer) - 1
    BY <1>1, <1>2, HeadRead, HeadTailProperties, LenProperties
       DEF IsCommand, Verbs, TypeOK
  <2>2. ASSUME NEW i \in 1 .. Len(toServer), IsCommand(toServer[i])
        PROVE  \E j \in 1 .. Len(toServer') : IsCommand(toServer'[j])
    <3>1. i # 1
      BY <2>1, <2>2
    <3>2. PICK j \in Nat : j + 1 = i
      <4>1. i - 1 \in Nat /\ i - 1 + 1 = i
        BY <2>1, <2>2
      <4>2. QED BY <4>1
    <3>3. j \in 1 .. Len(toServer')
      BY <2>1, <3>1, <3>2
    <3>4. toServer'[j] = toServer[j + 1]
      BY <2>1, <3>3
    <3>5. IsCommand(toServer'[j])
      BY <2>2, <3>2, <3>4
    <3>6. QED BY <3>3, <3>5
  <2>3. ASSUME NEW j \in 1 .. Len(toServer'), IsCommand(toServer'[j])
        PROVE  \E i \in 1 .. Len(toServer) : IsCommand(toServer[i])
    BY <2>1, <2>3
  <2>4. QED BY <2>2, <2>3 DEF HasCommand
<1>5. Waiting => Waiting'
  BY <1>1, <1>4 DEF Waiting, NothingRead, FirstPlace, NoContent, content
<1>6. ASSUME MidWay PROVE MidWay'
  <2>1. PICK k \in 0 .. Len(sent) : \E at \in [k .. Len(sent) -> Nat] :
          Remaining(k, at) /\ Progress(k, at)
    BY <1>6 DEF MidWay
  <2>2. PICK at \in [k .. Len(sent) -> Nat] : Remaining(k, at) /\ Progress(k, at)
    BY <2>1
  <2>3. /\ Len(sent) \in Nat /\ k \in k .. Len(sent) /\ k \in Nat
        /\ at[k] \in Nat /\ at[k] <= Len(toClient)
    BY <1>2, <2>2, Sizes, PlacesOf
  <2>4. \A i \in k + 1 .. Len(sent) :
          at[i] = EndOf(i, at[i - 1])' /\ Stands(i, at[i - 1])'
    BY <1>1, <1>2, <1>3, <2>2, StandsKept
  <2>5. Owed(k, at) => Owed(k, at)'
    <3>1. Owed(k, at) => 1 \in 1 .. Len(toClient)
      BY <1>2, <2>2, OwedIsFirst
    <3>2. QED BY <1>1, <1>3, <3>1 DEF Owed
  <2>6. Owed(k, at)' \/ \A j \in 1 .. at[k] : IsOption(toClient'[j])
    <3>1. \A j \in 1 .. at[k] : j \in 1 .. Len(toClient)
      BY <1>3, <2>3
    <3>2. Owed(k, at) \/ \A j \in 1 .. at[k] : IsOption(toClient[j])
      BY <2>2 DEF Remaining
    <3>3. QED BY <1>3, <2>5, <3>1, <3>2
  <2>7. /\ at[Len(sent)] < Len(toClient')
        /\ toClient'[at[Len(sent)] + 1] = Prompt
    <3>1. /\ at[Len(sent)] \in Nat /\ at[Len(sent)] < Len(toClient)
          /\ toClient[at[Len(sent)] + 1] = Prompt
      BY <1>1, <2>2, <2>3 DEF Remaining
    <3>2. at[Len(sent)] + 1 \in 1 .. Len(toClient)
      BY <1>3, <3>1
    <3>3. QED BY <1>3, <3>1, <3>2
  <2>8. Remaining(k, at)'
    BY <1>1, <2>2, <2>4, <2>6, <2>7 DEF Remaining
  <2>9. Progress(k, at)'
    BY <1>1, <2>2, <2>3, <2>5, ProgressKept
  <2>10. QED BY <1>1, <1>4, <1>6, <2>8, <2>9 DEF MidWay
<1>7. WithoutStatus => WithoutStatus'
  <2>1. SUFFICES ASSUME AtPrompt PROVE AtPrompt'
    BY <1>1 DEF WithoutStatus, NoMore, Pending
  <2>2. 1 \in 1 .. Len(toClient) /\ toClient[1] = Prompt
    BY <1>2, <1>3, <2>1, NoneOrTail DEF AtPrompt, TypeOK
  <2>3. toClient'[1] = Prompt /\ Len(toClient') # 0
    BY <1>3, <2>2
  <2>4. toClient' # <<>>
    BY <2>3
  <2>5. QED BY <1>3, <2>3, <2>4 DEF AtPrompt, Line
<1>8. ReturnsAll'
  BY <1>1, <1>2, ReturnedKept DEF Whole
<1>9. PlainLines'
  BY <1>1, <1>2 DEF PlainLines
<1>10. QED BY <1>1, <1>2, <1>4, <1>5, <1>6, <1>7, <1>8, <1>9 DEF Whole

LEMMA ReadCommandWhole ==
  ASSUME WInv, ~quoted, ReadCommand
  PROVE  Whole'
<1>1. /\ ~dead /\ spc = "read" /\ spc' = "exec" /\ sent' = <<>>
      /\ toServer # <<>> /\ Head(toServer)[1] = "command"
      /\ toServer' = Tail(toServer)
      /\ UNCHANGED <<toClient, dead, call, pc, outcome, callback>>
      /\ UNCHANGED <<readLine, temporaryLine, status, content, told, quoted>>
  BY DEF ReadCommand, client
<1>2. TypeOK /\ OnePrompt /\ Whole
  BY DEF WInv, IInv
<1>3. /\ \A i \in 1 .. Len(toServer') : /\ i + 1 \in 1 .. Len(toServer)
                                        /\ i + 1 # 1
                                        /\ toServer'[i] = toServer[i + 1]
      /\ 1 \in 1 .. Len(toServer) /\ IsCommand(toServer[1])
  BY <1>1, <1>2, HeadRead DEF IsCommand
<1>4. HasCommand /\ ~HasCommand'
  <2>1. \A i \in 1 .. Len(toServer') : ~IsCommand(toServer'[i])
    BY <1>2, <1>3 DEF OnePrompt
  <2>2. QED BY <1>3, <2>1 DEF HasCommand
<1>5. \A j \in 1 .. Len(toClient) : IsOption(toClient[j])
  BY <1>2, <1>3 DEF OnePrompt
<1>6. ~WithoutStatus
  <2>1. SUFFICES ASSUME AtPrompt PROVE FALSE
    BY <1>1 DEF WithoutStatus, NoMore
  <2>2. toClient[1] = Prompt /\ 1 \in 1 .. Len(toClient)
    BY <1>2, <2>1, Sizes, NoneOrTail DEF AtPrompt, TypeOK
  <2>3. QED BY <1>5, <2>2, Different
<1>7. ~(outcome = "returned" /\ pc = "idle") /\ ~MidWay
  BY <1>2, <1>4 DEF Whole, MidWay
<1>8. ASSUME pc \in Reading PROVE MidWay'
  <2>1. NothingRead /\ pc = FirstPlace
    BY <1>2, <1>6, <1>7, <1>8 DEF Whole, Waiting
  <2>2. PICK n \in Nat : n = Len(toClient)
    BY <1>2, Sizes
  <2>3. PICK k \in Nat : k = 0
    OBVIOUS
  <2> DEFINE at == [i \in k .. 0 |-> n]
  <2>4. Len(sent') = 0 /\ k \in 0 .. Len(sent') /\ k .. 0 = {0}
    BY <1>1, <2>3
  <2>5. at \in [k .. Len(sent') -> Nat] /\ at[0] = n /\ at[k] = n
    BY <2>2, <2>3, <2>4
  <2> HIDE DEF at
  <2>6. \A i, j \in k .. Len(sent') : at[i] <= at[j]
    BY <2>4, <2>5
  <2>7. k + 1 .. Len(sent') = {}
    BY <2>3, <2>4
  <2>8. Remaining(k, at)'
    BY <1>1, <1>5, <2>2, <2>4, <2>5, <2>6, <2>7 DEF Remaining
  <2>9. Progress(k, at)'
    <3>1. Given(k)'
      BY <1>1, <2>1, <2>3 DEF Given, NothingRead
    <3>2. pc' \in {"temporary", "status"} /\ (pc' = "temporary" <=> callback')
      BY <1>1, <2>1 DEF FirstPlace
    <3>3. 1 .. k - 1 = {}
      BY <2>3
    <3>4. readLine' = <<>> /\ status' = <<>> /\ NoContent'
      BY <1>1, <2>1 DEF NothingRead, NoContent, content
    <3>5. pc' = "temporary" => ReadTold(k, at)'
      BY <2>3, <3>1, <3>2, <3>3, <3>4 DEF ReadTold
    <3>6. pc' = "status" => ReadBefore(k)'
      BY <2>3, <3>2, <3>4 DEF ReadBefore
    <3>7. QED BY <3>2, <3>5, <3>6 DEF Progress
  <2>10. QED BY <1>4, <2>4, <2>5, <2>8, <2>9 DEF MidWay
<1>9. PlainLines'
  BY <1>1 DEF PlainLines
<1>10. QED BY <1>1, <1>7, <1>8, <1>9 DEF Whole, ReturnsAll

LEMMA Joined ==
  ASSUME NEW s \in Line, NEW t \in Line
  PROVE  /\ Len(s) \in Nat /\ Len(t) \in Nat
         /\ s \o t \in Line /\ Len(s \o t) = Len(s) + Len(t)
         /\ \A j \in 1 .. Len(s) : (s \o t)[j] = s[j]
         /\ \A j \in 1 .. Len(t) : (s \o t)[Len(s) + j] = t[j]
<1>1. /\ Len(s) \in Nat /\ Len(t) \in Nat
      /\ s \o t \in Line /\ Len(s \o t) = Len(s) + Len(t)
      /\ \A j \in 1 .. Len(s) + Len(t) : (s \o t)[j] =
           IF j <= Len(s) THEN s[j] ELSE t[j - Len(s)]
  BY ConcatProperties, LenProperties DEF Line
<1>2. ASSUME NEW j \in 1 .. Len(s) PROVE (s \o t)[j] = s[j]
  <2>1. j \in 1 .. Len(s) + Len(t) /\ j <= Len(s)
    BY <1>1
  <2>2. QED BY <1>1, <2>1
<1>3. ASSUME NEW j \in 1 .. Len(t) PROVE (s \o t)[Len(s) + j] = t[j]
  <2>1. PICK i \in Nat : i = Len(s) + j
    BY <1>1
  <2>2. i \in 1 .. Len(s) + Len(t) /\ ~(i <= Len(s)) /\ i - Len(s) = j
    BY <1>1, <2>1
  <2>3. (s \o t)[i] = t[i - Len(s)]
    BY <1>1, <2>2
  <2>4. QED BY <2>1, <2>2, <2>3
<1>4. QED BY <1>1, <1>2, <1>3

(* What a message adds to the stream.                                      *)
LEMMA MessageStands ==
  ASSUME NEW u \in Line, NEW line \in Line, NEW temporary \in BOOLEAN,
         NEW v, v = u \o line \o IF temporary THEN <<CR>> ELSE <<CR, LF>>
  PROVE  /\ Len(u) \in Nat /\ Len(line) \in Nat
         /\ Len(v) = Len(u) + Len(line) + IF temporary THEN 1 ELSE 2
         /\ \A j \in 1 .. Len(u) : v[j] = u[j]
         /\ line # <<>> => v[Len(u) + 1] = line[1]
         /\ v[Len(u) + Len(line) + 1] = CR
         /\ ~temporary => v[Len(u) + Len(line) + 1 + 1] = LF
<1> DEFINE end == IF temporary THEN <<CR>> ELSE <<CR, LF>>
<1> DEFINE w == u \o line
<1>1. /\ end \in Line /\ end[1] = CR
      /\ Len(end) = IF temporary THEN 1 ELSE 2
      /\ ~temporary => end[2] = LF
  <2>1. CR \in ClientTokens /\ LF \in ClientTokens
    BY DEF ClientTokens
  <2>2. CASE temporary
    BY <2>1, <2>2 DEF Line
  <2>3. CASE ~temporary
    BY <2>1, <2>3 DEF Line
  <2>4. QED BY <2>2, <2>3
<1>2. Len(line) = 0 => line = <<>>
  BY EmptySeq DEF Line
<1> HIDE DEF end
<1>3. /\ Len(u) \in Nat /\ Len(line) \in Nat
      /\ w \in Line /\ Len(w) = Len(u) + Len(line)
      /\ \A j \in 1 .. Len(u) : w[j] = u[j]
      /\ \A j \in 1 .. Len(line) : w[Len(u) + j] = line[j]
  BY Joined
<1> HIDE DEF w
<1>4. v = w \o end
  BY DEF w, end
<1>5. /\ Len(v) = Len(w) + Len(end)
      /\ \A j \in 1 .. Len(w) : v[j] = w[j]
      /\ \A j \in 1 .. Len(end) : v[Len(w) + j] = end[j]
  <2>1. w \in Line /\ end \in Line
    BY <1>1, <1>3
  <2>2. /\ Len(w \o end) = Len(w) + Len(end)
        /\ \A j \in 1 .. Len(w) : (w \o end)[j] = w[j]
        /\ \A j \in 1 .. Len(end) : (w \o end)[Len(w) + j] = end[j]
    BY <2>1, Joined
  <2>3. QED BY <1>4, <2>2
<1>6. \A j \in 1 .. Len(u) : v[j] = u[j]
  <2>1. \A j \in 1 .. Len(u) : j \in 1 .. Len(w)
    BY <1>3
  <2>2. QED BY <1>3, <1>5, <2>1
<1>7. line # <<>> => v[Len(u) + 1] = line[1]
  <2>1. line # <<>> => 1 \in 1 .. Len(line) /\ Len(u) + 1 \in 1 .. Len(w)
    BY <1>2, <1>3
  <2>2. QED BY <1>3, <1>5, <2>1
<1>8. 1 \in 1 .. Len(end) /\ (~temporary => 2 \in 1 .. Len(end))
  BY <1>1
<1>9. v[Len(w) + 1] = CR /\ (~temporary => v[Len(w) + 2] = LF)
  BY <1>1, <1>5, <1>8
<1>10. /\ Len(w) + 1 = Len(u) + Len(line) + 1
       /\ Len(w) + 2 = Len(u) + Len(line) + 1 + 1
       /\ Len(v) = Len(u) + Len(line) + IF temporary THEN 1 ELSE 2
  BY <1>1, <1>3, <1>5
<1>11. QED BY <1>3, <1>6, <1>7, <1>9, <1>10

LEMMA SendMessageWhole ==
  ASSUME WInv, ~quoted', NEW m \in Messages, SendMessage(m[1], m[2])
  PROVE  Whole'
<1> DEFINE place == Len(sent) + 1
<1> DEFINE line == LineOf(m[1], command, place)
<1> DEFINE message == [line |-> line, temporary |-> m[2]]
<1>1. /\ ~dead /\ spc = "exec" /\ spc' = "exec" /\ ~quoted /\ m[1] # "quote"
      /\ sent' = Append(sent, message)
      /\ toClient' = toClient \o line \o IF m[2] THEN <<CR>> ELSE <<CR, LF>>
      /\ UNCHANGED <<toServer, pc, outcome, callback, readLine>>
      /\ UNCHANGED <<temporaryLine, status, content, told>>
  BY DEF SendMessage, client
<1>2. /\ TypeOK /\ PlainLines /\ ~HasCommand /\ (pc \in Reading => MidWay)
      /\ ~(outcome = "returned" /\ pc = "idle")
  BY <1>1, OnlyMidWay
<1>3. m[1] \in Texts /\ m[2] \in BOOLEAN /\ Len(sent) \in Nat /\ command \in Nat
  BY <1>2, MessagesAssumption, Sizes DEF TypeOK, ServerTypeOK
<1>4. line \in Line /\ Plain(line)
  <2>1. place \in Nat
    BY <1>3
  <2> HIDE DEF place
  <2>2. <<m[1], command, place>> \in ClientTokens
    BY <1>3, <2>1 DEF ClientTokens
  <2>3. line = <<>> \/ line = <<<<m[1], command, place>>>>
    BY <1>1 DEF LineOf
  <2> HIDE DEF line
  <2>4. CASE line = <<>>
    BY <2>4 DEF Line, Plain
  <2>5. CASE line = <<<<m[1], command, place>>>>
    <3>1. <<<<m[1], command, place>>>> \in Seq(ClientTokens)
      BY <2>2
    <3>2. Len(line) = 1 /\ line[1] = <<m[1], command, place>>
      BY <2>5
    <3>3. line[1][1] = m[1]
      BY <3>2
    <3>4. QED BY <1>3, <2>5, <3>1, <3>2, <3>3 DEF Line, Plain
  <2>6. QED BY <2>3, <2>4, <2>5
<1> HIDE DEF line
<1>5. /\ Len(sent') = Len(sent) + 1
      /\ \A i \in 1 .. Len(sent) : sent'[i] = sent[i]
      /\ sent'[Len(sent) + 1] = message
  <2>1. message \in [line : Line, temporary : BOOLEAN]
    BY <1>3, <1>4
  <2> HIDE DEF message
  <2>2. QED BY <1>1, <1>2, <2>1, AppendProperties DEF TypeOK, ServerTypeOK
<1>6. message.line = line /\ message.temporary = m[2]
  OBVIOUS
<1> HIDE DEF message
<1>7. PlainLines'
  <2>1. \A i \in 1 .. Len(sent') : i \in 1 .. Len(sent) \/ i = Len(sent) + 1
    BY <1>3, <1>5
  <2>2. QED BY <1>2, <1>4, <1>5, <1>6, <2>1 DEF PlainLines
<1>8. ASSUME pc \in Reading PROVE MidWay'
  <2>1. PICK k \in 0 .. Len(sent) : \E at \in [k .. Len(sent) -> Nat] :
          Remaining(k, at) /\ Progress(k, at)
    BY <1>2, <1>8 DEF MidWay
  <2>2. PICK at \in [k .. Len(sent) -> Nat] : Remaining(k, at) /\ Progress(k, at)
    BY <2>1
  <2>3. PICK p \in Nat : p = Len(toClient)
    BY <1>2, Sizes
  <2>4. PICK n \in Nat : n = Len(sent)
    BY <1>3
  <2>5. /\ Len(line) \in Nat
        /\ Len(toClient') = p + Len(line) + IF m[2] THEN 1 ELSE 2
        /\ \A j \in 1 .. p : toClient'[j] = toClient[j]
        /\ line # <<>> => toClient'[p + 1] = line[1]
        /\ toClient'[p + Len(line) + 1] = CR
        /\ ~m[2] => toClient'[p + Len(line) + 1 + 1] = LF
    <3>1. toClient \in Line
      BY <1>2 DEF TypeOK
    <3>2. QED BY <1>1, <1>3, <1>4, <2>3, <3>1, MessageStands
  <2>6. PICK q \in Nat : q = Len(toClient') /\ p <= q
    BY <1>3, <2>5
  <2> DEFINE b == [i \in k .. n + 1 |-> IF i <= n THEN at[i] ELSE q]
  <2>7. /\ k \in Nat /\ k <= n /\ k \in k .. n /\ n \in k .. n
        /\ \A i \in k .. n : at[i] \in Nat /\ at[i] <= p
        /\ at[n] = p
    <3>1. \A i \in k .. Len(sent) : at[i] \in Nat /\ at[i] <= Len(toClient)
      BY <1>2, <2>2, PlacesOf
    <3>2. at[Len(sent)] = Len(toClient)
      BY <1>1, <2>2 DEF Remaining
    <3>3. QED BY <2>3, <2>4, <3>1, <3>2
  <2>8. /\ \A i \in k .. n : b[i] = at[i]
        /\ b[n + 1] = q /\ b \in [k .. n + 1 -> Nat]
    <3>1. ~(n + 1 <= n) /\ n + 1 \in k .. n + 1
      BY <2>7
    <3>2. \A i \in k .. n : i <= n /\ i \in k .. n + 1
      BY <2>7
    <3>3. \A i \in k .. n + 1 : i <= n => i \in k .. n
      BY <2>7
    <3>4. QED BY <2>6, <2>7, <3>1, <3>2, <3>3
  <2> HIDE DEF b
  <2>9. Len(sent') = n + 1 /\ \A i \in k .. n + 1 : i \in k .. n \/ i = n + 1
    BY <1>5, <2>4, <2>7
  <2>10. \A i, j \in k .. n + 1 : i <= j => b[i] <= b[j]
    <3>1. SUFFICES ASSUME NEW i \in k .. n + 1, NEW j \in k .. n + 1, i <= j
                   PROVE  b[i] <= b[j]
      OBVIOUS
    <3>2. CASE j = n + 1
      <4>1. b[j] = q
        BY <2>8, <3>2
      <4>2. b[i] <= p \/ b[i] = q
        BY <2>7, <2>8, <2>9
      <4>3. b[i] \in Nat
        BY <2>8
      <4>4. QED BY <2>3, <2>6, <4>1, <4>2, <4>3
    <3>3. CASE j # n + 1
      <4>1. i \in k .. n /\ j \in k .. n
        BY <2>7, <3>1, <3>3
      <4>2. at[i] <= at[j]
        BY <2>2, <2>4, <3>1, <4>1 DEF Remaining
      <4>3. QED BY <2>8, <4>1, <4>2
    <3>4. QED BY <3>2, <3>3
  <2>11. ASSUME NEW i \in k + 1 .. n + 1
         PROVE  b[i] = EndOf(i, b[i - 1])' /\ Stands(i, b[i - 1])'
    <3>1. CASE i = n + 1
      <4>1. i - 1 = n /\ b[i - 1] = p /\ b[i] = q
        BY <2>7, <2>8, <3>1
      <4>2. sent'[i] = message
        BY <1>5, <2>4, <3>1
      <4>3. sent'[i].line = line /\ sent'[i].temporary = m[2]
        BY <1>6, <4>2
      <4>4. b[i] = EndOf(i, b[i - 1])'
        BY <2>5, <2>6, <4>1, <4>3 DEF EndOf
      <4>5. Stands(i, b[i - 1])'
        BY <2>5, <4>1, <4>3 DEF Stands
      <4>6. QED BY <4>4, <4>5
    <3>2. CASE i # n + 1
      <4>1. /\ i \in k + 1 .. Len(sent) /\ i \in k .. n /\ i - 1 \in k .. n
            /\ i \in 1 .. Len(sent)
        BY <2>4, <2>7, <3>2
      <4>2. sent'[i] = sent[i]
        BY <1>5, <4>1
      <4>3. at[i] = EndOf(i, at[i - 1])' /\ Stands(i, at[i - 1])'
        BY <1>2, <2>2, <2>3, <2>5, <4>1, <4>2, StandsKept
      <4>4. b[i] = at[i] /\ b[i - 1] = at[i - 1]
        BY <2>8, <4>1
      <4>5. QED BY <4>3, <4>4
    <3>3. QED BY <3>1, <3>2
  <2>12. Owed(k, at) => Owed(k, b)'
    <3>1. SUFFICES ASSUME Owed(k, at) PROVE Owed(k, b)'
      OBVIOUS
    <3>2. 1 \in 1 .. p /\ k \in 1 .. Len(sent)
      BY <1>2, <2>2, <2>3, <2>4, <2>7, <3>1, OwedIsFirst DEF Owed
    <3>3. toClient'[1] = toClient[1] /\ sent'[k] = sent[k] /\ b[k] = at[k]
      BY <1>5, <2>5, <2>7, <2>8, <3>2
    <3>4. QED BY <3>1, <3>3 DEF Owed
  <2>13. Owed(k, b)' \/ \A j \in 1 .. b[k] : IsOption(toClient'[j])
    <3>1. b[k] = at[k] /\ \A j \in 1 .. at[k] : j \in 1 .. p
      BY <2>7, <2>8
    <3>2. Owed(k, at) \/ \A j \in 1 .. at[k] : IsOption(toClient[j])
      BY <2>2 DEF Remaining
    <3>3. QED BY <2>5, <2>12, <3>1, <3>2
  <2>14. Remaining(k, b)'
    BY <1>1, <2>6, <2>8, <2>9, <2>10, <2>11, <2>13 DEF Remaining
  <2>15. Progress(k, b)'
    <3>1. \A i \in 1 .. k : i \in 1 .. Len(sent)
      BY <2>4, <2>7
    <3>2. \A i \in 1 .. k : sent'[i] = sent[i]
      BY <1>5, <3>1
    <3>3. QED BY <1>1, <2>2, <2>7, <2>12, <3>2, ProgressKept
  <2>16. ~HasCommand' /\ k \in 0 .. Len(sent')
    BY <1>1, <1>2, <2>7, <2>9 DEF HasCommand
  <2>17. QED BY <2>8, <2>9, <2>14, <2>15, <2>16 DEF MidWay
<1>9. QED BY <1>1, <1>2, <1>7, <1>8 DEF Whole, ReturnsAll

-----------------------------------------------------------------------------
(* The client sends its command, or reads no response.                     *)

LEMMA SendCommandWhole ==
  ASSUME WInv, ~quoted, SendCommand
  PROVE  Whole'
<1>1. /\ pc = "sync" /\ pc' = FirstPlace
      /\ toServer' = Append(toServer, Command(call))
      /\ UNCHANGED <<callback, readLine, temporaryLine, status, content, told>>
      /\ UNCHANGED sent
  BY DEF SendCommand, FirstPlace, server
<1>2. TypeOK /\ PlainLines /\ NothingRead
  BY <1>1 DEF WInv, IInv, Whole, Begun
<1>3. HasCommand'
  <2>1. Command(call) \in ServerTokens /\ IsCommand(Command(call))
    BY <1>2
       DEF Command, ServerTokens, IsCommand, TypeOK, ClientTypeOK, ContentOK,
           content
  <2>2. /\ Len(toServer) \in Nat /\ Len(toServer') = Len(toServer) + 1
        /\ toServer'[Len(toServer) + 1] = Command(call)
    BY <1>1, <1>2, <2>1, AppendProperties, LenProperties DEF TypeOK
  <2>3. Len(toServer) + 1 \in 1 .. Len(toServer')
    BY <2>2
  <2>4. QED BY <2>1, <2>2, <2>3 DEF HasCommand
<1>4. Waiting'
  BY <1>1, <1>2, <1>3 DEF Waiting, NothingRead, FirstPlace, NoContent, content
<1>5. pc' \in Reading
  BY <1>1 DEF FirstPlace, Reading
<1>6. QED BY <1>1, <1>2, <1>4, <1>5, StaysReading

LEMMA AwayWhole ==
  ASSUME WInv, ~quoted,
         \/ NegotiateOption \/ EndNegotiation \/ SkipLine \/ SyncEnds
         \/ ReadNoNumber \/ NoStatus \/ Timeout \/ Close
         \/ \E cb \in BOOLEAN : ExecuteCommand(cb)
  PROVE  Whole'
<1>1. UNCHANGED sent /\ pc' \notin Reading
  <2>1. CASE NegotiateOption \/ EndNegotiation \/ SkipLine \/ Close
    BY <2>1 DEF NegotiateOption, EndNegotiation, SkipLine, Close, client,
                server, Reading
  <2>2. CASE SyncEnds \/ ReadNoNumber \/ NoStatus
    BY <2>2 DEF SyncEnds, ReadNoNumber, NoStatus, Throw, server, Reading
  <2>3. CASE Timeout
    BY <2>3 DEF Timeout, Throw, server, Reading
  <2>4. CASE \E cb \in BOOLEAN : ExecuteCommand(cb)
    BY <2>4 DEF ExecuteCommand, server, Reading
  <2>5. QED BY <2>1, <2>2, <2>3, <2>4
<1>2. ~(outcome' = "returned" /\ pc' = "idle")
  <2>1. CASE NegotiateOption \/ EndNegotiation \/ SkipLine \/ Close
    BY <2>1 DEF NegotiateOption, EndNegotiation, SkipLine, Close, client, WInv,
                Begun
  <2>2. CASE SyncEnds \/ ReadNoNumber \/ NoStatus
    BY <2>2 DEF SyncEnds, ReadNoNumber, NoStatus, Throw
  <2>3. CASE Timeout
    BY <2>3 DEF Timeout, Throw
  <2>4. CASE \E cb \in BOOLEAN : ExecuteCommand(cb)
    BY <2>4 DEF ExecuteCommand
  <2>5. QED BY <2>1, <2>2, <2>3, <2>4
<1>3. PlainLines'
  BY <1>1 DEF WInv, Whole, PlainLines
<1>4. QED BY <1>1, <1>2, <1>3 DEF Whole, ReturnsAll

-----------------------------------------------------------------------------
LEMMA BegunKept ==
  ASSUME WInv, Next
  PROVE  Begun'
<1>1. Begun
  BY DEF WInv
<1>2. CASE ServerStep \/ Die
  BY <1>1, <1>2
     DEF ServerStep, Start, ReadOption, ReadCommand, EndCommand, Die, client,
         Begun, NothingRead, NoContent, content
<1>3. CASE \E m \in Messages : SendMessage(m[1], m[2])
  BY <1>1, <1>3 DEF SendMessage, client, Begun, NothingRead, NoContent, content
<1>4. CASE NegotiateOption \/ EndNegotiation \/ SendCommand \/ SkipLine
  BY <1>1, <1>4 DEF NegotiateOption, EndNegotiation, SendCommand, SkipLine,
                    client, Begun, NothingRead, NoContent, content
<1>5. CASE ReadTemporary \/ EndTemporary \/ ReadPendingStatus \/ PassLF
  BY <1>1, <1>5
     DEF ReadTemporary, EndTemporary, ReadPendingStatus, PassLF, Begun
<1>6. CASE ReadStatus \/ ReadHeader \/ ReadBody \/ Return \/ Close
  BY <1>1, <1>6 DEF ReadStatus, ReadHeader, ReadBody, Return, Close, Begun
<1>7. CASE SyncEnds \/ ReadNoNumber \/ NoStatus \/ Timeout
  BY <1>7 DEF SyncEnds, ReadNoNumber, NoStatus, Timeout, Throw, Begun
<1>8. CASE \E cb \in BOOLEAN : ExecuteCommand(cb)
  BY <1>8 DEF ExecuteCommand, Begun, NothingRead, NoContent
<1>9. QED BY <1>2, <1>3, <1>4, <1>5, <1>6, <1>7, <1>8 DEF Next, ClientStep

LEMMA WholeKept ==
  ASSUME WInv, Next, ~quoted'
  PROVE  Whole'
<1>1. CASE \E m \in Messages : SendMessage(m[1], m[2])
  BY <1>1, SendMessageWhole
<1>2. CASE ServerStep \/ Die
  <2>1. ~quoted
    BY <1>2 DEF ServerStep, Start, ReadOption, ReadCommand, EndCommand, Die,
                server
  <2>2. QED BY <1>2, <2>1, StartWhole, ReadOptionWhole, ReadCommandWhole,
               EndCommandWhole, DieWhole DEF ServerStep
<1>3. CASE \/ ClientStep \/ Timeout \/ Close
           \/ \E cb \in BOOLEAN : ExecuteCommand(cb)
  <2>1. ~quoted
    <3>1. CASE ClientStep
      BY <3>1
         DEF ClientStep, NegotiateOption, EndNegotiation, SendCommand,
             SkipLine, SyncEnds, ReadTemporary, EndTemporary,
             ReadPendingStatus, PassLF, ReadStatus, ReadNoNumber, NoStatus,
             ReadHeader, ReadBody, Return, Throw, server
    <3>2. CASE Timeout
      BY <3>2 DEF Timeout, Throw, server
    <3>3. CASE Close \/ \E cb \in BOOLEAN : ExecuteCommand(cb)
      BY <3>3 DEF Close, ExecuteCommand, server
    <3>4. QED BY <1>3, <3>1, <3>2, <3>3
  <2>2. QED BY <1>3, <2>1, SendCommandWhole, AwayWhole, LineReadWhole,
               EndTemporaryWhole, PendingWhole, PassLFWhole, ReturnWhole
            DEF ClientStep
<1>4. QED BY <1>1, <1>2, <1>3 DEF Next

(* What is said of the variables stays true when none of them changes.     *)
LEMMA NothingChanges ==
  ASSUME WInv, UNCHANGED vars
  PROVE  WInv'
<1>1. /\ UNCHANGED <<toServer, toClient, call, callback, pc, readLine>>
      /\ UNCHANGED <<temporaryLine, status, content, told, outcome, spc, command>>
      /\ UNCHANGED <<sent, dead, quoted, unended>>
  BY DEF vars, client, server
<1>2. /\ Sent' = Sent /\ StatusAt' = StatusAt /\ HeaderEnd' = HeaderEnd
      /\ UNCHANGED <<header, headerName, body>>
  BY <1>1 DEF Sent, StatusAt, HeaderEnd, content
<1>3. ReturnsAll' = ReturnsAll
  BY <1>1, <1>2 DEF ReturnsAll, FieldsIn, ListsNames, KeepsLast, NameAt
<1>4. \A k, at : Remaining(k, at)' = Remaining(k, at)
  BY <1>1 DEF Remaining, EndOf, Stands, Owed
<1>5. \A k, at : Progress(k, at)' = Progress(k, at)
  <2>1. \A a, n : HeaderOf(a, n)' = HeaderOf(a, n)
    BY <1>1, <1>2 DEF HeaderOf, FieldsIn, ListsNames, KeepsLast, NameAt
  <2>2. NoContent' = NoContent
    BY <1>2 DEF NoContent
  <2>3. \A t, k : HasStatus(t, k)' = HasStatus(t, k)
    BY <1>1, <1>2, <2>1 DEF HasStatus, IsStatus, Given, AllLines, LinesBut
  <2>4. QED BY <1>1, <2>2, <2>3 DEF Progress, ReadTold, ReadBefore, IsStatus,
                                    Given, Owed
<1>6. HasCommand' = HasCommand /\ MidWay' = MidWay
  BY <1>1, <1>4, <1>5 DEF HasCommand, MidWay
<1>7. Waiting' = Waiting /\ WithoutStatus' = WithoutStatus
  BY <1>1, <1>2, <1>6 DEF Waiting, NothingRead, NoContent, FirstPlace,
                          WithoutStatus, NoMore, AtPrompt, Ends, Pending
<1>8. Begun' = Begun /\ PlainLines' = PlainLines
  BY <1>1, <1>2 DEF Begun, NothingRead, NoContent, PlainLines
<1>9. Whole' = Whole
  BY <1>1, <1>3, <1>6, <1>7, <1>8 DEF Whole
<1>10. IInv'
  BY NextInv DEF WInv
<1>11. QED BY <1>1, <1>8, <1>9, <1>10 DEF WInv

(* Unless a line begins with the prompt, a response that is returned is    *)
(* what the command sent: its status, the fields before the first blank    *)
(* line, of each name the last, and every line behind it; the command has  *)
(* ended, or the server has closed the connection.                         *)
THEOREM ReturnsAllCorrect == Spec => []ReturnsAll
<1>1. Init => WInv
  <2>1. SUFFICES ASSUME Init PROVE WInv
    OBVIOUS
  <2>2. Begun
    BY <2>1 DEF Init, Begun
  <2>3. Whole
    BY <2>1 DEF Init, Whole, PlainLines, ReturnsAll, Reading
  <2>4. QED BY <2>1, <2>2, <2>3, InitInv DEF WInv
<1>2. WInv /\ [Next]_vars => WInv'
  <2>1. SUFFICES ASSUME WInv, [Next]_vars PROVE WInv'
    OBVIOUS
  <2>2. CASE Next
    <3>1. IInv'
      BY <2>1, NextInv DEF WInv
    <3>2. QED BY <2>1, <2>2, <3>1, BegunKept, WholeKept DEF WInv
  <2>3. CASE UNCHANGED vars
    BY <2>1, <2>3, NothingChanges
  <2>4. QED BY <2>1, <2>2, <2>3
<1>3. WInv => ReturnsAll
  BY DEF WInv, Whole, ReturnsAll
<1>4. QED BY <1>1, <1>2, <1>3, PTL DEF Spec

-----------------------------------------------------------------------------
(***************************************************************************)
(* RshService, for any connections, pool and queue: no connection is lost  *)
(* between the backlog, the accepting thread, the queue and the pool, and  *)
(* wherever one is, there is somebody whose next step moves it on.  What   *)
(* fairness makes of that, EveryConnectionEnds, is left to TLC.            *)
(***************************************************************************)

Places == {"new", "backlog", "accepted", "queued", "running", "closed", "leaked"}

ServiceTypeOK ==
  /\ open \in BOOLEAN /\ down \in BOOLEAN /\ threads \in Nat
  /\ acceptor \in {"accept", "accepted", "closing", "ended", "died"}
  /\ stop \in {"no", "closed", "returned"}
  /\ state \in [Connections -> Places]
  /\ backlog \in Seq(Connections) /\ queue \in Seq(Connections)

(* The line q holds, once each, the connections that are at place s.       *)
Once(q, f, s) ==
  /\ \A i \in 1 .. Len(q) : f[q[i]] = s
  /\ \A i, j \in 1 .. Len(q) : q[i] = q[j] => i = j
  /\ \A c \in Connections : f[c] = s => \E i \in 1 .. Len(q) : q[i] = c

(* The thread that accepts has one connection in its hands, or none.       *)
Held(a, f) ==
  /\ a = "accepted" => \E c \in Connections : f[c] = "accepted"
  /\ a # "accepted" => \A c \in Connections : f[c] # "accepted"
  /\ \A c, d \in Connections : f[c] = "accepted" /\ f[d] = "accepted" => c = d

(* What a ThreadPoolExecutor promises, and that a queue has threads.       *)
PoolInv ==
  /\ IsFiniteSet(In("running"))
  /\ Busy <= threads /\ threads <= MaxThread /\ Len(queue) <= QueueSize
  /\ queue # <<>> => threads >= MinThread

SocketInv ==
  /\ ~open => backlog = <<>>
  /\ acceptor = "ended" => ~open
  /\ stop # "no" => ~open
  /\ down <=> stop = "returned"

ServiceInv ==
  /\ ServiceTypeOK
  /\ Once(backlog, state, "backlog") /\ Once(queue, state, "queued")
  /\ Held(acceptor, state)
  /\ PoolInv /\ SocketInv

(* Where somebody waits there is somebody to come: the accepting thread,   *)
(* unless it has died, an idle thread of the pool, or one that is busy.    *)
Attended ==
  \A c \in Connections :
    /\ state[c] = "backlog" =>
         /\ open /\ acceptor # "ended"
         /\ \E i \in 1 .. Len(backlog) : backlog[i] = c
    /\ state[c] = "accepted" => acceptor = "accepted"
    /\ state[c] = "queued" =>
         /\ \E i \in 1 .. Len(queue) : queue[i] = c
         /\ Busy < threads \/ \E d \in Connections : state[d] = "running"

(* One more at the end of a line.                                          *)
LEMMA OnceAppend ==
  ASSUME NEW q \in Seq(Connections), NEW f \in [Connections -> Places], NEW s,
         Once(q, f, s), NEW c \in Connections, f[c] # s
  PROVE  Once(Append(q, c), [f EXCEPT ![c] = s], s)
<1> DEFINE r == Append(q, c)
<1> DEFINE g == [f EXCEPT ![c] = s]
<1>1. /\ Len(r) = Len(q) + 1 /\ r[Len(q) + 1] = c
      /\ \A i \in 1 .. Len(q) : r[i] = q[i] /\ q[i] \in Connections
  OBVIOUS
<1>2. g[c] = s /\ \A d \in Connections : d # c => g[d] = f[d]
  OBVIOUS
<1>3. \A i \in 1 .. Len(q) : q[i] # c
  BY DEF Once
<1>4. Len(q) \in Nat
  OBVIOUS
<1> HIDE DEF r, g
<1>5. \A i \in 1 .. Len(r) : i = Len(q) + 1 \/ i \in 1 .. Len(q)
  BY <1>1, <1>4
<1>6. \A i \in 1 .. Len(r) : g[r[i]] = s
  BY <1>1, <1>2, <1>3, <1>5 DEF Once
<1>7. \A i, j \in 1 .. Len(r) : r[i] = r[j] => i = j
  BY <1>1, <1>3, <1>5 DEF Once
<1>8. ASSUME NEW d \in Connections, g[d] = s PROVE \E i \in 1 .. Len(r) : r[i] = d
  <2>1. CASE d = c
    <3>1. Len(q) + 1 \in 1 .. Len(r)
      BY <1>1, <1>4
    <3>2. QED BY <1>1, <2>1, <3>1
  <2>2. CASE d # c
    <3>1. PICK i \in 1 .. Len(q) : q[i] = d
      BY <1>2, <1>8, <2>2 DEF Once
    <3>2. i \in 1 .. Len(r)
      BY <1>1, <1>4
    <3>3. QED BY <1>1, <3>1, <3>2
  <2>3. QED BY <2>1, <2>2
<1>9. QED BY <1>6, <1>7, <1>8 DEF Once, r, g

(* The first of a line goes.                                               *)
LEMMA OnceTail ==
  ASSUME NEW q \in Seq(Connections), NEW f \in [Connections -> Places], NEW s,
         Once(q, f, s), q # <<>>, NEW u, u # s
  PROVE  /\ Head(q) \in Connections /\ f[Head(q)] = s
         /\ Tail(q) \in Seq(Connections)
         /\ Once(Tail(q), [f EXCEPT ![Head(q)] = u], s)
<1> DEFINE c == Head(q)
<1> DEFINE r == Tail(q)
<1> DEFINE g == [f EXCEPT ![c] = u]
<1>1. /\ Len(q) \in Nat /\ Len(q) >= 1 /\ c = q[1] /\ c \in Connections
      /\ r \in Seq(Connections) /\ Len(r) = Len(q) - 1
      /\ \A i \in 1 .. Len(r) : r[i] = q[i + 1]
      /\ \A i \in 1 .. Len(q) : q[i] \in Connections
  OBVIOUS
<1>2. g[c] = u /\ \A d \in Connections : d # c => g[d] = f[d]
  BY <1>1
<1> HIDE DEF c, r, g
<1>3. f[c] = s
  BY <1>1 DEF Once
<1>4. \A i \in 1 .. Len(r) : i + 1 \in 1 .. Len(q) /\ i + 1 # 1 /\ i \in Int
  BY <1>1
<1>5. \A i \in 1 .. Len(r) : r[i] # c /\ f[r[i]] = s /\ r[i] \in Connections
  BY <1>1, <1>4 DEF Once
<1>6. \A i \in 1 .. Len(r) : g[r[i]] = s
  BY <1>2, <1>5
<1>7. ASSUME NEW i \in 1 .. Len(r), NEW j \in 1 .. Len(r), r[i] = r[j] PROVE i = j
  <2>1. q[i + 1] = q[j + 1] /\ i + 1 \in 1 .. Len(q) /\ j + 1 \in 1 .. Len(q)
    BY <1>1, <1>4, <1>7
  <2>2. i + 1 = j + 1
    BY <2>1 DEF Once
  <2>3. QED BY <2>2
<1>8. ASSUME NEW d \in Connections, g[d] = s PROVE \E i \in 1 .. Len(r) : r[i] = d
  <2>1. d # c /\ f[d] = s
    BY <1>2, <1>8
  <2>2. PICK i \in 1 .. Len(q) : q[i] = d
    BY <2>1 DEF Once
  <2>3. i - 1 \in 1 .. Len(r) /\ (i - 1) + 1 = i
    BY <1>1, <2>1, <2>2
  <2>4. QED BY <1>1, <2>2, <2>3
<1>9. Once(r, g, s)
  BY <1>6, <1>7, <1>8 DEF Once
<1>10. QED BY <1>1, <1>3, <1>9 DEF c, r, g

(* Somebody moves who was not in the line and does not join it.            *)
LEMMA OnceOther ==
  ASSUME NEW q \in Seq(Connections), NEW f \in [Connections -> Places], NEW s,
         Once(q, f, s), NEW c \in Connections, f[c] # s, NEW u, u # s
  PROVE  Once(q, [f EXCEPT ![c] = u], s)
<1>1. \A i \in 1 .. Len(q) : q[i] \in Connections /\ q[i] # c
  BY DEF Once
<1>2. QED BY <1>1 DEF Once

(* One connection moves, which the accepting thread did not hold.          *)
LEMMA HeldOther ==
  ASSUME NEW a, NEW f \in [Connections -> Places], Held(a, f),
         NEW c \in Connections, f[c] # "accepted", NEW u, u # "accepted"
  PROVE  Held(a, [f EXCEPT ![c] = u])
BY DEF Held

(* The one it held moves.                                                  *)
LEMMA HeldGoes ==
  ASSUME NEW a, NEW f \in [Connections -> Places], Held(a, f),
         NEW c \in Connections, f[c] = "accepted", NEW u, u # "accepted",
         NEW b, b # "accepted"
  PROVE  Held(b, [f EXCEPT ![c] = u])
BY DEF Held

Moves(c, u) == state' = [state EXCEPT ![c] = u]

(* Who runs after a connection has moved.                                  *)
LEMMA RunningIs ==
  ASSUME NEW c \in Connections, NEW u, ServiceTypeOK, PoolInv, Moves(c, u)
  PROVE  /\ state[c] # "running" /\ u = "running" =>
              IsFiniteSet(In("running")') /\ Busy' = Busy + 1
         /\ state[c] = "running" /\ u # "running" =>
              IsFiniteSet(In("running")') /\ Busy' = Busy - 1
         /\ state[c] # "running" /\ u # "running" =>
              IsFiniteSet(In("running")') /\ Busy' = Busy
         /\ Busy \in Nat
<1> DEFINE R == In("running")
<1>1. IsFiniteSet(R) /\ Busy = Cardinality(R) /\ Busy' = Cardinality(R')
  BY DEF PoolInv, Busy
<1>2. \A d \in Connections : state'[d] = IF d = c THEN u ELSE state[d]
  BY DEF ServiceTypeOK, Moves
<1>3. /\ state[c] # "running" /\ u = "running" => R' = R \cup {c} /\ c \notin R
      /\ state[c] = "running" /\ u # "running" => R' = R \ {c} /\ c \in R
      /\ state[c] # "running" /\ u # "running" => R' = R
  BY <1>2 DEF In
<1>4. Cardinality(R) \in Nat
  BY <1>1, FS_CardinalityType
<1>5. CASE state[c] # "running" /\ u = "running"
  <2>1. IsFiniteSet(R \cup {c}) /\ Cardinality(R \cup {c}) = Cardinality(R) + 1
    BY <1>1, <1>3, <1>5, FS_AddElement
  <2>2. QED BY <1>1, <1>3, <1>4, <1>5, <2>1
<1>6. CASE state[c] = "running" /\ u # "running"
  <2>1. IsFiniteSet(R \ {c}) /\ Cardinality(R \ {c}) = Cardinality(R) - 1
    BY <1>1, <1>3, <1>6, FS_RemoveElement
  <2>2. QED BY <1>1, <1>3, <1>4, <1>6, <2>1
<1>7. CASE state[c] # "running" /\ u # "running"
  BY <1>1, <1>3, <1>4, <1>7
<1>8. CASE state[c] = "running" /\ u = "running"
  BY <1>1, <1>4, <1>8
<1>9. QED BY <1>5, <1>6, <1>7, <1>8

(* A connection that is neither waiting nor running moves to a place like  *)
(* it: nothing changes for lines and pool.                                 *)
LEMMA PoolSame ==
  ASSUME ServiceTypeOK, PoolInv, NEW c \in Connections, NEW u,
         state' = [state EXCEPT ![c] = u], UNCHANGED <<queue, threads>>,
         state[c] # "running", u # "running"
  PROVE  PoolInv'
<1>1. IsFiniteSet(In("running")') /\ Busy' = Busy
  BY RunningIs DEF Moves
<1>2. QED BY <1>1 DEF PoolInv

(* close() of the server socket resets those that wait in the backlog.     *)
LEMMA CloseInv ==
  ASSUME ServiceInv, CloseServerSocket, UNCHANGED pool,
         acceptor' # "accepted" <=> acceptor # "accepted",
         acceptor' \in {"accept", "accepted", "closing", "ended", "died"},
         stop' \in {"no", "closed", "returned"}, down <=> stop' = "returned"
  PROVE  ServiceInv'
<1>1. /\ open' = FALSE /\ backlog' = <<>> /\ queue' = queue
      /\ threads' = threads /\ down' = down
      /\ \A c \in Connections :
           state'[c] = IF state[c] = "backlog" THEN "closed" ELSE state[c]
  BY DEF CloseServerSocket, pool
<1>2. state \in [Connections -> Places] /\ state' \in [Connections -> Places]
  BY DEF ServiceInv, ServiceTypeOK, CloseServerSocket, Places
<1>3. ServiceTypeOK'
  <2>1. <<>> \in Seq(Connections)
    OBVIOUS
  <2>2. QED BY <1>1, <1>2, <2>1 DEF ServiceInv, ServiceTypeOK
<1>4. Once(backlog', state', "backlog")
  <2>1. backlog' = <<>> /\ Len(backlog') = 0
    BY <1>1
  <2>2. \A c \in Connections : state'[c] # "backlog"
    BY <1>1
  <2>3. QED BY <2>1, <2>2 DEF Once
<1>5. Once(queue', state', "queued")
  <2>1. \A i \in 1 .. Len(queue) : queue[i] \in Connections
    BY DEF ServiceInv, ServiceTypeOK
  <2>2. QED BY <1>1, <2>1 DEF ServiceInv, Once
<1>6. Held(acceptor', state')
  BY <1>1 DEF ServiceInv, Held
<1>7. PoolInv'
  <2>1. In("running")' = In("running")
    BY <1>1 DEF In
  <2>2. Busy' = Busy
    BY <2>1 DEF Busy
  <2>3. QED BY <1>1, <2>1, <2>2 DEF ServiceInv, PoolInv
<1>8. SocketInv'
  BY <1>1 DEF ServiceInv, SocketInv
<1>9. QED BY <1>3, <1>4, <1>5, <1>6, <1>7, <1>8 DEF ServiceInv

LEMMA ServiceInvInit == ServiceInit => ServiceInv
<1> SUFFICES ASSUME ServiceInit PROVE ServiceInv
  OBVIOUS
<1>1. /\ \A c \in Connections : state[c] = "new"
      /\ backlog = <<>> /\ queue = <<>> /\ Len(backlog) = 0 /\ Len(queue) = 0
      /\ threads = 1 /\ open = TRUE /\ acceptor = "accept" /\ stop = "no"
      /\ down = FALSE
  BY DEF ServiceInit
<1>2. ServiceTypeOK
  <2>1. <<>> \in Seq(Connections)
    OBVIOUS
  <2>2. state \in [Connections -> Places]
    BY DEF ServiceInit, Places
  <2>3. QED BY <1>1, <2>1, <2>2 DEF ServiceTypeOK
<1>3. Once(backlog, state, "backlog") /\ Once(queue, state, "queued")
  BY <1>1 DEF Once
<1>4. Held(acceptor, state)
  BY <1>1 DEF Held
<1>5. PoolInv
  <2>1. In("running") = {}
    BY <1>1 DEF In
  <2>2. IsFiniteSet(In("running")) /\ Busy = 0
    BY <2>1, FS_EmptySet DEF Busy
  <2>3. QED BY <1>1, <2>2, ServiceAssumption DEF PoolInv
<1>6. SocketInv
  BY <1>1 DEF SocketInv
<1>7. QED BY <1>2, <1>3, <1>4, <1>5, <1>6 DEF ServiceInv

(* The thread that accepts has done with the connection c in its hands,    *)
(* which is at place u now and in neither line.                            *)
LEMMA HandsOver ==
  ASSUME ServiceInv, NEW c \in Connections, state[c] = "accepted",
         NEW u \in {"closed", "leaked"}, state' = [state EXCEPT ![c] = u],
         acceptor' \in {"accept", "closing", "died"},
         UNCHANGED <<open, stop, backlog, pool>>
  PROVE  ServiceInv'
<1>1. /\ open' = open /\ stop' = stop /\ backlog' = backlog /\ queue' = queue
      /\ threads' = threads /\ down' = down
  BY DEF pool
<1>2. state \in [Connections -> Places] /\ state' \in [Connections -> Places]
  BY DEF ServiceInv, ServiceTypeOK, Places
<1>3. backlog \in Seq(Connections) /\ queue \in Seq(Connections)
  BY DEF ServiceInv, ServiceTypeOK
<1>4. ServiceTypeOK'
  BY <1>1, <1>2 DEF ServiceInv, ServiceTypeOK
<1>5. Once(backlog, state', "backlog") /\ Once(queue, state', "queued")
  BY <1>2, <1>3, OnceOther DEF ServiceInv
<1>6. Held(acceptor', state')
  BY <1>2, HeldGoes DEF ServiceInv
<1>7. PoolInv'
  BY <1>1, PoolSame DEF ServiceInv
<1>8. SocketInv'
  BY <1>1 DEF ServiceInv, SocketInv
<1>9. QED BY <1>1, <1>4, <1>5, <1>6, <1>7, <1>8 DEF ServiceInv

LEMMA ConnectInv ==
  ASSUME ServiceInv, NEW c \in Connections, Connect(c)
  PROVE  ServiceInv'
<1>1. /\ open' = open /\ acceptor' = acceptor /\ stop' = stop
      /\ queue' = queue /\ threads' = threads /\ down' = down
      /\ state[c] = "new" /\ open /\ backlog' = Append(backlog, c)
      /\ state' = [state EXCEPT ![c] = "backlog"]
  BY DEF Connect, service, pool
<1>2. /\ state \in [Connections -> Places] /\ state' \in [Connections -> Places]
      /\ backlog \in Seq(Connections) /\ queue \in Seq(Connections)
      /\ backlog' \in Seq(Connections)
  BY <1>1 DEF ServiceInv, ServiceTypeOK, Places
<1>3. ServiceTypeOK'
  BY <1>1, <1>2 DEF ServiceInv, ServiceTypeOK
<1>4. Once(backlog', state', "backlog")
  BY <1>1, <1>2, OnceAppend DEF ServiceInv
<1>5. Once(queue', state', "queued")
  BY <1>1, <1>2, OnceOther DEF ServiceInv
<1>6. Held(acceptor', state')
  BY <1>1, <1>2, HeldOther DEF ServiceInv
<1>7. PoolInv'
  BY <1>1, PoolSame DEF ServiceInv
<1>8. SocketInv'
  BY <1>1 DEF ServiceInv, SocketInv
<1>9. QED BY <1>3, <1>4, <1>5, <1>6, <1>7, <1>8 DEF ServiceInv

LEMMA AcceptInv ==
  ASSUME ServiceInv, Accept
  PROVE  ServiceInv'
<1> DEFINE c == Head(backlog)
<1>1. /\ open' = open /\ stop' = stop /\ open /\ acceptor' = "accepted"
      /\ queue' = queue /\ threads' = threads /\ down' = down
      /\ backlog # <<>> /\ backlog' = Tail(backlog)
      /\ state' = [state EXCEPT ![c] = "accepted"]
  BY DEF Accept, pool
<1>2. /\ state \in [Connections -> Places]
      /\ backlog \in Seq(Connections) /\ queue \in Seq(Connections)
  BY DEF ServiceInv, ServiceTypeOK
<1>3. /\ c \in Connections /\ state[c] = "backlog"
      /\ backlog' \in Seq(Connections) /\ Once(backlog', state', "backlog")
  <2>1. Once(backlog, state, "backlog") /\ "accepted" # "backlog"
    BY DEF ServiceInv
  <2>2. QED BY <1>1, <1>2, <2>1, OnceTail
<1> HIDE DEF c
<1>4. ServiceTypeOK'
  BY <1>1, <1>2, <1>3 DEF ServiceInv, ServiceTypeOK, Places
<1>5. Once(queue', state', "queued")
  BY <1>1, <1>2, <1>3, OnceOther DEF ServiceInv
<1>6. Held(acceptor', state')
  <2>1. \A d \in Connections : state[d] # "accepted"
    BY DEF ServiceInv, Held, Accept
  <2>2. \A d \in Connections : state'[d] = "accepted" <=> d = c
    BY <1>1, <1>2, <1>3, <2>1
  <2>3. QED BY <1>1, <1>3, <2>2 DEF Held
<1>7. PoolInv'
  BY <1>1, <1>3, PoolSame DEF ServiceInv
<1>8. SocketInv'
  BY <1>1 DEF ServiceInv, SocketInv
<1>9. QED BY <1>3, <1>4, <1>5, <1>6, <1>7, <1>8 DEF ServiceInv

LEMMA ExecuteInThreadInv ==
  ASSUME ServiceInv, NEW c \in Connections, ExecuteInThread(c)
  PROVE  ServiceInv'
<1>1. /\ open' = open /\ stop' = stop /\ backlog' = backlog
      /\ queue' = queue /\ threads' = threads + 1 /\ down' = down
      /\ acceptor = "accepted" /\ acceptor' = "accept"
      /\ state[c] = "accepted" /\ state' = [state EXCEPT ![c] = "running"]
      /\ threads < MinThread \/ (Full /\ threads < MaxThread)
  BY DEF ExecuteInThread
<1>2. /\ state \in [Connections -> Places] /\ threads \in Nat
      /\ backlog \in Seq(Connections) /\ queue \in Seq(Connections)
  BY DEF ServiceInv, ServiceTypeOK
<1>3. ServiceTypeOK'
  BY <1>1, <1>2 DEF ServiceInv, ServiceTypeOK, Places
<1>4. Once(backlog', state', "backlog") /\ Once(queue', state', "queued")
  BY <1>1, <1>2, OnceOther DEF ServiceInv
<1>5. Held(acceptor', state')
  BY <1>1, <1>2, HeldGoes DEF ServiceInv
<1>6. PoolInv'
  <2>1. ServiceTypeOK /\ PoolInv
    BY DEF ServiceInv
  <2>2. Moves(c, "running") /\ state[c] # "running"
    BY <1>1 DEF Moves
  <2>3. IsFiniteSet(In("running")') /\ Busy' = Busy + 1 /\ Busy \in Nat
    BY <2>1, <2>2, RunningIs
  <2>4. QED BY <1>1, <1>2, <2>1, <2>3, ServiceAssumption DEF PoolInv
<1>7. SocketInv'
  BY <1>1 DEF ServiceInv, SocketInv
<1>8. QED BY <1>3, <1>4, <1>5, <1>6, <1>7 DEF ServiceInv

LEMMA ExecuteLaterInv ==
  ASSUME ServiceInv, NEW c \in Connections, ExecuteLater(c)
  PROVE  ServiceInv'
<1>1. /\ open' = open /\ stop' = stop /\ backlog' = backlog
      /\ queue' = Append(queue, c) /\ threads' = threads /\ down' = down
      /\ acceptor = "accepted" /\ acceptor' = "accept"
      /\ state[c] = "accepted" /\ state' = [state EXCEPT ![c] = "queued"]
      /\ threads >= MinThread /\ Len(queue) # QueueSize
  BY DEF ExecuteLater, Full
<1>2. /\ state \in [Connections -> Places] /\ threads \in Nat
      /\ backlog \in Seq(Connections) /\ queue \in Seq(Connections)
      /\ queue' \in Seq(Connections) /\ Len(queue') = Len(queue) + 1
      /\ Len(queue) \in Nat
  BY <1>1 DEF ServiceInv, ServiceTypeOK
<1>3. ServiceTypeOK'
  BY <1>1, <1>2 DEF ServiceInv, ServiceTypeOK, Places
<1>4. Once(backlog', state', "backlog")
  BY <1>1, <1>2, OnceOther DEF ServiceInv
<1>5. Once(queue', state', "queued")
  BY <1>1, <1>2, OnceAppend DEF ServiceInv
<1>6. Held(acceptor', state')
  BY <1>1, <1>2, HeldGoes DEF ServiceInv
<1>7. PoolInv'
  <2>1. ServiceTypeOK /\ PoolInv
    BY DEF ServiceInv
  <2>2. Moves(c, "queued") /\ state[c] # "running" /\ "queued" # "running"
    BY <1>1 DEF Moves
  <2>3. IsFiniteSet(In("running")') /\ Busy' = Busy /\ Busy \in Nat
    BY <2>1, <2>2, RunningIs
  <2>4. QED BY <1>1, <1>2, <2>1, <2>3, ServiceAssumption DEF PoolInv
<1>8. SocketInv'
  BY <1>1 DEF ServiceInv, SocketInv
<1>9. QED BY <1>3, <1>4, <1>5, <1>6, <1>7, <1>8 DEF ServiceInv

LEMMA TakeInv ==
  ASSUME ServiceInv, Take
  PROVE  ServiceInv'
<1> DEFINE c == Head(queue)
<1>1. /\ open' = open /\ stop' = stop /\ acceptor' = acceptor
      /\ backlog' = backlog /\ threads' = threads /\ down' = down
      /\ Busy < threads /\ queue # <<>> /\ queue' = Tail(queue)
      /\ state' = [state EXCEPT ![c] = "running"]
  BY DEF Take, service
<1>2. /\ state \in [Connections -> Places] /\ threads \in Nat
      /\ backlog \in Seq(Connections) /\ queue \in Seq(Connections)
  BY DEF ServiceInv, ServiceTypeOK
<1>3. /\ c \in Connections /\ state[c] = "queued"
      /\ queue' \in Seq(Connections) /\ Once(queue', state', "queued")
  <2>1. Once(queue, state, "queued") /\ "running" # "queued"
    BY DEF ServiceInv
  <2>2. QED BY <1>1, <1>2, <2>1, OnceTail
<1>4. Len(queue') = Len(queue) - 1 /\ Len(queue) \in Nat
  BY <1>1, <1>2
<1> HIDE DEF c
<1>5. ServiceTypeOK'
  BY <1>1, <1>2, <1>3 DEF ServiceInv, ServiceTypeOK, Places
<1>6. Once(backlog', state', "backlog")
  BY <1>1, <1>2, <1>3, OnceOther DEF ServiceInv
<1>7. Held(acceptor', state')
  BY <1>1, <1>2, <1>3, HeldOther DEF ServiceInv
<1>8. PoolInv'
  <2>1. ServiceTypeOK /\ PoolInv
    BY DEF ServiceInv
  <2>2. Moves(c, "running") /\ state[c] # "running"
    BY <1>1, <1>3 DEF Moves
  <2>3. IsFiniteSet(In("running")') /\ Busy' = Busy + 1 /\ Busy \in Nat
    BY <1>3, <2>1, <2>2, RunningIs
  <2>4. QED BY <1>1, <1>2, <1>4, <2>1, <2>3, ServiceAssumption DEF PoolInv
<1>9. SocketInv'
  BY <1>1 DEF ServiceInv, SocketInv
<1>10. QED BY <1>3, <1>5, <1>6, <1>7, <1>8, <1>9 DEF ServiceInv

LEMMA EndShellInv ==
  ASSUME ServiceInv, NEW c \in Connections, EndShell(c)
  PROVE  ServiceInv'
<1>1. /\ open' = open /\ stop' = stop /\ acceptor' = acceptor
      /\ backlog' = backlog /\ queue' = queue
      /\ threads' = threads /\ down' = down
      /\ state[c] = "running" /\ state' = [state EXCEPT ![c] = "closed"]
  BY DEF EndShell, service, pool
<1>2. /\ state \in [Connections -> Places] /\ threads \in Nat
      /\ backlog \in Seq(Connections) /\ queue \in Seq(Connections)
  BY DEF ServiceInv, ServiceTypeOK
<1>3. ServiceTypeOK'
  BY <1>1, <1>2 DEF ServiceInv, ServiceTypeOK, Places
<1>4. Once(backlog', state', "backlog") /\ Once(queue', state', "queued")
  BY <1>1, <1>2, OnceOther DEF ServiceInv
<1>5. Held(acceptor', state')
  BY <1>1, <1>2, HeldOther DEF ServiceInv
<1>6. PoolInv'
  <2>1. ServiceTypeOK /\ PoolInv
    BY DEF ServiceInv
  <2>2. Moves(c, "closed") /\ state[c] = "running" /\ "closed" # "running"
    BY <1>1 DEF Moves
  <2>3. IsFiniteSet(In("running")') /\ Busy' = Busy - 1 /\ Busy \in Nat
    BY <2>1, <2>2, RunningIs
  <2>4. QED BY <1>1, <1>2, <2>1, <2>3 DEF PoolInv
<1>7. SocketInv'
  BY <1>1 DEF ServiceInv, SocketInv
<1>8. QED BY <1>3, <1>4, <1>5, <1>6, <1>7 DEF ServiceInv

LEMMA IdleThreadEndsInv ==
  ASSUME ServiceInv, IdleThreadEnds
  PROVE  ServiceInv'
<1>1. /\ UNCHANGED <<open, stop, acceptor, backlog, state, queue, down>>
      /\ Busy < threads /\ queue = <<>> /\ threads' = threads - 1
  BY DEF IdleThreadEnds, service
<1>2. threads \in Nat /\ IsFiniteSet(In("running"))
  BY DEF ServiceInv, ServiceTypeOK, PoolInv
<1>3. Busy \in Nat
  BY <1>2, FS_CardinalityType DEF Busy
<1>4. threads' \in Nat /\ Busy <= threads' /\ threads' <= threads
  BY <1>1, <1>2, <1>3
<1>5. In("running")' = In("running")
  BY <1>1 DEF In
<1>6. Busy' = Busy
  BY <1>5 DEF Busy
<1>7. PoolInv'
  BY <1>1, <1>2, <1>3, <1>4, <1>5, <1>6, ServiceAssumption
     DEF ServiceInv, PoolInv
<1>8. QED BY <1>1, <1>4, <1>7
      DEF ServiceInv, ServiceTypeOK, SocketInv, Held, Once

(* The steps that move no connection.                                      *)
LEMMA OnlyService ==
  ASSUME ServiceInv, UNCHANGED <<open, backlog, state, queue, threads>>,
         acceptor' # "accepted" <=> acceptor # "accepted",
         acceptor' \in {"accept", "accepted", "closing", "died"}
           \/ acceptor' = acceptor,
         stop' \in {"no", "closed", "returned"}, down' \in BOOLEAN,
         stop' # "no" => ~open, down' <=> stop' = "returned"
  PROVE  ServiceInv'
<1>1. In("running")' = In("running")
  BY DEF In
<1>2. Busy' = Busy
  BY <1>1 DEF Busy
<1>3. PoolInv'
  BY <1>1, <1>2 DEF ServiceInv, PoolInv
<1>4. ServiceTypeOK'
  BY DEF ServiceInv, ServiceTypeOK
<1>5. SocketInv'
  BY DEF ServiceInv, SocketInv
<1>6. Once(backlog', state', "backlog") /\ Once(queue', state', "queued")
  BY DEF ServiceInv
<1>7. Held(acceptor', state')
  BY DEF ServiceInv, Held
<1>8. QED BY <1>3, <1>4, <1>5, <1>6, <1>7 DEF ServiceInv

LEMMA ServiceInvStep == ServiceInv /\ [ServiceNext]_serviceVars => ServiceInv'
<1> SUFFICES ASSUME ServiceInv, [ServiceNext]_serviceVars PROVE ServiceInv'
  OBVIOUS
<1>1. /\ acceptor \in {"accept", "accepted", "closing", "ended", "died"}
      /\ stop \in {"no", "closed", "returned"} /\ down \in BOOLEAN
      /\ (down <=> stop = "returned") /\ (stop # "no" => ~open)
  BY DEF ServiceInv, ServiceTypeOK, SocketInv
<1>2. CASE Accept
  BY <1>2, AcceptInv
<1>3. CASE AcceptEnds \/ AcceptFails
  BY <1>1, <1>3, OnlyService DEF AcceptEnds, AcceptFails, pool
<1>4. CASE End
  BY <1>1, <1>4, CloseInv DEF End
<1>5. ASSUME NEW c \in Connections,
             Refuse(c) \/ ConstructorFails(c) \/ AcceptorDies(c) \/ Reject(c)
      PROVE  ServiceInv'
  <2>1. state[c] = "accepted" /\ UNCHANGED <<open, stop, backlog, pool>>
    BY <1>5 DEF Refuse, ConstructorFails, AcceptorDies, Reject
  <2>2. /\ acceptor' \in {"accept", "closing", "died"}
        /\ \E u \in {"closed", "leaked"} : state' = [state EXCEPT ![c] = u]
    BY <1>5 DEF Refuse, ConstructorFails, AcceptorDies, Reject
  <2>3. QED BY <2>1, <2>2, HandsOver
<1>6. ASSUME NEW c \in Connections, ExecuteInThread(c) PROVE ServiceInv'
  BY <1>6, ExecuteInThreadInv
<1>7. ASSUME NEW c \in Connections, ExecuteLater(c) PROVE ServiceInv'
  BY <1>7, ExecuteLaterInv
<1>8. CASE Take
  BY <1>8, TakeInv
<1>9. CASE IdleThreadEnds
  BY <1>9, IdleThreadEndsInv
<1>10. CASE Stop
  <2>1. stop' \in {"no", "closed", "returned"} /\ (down <=> stop' = "returned")
    BY <1>1, <1>10 DEF Stop
  <2>2. QED BY <1>1, <1>10, <2>1, CloseInv DEF Stop
<1>11. CASE StopExecutor
  <2>1. /\ UNCHANGED <<open, acceptor, backlog, state, queue, threads>>
        /\ down' = TRUE /\ stop' = "returned" /\ ~open
    BY <1>1, <1>11 DEF StopExecutor
  <2>2. QED BY <1>1, <2>1, OnlyService
<1>12. ASSUME NEW c \in Connections, Connect(c) \/ EndShell(c)
       PROVE  ServiceInv'
  BY <1>12, ConnectInv, EndShellInv
<1>13. CASE UNCHANGED serviceVars
  BY <1>1, <1>13, OnlyService DEF serviceVars
<1>14. QED
  BY <1>2, <1>3, <1>4, <1>5, <1>6, <1>7, <1>8, <1>9, <1>10, <1>11, <1>12,
     <1>13 DEF ServiceNext, AcceptThread

(* No connection is lost: each is in the place its state says, once, in    *)
(* lines that are not longer and a pool that is not larger than allowed.   *)
THEOREM ServiceInvCorrect == ServiceSpec => []ServiceInv
<1>1. QED BY ServiceInvInit, ServiceInvStep, PTL DEF ServiceSpec

(* Attended: whoever waits, somebody will come for him: the backlog is not *)
(* left behind by a thread that has ended, nor the queue by the threads of *)
(* the pool, although idle threads end and stop() may come at any time.    *)
THEOREM AttendedCorrect == ServiceSpec => []Attended
<1>1. ServiceInv => Attended
  <2>1. SUFFICES ASSUME ServiceInv, NEW c \in Connections
                 PROVE  /\ state[c] = "backlog" =>
                             /\ open /\ acceptor # "ended"
                             /\ \E i \in 1 .. Len(backlog) : backlog[i] = c
                        /\ state[c] = "accepted" => acceptor = "accepted"
                        /\ state[c] = "queued" =>
                             /\ \E i \in 1 .. Len(queue) : queue[i] = c
                             /\ \/ Busy < threads
                                \/ \E d \in Connections : state[d] = "running"
    BY DEF Attended
  <2>2. CASE state[c] = "backlog"
    <3>1. PICK i \in 1 .. Len(backlog) : backlog[i] = c
      BY <2>1, <2>2 DEF ServiceInv, Once
    <3>2. backlog # <<>>
      BY <3>1
    <3>3. QED BY <2>1, <2>2, <3>1, <3>2
           DEF ServiceInv, SocketInv, ServiceTypeOK
  <2>3. CASE state[c] = "accepted"
    BY <2>1, <2>3 DEF ServiceInv, Held
  <2>4. CASE state[c] = "queued"
    <3>1. PICK i \in 1 .. Len(queue) : queue[i] = c
      BY <2>1, <2>4 DEF ServiceInv, Once
    <3>2. queue # <<>>
      BY <3>1
    <3>3. threads >= MinThread /\ Busy <= threads /\ threads \in Nat
      BY <2>1, <3>2 DEF ServiceInv, PoolInv, ServiceTypeOK
    <3>4. Busy \in Nat
      BY <2>1, FS_CardinalityType DEF ServiceInv, PoolInv, Busy
    <3>5. CASE In("running") = {}
      <4>1. Busy = 0
        BY <3>5, FS_EmptySet DEF Busy
      <4>2. Busy < threads
        BY <3>3, <4>1, ServiceAssumption
      <4>3. QED BY <2>4, <3>1, <4>2
    <3>6. CASE In("running") # {}
      <4>1. \E d \in Connections : state[d] = "running"
        BY <3>6 DEF In
      <4>2. QED BY <2>4, <3>1, <4>1
    <3>7. QED BY <3>5, <3>6
  <2>5. QED BY <2>2, <2>3, <2>4
<1>2. QED BY <1>1, ServiceInvCorrect, PTL
=============================================================================
