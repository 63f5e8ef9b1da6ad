--------------------------- MODULE MCRemoteShell ---------------------------
(* The two halves of the remote shell in one run: a behaviour is about one *)
(* conversation (RemoteShell) or about the service that accepts connections*)
(* (RshService), while there is no service or the conversation is over.     *)
EXTENDS RemoteShell, RshService

VARIABLE subject

(* The field has another name than the one it is kept under, and two meet  *)
(* there; a "status" behind the status is no field, and is dropped.        *)
MCMessages ==
  {<<"status", TRUE>>, <<"status", FALSE>>, <<"FIELD", FALSE>>,
   <<"blank", FALSE>>, <<"quote", FALSE>>}

MCVars == <<subject, vars, serviceVars>>

(* Nothing was said: the server has closed, and so has the client.         *)
ConversationOver ==
  /\ toServer = <<Option("dont"), Option("do")>> /\ toClient = <<>>
  /\ call = 0 /\ callback = FALSE /\ pc = "closed"
  /\ readLine = <<>> /\ temporaryLine = FALSE
  /\ status = <<>> /\ header = NoHeader /\ headerName = <<>> /\ body = <<>>
  /\ told = <<>> /\ outcome = "none"
  /\ spc = "start" /\ command = 0 /\ sent = <<>> /\ dead = TRUE
  /\ quoted = FALSE /\ unended = FALSE

MCInit ==
  /\ ServiceInit
  /\ \/ subject = "conversation" /\ Init
     \/ subject = "service" /\ ConversationOver

(* A step of the one that leaves the other alone.                          *)
Speaks(step) ==
  subject = "conversation" /\ step /\ UNCHANGED <<subject, serviceVars>>

Serves(step) ==
  subject = "service" /\ step /\ UNCHANGED <<subject, vars>>

MCNext == Speaks(Next) \/ Serves(ServiceNext)

(* The fairness of both.                                                   *)
MCFairSpec ==
  /\ MCInit /\ [][MCNext]_MCVars
  /\ WF_MCVars(Speaks(ServerStep)) /\ WF_MCVars(Speaks(ClientStep))
  /\ WF_MCVars(Serves(AcceptThread)) /\ WF_MCVars(Serves(Take))
  /\ \A c \in Connections : WF_MCVars(Serves(EndShell(c)))
=============================================================================
