-------------------------- MODULE RconClientProofs --------------------------
(***************************************************************************)
(* Theorems about RconClient: every path closes its connection, for any    *)
(* server; and against a server that answers a password with one packet an *)
(* answer is never taken for another request's and nil means done.         *)
(***************************************************************************)
EXTENDS RconClient, TLAPS

-----------------------------------------------------------------------------
(* Short sequences, which is all a connection holds. *)

LEMMA EmptyQueue == ASSUME NEW S PROVE <<>> \in Seq(S)
OBVIOUS

LEMMA OneQueued == ASSUME NEW S, NEW p \in S PROVE <<p>> \in Seq(S)
OBVIOUS

LEMMA TwoQueued == ASSUME NEW S, NEW p \in S, NEW q \in S PROVE <<p, q>> \in Seq(S)
OBVIOUS

-----------------------------------------------------------------------------
(* Types. *)

LEMMA PktType ==
  ASSUME NEW id \in -1 .. 3, NEW body \in Commands \cup {"right", "wrong", ""}
  PROVE  Pkt(id, body) \in Packet /\ Pkt(id, body).id = id /\ Pkt(id, body).body = body
BY DEF Pkt, Packet

LEMMA PktFields == ASSUME NEW id, NEW body PROVE Pkt(id, body).id = id /\ Pkt(id, body).body = body
BY DEF Pkt

LEMMA ScriptType ==
  ASSUME NEW kind \in Kinds
  PROVE  /\ Len(Script(kind)) \in 1 .. 2
         /\ \A i \in 1 .. Len(Script(kind)) : Script(kind)[i] \in Commands
         /\ Script(kind)[1] \in {"SaveWorld", "ServerChat"}
         /\ Len(Script(kind)) = 2 => Script(kind)[1] = "SaveWorld" /\ Script(kind)[2] = "DoExit"
BY DEF Kinds, Script, Commands

CallType == [n : 0 .. MaxCalls, kind : Kinds, pw : {"right", "wrong"},
             pc : {"idle", "dial", "auth", "exec", "wait"}, nextID : 0 .. 3, cmd : 1 .. 2]

\* Requests count up from the password's.
Numbered ==
  /\ call.pc # "idle" => call.n \in Conns
  /\ call.pc = "dial" => call.nextID = 0 /\ call.cmd = 1
  /\ call.pc = "auth" => call.nextID = 1 /\ call.cmd = 1
  /\ call.pc = "exec" => call.nextID = call.cmd
  /\ call.pc = "wait" => call.nextID = call.cmd + 1

\* The connection of the call under way is the only one that is open.
OneSocket == sockets = IF call.pc \in {"idle", "dial"} THEN {} ELSE {call.n}

ClientInv == TypeOK /\ Numbered /\ OneSocket

LEMMA ReturnKeeps ==
  ASSUME ClientInv, call.pc # "idle", NEW result \in Results, Return(result),
         toServer' \in [Conns -> Seq(Packet)], toClient' \in [Conns -> Seq(Packet)],
         peers' \subseteq Conns, UNCHANGED server
  PROVE  ClientInv'
<1>1. call' = [call EXCEPT !.pc = "idle"] /\ call'.pc = "idle"
  BY DEF Return, ClientInv, TypeOK
<1>2. sockets' = {}
  BY DEF Return, ClientInv, OneSocket
<1>3. results' \in [Conns -> Results]
  BY DEF Return, ClientInv, TypeOK
<1>4. TypeOK'
  BY <1>1, <1>2, <1>3 DEF ClientInv, TypeOK, server
<1>5. Numbered' /\ OneSocket'
  BY <1>1, <1>2 DEF Numbered, OneSocket
<1> QED
  BY <1>4, <1>5 DEF ClientInv

LEMMA GiveUpKeeps ==
  ASSUME ClientInv, call.pc # "idle", NEW result \in Results, GiveUp(result),
         toServer' \in [Conns -> Seq(Packet)], toClient' \in [Conns -> Seq(Packet)],
         peers' \subseteq Conns, UNCHANGED server
  PROVE  ClientInv'
<1>1. \E r \in Results : Return(r)
  BY DEF GiveUp, Results
<1> QED
  BY <1>1, ReturnKeeps

LEMMA ReadType ==
  ASSUME TypeOK, Numbered, call.pc # "idle", NEW p, Read(p)
  PROVE  toClient' \in [Conns -> Seq(Packet)] /\ p \in Packet
<1>1. call.n \in Conns /\ toClient[call.n] \in Seq(Packet) /\ toClient[call.n] # <<>>
  BY DEF TypeOK, Numbered, Read
<1>2. Tail(toClient[call.n]) \in Seq(Packet) /\ Head(toClient[call.n]) \in Packet
  BY <1>1
<1> QED
  BY <1>1, <1>2 DEF TypeOK, Read

LEMMA AnswerType ==
  ASSUME TypeOK, NEW n \in Conns, NEW s \in Seq(Packet), Answer(n, s)
  PROVE  toClient' \in [Conns -> Seq(Packet)]
<1>1. toClient[n] \o s \in Seq(Packet)
  BY DEF TypeOK
<1> QED
  BY <1>1 DEF TypeOK, Answer

LEMMA TakeType ==
  ASSUME TypeOK, NEW n \in Conns, toServer[n] # <<>>, Take(n)
  PROVE  /\ toServer' \in [Conns -> Seq(Packet)]
         /\ Head(toServer[n]) \in Packet
<1>1. toServer[n] \in Seq(Packet)
  BY DEF TypeOK
<1>2. Tail(toServer[n]) \in Seq(Packet) /\ Head(toServer[n]) \in Packet
  BY <1>1
<1> QED
  BY <1>2 DEF TypeOK, Take

\* The server's steps leave the client alone.
LEMMA ServerKeeps ==
  ASSUME ClientInv, UNCHANGED <<call, results, sockets>>,
         toServer' \in [Conns -> Seq(Packet)], toClient' \in [Conns -> Seq(Packet)],
         peers' \subseteq Conns, authed' \subseteq Conns, did' \in [Conns -> SUBSET Commands]
  PROVE  ClientInv'
BY DEF ClientInv, TypeOK, Numbered, OneSocket

LEMMA ClientStep == ClientInv /\ [Next]_vars => ClientInv'
<1> SUFFICES ASSUME ClientInv, [Next]_vars PROVE ClientInv'
  OBVIOUS
<1>1. /\ TypeOK /\ Numbered /\ OneSocket
      /\ toServer \in [Conns -> Seq(Packet)] /\ toClient \in [Conns -> Seq(Packet)]
      /\ peers \subseteq Conns /\ authed \subseteq Conns /\ did \in [Conns -> SUBSET Commands]
  BY DEF ClientInv, TypeOK
<1>2. ASSUME NEW kind \in Kinds, NEW pw \in {"right", "wrong"}, Call(kind, pw)
      PROVE  ClientInv'
  <2>1. call.n + 1 \in 1 .. MaxCalls
    BY <1>1, <1>2, RconAssumption DEF Call, TypeOK
  <2>2. 1 <= Len(Script(kind))
    BY ScriptType
  <2>3. TypeOK'
    BY <1>1, <1>2, <2>1, <2>2 DEF Call, TypeOK, network, server, Conns
  <2>4. Numbered' /\ OneSocket'
    BY <1>1, <1>2, <2>1 DEF Call, Numbered, OneSocket, Conns
  <2> QED
    BY <2>3, <2>4 DEF ClientInv
<1>3. CASE Dial
  <2>1. call.n \in Conns /\ call.nextID = 0 /\ call.cmd = 1
    BY <1>1, <1>3 DEF Dial, Numbered
  <2>2. call.pw \in {"right", "wrong"}
    BY <1>1 DEF TypeOK
  <2>3. Pkt(call.nextID + 1, call.pw) \in Packet
    <3>1. call.nextID + 1 \in -1 .. 3
      BY <2>1
    <3> QED
      BY <2>2, <3>1, PktType
  <2>4. call' = [call EXCEPT !.pc = "auth", !.nextID = 1]
    BY <1>3, <2>1 DEF Dial
  <2>5. TypeOK'
    <3>1. <<Pkt(call.nextID + 1, call.pw)>> \in Seq(Packet)
      BY <2>3, OneQueued
    <3>2. toServer' \in [Conns -> Seq(Packet)]
      BY <1>1, <1>3, <2>1, <3>1 DEF Dial
    <3>3. call' \in CallType /\ call'.kind = call.kind /\ call'.cmd = call.cmd
      <4>1. call \in CallType
        BY <1>1 DEF TypeOK, CallType
      <4>2. 1 \in 0 .. 3
        OBVIOUS
      <4> QED
        BY <2>4, <4>1, <4>2 DEF CallType
    <3>4. sockets' \subseteq Conns /\ peers' \subseteq Conns
      BY <1>1, <1>3, <2>1 DEF Dial, TypeOK
    <3> QED
      BY <1>1, <1>3, <3>2, <3>3, <3>4 DEF Dial, TypeOK, CallType, server
  <2>6. Numbered' /\ OneSocket'
    BY <1>1, <1>3, <2>1, <2>4 DEF Dial, Numbered, OneSocket, TypeOK
  <2> QED
    BY <2>5, <2>6 DEF ClientInv
<1>4. CASE DialFails
  BY <1>1, <1>4, ReturnKeeps DEF DialFails, network, Results
<1>5. CASE ReadAuth
  <2>1. PICK p \in Packet :
          /\ Read(p)
          /\ IF p.bad \/ p.id = -1
             THEN Return(IF p.bad THEN "err" ELSE "ErrAuthFailed")
             ELSE call' = [call EXCEPT !.pc = "exec"] /\ UNCHANGED <<results, sockets>>
    BY <1>5 DEF ReadAuth
  <2>2. call.pc = "auth" /\ UNCHANGED <<peers, toServer, server>>
    BY <1>5 DEF ReadAuth
  <2>3. toClient' \in [Conns -> Seq(Packet)]
    BY <1>1, <2>1, <2>2, ReadType
  <2>4. CASE p.bad \/ p.id = -1
    <3>1. PICK r \in Results : Return(r)
      BY <2>1, <2>4 DEF Results
    <3> QED
      BY <1>1, <2>2, <2>3, <3>1, ReturnKeeps
  <2>5. CASE ~(p.bad \/ p.id = -1)
    <3>1. call' = [call EXCEPT !.pc = "exec"] /\ UNCHANGED <<results, sockets>>
      BY <2>1, <2>5
    <3>2. TypeOK'
      BY <1>1, <2>2, <2>3, <3>1 DEF TypeOK, server
    <3>3. Numbered' /\ OneSocket'
      BY <1>1, <2>2, <3>1 DEF Numbered, OneSocket, TypeOK
    <3> QED
      BY <3>2, <3>3 DEF ClientInv
  <2> QED
    BY <2>4, <2>5
<1>6. CASE Exec
  <2>1. call.n \in Conns /\ call.nextID = call.cmd /\ call.cmd \in 1 .. 2
    BY <1>1, <1>6 DEF Exec, Numbered, TypeOK
  <2>2. command \in Commands
    BY <1>1, <2>1, ScriptType DEF TypeOK, command
  <2>3. Pkt(call.nextID + 1, command) \in Packet
    <3>1. call.nextID + 1 \in -1 .. 3
      BY <2>1
    <3> QED
      BY <2>2, <3>1, PktType
  <2>4. toServer' \in [Conns -> Seq(Packet)]
    BY <1>1, <1>6, <2>1, <2>3 DEF Exec, writePacket
  <2>5. call' = [call EXCEPT !.pc = "wait", !.nextID = call.nextID + 1] /\ call.nextID + 1 \in 0 .. 3
    BY <1>6, <2>1 DEF Exec
  <2>6. TypeOK'
    BY <1>1, <1>6, <2>4, <2>5 DEF Exec, TypeOK, server
  <2>7. Numbered' /\ OneSocket'
    BY <1>1, <1>6, <2>1, <2>5 DEF Exec, Numbered, OneSocket, TypeOK
  <2> QED
    BY <2>6, <2>7 DEF ClientInv
<1>7. CASE ReadAnswer
  <2>1. PICK p \in Packet :
          /\ Read(p)
          /\ IF p.bad THEN GiveUp("err")
             ELSE IF call.cmd < Len(Script(call.kind))
             THEN call' = [call EXCEPT !.pc = "exec", !.cmd = call.cmd + 1] /\ UNCHANGED <<results, sockets>>
             ELSE Return("nil")
    BY <1>7 DEF ReadAnswer
  <2>2. call.pc = "wait" /\ UNCHANGED <<peers, toServer, server>>
    BY <1>7 DEF ReadAnswer
  <2>3. toClient' \in [Conns -> Seq(Packet)]
    BY <1>1, <2>1, <2>2, ReadType
  <2>4. CASE GiveUp("err")
    BY <1>1, <2>2, <2>3, <2>4, GiveUpKeeps DEF Results
  <2>5. CASE Return("nil")
    BY <1>1, <2>2, <2>3, <2>5, ReturnKeeps DEF Results
  <2>6. CASE /\ call.cmd < Len(Script(call.kind))
             /\ call' = [call EXCEPT !.pc = "exec", !.cmd = call.cmd + 1] /\ UNCHANGED <<results, sockets>>
    <3>1. Len(Script(call.kind)) \in 1 .. 2 /\ call.cmd \in 1 .. 2
      BY <1>1, ScriptType DEF TypeOK
    <3>2. call.cmd + 1 \in 1 .. 2 /\ call.cmd + 1 <= Len(Script(call.kind))
      <4> DEFINE last == Len(Script(call.kind))
      <4>1. last \in 1 .. 2 /\ call.cmd \in 1 .. 2 /\ call.cmd < last
        BY <2>6, <3>1
      <4> HIDE DEF last
      <4>2. call.cmd + 1 \in 1 .. 2 /\ call.cmd + 1 <= last
        BY <4>1
      <4> QED
        BY <4>2 DEF last
    <3>3. TypeOK'
      BY <1>1, <2>2, <2>3, <2>6, <3>2 DEF TypeOK, server
    <3>4. Numbered' /\ OneSocket'
      BY <1>1, <2>2, <2>6 DEF Numbered, OneSocket, TypeOK
    <3> QED
      BY <3>3, <3>4 DEF ClientInv
  <2> QED
    BY <2>1, <2>4, <2>5, <2>6
<1>8. CASE IOFails \/ Timeout
  BY <1>1, <1>8, GiveUpKeeps DEF IOFails, Timeout, network, Results
<1>9. ASSUME NEW n \in Conns, CheckPassword(n)
      PROVE  ClientInv'
  <2>1. toServer' \in [Conns -> Seq(Packet)] /\ Head(toServer[n]) \in Packet
    BY <1>1, <1>9, TakeType DEF CheckPassword
  <2>2. Head(toServer[n]).id \in -1 .. 3
    BY <2>1 DEF Packet
  <2>3. \A id \in -1 .. 3 : Pkt(id, "") \in Packet
    BY PktType
  <2>4. PICK s \in Seq(Packet) : Answer(n, s)
    <3> DEFINE p == Head(toServer[n])
               reply == Pkt(IF p.body = "right" THEN p.id ELSE -1, "")
    <3>1. Answer(n, IF AuthPackets = 2 THEN <<Pkt(p.id, ""), reply>> ELSE <<reply>>)
      BY <1>9 DEF CheckPassword
    <3>2. reply \in Packet /\ Pkt(p.id, "") \in Packet
      <4>1. (IF p.body = "right" THEN p.id ELSE -1) \in -1 .. 3
        BY <2>2
      <4> QED
        BY <2>2, <2>3, <4>1
    <3> HIDE DEF p, reply
    <3>3. <<reply>> \in Seq(Packet) /\ <<Pkt(p.id, ""), reply>> \in Seq(Packet)
      BY <3>2, OneQueued, TwoQueued
    <3> QED
      BY <3>1, <3>3
  <2>5. toClient' \in [Conns -> Seq(Packet)]
    BY <1>1, <2>4, AnswerType
  <2>6. authed' \subseteq Conns /\ UNCHANGED <<call, results, sockets, peers, did>>
    BY <1>1, <1>9 DEF CheckPassword
  <2> QED
    BY <1>1, <2>1, <2>5, <2>6, ServerKeeps
<1>10. ASSUME NEW n \in Conns, Execute(n)
       PROVE  ClientInv'
  <2>1. toServer' \in [Conns -> Seq(Packet)] /\ Head(toServer[n]) \in Packet
    BY <1>1, <1>10, TakeType DEF Execute
  <2>2. PICK bad \in BOOLEAN :
          Answer(n, <<[Pkt(IF n \in authed THEN Head(toServer[n]).id ELSE -1, "") EXCEPT !.bad = bad]>>)
    BY <1>10 DEF Execute
  <2>3. PICK p \in Packet : Answer(n, <<p>>)
    <3>1. Head(toServer[n]).id \in -1 .. 3
      BY <2>1 DEF Packet
    <3>2. \A id \in -1 .. 3 : [Pkt(id, "") EXCEPT !.bad = bad] \in Packet
      BY DEF Pkt, Packet
    <3>3. (IF n \in authed THEN Head(toServer[n]).id ELSE -1) \in -1 .. 3
      BY <3>1
    <3> QED
      BY <2>2, <3>2, <3>3
  <2>4. toClient' \in [Conns -> Seq(Packet)]
    <3>1. <<p>> \in Seq(Packet)
      BY <2>3, OneQueued
    <3> QED
      BY <1>1, <2>3, <3>1, AnswerType
  <2>5. did' \in [Conns -> SUBSET Commands]
    BY <1>1, <1>10 DEF Execute
  <2> QED
    BY <1>1, <1>10, <2>1, <2>4, <2>5, ServerKeeps DEF Execute
<1>11. ASSUME NEW n \in Conns, Exit(n)
       PROVE  ClientInv'
  <2>1. toServer[n] \in Seq(Packet) /\ toServer[n] # <<>>
    BY <1>1, <1>11 DEF Exit
  <2>2. Head(toServer[n]) \in Packet
    BY <2>1
  <2>3. Pkt(Head(toServer[n]).id, "") \in Packet
    BY <2>2, PktType DEF Packet
  <2>4. PICK s \in {<<>>, <<Pkt(Head(toServer[n]).id, "")>>} : Answer(n, s)
    BY <1>11 DEF Exit
  <2>5. s \in Seq(Packet)
    <3> DEFINE p == Pkt(Head(toServer[n]).id, "")
    <3>1. p \in Packet /\ s \in {<<>>, <<p>>}
      BY <2>3, <2>4
    <3> HIDE DEF p
    <3>2. <<>> \in Seq(Packet) /\ <<p>> \in Seq(Packet)
      BY <3>1, EmptyQueue, OneQueued
    <3> QED
      BY <3>1, <3>2
  <2>6. toClient' \in [Conns -> Seq(Packet)]
    BY <1>1, <2>4, <2>5, AnswerType
  <2>7. did' \in [Conns -> SUBSET Commands] /\ toServer' \in [Conns -> Seq(Packet)]
    <3>1. <<>> \in Seq(Packet) /\ "DoExit" \in Commands
      BY EmptyQueue DEF Commands
    <3>2. did' \in [Conns -> SUBSET Commands]
      BY <1>1, <1>11, <3>1 DEF Exit
    <3> QED
      BY <1>11, <3>1, <3>2 DEF Exit
  <2> QED
    BY <1>1, <1>11, <2>6, <2>7, ServerKeeps DEF Exit
<1>12. ASSUME NEW n \in Conns, Drop(n)
       PROVE  ClientInv'
  BY <1>1, <1>12, ServerKeeps DEF Drop, server
<1>13. CASE UNCHANGED vars
  BY <1>1, <1>13, ServerKeeps DEF vars
<1> QED
  BY <1>2, <1>3, <1>4, <1>5, <1>6, <1>7, <1>8, <1>9, <1>10, <1>11, <1>12, <1>13 DEF Next, Client, Server

LEMMA ClientAlways == Spec => []ClientInv
<1>1. Init => ClientInv
  <2> SUFFICES ASSUME Init PROVE ClientInv
    OBVIOUS
  <2>1. 1 <= Len(Script("SaveAndExit"))
    BY ScriptType DEF Kinds
  <2>2. <<>> \in Seq(Packet)
    OBVIOUS
  <2>3. TypeOK
    <3>1. MaxCalls \in Nat
      BY RconAssumption
    <3>2. call \in CallType
      <4>1. 0 \in 0 .. MaxCalls /\ 0 \in 0 .. 3 /\ 1 \in 1 .. 2
        BY <3>1
      <4> QED
        BY <4>1 DEF Init, Kinds, CallType
    <3>3. call.cmd <= Len(Script(call.kind))
      BY <2>1 DEF Init
    <3> QED
      BY <2>2, <3>2, <3>3 DEF Init, TypeOK, CallType, Results
  <2> QED
    BY <2>3 DEF Init, ClientInv, Numbered, OneSocket
<1> QED
  BY <1>1, ClientStep, PTL DEF Spec

\* Every variable keeps its type; in particular no call runs past the end of its script and
\* request ids stay within three, against any server.
THEOREM RconTyping == Spec => []TypeOK
<1>1. ClientInv => TypeOK
  BY DEF ClientInv
<1> QED
  BY <1>1, ClientAlways, PTL

\* Dial, AnnounceShutdown and SaveAndExit close their connection on every path out, against any
\* server: between two calls no connection is open.
THEOREM RconNoLeak == Spec => []NoLeak
<1>1. ClientInv => NoLeak
  BY DEF ClientInv, OneSocket, NoLeak
<1> QED
  BY <1>1, ClientAlways, PTL

-----------------------------------------------------------------------------
(***************************************************************************)
(* Answers.  The client compares no ids, so the invariant has to follow    *)
(* the one packet a connection carries: the request the client waits for,  *)
(* or its answer.  A packet that answers a command comes from a server     *)
(* that accepted the password, or from one that is gone.                   *)
(***************************************************************************)

LEMMA OnePacket ==
  ASSUME NEW p
  PROVE  /\ Head(<<p>>) = p /\ Tail(<<p>>) = <<>> /\ <<p>> # <<>>
         /\ Append(<<>>, p) = <<p>> /\ <<>> \o <<p>> = <<p>> /\ <<>> \o <<>> = <<>>
<1>1. <<>> \in Seq({p})
  OBVIOUS
<1> QED
  BY <1>1

Trusted == call.n \in authed \/ call.n \notin peers

Unheard == \A n \in Conns : n \notin peers => toServer[n] = <<>>

Untouched == \A n \in Conns : n > call.n \/ (n = call.n /\ call.pc = "dial") => toClient[n] = <<>>

AuthPipe ==
  call.pc = "auth" =>
    \/ toClient[call.n] = <<>> /\ toServer[call.n] \in {<<>>, <<Pkt(1, call.pw)>>}
    \/ /\ toServer[call.n] = <<>>
       /\ \E p \in Packet : toClient[call.n] = <<p>> /\ (p.id = -1 \/ Trusted)

ExecPipe ==
  call.pc = "exec" => toServer[call.n] = <<>> /\ toClient[call.n] = <<>> /\ Trusted

WaitPipe ==
  call.pc = "wait" =>
    /\ Trusted
    /\ \/ toClient[call.n] = <<>> /\ toServer[call.n] \in {<<>>, <<Pkt(call.nextID, command)>>}
       \/ /\ toServer[call.n] = <<>> /\ command \in did[call.n]
          /\ \E p \in Packet : toClient[call.n] = <<p>> /\ p.id = call.nextID

Saved == call.pc \in {"exec", "wait"} /\ call.cmd = 2 => "SaveWorld" \in did[call.n]

PipeInv == Unheard /\ Untouched /\ AuthPipe /\ ExecPipe /\ WaitPipe /\ Saved /\ NilMeansDone

\* The call returns, with nil only if its first command was executed.
LEMMA ReturnPipe ==
  ASSUME ClientInv, PipeInv, call.pc # "idle", NEW result, Return(result),
         result = "nil" => did[call.n] \cap {"SaveWorld", "ServerChat"} # {},
         UNCHANGED <<peers, toServer, server>>,
         \A n \in Conns \ {call.n} : toClient'[n] = toClient[n]
  PROVE  PipeInv'
<1>1. call' = [call EXCEPT !.pc = "idle"] /\ call'.pc = "idle" /\ call'.n = call.n /\ call.n \in Conns
  BY DEF Return, ClientInv, TypeOK, Numbered
<1>2. AuthPipe' /\ ExecPipe' /\ WaitPipe' /\ Saved'
  BY <1>1 DEF AuthPipe, ExecPipe, WaitPipe, Saved
<1>3. Unheard'
  BY DEF PipeInv, Unheard
<1>4. Untouched'
  <2> SUFFICES ASSUME NEW n \in Conns, n > call.n PROVE toClient'[n] = <<>>
    BY <1>1 DEF Untouched
  <2>1. n # call.n
    BY <1>1 DEF Conns
  <2> QED
    BY <2>1 DEF PipeInv, Untouched
<1>5. NilMeansDone'
  <2>1. results' = [results EXCEPT ![call.n] = result] /\ did' = did
    BY DEF Return, server
  <2> QED
    BY <1>1, <2>1 DEF PipeInv, NilMeansDone, ClientInv, TypeOK
<1> QED
  BY <1>2, <1>3, <1>4, <1>5 DEF PipeInv

\* An error of DoExit comes after the answer to SaveWorld.
LEMMA GiveUpPipe ==
  ASSUME ClientInv, PipeInv, call.pc # "idle", call.pc # "dial", GiveUp("err"),
         UNCHANGED <<peers, toServer, server>>,
         \A n \in Conns \ {call.n} : toClient'[n] = toClient[n]
  PROVE  PipeInv'
<1>1. PICK r : Return(r) /\ (r = "nil" => call.pc # "auth" /\ command = "DoExit")
  BY DEF GiveUp
<1>2. ASSUME call.pc # "auth", command = "DoExit"
      PROVE  "SaveWorld" \in did[call.n]
  <2>1. call.pc \in {"exec", "wait"} /\ call.kind \in Kinds /\ call.cmd \in 1 .. 2
    BY <1>2 DEF ClientInv, TypeOK
  <2>2. call.cmd = 2
    BY <1>2, <2>1 DEF command, Script, Kinds
  <2> QED
    BY <2>1, <2>2 DEF PipeInv, Saved
<1>3. r = "nil" => did[call.n] \cap {"SaveWorld", "ServerChat"} # {}
  BY <1>1, <1>2
<1> QED
  BY <1>1, <1>3, ReturnPipe

\* The server does something the client does not see.
LEMMA UnseenPipe ==
  ASSUME ClientInv, PipeInv, UNCHANGED <<call, results, toClient>>,
         \A n \in Conns : did[n] \subseteq did'[n],
         Unheard',
         call.pc \notin {"idle", "dial"} => toServer'[call.n] = toServer[call.n] \/ toServer'[call.n] = <<>>,
         Trusted => Trusted'
  PROVE  PipeInv'
<1>1. call.pc # "idle" => call.n \in Conns
  BY DEF ClientInv, Numbered
<1>2. Untouched'
  BY DEF PipeInv, Untouched
<1>3. AuthPipe'
  BY DEF PipeInv, AuthPipe
<1>4. ExecPipe'
  BY DEF PipeInv, ExecPipe
<1>5. command' = command
  BY DEF command
<1>6. WaitPipe'
  BY <1>1, <1>5 DEF PipeInv, WaitPipe
<1>7. Saved'
  BY <1>1 DEF PipeInv, Saved
<1>8. NilMeansDone'
  BY DEF PipeInv, NilMeansDone
<1> QED
  BY <1>2, <1>3, <1>4, <1>6, <1>7, <1>8 DEF PipeInv

\* The server takes the one packet of the call under way and answers it.
LEMMA AnswerPipe ==
  ASSUME ClientInv, PipeInv, UNCHANGED <<call, results>>, call.pc \in {"auth", "wait"},
         NEW p \in Packet, Answer(call.n, <<p>>), toClient[call.n] = <<>>,
         toServer'[call.n] = <<>>, Unheard',
         \A n \in Conns : did[n] \subseteq did'[n],
         call.pc = "auth" => p.id = -1 \/ Trusted',
         call.pc = "wait" => Trusted' /\ p.id = call.nextID /\ command \in did'[call.n]
  PROVE  PipeInv'
<1>1. call.n \in Conns /\ call.n \in sockets
  BY DEF ClientInv, Numbered, OneSocket
<1>2. toClient' = [toClient EXCEPT ![call.n] = <<>> \o <<p>>]
  BY <1>1 DEF Answer
<1>3. toClient'[call.n] = <<p>> /\ \A n \in Conns \ {call.n} : toClient'[n] = toClient[n]
  BY <1>1, <1>2, OnePacket DEF ClientInv, TypeOK
<1>4. Untouched'
  <2> SUFFICES ASSUME NEW n \in Conns, n > call.n PROVE toClient'[n] = <<>>
    BY DEF Untouched
  <2>1. n # call.n
    BY <1>1 DEF Conns
  <2> QED
    BY <1>3, <2>1 DEF PipeInv, Untouched
<1>5. command' = command
  BY DEF command
<1>6. AuthPipe' /\ ExecPipe'
  BY <1>3 DEF AuthPipe, ExecPipe
<1>7. WaitPipe'
  BY <1>3, <1>5 DEF WaitPipe
<1>8. Saved'
  BY <1>1 DEF PipeInv, Saved
<1>9. NilMeansDone'
  BY DEF PipeInv, NilMeansDone
<1> QED
  BY <1>4, <1>6, <1>7, <1>8, <1>9 DEF PipeInv

\* Nothing is left in the pipe after the one packet is read.
LEMMA ReadOne ==
  ASSUME ClientInv, NEW p, Read(p), call.n \in Conns
  PROVE  /\ p = Head(toClient[call.n]) /\ toClient[call.n] # <<>>
         /\ toClient'[call.n] = Tail(toClient[call.n])
         /\ \A n \in Conns \ {call.n} : toClient'[n] = toClient[n]
BY DEF Read, ClientInv, TypeOK

LEMMA TakeOne ==
  ASSUME ClientInv, NEW n \in Conns, Take(n)
  PROVE  /\ toServer'[n] = Tail(toServer[n])
         /\ \A k \in Conns \ {n} : toServer'[k] = toServer[k]
BY DEF Take, ClientInv, TypeOK

\* A packet on a connection nobody listens to any more, or not the one of the call under way.
LEMMA StrayTake ==
  ASSUME ClientInv, PipeInv, NEW n \in Conns, Take(n), NEW s, Answer(n, s), n \in peers,
         UNCHANGED <<call, results, peers>>, authed \subseteq authed',
         \A k \in Conns : did[k] \subseteq did'[k],
         n # call.n \/ call.pc \in {"idle", "dial"}
  PROVE  PipeInv'
<1>1. n \notin sockets
  BY DEF ClientInv, OneSocket
<1>2. toClient' = toClient
  BY <1>1 DEF Answer
<1>3. \A k \in Conns \ {n} : toServer'[k] = toServer[k]
  BY TakeOne
<1>4. Unheard'
  BY <1>3 DEF PipeInv, Unheard
<1>5. call.pc \notin {"idle", "dial"} => toServer'[call.n] = toServer[call.n]
  BY <1>3 DEF ClientInv, Numbered
<1>6. Trusted => Trusted'
  BY DEF Trusted
<1> QED
  BY <1>2, <1>4, <1>5, <1>6, UnseenPipe

\* What the server finds on the connection of the call under way.
LEMMA Heard ==
  ASSUME ClientInv, PipeInv, call.pc \notin {"idle", "dial"}, toServer[call.n] # <<>>
  PROVE  /\ call.pc \in {"auth", "wait"} /\ toClient[call.n] = <<>>
         /\ call.pc = "auth" => toServer[call.n] = <<Pkt(1, call.pw)>>
         /\ call.pc = "wait" => toServer[call.n] = <<Pkt(call.nextID, command)>> /\ Trusted
         /\ Tail(toServer[call.n]) = <<>>
         /\ call.pc = "auth" => Head(toServer[call.n]) = Pkt(1, call.pw)
         /\ call.pc = "wait" => Head(toServer[call.n]) = Pkt(call.nextID, command)
<1>1. call.pc \in {"auth", "exec", "wait"}
  BY DEF ClientInv, TypeOK
<1>2. call.pc # "exec"
  BY DEF PipeInv, ExecPipe
<1>3. call.pc = "auth" => toServer[call.n] = <<Pkt(1, call.pw)>> /\ toClient[call.n] = <<>>
  BY DEF PipeInv, AuthPipe
<1>4. call.pc = "wait" =>
        toServer[call.n] = <<Pkt(call.nextID, command)>> /\ toClient[call.n] = <<>> /\ Trusted
  BY DEF PipeInv, WaitPipe
<1>5. /\ Tail(<<Pkt(1, call.pw)>>) = <<>> /\ Head(<<Pkt(1, call.pw)>>) = Pkt(1, call.pw)
      /\ Tail(<<Pkt(call.nextID, command)>>) = <<>>
      /\ Head(<<Pkt(call.nextID, command)>>) = Pkt(call.nextID, command)
  BY OnePacket
<1> QED
  BY <1>1, <1>2, <1>3, <1>4, <1>5

LEMMA CommandType ==
  ASSUME ClientInv, call.pc # "idle"
  PROVE  /\ command \in Commands
         /\ call.cmd = 1 => command \in {"SaveWorld", "ServerChat"}
         /\ call.cmd < Len(Script(call.kind)) => call.cmd = 1 /\ command = "SaveWorld"
<1>1. call.cmd \in 1 .. 2 /\ call.cmd <= Len(Script(call.kind)) /\ call.kind \in Kinds
  BY DEF ClientInv, TypeOK
<1>2. command \in Commands
  BY <1>1, ScriptType DEF command
<1>3. call.cmd = 1 => command \in {"SaveWorld", "ServerChat"}
  BY <1>1, ScriptType DEF command
<1>4. call.cmd < Len(Script(call.kind)) => call.cmd = 1 /\ Len(Script(call.kind)) = 2
  <2> DEFINE last == Len(Script(call.kind))
  <2>1. last \in 1 .. 2
    BY <1>1, ScriptType
  <2> HIDE DEF last
  <2>2. call.cmd < last => call.cmd = 1 /\ last = 2
    BY <1>1, <2>1
  <2> QED
    BY <2>2 DEF last
<1>5. Len(Script(call.kind)) = 2 => Script(call.kind)[1] = "SaveWorld"
  BY <1>1, ScriptType
<1> QED
  BY <1>2, <1>3, <1>4, <1>5 DEF command

LEMMA PipeStep ==
  ASSUME AuthPackets = 1, ClientInv, PipeInv, [Next]_vars
  PROVE  PipeInv'
<1>1. ASSUME NEW kind \in Kinds, NEW pw \in {"right", "wrong"}, Call(kind, pw)
      PROVE  PipeInv'
  <2>1. /\ call'.pc = "dial" /\ call'.n = call.n + 1 /\ call.pc = "idle"
        /\ UNCHANGED <<results, sockets, peers, toServer, toClient, authed, did>>
    BY <1>1 DEF Call, network, server
  <2>2. AuthPipe' /\ ExecPipe' /\ WaitPipe' /\ Saved'
    BY <2>1 DEF AuthPipe, ExecPipe, WaitPipe, Saved
  <2>3. Untouched'
    <3> SUFFICES ASSUME NEW n \in Conns, n > call.n + 1 \/ n = call.n + 1 PROVE toClient[n] = <<>>
      BY <2>1 DEF Untouched
    <3>1. n > call.n
      BY DEF Conns, ClientInv, TypeOK
    <3> QED
      BY <3>1 DEF PipeInv, Untouched
  <2> QED
    BY <2>1, <2>2, <2>3 DEF PipeInv, Unheard, NilMeansDone
<1>2. CASE Dial
  <2>1. /\ call.pc = "dial" /\ call.n \in Conns /\ call.nextID = 0
        /\ UNCHANGED <<results, toClient, authed, did>> /\ peers' = peers \cup {call.n}
    BY <1>2 DEF Dial, ClientInv, Numbered, server
  <2>2. call' = [call EXCEPT !.pc = "auth", !.nextID = 1]
    BY <1>2, <2>1 DEF Dial
  <2>3. call'.pc = "auth" /\ call'.n = call.n /\ call'.pw = call.pw
    BY <2>2 DEF ClientInv, TypeOK
  <2>4. toServer' = [toServer EXCEPT ![call.n] = <<Pkt(1, call.pw)>>]
    BY <1>2, <2>1 DEF Dial
  <2>5. toServer'[call.n] = <<Pkt(1, call.pw)>> /\ \A n \in Conns \ {call.n} : toServer'[n] = toServer[n]
    BY <2>1, <2>4 DEF ClientInv, TypeOK
  <2>6. toClient[call.n] = <<>>
    BY <2>1 DEF PipeInv, Untouched
  <2>7. Unheard'
    BY <2>1, <2>5 DEF PipeInv, Unheard
  <2>8. Untouched'
    BY <2>1, <2>3 DEF PipeInv, Untouched
  <2>9. AuthPipe'
    BY <2>1, <2>3, <2>5, <2>6 DEF AuthPipe
  <2>10. ExecPipe' /\ WaitPipe' /\ Saved'
    BY <2>3 DEF ExecPipe, WaitPipe, Saved
  <2>11. NilMeansDone'
    BY <2>1 DEF PipeInv, NilMeansDone
  <2> QED
    BY <2>7, <2>8, <2>9, <2>10, <2>11 DEF PipeInv
<1>3. CASE DialFails
  <2>1. call.pc = "dial" /\ Return("err") /\ UNCHANGED <<peers, toServer, toClient, server>>
    BY <1>3 DEF DialFails, network
  <2> QED
    BY <2>1, ReturnPipe
<1>4. CASE ReadAuth
  <2>1. PICK p \in Packet :
          /\ Read(p)
          /\ IF p.bad \/ p.id = -1
             THEN Return(IF p.bad THEN "err" ELSE "ErrAuthFailed")
             ELSE call' = [call EXCEPT !.pc = "exec"] /\ UNCHANGED <<results, sockets>>
    BY <1>4 DEF ReadAuth
  <2>2. call.pc = "auth" /\ call.n \in Conns /\ call.cmd = 1 /\ UNCHANGED <<peers, toServer, server>>
    BY <1>4 DEF ReadAuth, ClientInv, Numbered
  <2>3. /\ p = Head(toClient[call.n]) /\ toClient[call.n] # <<>>
        /\ toClient'[call.n] = Tail(toClient[call.n])
        /\ \A n \in Conns \ {call.n} : toClient'[n] = toClient[n]
    BY <2>1, <2>2, ReadOne
  <2>4. CASE p.bad \/ p.id = -1
    <3>1. PICK r : Return(r) /\ r # "nil"
      BY <2>1, <2>4
    <3> QED
      BY <2>2, <2>3, <3>1, ReturnPipe
  <2>5. CASE ~(p.bad \/ p.id = -1)
    <3>1. /\ call'.pc = "exec" /\ call'.n = call.n /\ call'.cmd = call.cmd
          /\ UNCHANGED <<results, sockets>>
      BY <2>1, <2>5 DEF ClientInv, TypeOK
    <3>2. PICK q \in Packet : toServer[call.n] = <<>> /\ toClient[call.n] = <<q>> /\ (q.id = -1 \/ Trusted)
      BY <2>2, <2>3 DEF PipeInv, AuthPipe
    <3>3. p = q /\ toClient'[call.n] = <<>>
      BY <2>3, <3>2, OnePacket
    <3>4. Trusted'
      BY <2>2, <2>5, <3>1, <3>2, <3>3 DEF Trusted, server
    <3>5. Untouched'
      <4> SUFFICES ASSUME NEW n \in Conns, n > call.n PROVE toClient'[n] = <<>>
        BY <3>1 DEF Untouched
      <4>1. n # call.n
        BY <2>2 DEF Conns
      <4> QED
        BY <2>3, <4>1 DEF PipeInv, Untouched
    <3>6. AuthPipe' /\ WaitPipe' /\ Saved'
      BY <2>2, <3>1 DEF AuthPipe, WaitPipe, Saved
    <3>7. ExecPipe'
      BY <2>2, <3>1, <3>2, <3>3, <3>4 DEF ExecPipe
    <3>8. Unheard' /\ NilMeansDone'
      BY <2>2, <3>1 DEF PipeInv, Unheard, NilMeansDone, server
    <3> QED
      BY <3>5, <3>6, <3>7, <3>8 DEF PipeInv
  <2> QED
    BY <2>4, <2>5
<1>5. CASE Exec
  <2>1. /\ call.pc = "exec" /\ call.n \in Conns /\ call.nextID \in 1 .. 2
        /\ UNCHANGED <<results, sockets, peers, toClient, authed, did>>
    BY <1>5 DEF Exec, ClientInv, Numbered, TypeOK, server
  <2>2. /\ call'.pc = "wait" /\ call'.n = call.n /\ call'.cmd = call.cmd /\ call'.kind = call.kind
        /\ call'.nextID = call.nextID + 1
    BY <1>5 DEF Exec, ClientInv, TypeOK
  <2>3. command' = command
    BY <2>2 DEF command
  <2>4. toServer[call.n] = <<>> /\ toClient[call.n] = <<>> /\ Trusted
    BY <2>1 DEF PipeInv, ExecPipe
  <2>5. /\ toServer'[call.n] \in {<<>>, <<Pkt(call.nextID + 1, command)>>}
        /\ \A n \in Conns \ {call.n} : toServer'[n] = toServer[n]
        /\ call.n \notin peers => toServer' = toServer
    <3> DEFINE p == Pkt(call.nextID + 1, command)
    <3>1. toServer' = IF call.n \in peers THEN [toServer EXCEPT ![call.n] = Append(<<>>, p)] ELSE toServer
      BY <1>5, <2>4 DEF Exec, writePacket
    <3> HIDE DEF p
    <3>2. Append(<<>>, p) = <<p>>
      BY OnePacket
    <3>3. /\ toServer'[call.n] \in {<<>>, <<p>>}
          /\ \A n \in Conns \ {call.n} : toServer'[n] = toServer[n]
      BY <2>1, <2>4, <3>1, <3>2 DEF ClientInv, TypeOK
    <3> QED
      BY <3>1, <3>3 DEF p
  <2>6. Unheard'
    BY <2>1, <2>5 DEF PipeInv, Unheard
  <2>7. Untouched'
    BY <2>1, <2>2 DEF PipeInv, Untouched
  <2>8. Trusted'
    BY <2>1, <2>2, <2>4 DEF Trusted
  <2>9. WaitPipe'
    BY <2>1, <2>2, <2>3, <2>4, <2>5, <2>8 DEF WaitPipe
  <2>10. AuthPipe' /\ ExecPipe'
    BY <2>2 DEF AuthPipe, ExecPipe
  <2>11. Saved' /\ NilMeansDone'
    BY <2>1, <2>2 DEF PipeInv, Saved, NilMeansDone
  <2> QED
    BY <2>6, <2>7, <2>9, <2>10, <2>11 DEF PipeInv
<1>6. CASE ReadAnswer
  <2>1. PICK p \in Packet :
          /\ Read(p)
          /\ IF p.bad THEN GiveUp("err")
             ELSE IF call.cmd < Len(Script(call.kind))
             THEN call' = [call EXCEPT !.pc = "exec", !.cmd = call.cmd + 1] /\ UNCHANGED <<results, sockets>>
             ELSE Return("nil")
    BY <1>6 DEF ReadAnswer
  <2>2. call.pc = "wait" /\ call.n \in Conns /\ UNCHANGED <<peers, toServer, server>>
    BY <1>6 DEF ReadAnswer, ClientInv, Numbered
  <2>3. /\ p = Head(toClient[call.n]) /\ toClient[call.n] # <<>>
        /\ toClient'[call.n] = Tail(toClient[call.n])
        /\ \A n \in Conns \ {call.n} : toClient'[n] = toClient[n]
    BY <2>1, <2>2, ReadOne
  <2>4. PICK q \in Packet : toServer[call.n] = <<>> /\ command \in did[call.n] /\ toClient[call.n] = <<q>>
    BY <2>2, <2>3 DEF PipeInv, WaitPipe
  <2>5. CASE GiveUp("err")
    BY <2>2, <2>3, <2>5, GiveUpPipe
  <2>6. CASE Return("nil")
    <3>1. call.cmd \in 1 .. 2
      BY DEF ClientInv, TypeOK
    <3>2. call.cmd = 1 => did[call.n] \cap {"SaveWorld", "ServerChat"} # {}
      BY <2>2, <2>4, CommandType
    <3>3. call.cmd = 2 => "SaveWorld" \in did[call.n]
      BY <2>2 DEF PipeInv, Saved
    <3>4. did[call.n] \cap {"SaveWorld", "ServerChat"} # {}
      BY <3>1, <3>2, <3>3
    <3> QED
      BY <2>2, <2>3, <2>6, <3>4, ReturnPipe
  <2>7. CASE /\ call.cmd < Len(Script(call.kind))
             /\ call' = [call EXCEPT !.pc = "exec", !.cmd = call.cmd + 1]
             /\ UNCHANGED <<results, sockets>>
    <3>1. call.cmd = 1 /\ "SaveWorld" \in did[call.n]
      BY <2>2, <2>4, <2>7, CommandType
    <3>2. call'.pc = "exec" /\ call'.n = call.n
      BY <2>7 DEF ClientInv, TypeOK
    <3>3. toClient'[call.n] = <<>>
      BY <2>3, <2>4, OnePacket
    <3>4. Trusted'
      BY <2>2, <3>2 DEF PipeInv, WaitPipe, Trusted, server
    <3>5. Untouched'
      <4> SUFFICES ASSUME NEW n \in Conns, n > call.n PROVE toClient'[n] = <<>>
        BY <3>2 DEF Untouched
      <4>1. n # call.n
        BY <2>2 DEF Conns
      <4> QED
        BY <2>3, <4>1 DEF PipeInv, Untouched
    <3>6. AuthPipe' /\ WaitPipe'
      BY <3>2 DEF AuthPipe, WaitPipe
    <3>7. ExecPipe'
      BY <2>2, <2>4, <3>2, <3>3, <3>4 DEF ExecPipe
    <3>8. Saved' /\ Unheard' /\ NilMeansDone'
      BY <2>2, <2>7, <3>1, <3>2 DEF PipeInv, Saved, Unheard, NilMeansDone, server
    <3> QED
      BY <3>5, <3>6, <3>7, <3>8 DEF PipeInv
  <2> QED
    BY <2>1, <2>5, <2>6, <2>7
<1>7. CASE IOFails \/ Timeout
  <2>1. /\ call.pc # "idle" /\ call.pc # "dial" /\ GiveUp("err")
        /\ UNCHANGED <<peers, toServer, toClient, server>>
    BY <1>7 DEF IOFails, Timeout, network
  <2> QED
    BY <2>1, GiveUpPipe
<1>8. ASSUME NEW n \in Conns, CheckPassword(n)
      PROVE  PipeInv'
  <2> DEFINE p == Head(toServer[n])
             reply == Pkt(IF p.body = "right" THEN p.id ELSE -1, "")
  <2>1. /\ n \in peers /\ toServer[n] # <<>> /\ p.body \in {"right", "wrong"}
        /\ authed' = IF p.body = "right" THEN authed \cup {n} ELSE authed
        /\ Take(n) /\ UNCHANGED <<call, results, sockets, peers, did>>
        /\ Answer(n, <<reply>>)
    <3>1. Answer(n, IF AuthPackets = 2 THEN <<Pkt(p.id, ""), reply>> ELSE <<reply>>)
      BY <1>8 DEF CheckPassword
    <3>2. /\ n \in peers /\ toServer[n] # <<>> /\ p.body \in {"right", "wrong"}
          /\ authed' = IF p.body = "right" THEN authed \cup {n} ELSE authed
          /\ Take(n) /\ UNCHANGED <<call, results, sockets, peers, did>>
      BY <1>8 DEF CheckPassword
    <3> HIDE DEF p, reply
    <3>3. (IF AuthPackets = 2 THEN <<Pkt(p.id, ""), reply>> ELSE <<reply>>) = <<reply>>
      OBVIOUS
    <3> QED
      BY <3>1, <3>2, <3>3
  <2>2. CASE n # call.n \/ call.pc \in {"idle", "dial"}
    <3> HIDE DEF p, reply
    <3> QED
      BY <2>1, <2>2, StrayTake
  <2>3. CASE n = call.n /\ call.pc \notin {"idle", "dial"}
    <3>1. /\ call.pc \in {"auth", "wait"} /\ toClient[call.n] = <<>> /\ Tail(toServer[n]) = <<>>
          /\ call.pc = "auth" => p = Pkt(1, call.pw)
          /\ call.pc = "wait" => p = Pkt(call.nextID, command)
      BY <2>1, <2>3, Heard
    <3>2. call.pc # "wait"
      <4>1. command \notin {"right", "wrong"}
        BY <2>3, CommandType DEF Commands
      <4>2. Pkt(call.nextID, command).body = command
        BY PktFields
      <4> HIDE DEF p
      <4> QED
        BY <2>1, <3>1, <4>1, <4>2
    <3>3. p = Pkt(1, call.pw) /\ call.pw \in {"right", "wrong"}
      BY <3>1, <3>2 DEF ClientInv, TypeOK
    <3>4. reply \in Packet /\ (reply.id = -1 \/ p.body = "right")
      <4>1. p.id = 1 /\ 1 \in -1 .. 3 /\ -1 \in -1 .. 3
        BY <3>3, PktFields
      <4>2. Pkt(1, "") \in Packet /\ Pkt(-1, "") \in Packet /\ Pkt(-1, "").id = -1
        BY <4>1, PktType
      <4> QED
        BY <4>1, <4>2
    <3>5. toServer'[call.n] = <<>> /\ \A k \in Conns \ {n} : toServer'[k] = toServer[k]
      BY <2>1, <2>3, <3>1, TakeOne
    <3>6. Unheard'
      BY <2>1, <3>5 DEF PipeInv, Unheard
    <3>7. reply.id = -1 \/ Trusted'
      BY <2>1, <2>3, <3>4 DEF Trusted
    <3> HIDE DEF p, reply
    <3> QED
      BY <2>1, <2>3, <3>1, <3>2, <3>4, <3>5, <3>6, <3>7, AnswerPipe
  <2> QED
    BY <2>2, <2>3
<1>9. ASSUME NEW n \in Conns, Execute(n)
      PROVE  PipeInv'
  <2> DEFINE p == Head(toServer[n])
  <2>1. /\ n \in peers /\ toServer[n] # <<>> /\ p.body \in Commands
        /\ did' = [did EXCEPT ![n] = @ \cup (IF n \in authed THEN {p.body} ELSE {})]
        /\ Take(n) /\ UNCHANGED <<call, results, sockets, peers, authed>>
    BY <1>9 DEF Execute
  <2>2. PICK bad \in BOOLEAN :
          Answer(n, <<[Pkt(IF n \in authed THEN p.id ELSE -1, "") EXCEPT !.bad = bad]>>)
    BY <1>9 DEF Execute
  <2>3. \A k \in Conns : did[k] \subseteq did'[k]
    BY <2>1 DEF ClientInv, TypeOK
  <2>4. CASE n # call.n \/ call.pc \in {"idle", "dial"}
    <3>1. PICK s : Answer(n, s)
      BY <2>2
    <3> HIDE DEF p
    <3> QED
      BY <2>1, <2>3, <2>4, <3>1, StrayTake
  <2>5. CASE n = call.n /\ call.pc \notin {"idle", "dial"}
    <3>1. /\ call.pc \in {"auth", "wait"} /\ toClient[call.n] = <<>> /\ Tail(toServer[n]) = <<>>
          /\ call.pc = "auth" => p = Pkt(1, call.pw)
          /\ call.pc = "wait" => p = Pkt(call.nextID, command) /\ Trusted
      BY <2>1, <2>5, Heard
    <3>2. call.pc = "wait"
      <4>1. call.pw \notin Commands
        BY DEF ClientInv, TypeOK, Commands
      <4> QED
        BY <2>1, <3>1, <4>1, PktFields
    <3>3. p = Pkt(call.nextID, command) /\ n \in authed
      BY <2>1, <2>5, <3>1, <3>2 DEF Trusted
    <3>4. p.id = call.nextID /\ p.body = command
      BY <3>3, PktFields
    <3>5. call.nextID \in -1 .. 3
      BY DEF ClientInv, TypeOK
    <3> DEFINE answer == [Pkt(call.nextID, "") EXCEPT !.bad = bad]
    <3>6. Answer(call.n, <<answer>>)
      BY <2>2, <2>5, <3>3, <3>4
    <3>7. answer \in Packet /\ answer.id = call.nextID
      BY <3>5 DEF Pkt, Packet
    <3>8. command \in did'[call.n]
      BY <2>1, <2>5, <3>3, <3>4 DEF ClientInv, TypeOK
    <3>9. toServer'[call.n] = <<>> /\ \A k \in Conns \ {n} : toServer'[k] = toServer[k]
      BY <2>1, <2>5, <3>1, TakeOne
    <3>10. Unheard'
      BY <2>1, <3>9 DEF PipeInv, Unheard
    <3>11. Trusted'
      BY <2>1, <2>5, <3>3 DEF Trusted
    <3> HIDE DEF answer, p
    <3> QED
      BY <2>1, <2>3, <3>1, <3>2, <3>6, <3>7, <3>8, <3>9, <3>10, <3>11, AnswerPipe
  <2> QED
    BY <2>4, <2>5
<1>10. ASSUME NEW n \in Conns, Exit(n)
       PROVE  PipeInv'
  <2>0. call.nextID \in -1 .. 3
    BY DEF ClientInv, TypeOK
  <2>1. /\ toServer[n] # <<>> /\ Head(toServer[n]).body = "DoExit" /\ peers' = {}
        /\ did' = [did EXCEPT ![n] = @ \cup {"DoExit"}]
        /\ toServer' = [k \in Conns |-> <<>>] /\ UNCHANGED <<call, results, sockets>>
    BY <1>10 DEF Exit
  <2>2. PICK s \in {<<>>, <<Pkt(Head(toServer[n]).id, "")>>} : Answer(n, s)
    BY <1>10 DEF Exit
  <2>3. \A k \in Conns : did[k] \subseteq did'[k] /\ toServer'[k] = <<>>
    BY <2>1 DEF ClientInv, TypeOK
  <2>4. Unheard' /\ Trusted'
    BY <2>1 DEF Unheard, Trusted
  <2>5. call.pc # "idle" => call.n \in Conns
    BY DEF ClientInv, Numbered
  <2>6. ASSUME toClient' = toClient
        PROVE  PipeInv'
    BY <2>1, <2>3, <2>4, <2>5, <2>6, UnseenPipe
  <2>7. CASE n \notin sockets
    BY <2>2, <2>6, <2>7 DEF Answer
  <2>8. CASE n \in sockets
    <3>1. n = call.n /\ call.pc \notin {"idle", "dial"}
      BY <2>8 DEF ClientInv, OneSocket
    <3>2. /\ call.pc \in {"auth", "wait"} /\ toClient[call.n] = <<>>
          /\ call.pc = "auth" => Head(toServer[n]) = Pkt(1, call.pw)
          /\ call.pc = "wait" => Head(toServer[n]) = Pkt(call.nextID, command)
      BY <2>1, <3>1, Heard
    <3>3. call.pc = "wait"
      <4>1. call.pw # "DoExit"
        BY DEF ClientInv, TypeOK
      <4>2. Pkt(1, call.pw).body = call.pw
        BY PktFields
      <4> QED
        BY <2>1, <3>2, <4>1, <4>2
    <3>4. Head(toServer[n]).id = call.nextID /\ command = "DoExit"
      <4>1. Pkt(call.nextID, command).id = call.nextID /\ Pkt(call.nextID, command).body = command
        BY PktFields
      <4> QED
        BY <2>1, <3>2, <3>3, <4>1
    <3>5. CASE s = <<>>
      <4>1. toClient' = [toClient EXCEPT ![n] = <<>> \o <<>>]
        BY <2>2, <2>8, <3>1, <3>2, <3>5 DEF Answer
      <4>2. <<>> \o <<>> = <<>>
        BY OnePacket
      <4>3. toClient' = toClient
        BY <3>1, <3>2, <4>1, <4>2 DEF ClientInv, TypeOK
      <4> QED
        BY <2>6, <4>3
    <3>6. CASE s = <<Pkt(Head(toServer[n]).id, "")>>
      <4> DEFINE answer == Pkt(call.nextID, "")
      <4>1. Answer(call.n, <<answer>>)
        BY <2>2, <3>1, <3>4, <3>6
      <4>2. answer \in Packet /\ answer.id = call.nextID
        BY <2>0, PktType
      <4>3. command \in did'[call.n]
        BY <2>1, <3>1, <3>4 DEF ClientInv, TypeOK
      <4> HIDE DEF answer
      <4> QED
        BY <2>1, <2>3, <2>4, <2>5, <3>2, <3>3, <4>1, <4>2, <4>3, AnswerPipe
    <3> QED
      BY <2>2, <3>5, <3>6
  <2> QED
    BY <2>7, <2>8
<1>11. ASSUME NEW n \in Conns, Drop(n)
       PROVE  PipeInv'
  <2>1. /\ peers' = peers \ {n} /\ toServer' = [toServer EXCEPT ![n] = <<>>]
        /\ UNCHANGED <<call, results, sockets, toClient, authed, did>>
    BY <1>11 DEF Drop, server
  <2>2. toServer'[n] = <<>> /\ \A k \in Conns \ {n} : toServer'[k] = toServer[k]
    BY <2>1 DEF ClientInv, TypeOK
  <2>3. Unheard'
    BY <2>1, <2>2 DEF PipeInv, Unheard
  <2>4. Trusted => Trusted'
    BY <2>1 DEF Trusted
  <2>5. call.pc # "idle" => toServer'[call.n] = toServer[call.n] \/ toServer'[call.n] = <<>>
    BY <2>2 DEF ClientInv, Numbered
  <2> QED
    BY <2>1, <2>3, <2>4, <2>5, UnseenPipe
<1>12. CASE UNCHANGED vars
  BY <1>12, UnseenPipe DEF vars, PipeInv, Unheard, Trusted
<1> QED
  BY <1>1, <1>2, <1>3, <1>4, <1>5, <1>6, <1>7, <1>8, <1>9, <1>10, <1>11, <1>12
  DEF Next, Client, Server

LEMMA PipeAlways == AuthPackets = 1 => (Spec => []PipeInv)
<1> SUFFICES ASSUME AuthPackets = 1 PROVE Spec => []PipeInv
  OBVIOUS
<1>1. Init => PipeInv
  <2> SUFFICES ASSUME Init PROVE PipeInv
    OBVIOUS
  <2>1. Unheard /\ Untouched /\ NilMeansDone
    BY DEF Init, Unheard, Untouched, NilMeansDone
  <2>2. AuthPipe /\ ExecPipe /\ WaitPipe /\ Saved
    BY DEF Init, AuthPipe, ExecPipe, WaitPipe, Saved
  <2> QED
    BY <2>1, <2>2 DEF PipeInv
<1>2. ClientInv /\ PipeInv /\ [Next]_vars => PipeInv'
  BY PipeStep
<1> QED
  BY <1>1, <1>2, ClientAlways, PTL DEF Spec

\* Against a server that answers a password with one packet, AnnounceShutdown and SaveAndExit
\* return nil only if the server executed their first command: nil from SaveAndExit means the world
\* was saved, whatever was dropped, late, refused or malformed.
THEOREM RconNilMeansDone == AuthPackets = 1 => (Spec => []NilMeansDone)
<1>1. PipeInv => NilMeansDone
  BY DEF PipeInv
<1> QED
  BY <1>1, PipeAlways, PTL

\* Against such a server the packet Exec takes for its answer, without comparing ids, carries the
\* id of the request it waits for.
THEOREM RconAnswersMatch == AuthPackets = 1 => (Spec => []AnswersMatch)
<1>1. PipeInv => AnswersMatch
  BY OnePacket DEF PipeInv, WaitPipe, AnswersMatch
<1> QED
  BY <1>1, PipeAlways, PTL
=============================================================================
