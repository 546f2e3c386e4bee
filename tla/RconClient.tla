----------------------------- MODULE RconClient -----------------------------
(***************************************************************************)
(* The RCON client (internal/rcon): AnnounceShutdown and SaveAndExit, each *)
(* on a connection of its own, against a game server that may be slow,     *)
(* silent or gone.  Packets are records; their layout is left out, except  *)
(* that one whose length field is out of range is refused (bad).           *)
(*                                                                         *)
(* The client takes the next packet for the answer to its last request     *)
(* and never compares request ids.                                         *)
(***************************************************************************)
EXTENDS Integers, Sequences

CONSTANTS
  MaxCalls,     \* bound: calls in one behaviour, one connection each
  AuthPackets,  \* packets a server sends in answer to a password: 1, or 2 (some send an empty
                \* response value first)
  Faults        \* "drop": connections break; "bad": answers with a length out of range

ASSUME RconAssumption == MaxCalls \in Nat /\ AuthPackets \in {1, 2}

Conns == 1 .. MaxCalls
Kinds == {"AnnounceShutdown", "SaveAndExit"}
Commands == {"ServerChat", "SaveWorld", "DoExit"}
Script(kind) == IF kind = "SaveAndExit" THEN <<"SaveWorld", "DoExit">> ELSE <<"ServerChat">>

Results == {"", "nil", "ErrAuthFailed", "err"}
Packet == [id : -1 .. 3, body : Commands \cup {"right", "wrong", ""}, bad : BOOLEAN]
Pkt(id, body) == [id |-> id, body |-> body, bad |-> FALSE]

VARIABLES
  call,       \* the call under way, or the last one
  results,    \* what each call returned
  sockets,    \* the connections whose client end is open
  peers,      \* the connections whose server end is open
  toServer,   \* packets on their way, per connection
  toClient,
  authed,     \* the connections the server accepted the password on
  did         \* history: the commands the server executed, per connection

network == <<peers, toServer, toClient>>
server == <<authed, did>>
vars == <<call, results, sockets, peers, toServer, toClient, authed, did>>

Init ==
  /\ call = [n |-> 0, kind |-> "SaveAndExit", pw |-> "right", pc |-> "idle", nextID |-> 0, cmd |-> 1]
  /\ results = [n \in Conns |-> ""]
  /\ sockets = {} /\ peers = {}
  /\ toServer = [n \in Conns |-> <<>>]
  /\ toClient = [n \in Conns |-> <<>>]
  /\ authed = {}
  /\ did = [n \in Conns |-> {}]

-----------------------------------------------------------------------------
(* The client. *)

command == Script(call.kind)[call.cmd]

\* The reconciler or the finalizer makes a call, with the password it has just read.
Call(kind, pw) ==
  /\ call.pc = "idle" /\ call.n < MaxCalls
  /\ call' = [n |-> call.n + 1, kind |-> kind, pw |-> pw, pc |-> "dial", nextID |-> 0, cmd |-> 1]
  /\ UNCHANGED <<results, sockets, network, server>>

\* The call returns; the deferred Close, or the one before a return of Dial, runs.
Return(result) ==
  /\ results' = [results EXCEPT ![call.n] = result]
  /\ call' = [call EXCEPT !.pc = "idle"]
  /\ sockets' = sockets \ {call.n}

\* writePacket: on a connection that is broken the packet is lost.
writePacket(body) ==
  toServer' = IF call.n \in peers
              THEN [toServer EXCEPT ![call.n] = Append(@, Pkt(call.nextID + 1, body))]
              ELSE toServer

\* Dial: connect and send the password ...
Dial ==
  /\ call.pc = "dial"
  /\ sockets' = sockets \cup {call.n}
  /\ peers' = peers \cup {call.n}
  /\ toServer' = [toServer EXCEPT ![call.n] = <<Pkt(call.nextID + 1, call.pw)>>]
  /\ call' = [call EXCEPT !.pc = "auth", !.nextID = @ + 1]
  /\ UNCHANGED <<results, toClient, server>>

\* ... or fail to.
DialFails ==
  /\ call.pc = "dial"
  /\ Return("err")
  /\ UNCHANGED <<network, server>>

\* readPacket: the next packet, whatever it answers.
Read(p) ==
  /\ call.n \in sockets /\ toClient[call.n] # <<>>
  /\ p = Head(toClient[call.n])
  /\ toClient' = [toClient EXCEPT ![call.n] = Tail(@)]

\* Mutation: any packet is taken as consent.
ReadAuthUnchecked ==
  /\ call.pc = "auth"
  /\ Read(Head(toClient[call.n]))
  /\ call' = [call EXCEPT !.pc = "exec"]
  /\ UNCHANGED <<results, sockets, peers, toServer, server>>

\* Dial: the answer to the password.
ReadAuth ==
  /\ call.pc = "auth"
  /\ \E p \in Packet :
       /\ Read(p)
       /\ IF p.bad \/ p.id = -1
          THEN Return(IF p.bad THEN "err" ELSE "ErrAuthFailed")
          ELSE call' = [call EXCEPT !.pc = "exec"] /\ UNCHANGED <<results, sockets>>
  /\ UNCHANGED <<peers, toServer, server>>

\* Exec: send the command.
Exec ==
  /\ call.pc = "exec"
  /\ writePacket(command)
  /\ call' = [call EXCEPT !.pc = "wait", !.nextID = @ + 1]
  /\ UNCHANGED <<results, sockets, peers, toClient, server>>

\* Mutation: the error of SaveWorld is ignored like the one of DoExit.
GiveUpQuietly(result) ==
  IF call.pc # "auth" /\ call.cmd < Len(Script(call.kind))
  THEN call' = [call EXCEPT !.pc = "exec", !.cmd = @ + 1] /\ UNCHANGED <<results, sockets>>
  ELSE Return(IF call.pc # "auth" /\ command = "DoExit" THEN "nil" ELSE result)

\* Mutation: an error while the password is checked leaves the connection open.
GiveUpOpen(result) ==
  /\ results' = [results EXCEPT ![call.n] = result]
  /\ call' = [call EXCEPT !.pc = "idle"]
  /\ sockets' = IF call.pc = "auth" THEN sockets ELSE sockets \ {call.n}

\* An error ends the call, with nil if it was the one of DoExit.
GiveUp(result) ==
  Return(IF call.pc # "auth" /\ command = "DoExit" THEN "nil" ELSE result)

\* Mutation: the call goes on after its last command.
ReadAnswerOn ==
  /\ call.pc = "wait"
  /\ \E p \in Packet :
       /\ Read(p)
       /\ IF p.bad THEN GiveUp("err")
          ELSE call' = [call EXCEPT !.pc = "exec", !.cmd = @ + 1] /\ UNCHANGED <<results, sockets>>
  /\ UNCHANGED <<peers, toServer, server>>

\* Exec: an answer came.  On to the next command, or done.
ReadAnswer ==
  /\ call.pc = "wait"
  /\ \E p \in Packet :
       /\ Read(p)
       /\ IF p.bad THEN GiveUp("err")
          ELSE IF call.cmd < Len(Script(call.kind))
          THEN call' = [call EXCEPT !.pc = "exec", !.cmd = @ + 1] /\ UNCHANGED <<results, sockets>>
          ELSE Return("nil")
  /\ UNCHANGED <<peers, toServer, server>>

\* A read or write on a broken connection.
IOFails ==
  /\ call.pc \in {"auth", "exec", "wait"}
  /\ call.n \notin peers
  /\ call.pc = "exec" \/ toClient[call.n] = <<>>
  /\ GiveUp("err")
  /\ UNCHANGED <<network, server>>

\* Mutation: only Dial has a deadline.
TimeoutOfDial ==
  /\ call.pc = "auth"
  /\ GiveUp("err")
  /\ UNCHANGED <<network, server>>

\* The deadline: the timeout of Dial, the context's or ten seconds for Exec.
Timeout ==
  /\ call.pc \in {"auth", "exec", "wait"}
  /\ GiveUp("err")
  /\ UNCHANGED <<network, server>>

Client == Dial \/ DialFails \/ ReadAuth \/ Exec \/ ReadAnswer \/ IOFails \/ Timeout

-----------------------------------------------------------------------------
(* The game server.  It owes nobody an answer. *)

Take(n) == toServer' = [toServer EXCEPT ![n] = Tail(@)]

\* Answers go nowhere once the client has closed its end.
Answer(n, packets) ==
  toClient' = IF n \in sockets THEN [toClient EXCEPT ![n] = @ \o packets] ELSE toClient

CheckPassword(n) ==
  /\ n \in peers /\ toServer[n] # <<>>
  /\ LET p == Head(toServer[n])
         reply == Pkt(IF p.body = "right" THEN p.id ELSE -1, "")
     IN  /\ p.body \in {"right", "wrong"}
         /\ authed' = IF p.body = "right" THEN authed \cup {n} ELSE authed
         /\ Answer(n, IF AuthPackets = 2 THEN <<Pkt(p.id, ""), reply>> ELSE <<reply>>)
  /\ Take(n)
  /\ UNCHANGED <<call, results, sockets, peers, did>>

\* A command other than DoExit.  Before the password was accepted it is not executed, and answered
\* like a wrong password.
Execute(n) ==
  /\ n \in peers /\ toServer[n] # <<>>
  /\ LET p == Head(toServer[n])
         reply == IF n \in authed THEN p.id ELSE -1
     IN  /\ p.body \in (IF n \in authed THEN Commands \ {"DoExit"} ELSE Commands)
         /\ did' = [did EXCEPT ![n] = @ \cup (IF n \in authed THEN {p.body} ELSE {})]
         /\ \E bad \in {FALSE} \cup (IF "bad" \in Faults THEN {TRUE} ELSE {}) :
              Answer(n, <<[Pkt(reply, "") EXCEPT !.bad = bad]>>)
  /\ Take(n)
  /\ UNCHANGED <<call, results, sockets, peers, authed>>

\* DoExit: the process ends, with or without an answer, and every connection breaks.
Exit(n) ==
  /\ n \in authed \cap peers /\ toServer[n] # <<>>
  /\ Head(toServer[n]).body = "DoExit"
  /\ did' = [did EXCEPT ![n] = @ \cup {"DoExit"}]
  /\ \E answer \in {<<>>, <<Pkt(Head(toServer[n]).id, "")>>} : Answer(n, answer)
  /\ peers' = {} /\ authed' = {}
  /\ toServer' = [k \in Conns |-> <<>>]
  /\ UNCHANGED <<call, results, sockets>>

\* The network or the pod goes away under a connection.
Drop(n) ==
  /\ "drop" \in Faults /\ n \in peers
  /\ peers' = peers \ {n}
  /\ toServer' = [toServer EXCEPT ![n] = <<>>]
  /\ UNCHANGED <<call, results, sockets, toClient, server>>

Server == \E n \in Conns : CheckPassword(n) \/ Execute(n) \/ Exit(n) \/ Drop(n)

Next ==
  \/ \E kind \in Kinds, pw \in {"right", "wrong"} : Call(kind, pw)
  \/ Client
  \/ Server

Spec == Init /\ [][Next]_vars

\* The client runs, and a deadline passes in the end.  Nothing is assumed of the server.
FairSpec == Spec /\ WF_vars(Client)

-----------------------------------------------------------------------------
(* Properties. *)

\* Types: in particular a call never runs past the end of its script.
TypeOK ==
  /\ call \in [n : 0 .. MaxCalls, kind : Kinds, pw : {"right", "wrong"},
               pc : {"idle", "dial", "auth", "exec", "wait"}, nextID : 0 .. 3, cmd : 1 .. 2]
  /\ call.cmd <= Len(Script(call.kind))
  /\ results \in [Conns -> Results]
  /\ sockets \subseteq Conns /\ peers \subseteq Conns
  /\ toServer \in [Conns -> Seq(Packet)] /\ toClient \in [Conns -> Seq(Packet)]
  /\ authed \subseteq Conns
  /\ did \in [Conns -> SUBSET Commands]

\* What a call reports: nil only if the server executed its first command.  A SaveAndExit that
\* returns nil has saved the world, whatever was lost, late or refused.
NilMeansDone ==
  \A n \in Conns : results[n] = "nil" => did[n] \cap {"SaveWorld", "ServerChat"} # {}

\* Exec takes the next packet for its answer and compares no ids; still the packet it takes
\* always carries the id of the request it waits for.
AnswersMatch ==
  call.pc = "wait" /\ toClient[call.n] # <<>> => Head(toClient[call.n]).id = call.nextID

\* Every path out of Dial, AnnounceShutdown and SaveAndExit closes the connection.
NoLeak == call.pc \in {"idle", "dial"} => sockets = {}

\* A call returns even if the server never says anything: the reconciler, which has one worker,
\* is not held up for ever.
CallReturns == [](call.pc # "idle" => <>(call.pc = "idle"))
=============================================================================
