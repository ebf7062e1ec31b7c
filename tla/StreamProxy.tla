---------------------------- MODULE StreamProxy ----------------------------
(***************************************************************************)
(* One connection through Llamacpp/offline_proxy.py: a client on this      *)
(* machine, the model's server in its container, and between them two      *)
(* threads, "left" copying requests and "right" copying answers.  The      *)
(* connections of a proxy share nothing but the listener.                  *)
(*                                                                         *)
(* Abstractions.  Bytes are counted: a direction holds what its source has *)
(* written, what waits in the socket the proxy reads, the chunk in the     *)
(* thread's hands, what waits in the socket it writes, and what the        *)
(* destination has read.  The kernel delivers in order.  The two ends are  *)
(* external: they write, read, end a direction, close, or are reset.       *)
(***************************************************************************)
EXTENDS Integers

CONSTANTS
  Capacity,              \* bytes a socket buffers
  MaxBytes               \* bound: bytes written to a direction

ASSUME ProxyAssumption == Capacity \in Nat \ {0} /\ MaxBytes \in Nat

Dir == {"left", "right"}
End == {"client", "server"}

Source(d) == IF d = "left" THEN "client" ELSE "server"
Dest(d)   == IF d = "left" THEN "server" ELSE "client"
Reverse(d) == IF d = "left" THEN "right" ELSE "left"

VARIABLES
  conn,                  \* where proxy_connection is
  peer,                  \* per end: open, closed or reset
  broken,                \* ends whose socket the proxy closed with bytes unread
  written, fin,          \* per direction: what its source did
  inbuf, chunk, outbuf,  \* bytes to be read by the proxy, held, to be read
  got,                   \*   from it, and read at the other end
  thread,                \* state of copy_stream
  shut                   \* shutdown(SHUT_WR) was called on the destination

flowVars == <<written, fin, inbuf, chunk, outbuf, got>>
proxyVars == <<conn, peer, broken, flowVars, thread, shut>>

None == [d \in Dir |-> 0]

ProxyInit ==                            \* server.accept() returned
  /\ conn = "connect"
  /\ peer = [p \in End |-> "open"] /\ broken = {}
  /\ written = None /\ fin = [d \in Dir |-> FALSE]
  /\ inbuf = None /\ chunk = None /\ outbuf = None /\ got = None
  /\ thread = [d \in Dir |-> "none"]
  /\ shut = [d \in Dir |-> FALSE]

Unread == {p \in End : \E d \in Dir : Source(d) = p /\ inbuf[d] > 0}

-----------------------------------------------------------------------------
(* proxy_connection.                                                       *)
Connect ==
  /\ conn = "connect"
  /\ conn' = "forward" /\ thread' = [d \in Dir |-> "recv"]
  /\ UNCHANGED <<peer, broken, flowVars, shut>>

ConnectFails ==
  /\ conn = "connect"
  /\ conn' = "refused" /\ broken' = Unread
  /\ UNCHANGED <<peer, flowVars, thread, shut>>

(* Both joins return, then both sockets are closed.  TCP resets a          *)
(* connection that is closed with bytes unread, and what its other         *)
(* direction still holds may be lost.                                      *)
Joined_Fault == thread["left"] = "ended"     \* only one thread is joined

Joined == \A d \in Dir : thread[d] = "ended"

CloseBoth ==
  /\ conn = "forward" /\ Joined
  /\ conn' = "closed" /\ broken' = Unread
  /\ \E rest \in [Dir -> 0 .. Capacity] :
       /\ \A d \in Dir : IF Dest(d) \in broken' THEN rest[d] <= outbuf[d]
                         ELSE rest[d] = outbuf[d]
       /\ outbuf' = rest
  /\ UNCHANGED <<peer, written, fin, inbuf, chunk, got, thread, shut>>

(* offline_proxy.sh stop: the process ends, threads and sockets with it.   *)
Kill ==
  /\ conn \in {"connect", "forward"}
  /\ conn' = "killed" /\ broken' = Unread
  /\ UNCHANGED <<peer, flowVars, thread, shut>>

-----------------------------------------------------------------------------
(* copy_stream.                                                            *)
At(d, state) == conn = "forward" /\ thread[d] = state

GoesTo(d, state) == thread' = [thread EXCEPT ![d] = state]

(* recv gives what is there, or nothing at the end of the stream, or       *)
(* raises when the source was reset, with or without the bytes before.     *)
Recv(d) ==
  /\ At(d, "recv")
  /\ \/ \E n \in 1 .. inbuf[d] :
          /\ chunk' = [chunk EXCEPT ![d] = n]
          /\ inbuf' = [inbuf EXCEPT ![d] = @ - n]
          /\ GoesTo(d, "send")
     \/ /\ (fin[d] /\ inbuf[d] = 0) \/ peer[Source(d)] = "reset"
        /\ GoesTo(d, "end") /\ UNCHANGED <<chunk, inbuf>>
  /\ UNCHANGED <<conn, peer, broken, written, fin, outbuf, got, shut>>

(* sendall, byte by byte; it waits while the buffer is full.               *)
LeftOver_Fault(d) == 0                  \* send instead of sendall

LeftOver(d) == chunk[d] - 1

Send(d) ==
  /\ At(d, "send") /\ peer[Dest(d)] = "open" /\ outbuf[d] < Capacity
  /\ outbuf' = [outbuf EXCEPT ![d] = @ + 1]
  /\ chunk' = [chunk EXCEPT ![d] = LeftOver(d)]
  /\ GoesTo(d, IF LeftOver(d) = 0 THEN "recv" ELSE "send")
  /\ UNCHANGED <<conn, peer, broken, written, fin, inbuf, got, shut>>

(* The first bytes for an end that closed make its kernel reset the        *)
(* connection; sending to an end that was reset raises.                    *)
SendFails(d) ==
  /\ At(d, "send") /\ peer[Dest(d)] # "open"
  /\ peer' = [peer EXCEPT ![Dest(d)] = "reset"]
  /\ IF peer[Dest(d)] = "reset" THEN GoesTo(d, "end") ELSE UNCHANGED thread
  /\ UNCHANGED <<conn, broken, flowVars, shut>>

(* The finally block: the destination is told that no more will come.      *)
Shutdown_Fault(d) ==                    \* only the thread ends
  /\ At(d, "end")
  /\ GoesTo(d, "ended")
  /\ UNCHANGED <<conn, peer, broken, flowVars, shut>>

Shutdown(d) ==
  /\ At(d, "end")
  /\ shut' = [shut EXCEPT ![d] = TRUE]
  /\ GoesTo(d, "ended")
  /\ UNCHANGED <<conn, peer, broken, flowVars>>

-----------------------------------------------------------------------------
(* The ends.                                                               *)
Here(p) ==
  /\ peer[p] = "open"
  /\ conn = "forward" \/ (conn = "connect" /\ p = "client")

Write(d) ==
  /\ Here(Source(d)) /\ ~ fin[d]
  /\ written[d] < MaxBytes /\ inbuf[d] < Capacity
  /\ written' = [written EXCEPT ![d] = @ + 1]
  /\ inbuf' = [inbuf EXCEPT ![d] = @ + 1]
  /\ UNCHANGED <<conn, peer, broken, fin, chunk, outbuf, got, thread, shut>>

Finish(d) ==
  /\ Here(Source(d)) /\ ~ fin[d]
  /\ fin' = [fin EXCEPT ![d] = TRUE]
  /\ UNCHANGED <<conn, peer, broken, written, inbuf, chunk, outbuf, got,
                 thread, shut>>

Read(d) ==
  /\ peer[Dest(d)] = "open" /\ outbuf[d] > 0
  /\ outbuf' = [outbuf EXCEPT ![d] = @ - 1] /\ got' = [got EXCEPT ![d] = @ + 1]
  /\ UNCHANGED <<conn, peer, broken, written, fin, inbuf, chunk, thread, shut>>

(* An end that closes, or gives up waiting for the answer: in order, or    *)
(* with bytes unread as a reset.                                           *)
Leave(d) ==
  /\ Here(Source(d))
  /\ fin' = [fin EXCEPT ![d] = TRUE]
  /\ peer' = [peer EXCEPT ![Source(d)] = IF outbuf[Reverse(d)] > 0 THEN "reset"
                                         ELSE "closed"]
  /\ UNCHANGED <<conn, broken, written, inbuf, chunk, outbuf, got, thread, shut>>

(* The process dies, or its container is removed.                          *)
Reset(p) ==
  /\ Here(p)
  /\ peer' = [peer EXCEPT ![p] = "reset"]
  /\ UNCHANGED <<conn, broken, flowVars, thread, shut>>

Over == conn \in {"refused", "closed", "killed"}

ProxyStop == Over /\ UNCHANGED proxyVars

Waiting ==                              \* for an end that does nothing
  /\ conn = "forward" /\ \A d \in Dir : thread[d] \in {"recv", "ended"}
  /\ UNCHANGED proxyVars

CopyStep(d) == Recv(d) \/ Send(d) \/ SendFails(d) \/ Shutdown(d)
ConnectStep == Connect \/ ConnectFails
EndStep(d) == Write(d) \/ Finish(d) \/ Leave(d)

ProxyNext ==
  \/ ConnectStep \/ CloseBoth \/ Kill
  \/ \E d \in Dir : CopyStep(d) \/ EndStep(d) \/ Read(d)
  \/ \E p \in End : Reset(p)
  \/ ProxyStop \/ Waiting

ProxySpec == ProxyInit /\ [][ProxyNext]_proxyVars

(* create_connection has a timeout and the threads run.  The sockets of    *)
(* the proxy have none: that they move on needs ends that read.            *)
ProxyFairSpec ==
  /\ ProxySpec
  /\ WF_proxyVars(ConnectStep) /\ WF_proxyVars(CloseBoth)
  /\ \A d \in Dir : WF_proxyVars(CopyStep(d)) /\ WF_proxyVars(Read(d))

-----------------------------------------------------------------------------
(***************************************************************************)
(* Properties.                                                             *)
(***************************************************************************)
(* Type invariant; the proxy holds no more of a direction than its buffers *)
(* and passes on no more than was written.                                 *)
ProxyTypeOK ==
  /\ conn \in {"connect", "forward", "refused", "closed", "killed"}
  /\ peer \in [End -> {"open", "closed", "reset"}] /\ broken \subseteq End
  /\ written \in [Dir -> 0 .. MaxBytes] /\ got \in [Dir -> 0 .. MaxBytes]
  /\ inbuf \in [Dir -> 0 .. Capacity] /\ outbuf \in [Dir -> 0 .. Capacity]
  /\ chunk \in [Dir -> 0 .. Capacity]
  /\ fin \in [Dir -> BOOLEAN] /\ shut \in [Dir -> BOOLEAN]
  /\ thread \in [Dir -> {"none", "recv", "send", "end", "ended"}]

(* An end that is told in order that no more will come has, or will find,  *)
(* everything the other end wrote before it said so, however the chunks    *)
(* were cut and whatever the other direction does.  Not so if the source   *)
(* was reset: copy_stream ends both ways with the same shutdown.           *)
OrderlyEndIsComplete ==
  \A d \in Dir :
    shut[d] /\ peer[Source(d)] # "reset" /\ peer[Dest(d)] = "open"
            /\ Dest(d) \notin broken =>
      fin[d] /\ got[d] + outbuf[d] = written[d]

(* The sockets are closed on nobody: when the proxy closes them, each      *)
(* source has ended its direction, or one of the ends was reset.  A client *)
(* that ends its request early still gets the answer.                      *)
ClosedOnNobody ==
  conn = "closed" =>
    \/ \E p \in End : peer[p] = "reset"
    \/ \A d \in Dir : fin[d] /\ got[d] + outbuf[d] = written[d]

(* An end that ends its direction or is reset is noticed at the other end, *)
(* though that one may be busy: a model whose client gave up is told so.   *)
EndIsPassedOn ==
  \A d \in Dir :
    conn = "forward" /\ (fin[d] \/ peer[Source(d)] = "reset") ~> shut[d] \/ Over

=============================================================================
