--------------------------------- MODULE H2 ---------------------------------
(***************************************************************************)
(* The HTTP/2 transport of one connection, both ends (h2.cpp), from the    *)
(* end of the handshake on.                                                *)
(*                                                                         *)
(* An end has one nghttp2 session under session_mutex, a thread that       *)
(* writes (rpc_http2_writev, one at a time: its callers hold write_mutex)  *)
(* and a thread that reads (rpc_http2_read over h2_read_from_net).  The    *)
(* socket is blocking: a thread that sends into a full socket stays in     *)
(* h2_write_all, and it got there holding session_mutex.                   *)
(*                                                                         *)
(* Bytes are counted in units: a unit is a piece of DATA or one            *)
(* WINDOW_UPDATE frame.  What a socket holds is what the two kernels       *)
(* buffer for one direction.  Only the server's window is finite: the      *)
(* client's, kH2ClientWindow, is 2^31 - 1.                                 *)
(***************************************************************************)
EXTENDS Naturals, Sequences, FiniteSets

CONSTANTS
  Window,   \* the server's receive window, kH2ServerWindow
  Size,     \* per end: the units of one write
  SockBuf,  \* units the kernels buffer in one direction
  MaxRecv   \* units one recv may return

End == {"client", "server"}
Peer(e) == IF e = "client" THEN "server" ELSE "client"

ASSUME H2Assumption ==
  /\ Window \in Nat \ {0} /\ Size \in [End -> Nat \ {0}]
  /\ SockBuf \in Nat \ {0} /\ MaxRecv \in Nat \ {0}

VARIABLES
  holder,    \* per end: the thread in session_mutex, "writer" or "reader", or "free"
  sock,      \* per end: the units it has sent and its peer has not received
  broken,    \* the TCP connection is gone
  \* the nghttp2 session of an end
  src,       \* units the data provider has left: source.remaining()
  credit,    \* what the server's window still admits from the client
  consumed,  \* DATA the server has credited and not announced yet
  update,    \* increment of the WINDOW_UPDATE the server has queued, 0 for none
  failed,    \* transport_failed
  \* the writing thread
  wpc, before,
  \* the reading thread
  rpc, buffer

vars == <<holder, sock, broken, src, credit, consumed, update, failed, wpc, before, rpc, buffer>>

Data == [kind |-> "data", n |-> 1]
Update(n) == [kind |-> "update", n |-> n]

Init ==
  /\ holder = [e \in End |-> "free"] /\ sock = [e \in End |-> <<>>] /\ broken = FALSE
  /\ src = [e \in End |-> 0]
  /\ credit = Window /\ consumed = 0 /\ update = 0
  /\ failed = [e \in End |-> FALSE]
  /\ wpc = [e \in End |-> "idle"] /\ before = [e \in End |-> 0]
  /\ rpc = [e \in End |-> "recv"] /\ buffer = [e \in End |-> <<>>]

----------------------------------------------------------------------------
(* nghttp2_session_send, run by whoever is in session_mutex: queued control *)
(* frames, then the DATA of the pending write, whoever submitted it.        *)

HasUpdate(e) == e = "server" /\ update > 0
HasData(e) == src[e] > 0 /\ (e = "client" => credit > 0)
CanSend(e) == HasUpdate(e) \/ HasData(e)

\* h2_write_all puts one unit into the socket; with the socket full the thread
\* stays in there, and in session_mutex.
SendUnit(e) ==
  /\ ~broken /\ Len(sock[e]) < SockBuf
  /\ IF HasUpdate(e)
       THEN /\ sock' = [sock EXCEPT ![e] = Append(@, Update(update))]
            /\ update' = 0 /\ UNCHANGED <<src, credit>>
       ELSE /\ sock' = [sock EXCEPT ![e] = Append(@, Data)]
            /\ src' = [src EXCEPT ![e] = @ - 1]
            /\ credit' = IF e = "client" THEN credit - 1 ELSE credit
            /\ UNCHANGED update

----------------------------------------------------------------------------
(* rpc_http2_writev                                                        *)

\* What the frames of one kind in s add up to.
Volume(s, kind) ==
  Cardinality(UNION {{i} \X (1 .. s[i].n) : i \in {j \in DOMAIN s : s[j].kind = kind}})
DataIn(s) == Volume(s, "data")
OpenedBy(s) == Volume(s, "update")

\* A caller with write_mutex.  The client streams: it may write again at once.
\* The server answers: it has nothing to write before the client, having
\* received the last answer, has asked again.
WriteStart(e) ==
  /\ wpc[e] = "idle"
  /\ e = "server" => DataIn(sock[e]) = 0 /\ DataIn(buffer[Peer(e)]) = 0
  /\ wpc' = [wpc EXCEPT ![e] = "lock"]
  /\ UNCHANGED <<holder, sock, broken, src, credit, consumed, update, failed, before, rpc, buffer>>

\* pthread_mutex_lock, nghttp2_submit_data; nghttp2 refuses a second provider.
Submit(e) ==
  /\ wpc[e] = "lock" /\ holder[e] = "free"
  /\ IF src[e] > 0
       THEN wpc' = [wpc EXCEPT ![e] = "idle"] /\ UNCHANGED <<holder, src, before>>
       ELSE /\ holder' = [holder EXCEPT ![e] = "writer"]
            /\ src' = [src EXCEPT ![e] = Size[e]]
            /\ before' = [before EXCEPT ![e] = Size[e]]
            /\ wpc' = [wpc EXCEPT ![e] = "flush"]
  /\ UNCHANGED <<sock, broken, credit, consumed, update, failed, rpc, buffer>>

WriterSends(e) ==
  /\ wpc[e] = "flush" /\ CanSend(e) /\ SendUnit(e)
  /\ UNCHANGED <<holder, broken, consumed, failed, wpc, before, rpc, buffer>>

\* A write returns and its source goes out of scope; the provider, if it has
\* not reached its end, stays with nghttp2.
WriteReturns(e) ==
  /\ wpc' = [wpc EXCEPT ![e] = "idle"]
  /\ holder' = [holder EXCEPT ![e] = "free"]

\* The send failed, or the session can send no more: done, failed, another
\* round, or the wait that gives up session_mutex.
WriterFlushed(e) ==
  /\ wpc[e] = "flush" /\ (broken \/ ~CanSend(e))
  /\ \/ /\ src[e] = 0 \/ failed[e] \/ (broken /\ CanSend(e))
        /\ WriteReturns(e) /\ UNCHANGED before
     \/ /\ src[e] # 0 /\ ~failed[e] /\ ~(broken /\ CanSend(e))
        /\ IF src[e] = before[e]
             THEN wpc' = [wpc EXCEPT ![e] = "wait"] /\ holder' = [holder EXCEPT ![e] = "free"]
             ELSE UNCHANGED <<wpc, holder>>
        /\ before' = [before EXCEPT ![e] = src[e]]
  /\ UNCHANGED <<sock, broken, src, credit, consumed, update, failed, rpc, buffer>>

\* pthread_cond_wait has returned with the mutex; the loop reads
\* source.remaining() again.
WriterWakes(e) ==
  /\ wpc[e] = "woken" /\ holder[e] = "free"
  /\ IF src[e] = 0
       THEN WriteReturns(e) /\ UNCHANGED before
       ELSE /\ holder' = [holder EXCEPT ![e] = "writer"]
            /\ before' = [before EXCEPT ![e] = src[e]]
            /\ wpc' = [wpc EXCEPT ![e] = "flush"]
  /\ UNCHANGED <<sock, broken, src, credit, consumed, update, failed, rpc, buffer>>

----------------------------------------------------------------------------
(* h2_read_from_net                                                        *)

\* pthread_cond_broadcast(&session_progress)
Broadcast(e) == wpc' = [wpc EXCEPT ![e] = IF @ = "wait" THEN "woken" ELSE @]

\* recv, outside session_mutex: whatever has arrived, up to a buffer's worth.
Recv(e) ==
  /\ rpc[e] = "recv"
  /\ LET s == sock[Peer(e)] IN
       \E n \in 1 .. Len(s) :
         /\ n <= MaxRecv
         /\ buffer' = [buffer EXCEPT ![e] = SubSeq(s, 1, n)]
         /\ sock' = [sock EXCEPT ![Peer(e)] = SubSeq(s, n + 1, Len(s))]
  /\ rpc' = [rpc EXCEPT ![e] = "lock"]
  /\ UNCHANGED <<holder, broken, src, credit, consumed, update, failed, wpc, before>>

\* recv returns 0 or an error: h2_mark_transport_failed, and the read fails.
RecvFails(e) ==
  /\ rpc[e] = "recv" /\ broken /\ sock[Peer(e)] = <<>> /\ holder[e] = "free"
  /\ failed' = [failed EXCEPT ![e] = TRUE] /\ Broadcast(e)
  /\ rpc' = [rpc EXCEPT ![e] = "ended"]
  /\ UNCHANGED <<holder, sock, broken, src, credit, consumed, update, before, buffer>>

\* Wrong: the window is announced again, and what was announced is kept.
CreditTwice(n) ==
  /\ consumed' = consumed + n
  /\ update' = IF 2 * (consumed + n) >= Window THEN update + consumed + n ELSE update

\* Wrong: with no_auto_window_update set, nobody credits what was received.
CreditForgotten(n) == UNCHANGED <<consumed, update>>

\* nghttp2_session_consume: credited bytes are announced, by a queued
\* WINDOW_UPDATE, once they are half of the window.
Credit(n) ==
  IF consumed + n > 0 /\ 2 * (consumed + n) >= Window
    THEN update' = update + consumed + n /\ consumed' = 0
    ELSE consumed' = consumed + n /\ UNCHANGED update

\* nghttp2_session_mem_recv over the whole buffer, with the callbacks it makes:
\* WINDOW_UPDATE opens the window, DATA goes to receive_bytes and is credited.
MemRecv(e) ==
  /\ rpc[e] = "lock" /\ holder[e] = "free"
  /\ holder' = [holder EXCEPT ![e] = "reader"]
  /\ IF e = "client"
       THEN credit' = credit + OpenedBy(buffer[e]) /\ UNCHANGED <<consumed, update>>
       ELSE Credit(DataIn(buffer[e])) /\ UNCHANGED credit
  /\ buffer' = [buffer EXCEPT ![e] = <<>>]
  /\ rpc' = [rpc EXCEPT ![e] = "flush"]
  /\ UNCHANGED <<sock, broken, src, failed, wpc, before>>

ReaderSends(e) ==
  /\ rpc[e] = "flush" /\ CanSend(e) /\ SendUnit(e)
  /\ UNCHANGED <<holder, broken, consumed, failed, wpc, before, rpc, buffer>>

\* Wrong: the mutex is released without a word to the writer.
ReaderFlushedSilently(e) ==
  /\ rpc[e] = "flush" /\ (broken \/ ~CanSend(e))
  /\ failed' = [failed EXCEPT ![e] = @ \/ (broken /\ CanSend(e))]
  /\ holder' = [holder EXCEPT ![e] = "free"]
  /\ rpc' = [rpc EXCEPT ![e] = IF broken /\ CanSend(e) THEN "ended" ELSE "recv"]
  /\ UNCHANGED <<sock, broken, src, credit, consumed, update, wpc, before, buffer>>

\* The flush is over or has failed; either way the writer is told.
ReaderFlushed(e) ==
  /\ rpc[e] = "flush" /\ (broken \/ ~CanSend(e))
  /\ failed' = [failed EXCEPT ![e] = @ \/ (broken /\ CanSend(e))]
  /\ Broadcast(e)
  /\ holder' = [holder EXCEPT ![e] = "free"]
  /\ rpc' = [rpc EXCEPT ![e] = IF broken /\ CanSend(e) THEN "ended" ELSE "recv"]
  /\ UNCHANGED <<sock, broken, src, credit, consumed, update, before, buffer>>

----------------------------------------------------------------------------
\* The connection is reset by the network or by a peer that died.
Break ==
  /\ ~broken /\ broken' = TRUE
  /\ UNCHANGED <<holder, sock, src, credit, consumed, update, failed, wpc, before, rpc, buffer>>

Writer(e) == Submit(e) \/ WriterSends(e) \/ WriterFlushed(e) \/ WriterWakes(e)
Reader(e) == Recv(e) \/ RecvFails(e) \/ MemRecv(e) \/ ReaderSends(e) \/ ReaderFlushed(e)
Next == Break \/ \E e \in End : WriteStart(e) \/ Writer(e) \/ Reader(e)

\* The threads are scheduled, and a mutex that keeps being released is obtained
\* in the end.  Nobody has to write, and nothing has to break.
Fairness == \A e \in End : SF_vars(Writer(e)) /\ SF_vars(Reader(e))

Spec == Init /\ [][Next]_vars /\ Fairness

----------------------------------------------------------------------------
\* No unit of window is lost or made up on its way round: what the client may
\* still send, what it has sent, what the server has credited and what is being
\* announced back add up to the window the server opened with.
CreditConserved ==
  credit + DataIn(sock["client"]) + DataIn(buffer["server"]) + consumed
    + update + OpenedBy(sock["server"]) + OpenedBy(buffer["client"]) = Window

\* No wake-up is missed: a writer asleep on session_progress, with nobody in the
\* mutex, has neither window to send into nor a failure to report.
AsleepForAReason ==
  \A e \in End :
    wpc[e] = "wait" /\ holder[e] = "free" => ~HasData(e)

\* Can a thread of an end go on by itself?  The guards of Writer and Reader.
Flushes(e) == broken \/ ~CanSend(e) \/ Len(sock[e]) < SockBuf
WriterCanMove(e) ==
  \/ wpc[e] \in {"lock", "woken"} /\ holder[e] = "free"
  \/ wpc[e] = "flush" /\ Flushes(e)
ReaderCanMove(e) ==
  \/ rpc[e] = "recv" /\ (sock[Peer(e)] # <<>> \/ (broken /\ holder[e] = "free"))
  \/ rpc[e] = "lock" /\ holder[e] = "free"
  \/ rpc[e] = "flush" /\ Flushes(e)

\* Each end sends into a full socket, in session_mutex, and so does not receive what
\* the other one sends.
FullDuplex ==
  ~broken /\ \A e \in End : Len(sock[e]) >= SockBuf /\ CanSend(e) /\ holder[e] # "free"

\* As long as a write is under way some thread can go on, or else both ends are in
\* the one deadlock that the blocking sends allow.
StuckOnlyFull ==
  \/ \E e \in End : WriterCanMove(e) \/ ReaderCanMove(e)
  \/ \A e \in End : wpc[e] = "idle"
  \/ FullDuplex

\* An answer that the kernels can buffer, with a unit to spare, never meets it.
SmallAnswersPass == Size["server"] < SockBuf => ~FullDuplex

\* rpc_http2_writev returns: the window opens again, or the failure is noticed,
\* whatever the two ends are writing.
WritesEnd == \A e \in End : wpc[e] # "idle" ~> wpc[e] = "idle"
=============================================================================
