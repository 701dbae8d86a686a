------------------------------ MODULE NetChannel ------------------------------
(***************************************************************************)
(* A stream channel of module/net: stream::Channel with its SendBuffer, the  *)
(* part of stream::Client and stream::Server that makes and deletes it, and  *)
(* a socket.                                                                 *)
(*                                                                           *)
(* The socket is watched edge-triggered: the kernel tells once that there is *)
(* something to read or room to write, and the channel has to remember it in *)
(* _lastReadyState until a call says EAGAIN.  Every signal of the channel    *)
(* (received, sended, failed, closed) runs the user's handlers in the middle *)
(* of the channel's code, and those may call the channel again: stack holds  *)
(* the calls in progress, the innermost first.  A system call is a step, and *)
(* the kernel moves between any two steps.                                   *)
(*                                                                           *)
(* A unit of data is what one readv or one buffer of sendmsg carries; units  *)
(* are numbered.  Assertions are not evaluated, as in a release build.       *)
(* Definitions that start with Bad are slips the properties have to notice.  *)
(***************************************************************************)
EXTENDS Naturals, Sequences, SequencesExt

CONSTANTS
  BufsMin, BufsMax,   (* _bufsAmountMin4Enfill, _bufsAmountMax                *)
  Room,               (* units that the kernel takes until the peer reads     *)
  MaxSends,           (* bound: units that the user sends                     *)
  MaxIncoming,        (* bound: units that the peer sends                     *)
  MaxCalls            (* bound: calls of the user other than send             *)

ASSUME NetAssumption ==
  /\ BufsMin \in Nat /\ BufsMax \in Nat /\ BufsMin < BufsMax
  /\ Room \in Nat \ {0} /\ {MaxSends, MaxIncoming, MaxCalls} \subseteq Nat

Flags == {"read", "write", "error", "eof", "close"}

VARIABLES
  alive,      (* *_aliveMarker                                                *)
  sock,       (* _sock: none, open or closed                                  *)
  handler,    (* what _sockReadyOwner holds: none, connect or connected       *)
  ready,      (* Descriptor::_readyState                                      *)
  connected,  (* _connected                                                   *)
  lrs,        (* _lastReadyState                                              *)
  granula,    (* _receiveGranula: 0, or 1 for a unit                          *)
  data,       (* SendBuffer::_data                                            *)
  bufs,       (* SendBuffer::_bufsAmount                                      *)
  stack,      (* calls in progress                                            *)
  kernel,     (* the socket and its peer                                      *)
  wrote,      (* ghost: what sendmsg has taken                                *)
  got,        (* ghost: what received() has handed over                       *)
  closes,     (* ghost: how often closed() was emitted                        *)
  ending,     (* ghost: how the channel ended: no, peer or other              *)
  sends, calls   (* units sent and other calls made                           *)

vars == <<alive, sock, handler, ready, connected, lrs, granula, data, bufs, stack,
          kernel, wrote, got, closes, ending, sends, calls>>
buffer  == <<data, bufs>>
socket  == <<alive, sock, handler, ready>>
history == <<wrote, got, closes, ending>>
bounds  == <<sends, calls>>

-----------------------------------------------------------------------------
(* The kernel.                                                               *)

NewKernel(net) ==
  [net |-> net, inq |-> <<>>, sent |-> 0, room |-> Room, error |-> FALSE, edge |-> TRUE,
   nospace |-> FALSE, shutIn |-> FALSE, shutOut |-> FALSE]

(* sendmsg fails.                                                            *)
Broken == kernel.error \/ kernel.net = "reset" \/ kernel.shutOut
Eof  == kernel.net \in {"fin", "reset"} \/ kernel.shutIn
Mask ==
  IF kernel.net = "syn" THEN {}
  ELSE (IF kernel.inq # <<>> \/ Eof THEN {"read"} ELSE {})
         \union (IF kernel.room > 0 \/ kernel.shutOut \/ kernel.net = "reset" THEN {"write"} ELSE {})
         \union (IF kernel.error THEN {"error"} ELSE {})
         \union (IF Eof THEN {"eof"} ELSE {})

KernelMoves ==
  /\ sock = "open"
  /\ UNCHANGED <<socket, connected, lrs, granula, buffer, stack, history, bounds>>
Established == kernel.net \in {"open", "fin"}

PeerAnswers == /\ kernel.net = "syn" /\ KernelMoves
               /\ \/ kernel' = [kernel EXCEPT !.net = "open", !.edge = TRUE]
                  \/ kernel' = [kernel EXCEPT !.net = "reset", !.edge = TRUE, !.error = TRUE]
PeerSends == /\ kernel.net = "open" /\ kernel.sent < MaxIncoming /\ KernelMoves
             /\ kernel' = [kernel EXCEPT !.inq = Append(@, kernel.sent + 1), !.sent = @ + 1, !.edge = TRUE]
(* Room is told of only if it was missed.                                    *)
PeerReads == /\ Established /\ kernel.room < Room /\ KernelMoves
             /\ kernel' = [kernel EXCEPT !.room = @ + 1, !.nospace = FALSE,
                                         !.edge = @ \/ kernel.nospace]
PeerCloses == /\ kernel.net = "open" /\ KernelMoves
              /\ kernel' = [kernel EXCEPT !.net = "fin", !.edge = TRUE]
PeerResets == /\ Established /\ KernelMoves
              /\ kernel' = [kernel EXCEPT !.net = "reset", !.error = TRUE, !.edge = TRUE]

-----------------------------------------------------------------------------
(* The stack.                                                                *)
User == [f |-> "user"]
Ready(at, some) == [f |-> "ready", at |-> at, some |-> some]
Write(pre)      == [f |-> "write", pre |-> pre, total |-> FALSE]
Read            == [f |-> "read", total |-> FALSE]
Closing(by)     == [f |-> "close", by |-> by]
Shut(i, o)      == [f |-> "shutdown", input |-> i, output |-> o]

Top  == IF stack = <<>> THEN User ELSE Head(stack)
Runs(f) == alive /\ stack # <<>> /\ Top.f = f
Pop  == Tail(stack)
(* Return with a result: connectedSockReady notes whether something was done.*)
PopWith(done) ==
  IF Pop # <<>> /\ Head(Pop).f = "ready"
  THEN <<[Head(Pop) EXCEPT !.some = @ \/ done]>> \o Tail(Pop) ELSE Pop

(* Code of the user: from the event loop, or in a handler.  He has the       *)
(* channel once it was connected.                                            *)
UserCode == alive /\ Top = User /\ (connected \/ ending # "no")
UserCall == UserCode /\ calls < MaxCalls /\ calls' = calls + 1 /\ UNCHANGED sends

SockClosed == handler' = "none" /\ sock' = "closed" /\ ready' = {}

-----------------------------------------------------------------------------
(* failed().  With doClose the channel is closed, and closed() follows when  *)
(* the handlers of failed() have returned.  Flags that say that the          *)
(* descriptor is closed already leave it to its owner.                       *)
BadTellsClosed == TRUE   (* slip: closed() whether there was a connection or not *)
TellsClosed    == connected

ChannelFailed(doClose, below) ==
  LET closed == IF doClose /\ TellsClosed THEN <<[f |-> "closed"]>> ELSE <<>>
  IN  /\ stack' = <<User>> \o closed \o below
      /\ IF doClose
         THEN /\ connected' = FALSE
              /\ ending' = IF connected THEN "other" ELSE ending
              /\ IF "close" \in lrs' THEN UNCHANGED <<sock, handler, ready>> ELSE SockClosed
              /\ data' = <<>> /\ bufs' = 0
         ELSE UNCHANGED <<connected, ending, sock, handler, ready, buffer>>
      /\ UNCHANGED alive

EmitClosed ==
  /\ Runs("closed")
  /\ closes' = closes + 1
  /\ stack' = <<User>> \o Pop
  /\ UNCHANGED <<socket, connected, lrs, granula, buffer, kernel, wrote, got, ending, bounds>>

(* doWrite is entered only with an open socket and something to send.        *)
Writes(pre, n) == IF sock = "open" /\ n > 0 THEN <<Write(pre)>> ELSE <<>>
Reads          == IF sock = "open" THEN <<Read>> ELSE <<>>

(* enfillBufs.                                                               *)
Enfill(d) == IF Len(d) < BufsMax THEN Len(d) ELSE BufsMax

Writing == Runs("write") /\ "write" \in lrs /\ bufs > 0

(* sendmsg of the buffers.                                                   *)
WriteSome ==
  /\ Writing
  /\ ~ Broken /\ kernel.room > 0
  /\ \E n \in 1..bufs :
       /\ n <= kernel.room
       /\ kernel' = [kernel EXCEPT !.room = @ - n]
       /\ wrote' = wrote \o SubSeq(data, 1, n)
       /\ data' = SubSeq(data, n + 1, Len(data))
       /\ bufs' = Enfill(data')
  /\ stack' = [stack EXCEPT ![1].total = TRUE]
  /\ UNCHANGED <<socket, connected, lrs, granula, got, closes, ending, bounds>>

(* EAGAIN.                                                                   *)
WriteAgain ==
  /\ Writing
  /\ ~ Broken /\ kernel.room = 0
  /\ lrs' = lrs \ {"write"}
  /\ kernel' = [kernel EXCEPT !.nospace = TRUE]
  /\ UNCHANGED <<socket, connected, granula, buffer, stack, history, bounds>>

(* Any other error: before a close it only empties the buffer.               *)
WriteFails ==
  /\ Writing
  /\ Broken
  /\ kernel' = [kernel EXCEPT !.error = FALSE]
  /\ UNCHANGED lrs
  /\ IF Top.pre THEN /\ data' = <<>> /\ bufs' = 0
                     /\ stack' = PopWith(FALSE)
                     /\ UNCHANGED <<socket, connected, ending>>
     ELSE ChannelFailed(TRUE, PopWith(FALSE))
  /\ UNCHANGED <<granula, wrote, got, closes, bounds>>

(* The end of doWrite: sended() tells what was written.                      *)
WriteEnds ==
  /\ Runs("write")
  /\ "write" \notin lrs \/ bufs = 0
  /\ stack' = (IF Top.total /\ ~ Top.pre THEN <<User>> ELSE <<>>) \o PopWith(Top.total)
  /\ UNCHANGED <<socket, connected, lrs, granula, buffer, kernel, history, bounds>>

-----------------------------------------------------------------------------
Reading == Runs("read") /\ "read" \in lrs /\ granula > 0

(* readv returned data: received() is emitted.                               *)
ReadSome ==
  /\ Reading /\ sock = "open" /\ kernel.inq # <<>>
  /\ got' = Append(got, Head(kernel.inq))
  /\ kernel' = [kernel EXCEPT !.inq = Tail(@)]
  /\ stack' = <<User>> \o [stack EXCEPT ![1].total = TRUE]
  /\ UNCHANGED <<socket, connected, lrs, granula, buffer, wrote, closes, ending, bounds>>

(* EAGAIN.                                                                   *)
ReadAgain ==
  /\ Reading /\ sock = "open" /\ kernel.inq = <<>> /\ ~ kernel.error /\ ~ Eof
  /\ lrs' = lrs \ {"read"}
  /\ stack' = PopWith(Top.total)
  /\ UNCHANGED <<socket, connected, granula, buffer, kernel, history, bounds>>

(* Zero bytes, the peer has closed: every flag but eof is set.               *)
ReadEof ==
  /\ Reading /\ sock = "open" /\ kernel.inq = <<>> /\ ~ kernel.error /\ Eof
  /\ lrs' = (lrs \ {"read"}) \union (Flags \ {"eof"})
  /\ stack' = PopWith(FALSE)
  /\ UNCHANGED <<socket, connected, granula, buffer, kernel, history, bounds>>

(* An error, EBADF too when a handler has closed the socket: every flag but  *)
(* error is set, the one of a closed descriptor among them.                  *)
ReadFails ==
  /\ Reading
  /\ sock # "open" \/ (kernel.inq = <<>> /\ kernel.error)
  /\ kernel' = [kernel EXCEPT !.error = FALSE]
  /\ IF "eof" \in lrs
     THEN stack' = PopWith(FALSE) /\ UNCHANGED <<socket, connected, buffer, ending, lrs>>
     ELSE /\ lrs' = lrs \union (Flags \ {"error"})
          /\ ChannelFailed(TRUE, PopWith(FALSE))
  /\ UNCHANGED <<granula, wrote, got, closes, bounds>>

ReadEnds ==
  /\ Runs("read")
  /\ "read" \notin lrs \/ granula = 0
  /\ stack' = PopWith(Top.total)
  /\ UNCHANGED <<socket, connected, lrs, granula, buffer, kernel, history, bounds>>

-----------------------------------------------------------------------------
(* close(), after what could still be written has been.                      *)
CloseEnds ==
  /\ Runs("close")
  /\ IF "close" \in lrs THEN UNCHANGED <<sock, handler, ready>> ELSE SockClosed
  /\ lrs' = {"close"}
  /\ data' = <<>> /\ bufs' = 0
  /\ connected' = FALSE
  /\ closes' = IF TellsClosed THEN closes + 1 ELSE closes
  /\ ending' = IF ~ connected THEN ending
               ELSE IF Top.by = "peer" /\ granula > 0 THEN "peer" ELSE "other"
  /\ stack' = (IF TellsClosed THEN <<User>> ELSE <<>>) \o Pop
  /\ UNCHANGED <<alive, granula, kernel, wrote, got, bounds>>

(* Descriptor::shutdown.                                                     *)
ShutdownEnds ==
  /\ Runs("shutdown")
  /\ kernel' = IF sock # "open" THEN kernel
               ELSE [kernel EXCEPT !.shutIn = @ \/ Top.input, !.shutOut = @ \/ Top.output,
                                   !.edge = TRUE]
  /\ stack' = Pop
  /\ UNCHANGED <<socket, connected, lrs, granula, buffer, history, bounds>>

-----------------------------------------------------------------------------
(* The methods of the channel.                                               *)

Send ==
  /\ UserCode /\ sends < MaxSends
  /\ sends' = sends + 1
  /\ IF connected
     THEN /\ data' = Append(data, sends + 1)
          /\ bufs' = IF BufsMin >= bufs THEN Enfill(data') ELSE bufs
          /\ stack' = (IF "write" \in lrs THEN Writes(FALSE, bufs') ELSE <<>>) \o stack
          /\ UNCHANGED <<connected, ending, socket, lrs>>
     ELSE UNCHANGED lrs /\ ChannelFailed(FALSE, stack)
  /\ UNCHANGED <<granula, kernel, wrote, got, closes, calls>>

(* startReceive, stopReceive, setReceiveGranula.                             *)
BadSetReceiveGranula(g) ==   (* slip: what is there already is not read        *)
  /\ UserCall
  /\ granula' = g
  /\ UNCHANGED <<socket, connected, lrs, buffer, stack, kernel, history>>

SetReceiveGranula(g) ==
  /\ UserCall
  /\ granula' = g
  /\ stack' = (IF connected /\ granula = 0 /\ g > 0 /\ "read" \in lrs THEN Reads ELSE <<>>) \o stack
  /\ UNCHANGED <<socket, connected, lrs, buffer, kernel, history>>

(* A granula of more than 32 bits.                                           *)
InvalidGranula ==
  /\ UserCall
  /\ UNCHANGED lrs
  /\ ChannelFailed(FALSE, stack)
  /\ UNCHANGED <<granula, kernel, wrote, got, closes>>

Shutdown(i, o) ==
  /\ UserCall /\ sock = "open"
  /\ granula' = IF i THEN 0 ELSE granula
  /\ stack' = (IF o /\ connected /\ "write" \in lrs THEN Writes(TRUE, bufs) ELSE <<>>)
                \o <<Shut(i, o)>> \o stack
  /\ UNCHANGED <<socket, connected, lrs, buffer, kernel, history>>

Close ==
  /\ UserCall
  /\ stack' = (IF connected /\ "write" \in lrs THEN Writes(TRUE, bufs) ELSE <<>>) \o <<Closing("user")>> \o stack
  /\ UNCHANGED <<socket, connected, lrs, granula, buffer, kernel, history>>

(* The user lets go of the channel: involvedChanged(false), delete c.  The   *)
(* calls in progress look at the alive marker and return.  Not below doRead, *)
(* which does not look.                                                      *)
Drop ==
  /\ UserCode
  /\ \A i \in DOMAIN stack : stack[i].f # "read"
  /\ alive' = FALSE /\ SockClosed
  /\ stack' = <<>>
  /\ UNCHANGED <<connected, lrs, granula, buffer, kernel, history, bounds>>

(* A handler returns.                                                        *)
Return ==
  /\ Runs("user")
  /\ stack' = Pop
  /\ UNCHANGED <<socket, connected, lrs, granula, buffer, kernel, history, bounds>>

-----------------------------------------------------------------------------
(* connect(), on behalf of Client.                                           *)

Connect ==
  /\ alive /\ sock = "none"
  /\ \/ /\ sock' = "open" /\ handler' = "connected" /\ connected' = TRUE
        /\ kernel' = NewKernel("open")
        /\ stack' = <<User>>
        /\ UNCHANGED <<alive, ready>>
     \/ /\ sock' = "open" /\ handler' = "connect"
        /\ kernel' = NewKernel("syn")
        /\ UNCHANGED <<alive, ready, connected, stack>>
     \/ /\ alive' = FALSE /\ SockClosed
        /\ UNCHANGED <<connected, kernel, stack>>
  /\ UNCHANGED <<lrs, granula, buffer, history, bounds>>

(* The user cancels, or drops, the future of connect.                        *)
CancelConnect ==
  /\ alive /\ handler = "connect" /\ stack = <<>>
  /\ alive' = FALSE /\ SockClosed
  /\ UNCHANGED <<connected, lrs, granula, buffer, stack, kernel, history, bounds>>

(* connectSockReady.                                                         *)
ConnectSockReady ==
  /\ alive /\ stack = <<>> /\ handler = "connect" /\ ready # {}
  /\ IF {"error", "eof"} \intersect ready # {}
     THEN alive' = FALSE /\ SockClosed /\ UNCHANGED <<connected, lrs, stack>>
     ELSE /\ connected' = TRUE
          /\ lrs' = lrs \union ready
          /\ handler' = "connected" /\ ready' = {}
          /\ stack' = <<User>>
          /\ UNCHANGED <<alive, sock>>
  /\ UNCHANGED <<granula, buffer, kernel, history, bounds>>

(* Epoll::execute reports the descriptor.                                    *)
Poll ==
  /\ alive /\ stack = <<>> /\ sock = "open" /\ kernel.edge
  /\ ready' = ready \union Mask
  /\ kernel' = [kernel EXCEPT !.edge = FALSE, !.nospace = @ \/ kernel.room = 0]
  /\ UNCHANGED <<alive, sock, handler, connected, lrs, granula, buffer, stack, history, bounds>>

-----------------------------------------------------------------------------
(* connectedSockReady.                                                       *)

SockReady ==
  /\ alive /\ stack = <<>> /\ handler = "connected" /\ ready # {}
  /\ lrs' = lrs \union ready
  /\ ready' = {}
  /\ stack' = <<Ready("write", FALSE)>>
  /\ UNCHANGED <<alive, sock, handler, connected, granula, buffer, kernel, history, bounds>>

At(pc) == Runs("ready") /\ Top.at = pc

(* The error is fetched, which clears it; there may be none by now.          *)
ReadyError ==
  /\ At("write") /\ "error" \in lrs
  /\ lrs' = {}
  /\ kernel' = [kernel EXCEPT !.error = FALSE]
  /\ IF sock # "open" \/ kernel.error THEN ChannelFailed(TRUE, Pop)
     ELSE /\ stack' = <<Closing("peer")>> \o Pop
          /\ UNCHANGED <<socket, connected, buffer, ending>>
  /\ UNCHANGED <<granula, wrote, got, closes, bounds>>

ReadyWrite ==
  /\ At("write") /\ "error" \notin lrs
  /\ stack' = (IF "write" \in lrs THEN Writes(FALSE, bufs) ELSE <<>>) \o <<Ready("read", Top.some)>> \o Pop
  /\ UNCHANGED <<socket, connected, lrs, granula, buffer, kernel, history, bounds>>

(* slip: the end is looked at before what came with it has been read.        *)
BadReadyRead ==
  /\ At("read")
  /\ stack' = (IF "read" \in lrs /\ "eof" \notin lrs THEN Reads ELSE <<>>)
                \o <<Ready("eof", Top.some)>> \o Pop
  /\ UNCHANGED <<socket, connected, lrs, granula, buffer, kernel, history, bounds>>

ReadyRead ==
  /\ At("read")
  /\ stack' = (IF "read" \in lrs THEN Reads ELSE <<>>) \o <<Ready("eof", Top.some)>> \o Pop
  /\ UNCHANGED <<socket, connected, lrs, granula, buffer, kernel, history, bounds>>

ReadyEof ==
  /\ At("eof")
  /\ lrs' = IF "eof" \in lrs THEN {} ELSE lrs
  /\ stack' = (CASE "eof" \in lrs -> <<Closing("peer")>>
                 [] "eof" \notin lrs /\ Top.some -> <<Ready("write", FALSE)>>
                 [] OTHER -> <<>>) \o Pop
  /\ UNCHANGED <<socket, connected, granula, buffer, kernel, history, bounds>>

-----------------------------------------------------------------------------
(* A channel is made by a client, not connected, or by a server.             *)
Init ==
  /\ \E accepted \in BOOLEAN :
       /\ sock = IF accepted THEN "open" ELSE "none"
       /\ handler = IF accepted THEN "connected" ELSE "none"
       /\ connected = accepted
       /\ kernel = NewKernel("open")
       /\ stack = IF accepted THEN <<User>> ELSE <<>>
  /\ alive = TRUE /\ ready = {} /\ lrs = {}
  /\ granula = 0 /\ data = <<>> /\ bufs = 0
  /\ wrote = <<>> /\ got = <<>> /\ closes = 0 /\ ending = "no"
  /\ sends = 0 /\ calls = 0

Peer    == PeerAnswers \/ PeerSends \/ PeerReads \/ PeerCloses \/ PeerResets
Methods == Send \/ InvalidGranula \/ Close \/ Drop \/ Connect \/ CancelConnect
             \/ (\E g \in {0, 1} : SetReceiveGranula(g))
             \/ Shutdown(TRUE, FALSE) \/ Shutdown(FALSE, TRUE) \/ Shutdown(TRUE, TRUE)
Inside  == Return \/ EmitClosed \/ WriteSome \/ WriteAgain \/ WriteFails \/ WriteEnds
             \/ ReadSome \/ ReadAgain \/ ReadEof \/ ReadFails \/ ReadEnds \/ CloseEnds \/ ShutdownEnds
             \/ ReadyError \/ ReadyWrite \/ ReadyRead \/ ReadyEof
Loop    == Poll \/ ConnectSockReady \/ SockReady

Next == Peer \/ Methods \/ Inside \/ Loop

(* Code and handlers go on, the event loop polls, and a peer that is there   *)
(* reads.                                                                    *)
Fairness == WF_vars(Inside) /\ WF_vars(Loop) /\ WF_vars(PeerReads)

Spec     == Init /\ [][Next]_vars
FairSpec == Spec /\ Fairness

-----------------------------------------------------------------------------
(* The data of the user reaches the socket whole, in order and once, and is  *)
(* handed over the same way: nested doWrites and doReads neither repeat nor  *)
(* skip anything.  A channel that the peer has closed has handed over        *)
(* everything, unless receiving was stopped or shut down.                    *)
NothingLost ==
  /\ alive /\ connected /\ kernel.net # "reset" /\ ~ kernel.shutOut
       => wrote \o data = [i \in 1..sends |-> i]
  /\ got \o kernel.inq = [i \in 1..kernel.sent |-> i]
  /\ ending = "peer" /\ kernel.net = "fin" /\ ~ kernel.shutIn => Len(got) = kernel.sent

(* closed() tells of the end of a connection, once: whether it came from the *)
(* user, the peer, an error, or several of them one inside the other.        *)
ClosedOnce ==
  /\ closes <= 1
  /\ alive /\ stack = <<>> => (closes = 1 <=> ending # "no")
  /\ alive /\ connected /\ stack = <<>> => sock = "open" /\ handler = "connected"

(* Nothing gets stuck although readiness is told only once: what is to be    *)
(* sent is written or given up, what has come is handed over while receiving *)
(* is on, and the end of the peer ends the channel.                          *)
Flows ==
  /\ data # <<>> ~> (data = <<>> \/ ~ alive)
  /\ (connected /\ granula > 0 /\ kernel.inq # <<>>)
       ~> (~ alive \/ ~ connected \/ granula = 0 \/ kernel.inq = <<>>)
  /\ (connected /\ kernel.net \in {"fin", "reset"}) ~> (~ alive \/ ~ connected)
===============================================================================
