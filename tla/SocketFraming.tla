--------------------------- MODULE SocketFraming ---------------------------
(***************************************************************************)
(* The plain TCP connections between Admin programs and the Deployer, and  *)
(* SocketUtil's messages on them: the length of the text as 8 bytes, then  *)
(* the text, which the Deployer's SocketUtil::recv puts together from      *)
(* chunks of at most MAX_BUF_LEN bytes.                                    *)
(*                                                                         *)
(* An element of a stream is the length field, or one byte of text.  The   *)
(* length field is the first thing sent on a connection and smaller than   *)
(* any TCP segment, so it is never read in part.  A policy is text: it has *)
(* no NUL.  A chunk that fills buffer[MAX_BUF_LEN] has no terminating NUL, *)
(* so append(buffer) goes on into whatever lies behind the buffer: nothing *)
(* if that starts with a NUL, else Junk.                                   *)
(***************************************************************************)
EXTENDS Naturals, Sequences, FiniteSets

CONSTANTS Admins,       \* runs of the Admin program, one connection each
          PolicyText,   \* PolicyText[a]: the text of a's policy.txt
          MAX_BUF_LEN,  \* size of the receive buffer
          Junk,         \* what lies behind the buffer
          Nobody        \* no connection

ASSUME SocketFramingAssumption ==
  /\ IsFiniteSet(Admins)
  /\ Nobody \notin Admins
  /\ Junk \in Nat
  /\ PolicyText \in [Admins -> Seq(Nat \ {Junk})]
  /\ MAX_BUF_LEN \in Nat \ {0}

VARIABLES admin,    \* admin[a]: how far the Admin program is
          stream,   \* stream[a]: sent and not yet read
          backlog,  \* connections not yet accepted, oldest first
          dataLen,  \* SocketUtil::recv: bytes still to be read
          data      \* SocketUtil::recv: the text so far

framingVars == <<admin, stream, backlog, dataLen, data>>

AdminStates == {"ready", "refused", "connected", "length", "sent",
                "closed",   \* the program ended, its socket is closed
                "reset"}    \* the connection was torn down

FramingTypeOK ==
  /\ admin \in [Admins -> AdminStates]
  /\ stream \in [Admins -> Seq(Nat)]
  /\ backlog \in Seq(Admins)
  /\ dataLen \in Nat
  /\ data \in Seq(Nat)

FramingInit ==
  /\ admin = [a \in Admins |-> "ready"]
  /\ stream = [a \in Admins |-> <<>>]
  /\ backlog = <<>>
  /\ dataLen = 0
  /\ data = <<>>

-----------------------------------------------------------------------------
(* The Admin program: PolicyDeployer::deployPolicy, SocketUtil::send.      *)

(* setConnection; nobody listens: "Failed to set connection".              *)
AdminConnect(a, listening) ==
  /\ admin[a] = "ready"
  /\ admin' = [admin EXCEPT ![a] = IF listening THEN "connected"
                                   ELSE "refused"]
  /\ backlog' = IF listening THEN Append(backlog, a) ELSE backlog
  /\ UNCHANGED <<stream, dataLen, data>>

AdminSendLength(a) ==
  /\ admin[a] = "connected"
  /\ admin' = [admin EXCEPT ![a] = "length"]
  /\ stream' = [stream EXCEPT ![a] = Append(@, Len(PolicyText[a]))]
  /\ UNCHANGED <<backlog, dataLen, data>>

AdminSendText(a) ==
  /\ admin[a] = "length"
  /\ admin' = [admin EXCEPT ![a] = "sent"]
  /\ stream' = [stream EXCEPT ![a] = @ \o PolicyText[a]]
  /\ UNCHANGED <<backlog, dataLen, data>>

(* destroyConnection, or the program ends before it gets there.            *)
AdminClose(a) ==
  /\ admin[a] \in {"connected", "length", "sent"}
  /\ admin' = [admin EXCEPT ![a] = "closed"]
  /\ UNCHANGED <<stream, backlog, dataLen, data>>

(* The connection is torn down; what was not read yet may be lost.         *)
AdminReset(a) ==
  /\ admin[a] \in {"connected", "length", "sent"}
  /\ admin' = [admin EXCEPT ![a] = "reset"]
  /\ \E rest \in {stream[a], <<>>} : stream' = [stream EXCEPT ![a] = rest]
  /\ UNCHANGED <<backlog, dataLen, data>>

-----------------------------------------------------------------------------
(* The Deployer's SocketUtil::recv, one ::recv at a time.                  *)

Ended(a) == stream[a] = <<>> /\ admin[a] \in {"closed", "reset"}

(* The first ::recv; its result is not looked at, and dataLen stays 0 when *)
(* it returns 0 or -1.                                                     *)
RecvLength(a) ==
  /\ \/ /\ stream[a] # <<>>
        /\ dataLen' = Head(stream[a])
        /\ stream' = [stream EXCEPT ![a] = Tail(@)]
     \/ Ended(a) /\ dataLen' = 0 /\ UNCHANGED stream
  /\ data' = <<>>
  /\ UNCHANGED <<admin, backlog>>

(* The number of bytes the next ::recv asks for.                           *)
Want == IF dataLen > MAX_BUF_LEN THEN MAX_BUF_LEN ELSE dataLen

(* data.append(buffer) after ::recv returned n bytes.                      *)
Appended(a, n) ==
  {data \o SubSeq(stream[a], 1, n) \o tail :
     tail \in {<<>>} \cup (IF n = MAX_BUF_LEN THEN {<<Junk>>} ELSE {})}

(* Faulty variants: dataLen goes down by what was asked for, or by the     *)
(* size of the buffer.                                                     *)
RecvChunkAsked(a) ==
  /\ dataLen > 0
  /\ \E n \in 1..Len(stream[a]) :
       /\ n <= Want
       /\ data' \in Appended(a, n)
       /\ stream' = [stream EXCEPT ![a] = SubSeq(@, n + 1, Len(@))]
  /\ dataLen' = dataLen - Want
  /\ UNCHANGED <<admin, backlog>>

RecvChunkBuffer(a) ==
  /\ dataLen > 0
  /\ \E n \in 1..Len(stream[a]) :
       /\ n <= Want
       /\ data' \in Appended(a, n)
       /\ stream' = [stream EXCEPT ![a] = SubSeq(@, n + 1, Len(@))]
  /\ dataLen' = dataLen - MAX_BUF_LEN
  /\ UNCHANGED <<admin, backlog>>

(* ::recv returns any number of the bytes that are there.                  *)
RecvChunk(a) ==
  /\ dataLen > 0
  /\ \E n \in 1..Len(stream[a]) :
       /\ n <= Want
       /\ data' \in Appended(a, n)
       /\ stream' = [stream EXCEPT ![a] = SubSeq(@, n + 1, Len(@))]
       /\ dataLen' = dataLen - n
  /\ UNCHANGED <<admin, backlog>>

(* It returns 0 at the end of the stream: the loop goes round for ever.    *)
RecvSpins(a) ==
  /\ dataLen > 0 /\ Ended(a) /\ admin[a] = "closed"
  /\ UNCHANGED framingVars

(* It returns -1 on a connection that was reset.                           *)
RecvFails(a) ==
  /\ dataLen > 0 /\ Ended(a) /\ admin[a] = "reset"
  /\ UNCHANGED framingVars

-----------------------------------------------------------------------------
(* A text is an original, with what lay behind a full buffer in between.   *)
OnlyJunkAdded(text, original) ==
  \E at \in [1..Len(original) -> 1..Len(text)] :
    /\ \A i \in 1..Len(original) : text[at[i]] = original[i]
    /\ \A i, j \in 1..Len(original) : i < j => at[i] < at[j]
    /\ \A k \in 1..Len(text) :
         text[k] = Junk \/ \E i \in 1..Len(original) : at[i] = k

(* The part of a's policy that has been read when n bytes are missing.     *)
ReadButFor(a, n) == SubSeq(PolicyText[a], 1, Len(PolicyText[a]) - n)
=============================================================================
