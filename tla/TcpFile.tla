------------------------------ MODULE TcpFile -------------------------------
(***************************************************************************)
(* The file transfer of src/streaming/tcp_streaming: sentFile of           *)
(* tcp_server.c and recvFile of tcp_client.c, one connection between two   *)
(* processes.  Either may be killed.  A byte is its place in the file; the *)
(* file name reaches the server in one piece.                              *)
(***************************************************************************)
EXTENDS Integers, Sequences, SequencesExt

CONSTANTS FileLen,    \* bytes in the file
          BuffLen,    \* MAX: the size of both buffers
          WireLen     \* bound: bytes under way

ASSUME TcpAssumption == FileLen \in Nat /\ BuffLen \in Nat \ {0} /\ WireLen \in Nat

\* Byte 0 stands for what is in no file: both loops pass a length of -1 to the
\* next call, which takes it for a size and fails, or finds something to copy.
Junk == 0

VARIABLES present,    \* the file exists where the server looks
          openable,   \* the server may open it
          server,     \* where sentFile is
          exist,      \* its answer: negative when there is no such file
          position,   \* bytes read from the file (or sent, when it is not open)
          named,      \* the name is under way
          answer,     \* the answer under way: a sequence of at most one
          wire,       \* the bytes under way
          client,     \* where recvFile is
          told,       \* its exist
          output,     \* the bytes in the output file
          hole,       \* a write has failed, or the output could not be opened
          killed      \* a process was killed

tcpVars == <<present, openable, server, exist, position, named, answer, wire,
             client, told, output, hole, killed>>

\* exist and told are read uninitialised on some paths: any int, so either sign.
TcpInit ==
  /\ present \in BOOLEAN
  /\ openable \in BOOLEAN
  /\ exist \in {-1, 1} /\ told \in {-1, 1}
  /\ server = "name" /\ client = "name"
  /\ position = 0
  /\ named = FALSE
  /\ answer = <<>> /\ wire = <<>> /\ output = <<>>
  /\ hole \in BOOLEAN
  /\ killed = FALSE

clientVars == <<client, told, output, hole>>
serverVars == <<present, openable, server, exist, position>>

-----------------------------------------------------------------------------
(* tcp_server.c: sentFile *)

\* read returns the name, or 0 when the client is gone.
ReadName ==
  /\ server = "name"
  /\ \/ /\ named
        /\ server' = "exist"
        /\ exist' = IF present THEN exist ELSE -1
     \/ /\ ~named /\ client = "end"
        /\ server' = "end"
        /\ exist' = exist
  /\ UNCHANGED <<present, openable, position, named, answer, wire, clientVars, killed>>

\* A send to a client that is gone ends the process (SIGPIPE).
SendExist ==
  /\ server = "exist"
  /\ server' = IF client = "end" \/ exist < 0 THEN "end" ELSE "copy"
  /\ answer' = IF client = "end" THEN answer ELSE <<exist>>
  /\ UNCHANGED <<present, openable, exist, position, named, wire, clientVars, killed>>

CopyChunk ==
  /\ server = "copy"
  /\ openable
  /\ LET len == IF FileLen - position < BuffLen THEN FileLen - position ELSE BuffLen
     IN /\ client = "end" \/ Len(wire) + len <= WireLen
        /\ position' = position + len
        /\ wire' = IF client = "end" THEN wire
                   ELSE wire \o [i \in 1 .. len |-> position + i]
        /\ server' = IF len = 0 \/ client = "end" THEN "end" ELSE "copy"
  /\ UNCHANGED <<present, openable, exist, named, answer, clientVars, killed>>

\* open's -1 is not 0: the loop begins, and reads and sends -1 bytes for ever.
\* (Bound: it finds something to send FileLen times.)
CopyUnopened ==
  /\ server \in {"copy", "spin"}
  /\ ~openable
  /\ server' = IF client = "end" THEN "end" ELSE "spin"
  /\ \/ UNCHANGED <<wire, position>>
     \/ /\ client # "end" /\ Len(wire) < WireLen /\ position < FileLen
        /\ wire' = Append(wire, Junk)
        /\ position' = position + 1
  /\ UNCHANGED <<present, openable, exist, named, answer, clientVars, killed>>

ServerStep == ReadName \/ SendExist \/ CopyChunk \/ CopyUnopened

-----------------------------------------------------------------------------
(* tcp_client.c: recvFile *)

\* send fails when the server is gone, or puts the name where nobody reads it
\* (the client connects to a live server).
SendName ==
  /\ client = "name"
  /\ named' = (server = "name")
  /\ client' \in {"exist"} \cup IF server = "name" THEN {} ELSE {"end"}
  /\ UNCHANGED <<serverVars, answer, wire, told, output, hole, killed>>

(* Mutant: the client waits for an answer though the server is gone. *)
WaitForAnswer ==
  /\ client = "exist"
  /\ answer # <<>>
  /\ told' = Head(answer)
  /\ answer' = <<>>
  /\ client' = IF told' < 0 THEN "end" ELSE "copy"
  /\ UNCHANGED <<serverVars, named, wire, output, hole, killed>>

\* read gives the answer, or nothing when the server is gone: told stays as it was.
ReadExist ==
  /\ client = "exist"
  /\ answer # <<>> \/ server = "end"
  /\ told' = IF answer # <<>> THEN Head(answer) ELSE told
  /\ answer' = <<>>
  /\ client' = IF told' < 0 THEN "end" ELSE "copy"
  /\ UNCHANGED <<serverVars, named, wire, output, hole, killed>>

(* Mutant: the whole buffer is written, however much was read. *)
ReadWholeBuffer ==
  /\ client = "copy"
  /\ \/ \E len \in 1 .. BuffLen :
          /\ len <= Len(wire)
          /\ wire' = SubSeq(wire, len + 1, Len(wire))
          /\ output' = output \o SubSeq(wire, 1, len) \o [i \in 1 .. BuffLen - len |-> Junk]
          /\ UNCHANGED <<client, hole>>
     \/ /\ wire = <<>> /\ server = "end"
        /\ client' = "success"
        /\ UNCHANGED <<wire, output, hole>>
  /\ UNCHANGED <<serverVars, named, answer, told, killed>>

\* read gives what has come, up to MAX bytes; a write that fails is reported
\* and the loop goes on.  Nothing more to come ends it with "successfully".
ReadChunk ==
  /\ client = "copy"
  /\ \/ \E len \in 1 .. BuffLen :
          /\ len <= Len(wire)
          /\ wire' = SubSeq(wire, len + 1, Len(wire))
          /\ \/ ~hole /\ output' = output \o SubSeq(wire, 1, len) /\ hole' = hole
             \/ output' = output /\ hole' = TRUE
          /\ client' = client
     \/ /\ wire = <<>> /\ server = "end"
        /\ client' = "success"
        /\ UNCHANGED <<wire, output, hole>>
  /\ UNCHANGED <<serverVars, named, answer, told, killed>>

\* run_tcp_client closes the socket.
CloseSocket ==
  /\ client = "success"
  /\ client' = "end"
  /\ UNCHANGED <<serverVars, named, answer, wire, told, output, hole, killed>>

ClientStep == SendName \/ ReadExist \/ ReadChunk \/ CloseSocket

-----------------------------------------------------------------------------
(* Outside the programs: a process is killed.  The other sees its end.     *)
Kill ==
  /\ ~killed
  /\ killed' = TRUE
  /\ \/ server # "end" /\ server' = "end" /\ client' = client
     \/ client # "end" /\ client' = "end" /\ server' = server
  /\ UNCHANGED <<present, openable, exist, position, named, answer, wire, told,
                 output, hole>>

TcpNext == ServerStep \/ ClientStep \/ Kill

\* The two processes are scheduled; nothing kills them in the end.
TcpFairness == WF_tcpVars(ServerStep) /\ WF_tcpVars(ClientStep)

TcpSpec == TcpInit /\ [][TcpNext]_tcpVars /\ TcpFairness

-----------------------------------------------------------------------------
Content == [i \in 1 .. FileLen |-> i]

(***************************************************************************)
(* The output is a beginning of the file, however the bytes are cut on     *)
(* their way, as long as the server could open the file and no write       *)
(* failed; and the client reports success only for all of it, unless a     *)
(* process was killed.                                                     *)
(***************************************************************************)
OutputIsFile ==
  present /\ openable /\ ~hole =>
    /\ IsPrefix(output, Content)
    /\ client = "success" /\ ~killed => output = Content

(***************************************************************************)
(* Neither process waits for the other for ever, whichever is killed and   *)
(* whatever fails, unless the server cannot open the file it found.        *)
(***************************************************************************)
TransferEnds == openable => <>(server = "end" /\ client = "end")

=============================================================================
