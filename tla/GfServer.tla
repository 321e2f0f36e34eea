------------------------------ MODULE GfServer ------------------------------
(***************************************************************************)
(* The GETFILE server: gfserver_serve(), gfs_sendheader(), gfs_send() and  *)
(* gfs_abort() of gflib/gfserver.c, with handler_get() of mtgf/handler.c   *)
(* as the registered handler.  One thread accepts a connection, reads the  *)
(* request with one read(), lets the handler respond, and goes around.     *)
(*                                                                         *)
(* A path of content.txt is open for the life of the server; the file may  *)
(* shrink while it is served.                                              *)
(***************************************************************************)
EXTENDS Tcp

CONSTANTS
  Paths,       \* the paths clients ask for
  PathOf,      \* the path each call asks for
  MaxFds,      \* sockets the process may have open, the listening one apart
  MayFragment, \* TRUE if read() may return a part of the request
  MaxShrinks   \* bound: times a served file shrinks

ASSUME PathOfAssumption == PathOf \in [Calls -> Paths]
ASSUME BoundsAssumption ==
  MaxFds \in Nat /\ MaxShrinks \in Nat /\ MayFragment \in BOOLEAN

VARIABLES
  spc,      \* where the server is
  conn,     \* the connection it serves
  fds,      \* sockets accepted and never closed
  found,    \* the content has the path of this request
  fileLen,  \* file_len, the size when the header was sent
  sent,     \* bytes_transferred
  freed,    \* times the context of this connection has been freed
  partial,  \* the calls of whose request read() returned only a part
  aborted,  \* the calls the handler gave up on, their connections left open
  size,     \* the size of each file of the content
  content,  \* the paths in content.txt
  shrinks   \* times a file shrank, for MaxShrinks

serverVars ==
  <<spc, conn, fds, found, fileLen, sent, freed, partial, aborted, size, content, shrinks>>

ServerStates == {"accept", "read", "header", "body", "free", "returned", "killed"}
Up == spc \notin {"returned", "killed"}

ServerInit ==
  /\ spc = "accept"
  /\ conn = CHOOSE c \in Calls : TRUE
  /\ fds = 0
  /\ found = FALSE
  /\ fileLen = 0
  /\ sent = 0
  /\ freed = 0
  /\ partial = {}
  /\ aborted = {}
  /\ size \in [Paths -> 0 .. MaxSize]
  /\ content \in SUBSET Paths
  /\ shrinks = 0

(* The process ends: by returning from gfserver_serve and main, or by a    *)
(* signal.                                                                 *)
End(state) ==
  /\ spc' = state
  /\ CloseServer
  /\ UNCHANGED <<asked, gone, broken>>

(* accept() fails when the process is out of descriptors: the server       *)
(* closes its listening socket and returns.                                *)
AcceptFails ==
  /\ spc = "accept"
  /\ fds = MaxFds
  /\ End("returned")
  /\ UNCHANGED <<down, conn, fds, found, fileLen, sent, freed, partial, aborted,
                 size, content, shrinks>>

Accept ==
  /\ spc = "accept"
  /\ fds < MaxFds
  /\ backlog # <<>>
  /\ conn' = Head(backlog)
  /\ backlog' = Tail(backlog)
  /\ fds' = fds + 1
  /\ freed' = 0
  /\ spc' = "read"
  /\ UNCHANGED <<listening, asked, down, gone, shut, broken, fault,
                 found, fileLen, sent, partial, aborted, size, content, shrinks>>

(* read() of the request fails: the server returns altogether.             *)
ReadFails ==
  /\ spc = "read"
  /\ broken[conn]
  /\ freed' = freed + 1
  /\ End("returned")
  /\ UNCHANGED <<down, conn, fds, found, fileLen, sent, partial, aborted,
                 size, content, shrinks>>

(* Mutant: the server does not wait for the request to arrive.             *)
ReadRequestEarly ==
  /\ spc = "read"
  /\ found' = (asked[conn] /\ PathOf[conn] \in content)
  /\ spc' = "header"
  /\ UNCHANGED <<tcpVars, conn, fds, fileLen, sent, freed, partial, aborted,
                 size, content, shrinks>>

(* read() returns the request, or a part of it, or nothing from a client   *)
(* that is gone; checkHeader() answers "filenotfound" but for a whole one. *)
(* handler_get() looks the path up.                                        *)
ReadRequest ==
  /\ spc = "read"
  /\ asked[conn] \/ gone[conn]
  /\ \E whole \in BOOLEAN :
       /\ whole => asked[conn]
       /\ ~whole => MayFragment \/ ~asked[conn]
       /\ found' = (whole /\ PathOf[conn] \in content)
       /\ partial' = IF whole \/ ~asked[conn] THEN partial ELSE partial \cup {conn}
  /\ spc' = "header"
  /\ UNCHANGED <<tcpVars, conn, fds, fileLen, sent, freed, aborted, size, content, shrinks>>

(* Mutant: the handler goes on after FILE_NOT_FOUND, whose length is 0.     *)
HandlerLoopOnce(n, len) == IF n <= len THEN "body" ELSE "free"

(* Where the handler goes with n of len units sent: it is done, or sends   *)
(* more.                                                                   *)
HandlerLoop(n, len) == IF n < len THEN "body" ELSE "free"

(* gfs_sendheader().  Its result is not looked at, so that a header that   *)
(* failed is followed by the content all the same.                         *)
SendHeader ==
  LET len == IF found THEN size[PathOf[conn]] ELSE 0
      header == IF found THEN <<Status("OK"), Length(len)>>
                         ELSE <<Status("FILE_NOT_FOUND")>> IN
  /\ spc = "header"
  /\ \/ /\ "sigpipe" \in WriteOutcomes(conn)
        /\ End("killed")
        /\ UNCHANGED <<down, fileLen, sent>>
     \/ /\ WriteOutcomes(conn) \ {"sigpipe"} # {}
        /\ down' = IF "sent" \in WriteOutcomes(conn)
                   THEN [down EXCEPT ![conn] = @ \o header]
                   ELSE down
        /\ fileLen' = len
        /\ sent' = 0
        /\ spc' = HandlerLoop(0, len)
        /\ UNCHANGED <<listening, backlog, asked, gone, shut, broken, fault>>
  /\ UNCHANGED <<conn, fds, found, freed, partial, aborted, size, content, shrinks>>

(* pread() finds the file shorter than its header said: the handler aborts.*)
PreadFails ==
  /\ spc = "body"
  /\ size[PathOf[conn]] <= sent
  /\ freed' = freed + 1
  /\ aborted' = aborted \cup {conn}
  /\ spc' = "free"
  /\ UNCHANGED <<tcpVars, conn, fds, found, fileLen, sent, partial, size, content, shrinks>>

(* Mutant: what gfs_send() wrote is not compared with what was read.       *)
SendUnitUnchecked ==
  /\ spc = "body"
  /\ size[PathOf[conn]] > sent
  /\ \E w \in WriteOutcomes(conn) \ {"sigpipe"} :
       /\ down' = IF w = "sent" THEN [down EXCEPT ![conn] = Append(@, Data)] ELSE down
       /\ sent' = sent + 1
       /\ spc' = HandlerLoop(sent + 1, fileLen)
       /\ UNCHANGED <<listening, backlog, asked, gone, shut, broken, fault, freed>>
  /\ UNCHANGED <<conn, fds, found, fileLen, partial, aborted, size, content, shrinks>>

(* gfs_send() of one unit; when the write fails, or writes less than the   *)
(* unit, the handler aborts.  Part of a unit is as nothing to the client.  *)
SendUnit ==
  /\ spc = "body"
  /\ size[PathOf[conn]] > sent
  /\ \E w \in WriteOutcomes(conn) :
       \/ /\ w \in {"sent", "lost"}
          /\ down' = IF w = "sent" THEN [down EXCEPT ![conn] = Append(@, Data)] ELSE down
          /\ sent' = sent + 1
          /\ spc' = HandlerLoop(sent + 1, fileLen)
          /\ UNCHANGED <<listening, backlog, asked, gone, shut, broken, fault, freed, aborted>>
       \/ /\ w \in {"short", "error"}
          /\ freed' = freed + 1
          /\ aborted' = IF w = "short" THEN aborted \cup {conn} ELSE aborted
          /\ spc' = "free"
          /\ UNCHANGED <<tcpVars, sent>>
       \/ /\ w = "sigpipe"
          /\ End("killed")
          /\ UNCHANGED <<down, sent, freed, aborted>>
  /\ UNCHANGED <<conn, fds, found, fileLen, partial, size, content, shrinks>>

(* gfs_abort() at the end of the loop: it frees the context and leaves the *)
(* socket open.  Freeing it again may abort the process.                   *)
FreeContext ==
  /\ spc = "free"
  /\ freed' = freed + 1
  /\ \/ /\ spc' = "accept"
        /\ UNCHANGED tcpVars
     \/ /\ freed > 0
        /\ End("killed")
        /\ UNCHANGED down
  /\ UNCHANGED <<conn, fds, found, fileLen, sent, partial, aborted, size, content, shrinks>>

(* Another process truncates a file that is being served.                  *)
Shrink(p) ==
  /\ Up
  /\ p \in content
  /\ shrinks < MaxShrinks
  /\ size[p] > 0
  /\ size' = [size EXCEPT ![p] = @ - 1]
  /\ shrinks' = shrinks + 1
  /\ UNCHANGED <<tcpVars, spc, conn, fds, found, fileLen, sent, freed, partial, aborted,
                 content>>

ServerStep ==
  \/ AcceptFails
  \/ Accept
  \/ ReadFails
  \/ ReadRequest
  \/ SendHeader
  \/ PreadFails
  \/ SendUnit
  \/ FreeContext
=============================================================================
