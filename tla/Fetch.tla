-------------------------------- MODULE Fetch --------------------------------
(***************************************************************************)
(* The programs of gflib over the GETFILE protocol: gfserver_main, and any *)
(* number of gfclient_download processes, each in a directory of its own.  *)
(* A client makes its requests one after the other; each has a local file, *)
(* which main() opens, the library's write function fills, and main()      *)
(* closes and keeps or unlinks.                                            *)
(***************************************************************************)
EXTENDS GetFile

CONSTANTS
  Mains,        \* the client processes
  RequestsOf,   \* the calls each of them makes, in order
  MaxExits,     \* bound: client processes that exit by themselves
  MaxSignals    \* bound: signals that end the server

(* No call is made by two processes, or twice.                             *)
ASSUME RequestsAssumption ==
  /\ RequestsOf \in [Mains -> Seq(Calls)]
  /\ \A m, n \in Mains : \A k \in DOMAIN RequestsOf[m], l \in DOMAIN RequestsOf[n] :
       RequestsOf[m][k] = RequestsOf[n][l] => m = n /\ k = l
ASSUME ExitsAssumption == MaxExits \in Nat /\ MaxSignals \in Nat

VARIABLES
  main,     \* where each process is
  turn,     \* i, the request it is at
  file,     \* the local file of each call
  written,  \* the units written to it
  garbled,  \* something else was written to it
  signals   \* for MaxSignals

mainVars == <<main, turn, file, written, garbled, signals>>
fetchVars == <<vars, mainVars>>

Request(m) == RequestsOf[m][turn[m]]

FetchInit ==
  /\ Init
  /\ main = [m \in Mains |-> "start"]
  /\ turn = [m \in Mains |-> 1]
  /\ file = [c \in Calls |-> "absent"]
  /\ written = [c \in Calls |-> 0]
  /\ garbled = [c \in Calls |-> FALSE]
  /\ signals = 0

Exit(m) ==
  /\ Cardinality({d \in Mains : main[d] = "exited"}) < MaxExits
  /\ main' = [main EXCEPT ![m] = "exited"]

(* The options and the workload, any of which may end the process.         *)
Begin(m) ==
  /\ main[m] = "start"
  /\ main' = [main EXCEPT ![m] = "next"] \/ Exit(m)
  /\ UNCHANGED <<vars, turn, file, written, garbled, signals>>

(* localPath() and openFile().  The counter in the name makes each call's  *)
(* file another one; a directory or file that cannot be made ends the      *)
(* process.                                                                *)
openFile(m) ==
  \/ /\ main' = [main EXCEPT ![m] = "perform"]
     /\ file' = [file EXCEPT ![Request(m)] = "open"]
  \/ Exit(m) /\ UNCHANGED file

(* The next request.  A path that is too long ends the process as well.    *)
NextRequest(m) ==
  /\ main[m] = "next" /\ turn[m] \in DOMAIN RequestsOf[m]
  /\ openFile(m)
  /\ UNCHANGED <<vars, turn, written, garbled, signals>>

Finish(m) ==
  /\ main[m] = "next" /\ turn[m] \notin DOMAIN RequestsOf[m]
  /\ main' = [main EXCEPT ![m] = "returned"]
  /\ UNCHANGED <<vars, turn, file, written, garbled, signals>>

(* writecb(), which gfc_perform calls with a unit of the content, or after *)
(* an error of read() with as many bytes as a size_t can say.              *)
writecb(c) ==
  /\ written' = [written EXCEPT ![c] = IF received'[c] = received[c] + 1 THEN @ + 1 ELSE @]
  /\ garbled' = [garbled EXCEPT ![c] = @ \/ received'[c] \notin {received[c], received[c] + 1}]

Perform(m) ==
  LET c == Request(m) IN
    /\ main[m] = "perform" /\ ClientStep(c)
    /\ main' = [main EXCEPT ![m] = IF cpc'[c] = "killed" THEN "killed" ELSE @]
    /\ writecb(c)
    /\ UNCHANGED <<serverVars, turn, file, signals>>

(* Mutant: the file is unlinked for the returned value only.               *)
SettleForReturned(m) ==
  LET c == Request(m) IN
    /\ main[m] = "perform" /\ cpc[c] = "returned"
    /\ file' = [file EXCEPT ![c] = IF ret[c] = "0" THEN "closed" ELSE "absent"]
    /\ turn' = [turn EXCEPT ![m] = @ + 1]
    /\ main' = [main EXCEPT ![m] = "next"]
    /\ UNCHANGED <<vars, written, garbled, signals>>

(* The file is closed, and unlinked if the call failed, and once more if   *)
(* its status is not OK.                                                   *)
Settle(m) ==
  LET c == Request(m) IN
    /\ main[m] = "perform" /\ cpc[c] = "returned"
    /\ file' = [file EXCEPT ![c] =
                  IF ret[c] = "failed" \/ status[c] # "OK" THEN "absent" ELSE "closed"]
    /\ turn' = [turn EXCEPT ![m] = @ + 1]
    /\ main' = [main EXCEPT ![m] = "next"]
    /\ UNCHANGED <<vars, written, garbled, signals>>

QuitMain(m) ==
  /\ main[m] = "perform" /\ Quit(Request(m))
  /\ main' = [main EXCEPT ![m] = "killed"]
  /\ UNCHANGED <<serverVars, turn, file, written, garbled, signals>>

(* SIGINT or SIGTERM ends the server, wherever it is.                      *)
Interrupt ==
  /\ Up /\ signals < MaxSignals
  /\ signals' = signals + 1
  /\ End("killed")
  /\ UNCHANGED <<down, conn, fds, found, fileLen, sent, freed, partial, aborted,
                 size, content, shrinks>>
  /\ UNCHANGED <<clientVars, main, turn, file, written, garbled>>

MainStep(m) == Begin(m) \/ NextRequest(m) \/ Finish(m) \/ Perform(m) \/ Settle(m)

FetchNext ==
  \/ ServerStep /\ UNCHANGED <<clientVars, mainVars>>
  \/ \E p \in Paths : Shrink(p) /\ UNCHANGED <<clientVars, mainVars>>
  \/ \E m \in Mains : MainStep(m) \/ QuitMain(m)
  \/ \E c \in Calls : Break(c) /\ UNCHANGED <<serverVars, clientVars, mainVars>>
  \/ Interrupt

FetchSpec == FetchInit /\ [][FetchNext]_fetchVars

(* The files a client has kept are those of the calls that returned 0 with *)
(* OK; each holds as much as its header said, as long as no read() failed  *)
(* in the middle of it, and that is the whole of a file of the server, as  *)
(* long as the connection did not break in the header.  Nothing is left of *)
(* any other call (gflib/gfclient_download.c:157-170).                     *)
Settled(m) == {RequestsOf[m][k] : k \in 1 .. turn[m] - 1}
KeptFiles ==
  \A m \in Mains : \A c \in Settled(m) :
    IF ret[c] = "0" /\ status[c] = "OK"
    THEN /\ file[c] = "closed"
         /\ PathOf[c] \in content
         /\ garbled[c] \/ written[c] = filelen[c]
         /\ broken[c] \/ filelen[c] >= size[PathOf[c]]
    ELSE file[c] = "absent"
=============================================================================
