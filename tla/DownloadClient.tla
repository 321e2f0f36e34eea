--------------------------- MODULE DownloadClient ---------------------------
(***************************************************************************)
(* The body of requestHandler()'s loop, between the release of the mutex   *)
(* and the next iteration (mtgf/gfclient_download.c, lines 143-168): pick  *)
(* a local path with localPath(), create the file, perform the request,    *)
(* and unlink the file when there is nothing worth keeping in it.          *)
(*                                                                         *)
(* No lock is held here.  The workers share localPath()'s static counter,  *)
(* incremented by a load and a store, and the directory.  Each step of     *)
(* WorkerPool's "busy" worker becomes several here; DownloadSpec           *)
(* implements PoolSpec.                                                    *)
(***************************************************************************)
EXTENDS WorkerPool

CONSTANT NumPaths  \* gUniqueWorkloadPaths: paths in the workload file

ASSUME NumPathsAssumption == NumPaths \in Nat \ {0}

VARIABLES
  counter,  \* localPath()'s static counter
  stage,    \* where each worker is in the body of its loop
  seen,     \* the value of counter each worker has loaded
  local,    \* each worker's local_path: a request path and a number
  dir,      \* the files: their names, and the requests that wrote to each
  outcome   \* what became of each request

bodyVars == <<counter, stage, seen, local, dir, outcome>>
downloadVars == <<poolVars, bodyVars>>

Stages == {"load", "store", "open", "perform", "unlink", "check", "end"}
Outcomes == {"none", "ok", "rejected", "broken"}

(* workload_get_path() goes around the paths of the workload.              *)
Path(r) == (r - 1) % NumPaths
Names == (0 .. NumPaths - 1) \X Nat
NoName == <<0, 0>>

DownloadInit ==
  /\ PoolInit
  /\ counter = 0
  /\ stage = [t \in Threads |-> "load"]
  /\ seen = [t \in Threads |-> 0]
  /\ local = [t \in Threads |-> NoName]
  /\ dir = [n \in {} |-> {}]
  /\ outcome = [r \in Requests |-> "none"]

-----------------------------------------------------------------------------
(* One worker performs its request.  Every step needs the process alive.   *)
At(t, s) == alive /\ wpc[t] = "busy" /\ stage[t] = s
Goto(t, s) == stage' = [stage EXCEPT ![t] = s]

(* localPath(): counter++ loads the counter ...                            *)
LoadCounter(t) ==
  /\ At(t, "load")
  /\ seen' = [seen EXCEPT ![t] = counter]
  /\ Goto(t, "store")
  /\ UNCHANGED <<poolVars, counter, local, dir, outcome>>

(* ... and stores it, and the number loaded ends the local path.           *)
StoreCounter(t) ==
  /\ At(t, "store")
  /\ counter' = seen[t] + 1
  /\ local' = [local EXCEPT ![t] = <<Path(req[t]), seen[t]>>]
  /\ Goto(t, "open")
  /\ UNCHANGED <<poolVars, seen, dir, outcome>>

(* fopen(path, "w") creates the file, or opens and truncates the one that  *)
(* is there: then two requests write to one file.                          *)
OpenFile(t) ==
  /\ At(t, "open")
  /\ LET n == local[t] IN
       dir' = [m \in DOMAIN dir \cup {n} |->
                 (IF m \in DOMAIN dir THEN dir[m] ELSE {})
                   \cup (IF m = n THEN {req[t]} ELSE {})]
  /\ Goto(t, "perform")
  /\ UNCHANGED <<poolVars, counter, seen, local, outcome>>

(* Mutant: a broken connection is tried again, for as long as it takes.    *)
PerformRetrying(t) ==
  /\ At(t, "perform")
  /\ \E o \in Outcomes \ {"none"} :
       /\ outcome' = [outcome EXCEPT ![req[t]] = o]
       /\ Goto(t, IF o = "broken" THEN "open" ELSE "check")
  /\ UNCHANGED <<poolVars, counter, seen, local, dir>>

(* gfc_perform: the whole file arrived ("ok"), the server answered         *)
(* FILE_NOT_FOUND or ERROR and 0 is returned ("rejected"), or the header   *)
(* or the connection broke and -1 is returned ("broken").  The file is     *)
(* closed; after -1 it is unlinked as well.                                *)
Perform(t) ==
  /\ At(t, "perform")
  /\ \E o \in Outcomes \ {"none"} :
       /\ outcome' = [outcome EXCEPT ![req[t]] = o]
       /\ Goto(t, IF o = "broken" THEN "unlink" ELSE "check")
  /\ UNCHANGED <<poolVars, counter, seen, local, dir>>

(* The directory without the name n. *)
Remove(n) == [m \in DOMAIN dir \ {n} |-> dir[m]]

(* unlink after a negative return code.                                    *)
UnlinkBroken(t) ==
  /\ At(t, "unlink")
  /\ dir' = Remove(local[t])
  /\ Goto(t, "check")
  /\ UNCHANGED <<poolVars, counter, seen, local, outcome>>

(* Mutant: the status is not looked at.                                    *)
CheckNothing(t) ==
  /\ At(t, "check")
  /\ dir' = dir
  /\ Goto(t, "end")
  /\ UNCHANGED <<poolVars, counter, seen, local, outcome>>

(* Mutant: the test of the status is inverted.                             *)
CheckInverted(t) ==
  /\ At(t, "check")
  /\ dir' = IF outcome[req[t]] # "ok" THEN dir ELSE Remove(local[t])
  /\ Goto(t, "end")
  /\ UNCHANGED <<poolVars, counter, seen, local, outcome>>

(* unlink when the status is not GF_OK, a second time after -1: the file   *)
(* of that name goes, if there is one.                                     *)
CheckStatus(t) ==
  /\ At(t, "check")
  /\ dir' = IF outcome[req[t]] = "ok" THEN dir ELSE Remove(local[t])
  /\ Goto(t, "end")
  /\ UNCHANGED <<poolVars, counter, seen, local, outcome>>

(* gfc_cleanup and the next iteration.                                     *)
EndRequest(t) ==
  /\ At(t, "end")
  /\ Finish(t)
  /\ Goto(t, "load")
  /\ UNCHANGED <<counter, seen, local, dir, outcome>>

(* openFile exits when it cannot make a directory or the file, gfc_perform *)
(* when the server's name does not resolve.                                *)
Exit(t) ==
  /\ At(t, "open") \/ At(t, "perform")
  /\ ExitProcess(t)
  /\ UNCHANGED bodyVars

Body(t) ==
  \/ LoadCounter(t)
  \/ StoreCounter(t)
  \/ OpenFile(t)
  \/ Perform(t)
  \/ UnlinkBroken(t)
  \/ CheckStatus(t)
  \/ EndRequest(t)

(* The pool's other steps leave the bodies alone.                          *)
Elsewhere ==
  /\ BossStep \/ PathTooLong \/ PoolStutter \/ \E t \in Threads : WorkerSync(t) \/ SpuriousWakeup(t)
  /\ UNCHANGED bodyVars

DownloadNext ==
  \/ Elsewhere
  \/ \E t \in Threads : Body(t) \/ Exit(t)

DownloadSpec == DownloadInit /\ [][DownloadNext]_downloadVars

(* Every thread that can run is eventually run, and gfc_perform returns.   *)
DownloadFairness ==
  /\ WF_downloadVars(BossStep /\ UNCHANGED bodyVars)
  /\ \A t \in Threads :
       WF_downloadVars((WorkerSync(t) /\ UNCHANGED bodyVars) \/ Body(t))

FairDownloadSpec == DownloadSpec /\ DownloadFairness

-----------------------------------------------------------------------------
(* What the body promises. *)

(* Types; a name is a path of the workload and a number.                   *)
BodyTypeOK ==
  /\ counter \in Nat
  /\ stage \in [Threads -> Stages]
  /\ seen \in [Threads -> Nat]
  /\ local \in [Threads -> Names]
  /\ DOMAIN dir \in SUBSET Names
  /\ \A n \in DOMAIN dir : dir[n] \in SUBSET Requests
  /\ outcome \in [Requests -> Outcomes]

(* Every download that succeeded has a file, and no other request wrote to *)
(* that file: what the workers unlink and truncate is their own.           *)
ResultsKept ==
  \A r \in Requests :
    outcome[r] = "ok" => \E n \in DOMAIN dir : n[1] = Path(r) /\ dir[n] = {r}

(* A request that failed leaves no file behind once its worker is through. *)
NothingLeftOver ==
  \A r \in Requests :
    outcome[r] \in {"rejected", "broken"} /\ (\A t \in Threads : req[t] = r => wpc[t] # "busy")
      => \A n \in DOMAIN dir : r \notin dir[n]

(* The detailed client implements the worker pool with its fairness:       *)
(* whatever a worker does with its request, the pool sees one busy worker  *)
(* that finishes or exits, and it does finish if every thread that can run *)
(* is run and gfc_perform returns.                                         *)
RefinesFairPool == FairPoolSpec
=============================================================================
