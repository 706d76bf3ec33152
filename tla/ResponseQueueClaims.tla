------------------------- MODULE ResponseQueueClaims -------------------------
(***************************************************************************)
(* What comments of response-queue.ts say of its steps.  Each of these     *)
(* statements is refuted by a behaviour of the model.                      *)
(***************************************************************************)
EXTENDS ResponseQueue

(* The last entry of a sync has just been removed and the sync completes.  *)
SyncCompletes ==
  /\ dbq # <<>> /\ Head(dbq).at = "syncdel"
  /\ Head(dbq).rest = {Oldest(Head(dbq).rest)}
  /\ syncing /\ ~syncing'

(* processQueue waits for the count of pending responses; an add whose     *)
(* write is under way will call it (lines 125-129); and a syncPending that *)
(* waits for its count will sync again.                                    *)
WillSend(f) == f.at \in {"count", "add", "pcount"}

(* Line 287: "Kick off processQueue for any entries added during sync".    *)
(* When a sync completes while answers given meanwhile wait in the queue,  *)
(* something under way will send them: processQueue has been started, or   *)
(* another call is still to come.                                          *)
SyncKicksOffQueue ==
  [][SyncCompletes /\ online /\ queue'[Head(dbq).inst] # <<>> =>
       \E k \in DOMAIN dbq' : WillSend(dbq'[k])]_vars

(* Line 237: "entries added during async sync must be preserved".  An      *)
(* answer that a sync cuts from the in-memory queue is one it has sent.    *)
SyncCutsOnlyWhatItSent ==
  [][SyncCompletes =>
       \A x \in ToSet(queue[Head(dbq).inst]) \ ToSet(queue'[Head(dbq).inst]) :
          Delivered(x) \/ x \in stale]_vars
=============================================================================
