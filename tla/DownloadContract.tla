-------------------------- MODULE DownloadContract --------------------------
(***************************************************************************)
(* What one download promises to those who registered it (api/transfer.ts):*)
(* whether it is over, failed or disabled, what became of the promise that *)
(* download() returned, and whether destroy() has returned.  Downloader    *)
(* implements it; Transfer is written over its steps.                      *)
(***************************************************************************)
VARIABLE d

Phase == {"active", "error", "complete"}
Promise == {"none", "pending", "resolved", "failed", "cancelled"}
Downloads == [phase : Phase, disabled : BOOLEAN, destroyed : BOOLEAN,
              promise : Promise, quiet : BOOLEAN]
Made(off) == [phase |-> "active", disabled |-> off, destroyed |-> FALSE,
              promise |-> "none", quiet |-> FALSE]

Settled(e) == e.promise \in {"resolved", "failed", "cancelled"}

\* download() is called, once: it cannot outlive a destroy, nor wait for what is there.
Started(e) ==
  IF e.promise # "none" THEN {}
  ELSE {[e EXCEPT !.promise = IF e.destroyed THEN "cancelled" ELSE "pending"]}

\* The owner pauses it, or a resume comes through; a resume retries after an error.
Paused(e) == IF e.destroyed THEN {} ELSE {[e EXCEPT !.disabled = TRUE]}
Resumed(e) ==
  {[e EXCEPT !.disabled = FALSE, !.phase = IF @ = "error" THEN "active" ELSE @]}

\* It fails: it pauses itself, and the promise is rejected unless download() is not
\* waiting for it yet.
Failed(e) ==
  {[e EXCEPT !.phase = "error", !.disabled = TRUE, !.promise = q] :
     q \in {e.promise} \cup (IF e.promise = "pending" THEN {"failed"} ELSE {})}

\* Work rejects under download() itself.
Broken(e) == IF e.promise = "pending" THEN {[e EXCEPT !.promise = "failed"]} ELSE {}

\* Work that was under way when the download failed takes it out of the error again.
Overtaken(e) == IF e.phase = "error" THEN {[e EXCEPT !.phase = "active"]} ELSE {}

\* Everything is there, and what waits is resolved: at once, or when it looks.
Completed(e) ==
  IF e.phase # "active" \/ e.destroyed THEN {}
  ELSE {[e EXCEPT !.phase = "complete", !.promise = q] :
          q \in {e.promise} \cup (IF e.promise = "pending" THEN {"resolved"} ELSE {})}
Resolved(e) ==
  IF e.phase = "complete" /\ e.promise = "pending"
  THEN {[e EXCEPT !.promise = "resolved"]} ELSE {}

\* destroy(): what waits is cancelled at once, what works as soon as it looks.
Destroyed(e) ==
  {[e EXCEPT !.disabled = TRUE, !.destroyed = TRUE, !.promise = q] :
     q \in {e.promise} \cup (IF e.promise = "pending" THEN {"cancelled"} ELSE {})}
Cancelled(e) ==
  IF e.destroyed /\ e.promise = "pending" THEN {[e EXCEPT !.promise = "cancelled"]} ELSE {}

\* destroy() returns only when nothing works any more, so nothing is pending.
Quieted(e) ==
  IF e.destroyed /\ e.promise # "pending" THEN {[e EXCEPT !.quiet = TRUE]} ELSE {}

Steps(e) ==
  Started(e) \cup Paused(e) \cup Resumed(e) \cup Failed(e) \cup Broken(e) \cup Overtaken(e)
  \cup Completed(e) \cup Resolved(e) \cup Destroyed(e) \cup Cancelled(e) \cup Quieted(e)

Init == \E off \in BOOLEAN : d = Made(off)
Next == \E e \in Steps(d) : d' = e
Spec == Init /\ [][Next]_d
=============================================================================
