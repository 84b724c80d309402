------------------------------ MODULE SearchView ------------------------------
(***************************************************************************)
(* A search session of the frontend (scripts/lishSearch.svelte.ts): start  *)
(* and cancel wait for the backend while its results and endings come on   *)
(* the same socket, in the order they were sent.  Of the backend           *)
(* (api/search.ts) there is which searches run; one runs before its        *)
(* answer, until the query has been broadcast.  The connection stays.      *)
(***************************************************************************)
EXTENDS Naturals, Sequences, FiniteSets

CONSTANTS MaxSearches,   \* bound: searches started
          MaxSocket      \* bound: messages on the socket

ASSUME SearchesAssumption == MaxSearches \in Nat /\ MaxSocket \in Nat

VARIABLES
  searchID, searching, results,  \* of the session; results: the searches its rows came from
  disposed,
  call,       \* the start() and the cancel() under way: where each waits, and for which search
  running,    \* the backend's sessions
  count,      \* searches started so far; the last is the number
  socket,
  overlapped  \* a start() began while another waited for its cancel

searchViewVars == <<searchID, searching, results, disposed, call, running, count, socket, overlapped>>
NoSearch == 0
NoCall == [at |-> "none", id |-> NoSearch]
Searches == 1..MaxSearches
Slots == {"start", "again", "cancel"}

SearchViewTypeOK ==
  /\ searchID \in Searches \cup {NoSearch} /\ results \subseteq Searches /\ running \subseteq Searches
  /\ \A b \in {searching, disposed, overlapped} : b \in BOOLEAN
  /\ call \in [Slots -> [at : {"none", "cancelling", "starting", "begun"}, id : Searches \cup {NoSearch}]]
  /\ count \in 0..MaxSearches /\ Len(socket) <= MaxSocket

Room(n) == Len(socket) + n <= MaxSocket
Sends2(messages) == socket' = socket \o messages
Set(slot, at, id) == call' = [call EXCEPT ![slot] = [at |-> at, id |-> id]]

-----------------------------------------------------------------------------
(* The session *)

Reset(slot) == /\ searching' = TRUE /\ results' = {} /\ Set(slot, "starting", NoSearch)
\* The button is there until searching shows, which is only after the cancel.
Start(slot) ==
  /\ ~disposed /\ ~searching /\ slot # "cancel" /\ call[slot] = NoCall
  /\ overlapped' = (overlapped \/ \E s \in Slots \ {"cancel"} : call[s] # NoCall)
  /\ IF searchID # NoSearch THEN Set(slot, "cancelling", searchID) /\ UNCHANGED <<searching, results>> ELSE Reset(slot)
  /\ UNCHANGED <<searchID, disposed, running, count, socket>>
CancelSearch == /\ ~disposed /\ searchID # NoSearch /\ call["cancel"] = NoCall /\ Set("cancel", "cancelling", searchID)
                /\ UNCHANGED <<searchID, searching, results, disposed, running, count, socket, overlapped>>
Clear == /\ searchID' = NoSearch /\ results' = {} /\ ~disposed
         /\ UNCHANGED <<searching, disposed, call, running, count, socket, overlapped>>
Dispose == /\ disposed' = TRUE /\ ~disposed /\ running' = running \ {searchID}
           /\ UNCHANGED <<searchID, searching, results, call, count, socket, overlapped>>

-----------------------------------------------------------------------------
(* The backend *)

Message(kind, id, slot) == [kind |-> kind, id |-> id, slot |-> slot]
endSession(id) == /\ id \in running /\ Room(1) /\ running' = running \ {id} /\ Sends2(<<Message("complete", id, "none")>>)
                  /\ UNCHANGED <<searchID, searching, results, disposed, call, count, overlapped>>
Finds(id) == /\ id \in running /\ Room(1) /\ Sends2(<<Message("update", id, "none")>>)
             /\ UNCHANGED <<searchID, searching, results, disposed, call, running, count, overlapped>>
BackendCancels(slot) ==
  /\ call[slot].at = "cancelling" /\ Room(2) /\ running' = running \ {call[slot].id} /\ Set(slot, "begun", call[slot].id)
  /\ Sends2((IF call[slot].id \in running THEN <<Message("complete", call[slot].id, "none")>> ELSE <<>>)
            \o <<Message("cancelled", call[slot].id, slot)>>)
  /\ UNCHANGED <<searchID, searching, results, disposed, count, overlapped>>
BackendStarts(slot) ==
  /\ call[slot].at = "starting" /\ call[slot].id = NoSearch /\ count < MaxSearches
  /\ count' = count + 1 /\ running' = running \cup {count'} /\ Set(slot, "starting", count')
  /\ UNCHANGED <<searchID, searching, results, disposed, socket, overlapped>>
\* The query has been broadcast, or the node does not run.
BackendAnswers(slot) ==
  /\ call[slot].at = "starting" /\ Room(1)
  /\ \/ call[slot].id # NoSearch /\ Sends2(<<Message("started", call[slot].id, slot)>>)
     \/ call[slot].id = NoSearch /\ Sends2(<<Message("refused", NoSearch, slot)>>)
  /\ Set(slot, "begun", call[slot].id)
  /\ UNCHANGED <<searchID, searching, results, disposed, running, count, overlapped>>

-----------------------------------------------------------------------------
(* What the session makes of the socket's next message *)

Gets(kind) == socket # <<>> /\ Head(socket).kind = kind /\ socket' = Tail(socket)
              /\ UNCHANGED <<disposed, running, count, overlapped>>
Mine == ~disposed /\ Head(socket).id = searchID
\* Mutant: the rows of whatever search are taken.
TakesAnyUpdate == /\ Gets("update") /\ results' = IF disposed THEN results ELSE results \cup {Head(socket).id}
                  /\ UNCHANGED <<searchID, searching, call>>
handleUpdate == /\ Gets("update") /\ results' = IF Mine THEN results \cup {searchID} ELSE results
                /\ UNCHANGED <<searchID, searching, call>>
handleComplete == /\ Gets("complete") /\ searching' = (searching /\ ~Mine)
                  /\ UNCHANGED <<searchID, results, call>>
Cancelled == /\ Gets("cancelled") /\ UNCHANGED searchID
             /\ LET slot == Head(socket).slot
                IN IF slot = "cancel" THEN searching' = FALSE /\ call' = [call EXCEPT !["cancel"] = NoCall] /\ UNCHANGED results
                   ELSE Reset(slot)
Started == /\ Gets("started") /\ searchID' = Head(socket).id /\ call' = [call EXCEPT ![Head(socket).slot] = NoCall]
           /\ UNCHANGED <<searching, results>>
Refusal == /\ Gets("refused") /\ searchID' = NoSearch /\ searching' = FALSE
           /\ call' = [call EXCEPT ![Head(socket).slot] = NoCall] /\ UNCHANGED results

SearchViewInit ==
  /\ searchID = NoSearch /\ searching = FALSE /\ results = {} /\ disposed = FALSE
  /\ call = [s \in Slots |-> NoCall] /\ running = {} /\ count = 0 /\ socket = <<>> /\ overlapped = FALSE
SearchViewNext ==
  \/ \E slot \in Slots : Start(slot) \/ BackendCancels(slot) \/ BackendStarts(slot) \/ BackendAnswers(slot)
  \/ CancelSearch \/ Clear \/ Dispose
  \/ \E id \in Searches : endSession(id) \/ Finds(id)
  \/ handleUpdate \/ handleComplete \/ Cancelled \/ Started \/ Refusal

-----------------------------------------------------------------------------
(* The rows shown all come from one search, the session's: a search is     *)
(* cancelled before the rows are dropped for the next, so none of its late *)
(* rows lands among those -- as long as no second start() overlaps.        *)
OneSearchsRows == ~overlapped => results \subseteq {searchID}
=============================================================================
