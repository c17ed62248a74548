-------------------------------- MODULE Listing --------------------------------
(***************************************************************************)
(* One client walking through a listing, page by page: its own simulations *)
(* (getSimulation), or, for an admin, all simulations or all users         *)
(* (listAll).  The client repeats a request that fails, and sends the      *)
(* cursor of the last answer with the next request.                        *)
(*                                                                         *)
(* A position is a place in the order in which DynamoDB goes through what  *)
(* is listed: a simulation's creation time, newest first, or the hash of   *)
(* an identifier.  It never changes while the item exists.  While the      *)
(* client walks, items appear, go and change, and the index follows the    *)
(* table with a delay; entries[p] is what a read finds at p at present,    *)
(* and the writes below change it at any time.                             *)
(***************************************************************************)
EXTENDS Integers, Sequences

CONSTANTS
    Last,            \* positions are 1..Last
    ALL_PAGE_SIZE,
    MAX_ALL_RESULTS,
    DefaultLimit,    \* [Routes -> Nat]: the limit of a request that names none
    Limits,          \* the limits a client may ask for; 0 when it names none
    MaxFaults        \* how many requests may fail

Routes == {"simulations", "admin/simulations", "admin/users"}

ASSUME ListingAssumption ==
    /\ Last \in Nat
    /\ ALL_PAGE_SIZE \in Nat \ {0}
    /\ MAX_ALL_RESULTS \in Nat \ {0}
    /\ DefaultLimit \in [Routes -> Nat]
    /\ \A r \in Routes : DefaultLimit[r] = 0 <=> r = "simulations"
    /\ Limits \subseteq Nat
    /\ MaxFaults \in Nat

VARIABLES
    route,     \* what is being listed
    entries,   \* [Positions -> entry], as a read finds it now
    cursor,    \* the client: the cursor it sends next
    ended,     \* ... whether an answer without a cursor has come
    listed,    \* ... the positions of the items it has been given
    call,      \* the request in progress
    faults,
    steady     \* positions that have passed the filter all along (history)

vars == <<route, entries, cursor, ended, listed, call, faults, steady>>

Positions == 1..Last

\* An absent LastEvaluatedKey, ExclusiveStartKey or cursor; otherwise a key
\* is the position it names, whether or not an item is still there.
NoKey == 0
Keys == 0..Last

\* What is at a position: nothing, an item the filter lets through, or one
\* it does not (of another status, or another user's).  The list of users
\* has no filter.
Entries == IF route = "admin/users" THEN {"absent", "passes"}
                                    ELSE {"absent", "passes", "fails"}

Call == [pc: {"idle", "query", "answered"}, limit: Nat, asked: Nat, left: Nat,
         from: Keys, items: Seq(Positions), next: Keys]

Idle == [pc |-> "idle", limit |-> 0, asked |-> 0, left |-> 0, from |-> NoKey,
         items |-> <<>>, next |-> NoKey]

MinOf(m, n) == IF m <= n THEN m ELSE n

\* p is in s.
Holds(s, p) == \E i \in DOMAIN s : s[i] = p
Increasing(s) == \A i, j \in DOMAIN s : i < j => s[i] < s[j]

TypeOK ==
    /\ route \in Routes
    /\ entries \in [Positions -> Entries]
    /\ cursor \in Keys
    /\ ended \in BOOLEAN
    /\ listed \in Seq(Positions)
    /\ call \in Call
    /\ faults \in 0..MaxFaults
    /\ steady \in SUBSET Positions

Init ==
    /\ route \in Routes
    /\ entries \in [Positions -> Entries]
    /\ cursor = NoKey
    /\ ended = FALSE
    /\ listed = <<>>
    /\ call = Idle
    /\ faults = 0
    /\ steady = {p \in Positions : entries[p] = "passes"}

-----------------------------------------------------------------------------
(* The server.  call.asked is the Limit of the query that is being sent,   *)
(* call.left what it may still evaluate, call.from its start key or the    *)
(* last key it has evaluated.                                              *)

\* Mutant: every internal page is a full one, whatever the cap leaves.
PageLimit_Full(limit, count) == IF limit > 0 THEN limit ELSE ALL_PAGE_SIZE

PageLimit(limit, count) ==
    IF limit > 0 THEN limit ELSE MinOf(MAX_ALL_RESULTS - count, ALL_PAGE_SIZE)

\* Mutant: the query is sent without its ExclusiveStartKey.
Request_NoCursor(asked) ==
    LET limit == IF asked > 0 THEN asked ELSE DefaultLimit[route]
    IN  /\ call.pc = "idle"
        /\ ~ended
        /\ call' = [Idle EXCEPT !.pc = "query", !.limit = limit,
                                !.asked = PageLimit(limit, 0),
                                !.left = PageLimit(limit, 0)]
        /\ UNCHANGED <<route, entries, cursor, ended, listed, faults, steady>>

\* A GET with the present cursor: the handler fills in the limit and the
\* model sends the first query.
Request(asked) ==
    LET limit == IF asked > 0 THEN asked ELSE DefaultLimit[route]
    IN  /\ call.pc = "idle"
        /\ ~ended
        /\ call' = [Idle EXCEPT !.pc = "query", !.limit = limit,
                                !.asked = PageLimit(limit, 0),
                                !.left = PageLimit(limit, 0),
                                !.from = cursor]
        /\ UNCHANGED <<route, entries, cursor, ended, listed, faults, steady>>

\* DynamoDB evaluates the next item there is, and returns it if the filter
\* lets it through.  Both kinds count against Limit.
Evaluate(p) ==
    /\ call.pc = "query"
    /\ call.left > 0
    /\ p > call.from
    /\ entries[p] # "absent"
    /\ \A q \in Positions : call.from < q /\ q < p => entries[q] = "absent"
    /\ call' = [call EXCEPT !.left = @ - 1, !.from = p,
                            !.items = IF entries[p] = "passes" THEN Append(@, p) ELSE @]
    /\ UNCHANGED <<route, entries, cursor, ended, listed, faults, steady>>

\* DynamoDB answers a query with the last key it evaluated, at Limit or (1 MB)
\* before it, or, when nothing is left, with no key; at the end of what there
\* is, a query that has reached its Limit may do either.
Returned(key) ==
    /\ call.pc = "query"
    /\ \/ /\ key = call.from
          /\ call.left < call.asked
       \/ /\ key = NoKey
          /\ \A p \in Positions : p > call.from => entries[p] = "absent"

\* Mutant: the cursor is a number of items to skip.
PageAnswer_Offset(key) ==
    /\ call.limit > 0
    /\ Returned(key)
    /\ call' = [call EXCEPT !.pc = "answered",
                            !.next = IF key = NoKey THEN NoKey ELSE cursor + call.limit]
    /\ UNCHANGED <<route, entries, cursor, ended, listed, faults, steady>>

\* limit > 0, and both admin lists: one query, whose key becomes the cursor.
PageAnswer(key) ==
    /\ call.limit > 0
    /\ Returned(key)
    /\ call' = [call EXCEPT !.pc = "answered", !.next = key]
    /\ UNCHANGED <<route, entries, cursor, ended, listed, faults, steady>>

\* Mutant: the next internal page starts where the request did.
NextRound_SameKey(key) ==
    /\ call.limit = 0
    /\ Returned(key)
    /\ key # NoKey
    /\ Len(call.items) < MAX_ALL_RESULTS
    /\ call' = [call EXCEPT !.asked = PageLimit(0, Len(call.items)),
                            !.left = PageLimit(0, Len(call.items)),
                            !.from = cursor]
    /\ UNCHANGED <<route, entries, cursor, ended, listed, faults, steady>>

\* limit = 0: the loop goes round while there is a key and room.
NextRound(key) ==
    /\ call.limit = 0
    /\ Returned(key)
    /\ key # NoKey
    /\ Len(call.items) < MAX_ALL_RESULTS
    /\ call' = [call EXCEPT !.asked = PageLimit(0, Len(call.items)),
                            !.left = PageLimit(0, Len(call.items)),
                            !.from = key]
    /\ UNCHANGED <<route, entries, cursor, ended, listed, faults, steady>>

\* Mutant: a page without items is taken for the end of the list.
AllAnswer_EmptyStops(key) ==
    /\ call.limit = 0
    /\ Returned(key)
    /\ key = NoKey \/ call.items = <<>> \/ Len(call.items) >= MAX_ALL_RESULTS
    /\ call' = [call EXCEPT !.pc = "answered",
                            !.next = IF Len(call.items) >= MAX_ALL_RESULTS
                                     THEN key ELSE NoKey]
    /\ UNCHANGED <<route, entries, cursor, ended, listed, faults, steady>>

\* limit = 0, at the end of the list or at the cap: a cursor only at the cap.
AllAnswer(key) ==
    /\ call.limit = 0
    /\ Returned(key)
    /\ key = NoKey \/ Len(call.items) >= MAX_ALL_RESULTS
    /\ call' = [call EXCEPT !.pc = "answered",
                            !.next = IF Len(call.items) >= MAX_ALL_RESULTS
                                     THEN key ELSE NoKey]
    /\ UNCHANGED <<route, entries, cursor, ended, listed, faults, steady>>

\* A query rejects, or the answer is lost: the client still has its cursor.
Fails ==
    /\ call.pc # "idle"
    /\ faults < MaxFaults
    /\ faults' = faults + 1
    /\ call' = Idle
    /\ UNCHANGED <<route, entries, cursor, ended, listed, steady>>

-----------------------------------------------------------------------------
\* The client takes an answer.
Receive ==
    /\ call.pc = "answered"
    /\ listed' = listed \o call.items
    /\ cursor' = call.next
    /\ ended' = (call.next = NoKey)
    /\ call' = Idle
    /\ UNCHANGED <<route, entries, faults, steady>>

\* A read will find something else at p: a simulation or user is stored, a
\* status changes, a simulation is deleted, or the index catches up.
Change(p, e) ==
    /\ e \in Entries \ {entries[p]}
    /\ entries' = [entries EXCEPT ![p] = e]
    /\ steady' = steady \ {p}
    /\ UNCHANGED <<route, cursor, ended, listed, call, faults>>

-----------------------------------------------------------------------------
ServerStep ==
    \/ \E p \in Positions : Evaluate(p)
    \/ \E key \in Keys : PageAnswer(key) \/ NextRound(key) \/ AllAnswer(key)

Next ==
    \/ \E asked \in Limits : Request(asked)
    \/ ServerStep
    \/ Fails
    \/ Receive
    \/ \E p \in Positions : \E e \in Entries : Change(p, e)

Spec == Init /\ [][Next]_vars

(***************************************************************************)
(* DynamoDB and the event loop finish what they have begun, and the client *)
(* takes its answers and goes on as long as it has a cursor.  Requests may *)
(* fail and entries may change at any time, or never.                      *)
(***************************************************************************)
Fairness ==
    /\ WF_vars(ServerStep)
    /\ WF_vars(Receive)
    /\ WF_vars(\E asked \in Limits : Request(asked))

FairSpec == Spec /\ Fairness

-----------------------------------------------------------------------------
(***************************************************************************)
(* A listing is in its order across all its pages, and so lists nothing    *)
(* twice, whatever is stored, removed or changed between and during the    *)
(* pages, whichever limits the pages have, and after repeated requests.    *)
(***************************************************************************)
InOrder == Increasing(listed \o call.items)

(***************************************************************************)
(* A listing that has come to its end has all that was there all along:    *)
(* neither the cap, nor a filtered page that came back empty, nor entries  *)
(* that appeared or went beside the cursor made it stop early or skip.     *)
(***************************************************************************)
NothingSkipped == ended => \A p \in steady : Holds(listed, p)

(***************************************************************************)
(* An answer never holds more than the limit asked for, or, without one,   *)
(* than the cap, and no query is sent with a Limit of zero, which DynamoDB *)
(* refuses.                                                                *)
(***************************************************************************)
WithinCap ==
    /\ Len(call.items) <= IF call.limit > 0 THEN call.limit ELSE MAX_ALL_RESULTS
    /\ call.pc = "query" => call.asked > 0

\* The steps a request may still take: two for each position its query has
\* not gone past (one to evaluate it, one to go on with a new query after
\* it), and one to answer.
StepsLeft ==
    IF call.pc = "idle" THEN 2 * Last + 2
    ELSE IF call.pc = "answered" THEN 0
    ELSE 2 * (Last - call.from) + (IF call.left < call.asked THEN 2 ELSE 1)

(***************************************************************************)
(* The walk cannot go round in circles: while entries come and go beside   *)
(* it, every step of a request or of the client ends the walk, is one of   *)
(* the failures, moves the cursor on, or, from the same cursor, leaves the *)
(* request fewer steps to take.  No cursor leads back to a page that was   *)
(* given, and no internal round of the handler repeats a query.            *)
(***************************************************************************)
WalkMovesOn ==
    [][ \/ ~ended /\ ended'
        \/ faults' > faults /\ cursor' = cursor
        \/ UNCHANGED faults /\ cursor' > cursor
        \/ UNCHANGED <<faults, cursor>> /\ StepsLeft' < StepsLeft
        \/ entries' # entries /\ UNCHANGED <<faults, cursor, ended, listed, call>>
      ]_vars

(***************************************************************************)
(* A client that follows its cursors comes to the end of the list.         *)
(***************************************************************************)
WalkEnds == <>ended

-----------------------------------------------------------------------------
(* The inductive invariant.                                                *)

\* What is listed lies up to the cursor, what the call holds lies between
\* the cursor and the key the call has got to.
Between ==
    /\ Increasing(listed)
    /\ Increasing(call.items)
    /\ ~ended => \A i \in DOMAIN listed : listed[i] <= cursor
    /\ call.pc # "idle" =>
         /\ ~ended
         /\ cursor <= call.from
         /\ \A i \in DOMAIN call.items :
              cursor < call.items[i] /\ call.items[i] <= call.from
         /\ call.left < call.asked => cursor < call.from
         /\ call.pc = "answered" /\ call.next # NoKey => cursor < call.next

\* Nothing steady is missing up to where the walk has got.
SoFar ==
    /\ \A p \in steady : entries[p] = "passes"
    /\ ~ended => \A p \in steady : p <= cursor => Holds(listed, p)
    /\ call.pc # "idle" =>
         \A p \in steady : cursor < p /\ p <= call.from => Holds(call.items, p)
    /\ call.pc = "answered" =>
         /\ call.next \in {call.from, NoKey}
         /\ call.next = NoKey =>
              \A p \in steady : cursor < p => Holds(call.items, p)

\* What the call holds and what its query may still evaluate fit.
Room ==
    /\ call.left <= call.asked
    /\ call.pc = "idle" => call.items = <<>>
    /\ call.pc = "query" => call.asked > 0
    /\ call.pc # "idle" =>
         Len(call.items) + call.left
           <= IF call.limit > 0 THEN call.limit ELSE MAX_ALL_RESULTS

IInv ==
    /\ TypeOK
    /\ Between
    /\ SoFar
    /\ Room
    /\ NothingSkipped
================================================================================
