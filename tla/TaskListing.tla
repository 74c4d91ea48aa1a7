----------------------------- MODULE TaskListing -----------------------------
(***************************************************************************)
(* DefaultRequestHandler::list_tasks over InMemoryTaskStore::list: a       *)
(* client walks the pages of a listing, each page one call under the read  *)
(* lock, while other callers create, change, cancel and purge tasks        *)
(* between the calls.  Ids are numbers: their order is the order of ids.   *)
(*                                                                         *)
(* walk is what the client holds (request, the token of the next page, the *)
(* ids it was shown) and, as history, which tasks entered and left the     *)
(* listing while the walk ran.                                             *)
(***************************************************************************)
EXTENDS InMemoryTaskStore, FiniteSetsExt, SequencesExt

CONSTANTS
  DefaultPageSize,  \* DEFAULT_PAGE_SIZE
  MaxPageSize,      \* MAX_PAGE_SIZE
  PageSizes,        \* requested page sizes; absent is 0
  Filters,          \* what callers filter by
  NoFilter,
  NoToken

ASSUME IdAssumption == TaskIds \subseteq Nat
ASSUME SizeAssumption ==
  /\ MaxPageSize \in Nat \ {0} /\ DefaultPageSize \in 1 .. MaxPageSize
  /\ PageSizes \subseteq Int
ASSUME TokenAssumption == NoToken \notin Nat
ASSUME FilterAssumption ==
  Filters \subseteq [content : Contents \union {NoFilter},
                     state : States \union {NoFilter}]

VARIABLE walk

listVars == <<vars, walk>>

ResolvePageSize(requested) ==
  IF requested > 0 THEN Min({requested, MaxPageSize}) ELSE DefaultPageSize

(* The ids a request lists: content stands for the context id.             *)
Listed(st, req) ==
  {i \in TaskIds : /\ Stored(st, i)
                   /\ req.by.content \in {NoFilter, st.entries[i].task.content}
                   /\ req.by.state \in {NoFilter, StateOf(st, i)}}

(* The ids of S in their order: sort_by on the id.                         *)
Sorted(S) ==
  CHOOSE q \in [1 .. Cardinality(S) -> S] : \A j, k \in DOMAIN q : j < k => q[j] < q[k]

(* list: the sorted matches from the offset in the token, and the offset   *)
(* behind the page when it is not the last.                                *)
(* Slip: the token counts the tasks of the page, not those before its end. *)
PageByCount(st, req, token) ==
  LET all   == Sorted(Listed(st, req))
      start == Min({token, Len(all)})
      end   == Min({start + ResolvePageSize(req.size), Len(all)})
  IN  [ids |-> SubSeq(all, start + 1, end),
       next |-> IF end < Len(all) THEN end - start ELSE NoToken]

Page(st, req, token) ==
  LET all   == Sorted(Listed(st, req))
      start == Min({token, Len(all)})
      end   == Min({start + ResolvePageSize(ResolvePageSize(req.size)), Len(all)})
  IN  [ids |-> SubSeq(all, start + 1, end),
       next |-> IF end < Len(all) THEN end ELSE NoToken]

Requests == [by : Filters, size : PageSizes]

NoWalk == [phase |-> "idle"]

ListInit == Init /\ walk = NoWalk

(* The client's first call.                                                *)
FirstPage(req) ==
  LET page == Page(store, req, 0)
  IN  /\ walk.phase = "idle"
      /\ walk' = [phase |-> IF page.next = NoToken THEN "done" ELSE "walking",
                  req |-> req, token |-> page.next, shown |-> page.ids,
                  pages |-> 1, all |-> Listed(store, req),
                  joined |-> {}, left |-> {}]
      /\ UNCHANGED vars

(* The next call, with the token of the last page.                         *)
NextPage ==
  /\ walk.phase = "walking"
  /\ LET page == Page(store, walk.req, walk.token)
     IN  walk' = [walk EXCEPT !.phase = IF page.next = NoToken THEN "done" ELSE @,
                              !.token = page.next,
                              !.shown = @ \o page.ids,
                              !.pages = @ + 1]
  /\ UNCHANGED vars

(* Another caller's write, seen by the walk's history variables; a client  *)
(* that has its last page is gone.                                         *)
Write ==
  /\ Next
  /\ walk' = IF walk.phase # "walking" THEN NoWalk
             ELSE [walk EXCEPT !.joined = @ \union (Listed(store', walk.req)
                                                    \ Listed(store, walk.req)),
                               !.left = @ \union (Listed(store, walk.req)
                                                  \ Listed(store', walk.req))]

ListNext ==
  \/ Write
  \/ NextPage
  \/ \E req \in Requests : FirstPage(req)

ListSpec == ListInit /\ [][ListNext]_listVars

-----------------------------------------------------------------------------

(* The pages of one walk are a faithful listing of what did not move.  A   *)
(* task that was listed from the first call to the last is passed over     *)
(* only if one sorted before it left the listing meanwhile, and shown      *)
(* twice only if one sorted before it entered: offsets over a changing     *)
(* set, with every page size a caller may ask for.  And a walk makes       *)
(* progress: every page but the last is full, so that an unchanged listing *)
(* takes the fewest pages its page size allows.                            *)
PagesFaithful ==
  /\ walk.phase = "done" =>
       \A i \in TaskIds :
         LET times == Cardinality({k \in DOMAIN walk.shown : walk.shown[k] = i})
         IN  /\ i \in walk.all \ walk.left /\ times = 0
                   => \E j \in walk.left : j < i
             /\ times > 1 => \E j \in walk.joined : j < i
             /\ times > 0 => i \in walk.all \union walk.joined
  /\ walk.phase # "idle" =>
       LET size == ResolvePageSize(walk.req.size)
       IN  /\ size \in 1 .. MaxPageSize
           /\ Len(walk.shown) <= walk.pages * size
           /\ walk.phase = "walking" => Len(walk.shown) = walk.pages * size

=============================================================================
