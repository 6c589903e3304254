-------------------------------- MODULE Api ---------------------------------
(***************************************************************************)
(* Reading relations: the JSON-RPC server (srv/srv.go), FindRelations      *)
(* (api.go) and FetchRelations (repo/mongo.go), which page through the     *)
(* collection, newest id first, while the processors insert into it.       *)
(*                                                                         *)
(* Ids are given to documents by the driver of a processor before it sends *)
(* them, so they may become visible in another order.  A client walks: it  *)
(* asks for page after page, each time for what comes after the last       *)
(* document it was answered.  Requests share nothing but the collection,   *)
(* so one client stands for all.  It must learn the ids elsewhere: the     *)
(* relations of an answer carry none (types/relation.go:10).               *)
(***************************************************************************)
EXTENDS Integers, Sequences, FiniteSets

CONSTANTS Thread,        \* goroutines of the processors
          Relation,      \* the relations saved: records with from, to, provider
          Filter,        \* what clients ask for: from, to ("" is any), providers
          DefaultLimit,  \* 100 in the code
          MaxLimit,      \* 1000 in the code
          MaxBatch,      \* bound: relations of one transaction
          MaxId          \* bound: the last ObjectID given

ASSUME ApiAssumption ==
    /\ DefaultLimit \in 1..MaxLimit /\ MaxLimit \in Nat
    /\ MaxBatch \in Nat /\ MaxId \in Nat
    /\ \A r \in Relation : r = [from |-> r.from, to |-> r.to, provider |-> r.provider]

VARIABLES docs,      \* the documents that can be read
          lastId,    \* the last ObjectID given
          saving,    \* documents each processor has sent and are not there yet
          client,    \* what the client does
          filter,    \* what its walk is about
          request,   \* the request being served
          page,      \* documents found for it so far
          answer,    \* the relations of the last answer
          shown,     \* documents answered in this walk
          due        \* those it was bound to see: there when it began (ghost)

avars == <<docs, lastId, saving, client, filter, request, page, answer, shown, due>>
walkVars == <<client, filter, request, page, answer, shown, due>>
saveVars == <<docs, lastId, saving>>

(* Two conversions.  Keys, times and bytes survive them, ids do not.        *)
transformRelation(r, id) ==
    [id |-> id, from |-> r.from, to |-> r.to, provider |-> r.provider]

parseRelation(d) == [from |-> d.from, to |-> d.to, provider |-> d.provider]

Document == {transformRelation(r, id) : r \in Relation, id \in 1..MaxId}

Method == {"sg_findRelations", "SG_FINDRELATIONS", "getRelations"}

Request == [body : {"json", "garbage"}, method : Method, params : {"json", "garbage"},
            limit : 0..(MaxLimit + 1), after : (0..MaxId) \cup {-1}]

NoCursor  == 0
BadCursor == -1      \* not the hex form of an ObjectID

ATypeOK ==
    /\ docs \subseteq Document /\ lastId \in 0..MaxId
    /\ saving \in [Thread -> Seq(Document)]
    /\ client \in {"idle", "walking", "asked", "served"}
    /\ filter \in Filter /\ request \in Request
    /\ page \in Seq(Document) /\ Len(page) <= MaxLimit
    /\ answer \in Seq(Relation) /\ Len(answer) <= MaxLimit
    /\ shown \in Seq(Document) /\ due \subseteq Document

Quiet == [body |-> "json", method |-> "sg_findRelations", params |-> "json",
          limit |-> 0, after |-> NoCursor]

AInit ==
    /\ docs = {} /\ lastId = 0 /\ saving = [t \in Thread |-> <<>>]
    /\ client = "idle" /\ filter \in Filter /\ request = Quiet
    /\ page = <<>> /\ answer = <<>> /\ shown = <<>> /\ due = {}

-----------------------------------------------------------------------------
(* SaveRelations: InsertMany, in order, of the relations of a transaction.  *)

SaveRelations(t) ==
    /\ saving[t] = <<>>
    /\ \E n \in 1..MaxBatch : \E relations \in [1..n -> Relation] :
          /\ lastId + n <= MaxId /\ lastId' = lastId + n
          /\ saving' = [saving EXCEPT ![t] =
                 [k \in 1..n |-> transformRelation(relations[k], lastId + k)]]
    /\ UNCHANGED <<docs, walkVars>>

Inserted(t) ==
    /\ saving[t] # <<>>
    /\ docs' = docs \cup {Head(saving[t])}
    /\ saving' = [saving EXCEPT ![t] = Tail(saving[t])]
    /\ UNCHANGED <<lastId, walkVars>>

(* An error, or a crash: the rest is never inserted.                        *)
InsertFails(t) ==
    /\ saving[t] # <<>>
    /\ saving' = [saving EXCEPT ![t] = <<>>]
    /\ UNCHANGED <<docs, lastId, walkVars>>

-----------------------------------------------------------------------------
(* The client.                                                              *)

Matches(d, f) ==
    /\ f.from = "" \/ d.from = f.from
    /\ f.to = "" \/ d.to = f.to
    /\ f.providers = {} \/ d.provider \in f.providers

StartWalk ==
    /\ client = "idle" /\ client' = "walking"
    /\ filter' \in Filter
    /\ due' = {d \in docs : Matches(d, filter')}
    /\ UNCHANGED <<saveVars, request, page, answer, shown>>

Cursor == IF shown = <<>> THEN NoCursor ELSE shown[Len(shown)].id

Ask ==
    /\ client = "walking" /\ client' = "asked" /\ answer' = <<>>
    /\ \E limit \in 0..(MaxLimit + 1), method \in Method :
          LET asked == [Quiet EXCEPT !.limit = limit, !.method = method, !.after = Cursor]
          IN request' \in {asked, [asked EXCEPT !.after = BadCursor],
                           [asked EXCEPT !.body = "garbage"], [asked EXCEPT !.params = "garbage"]}
    /\ UNCHANGED <<saveVars, filter, page, shown, due>>

-----------------------------------------------------------------------------
(* The server.                                                              *)

Lower(method) == IF method = "getRelations" THEN "getrelations" ELSE "sg_findrelations"

(* Register keeps methods in lower case.                                    *)
handlers == {Lower("sg_findRelations")}

(* Wrong on purpose: any limit will do.                                     *)
Refused_AnyLimit(r) ==
    \/ r.body = "garbage"                \* Run: the request does not parse
    \/ Lower(r.method) \notin handlers   \* process
    \/ r.params = "garbage"              \* WrapH
    \/ r.after = BadCursor               \* FetchRelations

(* What is answered with an error before the collection is read.            *)
Refused(r) ==
    \/ r.body = "garbage"                \* Run: the request does not parse
    \/ Lower(r.method) \notin handlers   \* process
    \/ r.params = "garbage"              \* WrapH
    \/ r.limit > MaxLimit                \* FindRelations
    \/ r.after = BadCursor               \* FetchRelations

Serve ==
    /\ client = "asked"
    /\ IF Refused(request) THEN client' = "walking" /\ request' = Quiet
       ELSE client' = "served" /\ UNCHANGED request
    /\ UNCHANGED <<saveVars, filter, page, answer, shown, due>>

Limit == IF request.limit = 0 THEN DefaultLimit ELSE request.limit

(* Where the scan of the index by _id, from the newest, has come.           *)
Position == IF page # <<>> THEN page[Len(page)].id
            ELSE IF request.after = NoCursor THEN MaxId + 1 ELSE request.after

(* Wrong on purpose: the document at the cursor is among what follows it.   *)
Ahead_Inclusive == {d \in docs : Matches(d, filter) /\ d.id <= Position}

Ahead == {d \in docs : Matches(d, filter) /\ d.id < Position}

(* Wrong on purpose: oldest first.                                          *)
Fetch_OldestFirst(d) == \A e \in Ahead : d.id <= e.id

(* FetchRelations sorts by _id, descending.                                 *)
Fetch(d) == \A e \in Ahead : e.id <= d.id

(* The cursor of MongoDB moves while others insert.                         *)
FetchRelations ==
    /\ client = "served" /\ Len(page) < Limit
    /\ \E d \in Ahead : Fetch(d) /\ page' = Append(page, d)
    /\ UNCHANGED <<saveVars, client, filter, request, answer, shown, due>>

(* A page that is not full was the last.                                    *)
Answer ==
    /\ client = "served"
    /\ Len(page) = Limit \/ Ahead = {}
    /\ answer' = [k \in DOMAIN page |-> parseRelation(page[k])]
    /\ page' = <<>> /\ request' = Quiet
    /\ IF Len(page) < Limit
       THEN client' = "idle" /\ shown' = <<>> /\ due' = {}
       ELSE client' = "walking" /\ shown' = shown \o page /\ UNCHANGED due
    /\ UNCHANGED <<saveVars, filter>>

(* MongoDB fails in the middle: nothing of the page is answered.            *)
FetchFails ==
    /\ client = "served" /\ client' = "walking" /\ page' = <<>> /\ request' = Quiet
    /\ UNCHANGED <<saveVars, filter, answer, shown, due>>

-----------------------------------------------------------------------------
ANext ==
    \/ \E t \in Thread : SaveRelations(t) \/ Inserted(t) \/ InsertFails(t)
    \/ StartWalk \/ Ask
    \/ Serve \/ FetchRelations \/ Answer \/ FetchFails

ASpec == AInit /\ [][ANext]_avars

-----------------------------------------------------------------------------
(* Properties.                                                              *)

Answered == shown \o page

(* A walk never shows a document twice, or one it is not about, whatever is *)
(* inserted between two pages or two steps of the cursor and however often  *)
(* a request is repeated: ids go down (repo/mongo.go:54, 75).               *)
Descending == \A i, j \in DOMAIN Answered : i < j => Answered[i].id > Answered[j].id

NewestFirst ==
    /\ Descending
    /\ \A i \in DOMAIN Answered : Answered[i] \in docs /\ Matches(Answered[i], filter)

(* A walk that comes to its end has shown every relation that was there     *)
(* when it began: no page skips one, although the pages are read at         *)
(* different times and some fail (api.go:32-57, repo/mongo.go:47-89).       *)
Shown(d) == \E i \in DOMAIN Answered : Answered[i] = d

WalkShowsAll ==
    [][client = "served" /\ client' = "idle" => \A d \in due : Shown(d)]_avars

(* Why they hold, as an inductive invariant.  A document that was there at  *)
(* the start of the walk is shown, or still ahead of the place the walk has *)
(* come to.  The place is that of the scan, or where the next one will      *)
(* begin.  It takes that no two documents have the same id.                 *)
Place == IF Answered = <<>> THEN MaxId + 1 ELSE Answered[Len(Answered)].id

Sent == {d \in Document : \E t \in Thread : \E k \in DOMAIN saving[t] : saving[t][k] = d}

IdsUnique ==
    /\ \A d, e \in docs \cup Sent : d.id = e.id => d = e
    /\ \A d \in docs \cup Sent : d.id <= lastId

InStep ==
    /\ client # "served" => page = <<>>
    /\ client = "idle" => shown = <<>> /\ due = {}
    /\ client = "served" => ~ Refused(request)
    /\ client \in {"asked", "served"} => request.after \in {Cursor, BadCursor}

DueAhead ==
    /\ \A d \in due : d \in docs /\ Matches(d, filter)
    /\ \A d \in due : Shown(d) \/ d.id < Place

AInv == ATypeOK /\ InStep /\ IdsUnique /\ NewestFirst /\ DueAhead

=============================================================================
