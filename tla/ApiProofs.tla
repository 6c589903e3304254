----------------------------- MODULE ApiProofs ------------------------------
(***************************************************************************)
(* Proofs about reading relations: types, and that a walk shows every      *)
(* document that was there when it began, newest first and none twice, for *)
(* any number of processors, any limits, filters and length of the walk.   *)
(***************************************************************************)
EXTENDS Api, TLAPS

(* Two facts about sequences the provers need.                              *)
LEMMA ConcatFacts ==
    ASSUME NEW S, NEW s \in Seq(S), NEW t \in Seq(S)
    PROVE  /\ s \o t \in Seq(S) /\ Len(s \o t) = Len(s) + Len(t)
           /\ s \o <<>> = s
           /\ t # <<>> => Len(t) \in 1..Len(s \o t) /\ (s \o t)[Len(s \o t)] = t[Len(t)]
OBVIOUS

LEMMA ConcatAppend ==
    ASSUME NEW S, NEW s \in Seq(S), NEW t \in Seq(S), NEW d \in S
    PROVE  s \o Append(t, d) = Append(s \o t, d)
OBVIOUS

LEMMA AppendFacts ==
    ASSUME NEW S, NEW s \in Seq(S), NEW d \in S
    PROVE  /\ Append(s, d) \in Seq(S) /\ Append(s, d) # <<>>
           /\ Len(Append(s, d)) = Len(s) + 1
           /\ Append(s, d)[Len(s) + 1] = d
           /\ \A i \in 1..Len(s) : Append(s, d)[i] = s[i]
OBVIOUS

LEMMA DocumentFacts ==
    ASSUME NEW d \in Document
    PROVE  /\ d.id \in 1..MaxId /\ d.id \in Int /\ parseRelation(d) \in Relation
           /\ d.id < MaxId + 1
<1>1. PICK r \in Relation, id \in 1..MaxId : d = transformRelation(r, id)
  BY DEF Document
<1>2. d.id = id /\ parseRelation(d) = r
  BY <1>1, ApiAssumption DEF transformRelation, parseRelation
<1>. QED
  BY <1>1, <1>2, ApiAssumption

LEMMA AnsweredType ==
    ASSUME ATypeOK
    PROVE  /\ Answered \in Seq(Document) /\ DOMAIN Answered = 1..Len(Answered)
           /\ Len(Answered) \in Nat
           /\ \A i \in DOMAIN Answered : Answered[i] \in Document /\ Answered[i].id \in Int
<1>1. Answered \in Seq(Document)
  BY ConcatFacts DEF ATypeOK, Answered
<1>2. \A i \in DOMAIN Answered : Answered[i] \in Document
  BY <1>1
<1>. QED
  BY <1>1, <1>2, DocumentFacts

LEMMA CursorType ==
    ASSUME ATypeOK
    PROVE  Cursor \in 0..MaxId /\ (shown # <<>> => Cursor \in 1..MaxId)
<1>1. CASE shown = <<>>
  BY <1>1, ApiAssumption DEF Cursor, NoCursor
<1>2. CASE shown # <<>>
  <2>1. shown[Len(shown)] \in Document
    BY <1>2 DEF ATypeOK
  <2>. QED
    BY <1>2, <2>1, DocumentFacts DEF Cursor
<1>. QED
  BY <1>1, <1>2

LEMMA QuietType == Quiet \in Request
BY ApiAssumption DEF Quiet, Request, Method, NoCursor

-----------------------------------------------------------------------------
(* Types.                                                                   *)

LEMMA ATypeInit == AInit => ATypeOK
<1>. SUFFICES ASSUME AInit PROVE ATypeOK
  OBVIOUS
<1>1. request \in Request
  BY QuietType DEF AInit
<1>2. saving \in [Thread -> Seq(Document)]
  <2>1. <<>> \in Seq(Document)
    OBVIOUS
  <2>. QED
    BY <2>1 DEF AInit
<1>. QED
  BY <1>1, <1>2, ApiAssumption DEF AInit, ATypeOK

(* A scan that is not refused stops within the limit.                       *)
LEMMA LimitType ==
    ASSUME ATypeOK, InStep, client = "served"
    PROVE  Limit \in 1..MaxLimit
<1>1. request.limit \in 0..MaxLimit
  BY ApiAssumption DEF ATypeOK, InStep, Refused, Request
<1>. QED
  BY <1>1, ApiAssumption DEF Limit

LEMMA ATypeNext ==
    ASSUME ATypeOK, InStep, ANext
    PROVE  ATypeOK'
<1>. USE ApiAssumption
<1>1. ASSUME NEW t \in Thread, SaveRelations(t) PROVE ATypeOK'
  <2>0. PICK n \in 1..MaxBatch : \E relations \in [1..n -> Relation] :
           /\ lastId + n <= MaxId /\ lastId' = lastId + n
           /\ saving' = [saving EXCEPT ![t] =
                 [k \in 1..n |-> transformRelation(relations[k], lastId + k)]]
    BY <1>1 DEF SaveRelations
  <2>1. PICK relations \in [1..n -> Relation] :
           /\ lastId + n <= MaxId /\ lastId' = lastId + n
           /\ saving' = [saving EXCEPT ![t] =
                 [k \in 1..n |-> transformRelation(relations[k], lastId + k)]]
    BY <2>0
  <2>. DEFINE new == [k \in 1..n |-> transformRelation(relations[k], lastId + k)]
  <2>2. \A k \in 1..n : lastId + k \in 1..MaxId /\ relations[k] \in Relation
    BY <2>1 DEF ATypeOK
  <2>3. \A k \in 1..n : transformRelation(relations[k], lastId + k) \in Document
    BY <2>2 DEF Document
  <2>4. n \in Nat /\ new \in [1..n -> Document]
    BY <2>3
  <2>. HIDE DEF new
  <2>5. new \in Seq(Document)
    BY <2>4
  <2>6. saving' = [saving EXCEPT ![t] = new]
    BY <2>1 DEF new
  <2>7. saving' \in [Thread -> Seq(Document)]
    BY <2>5, <2>6 DEF ATypeOK
  <2>8. lastId' \in 0..MaxId
    BY <2>1 DEF ATypeOK
  <2>. QED
    BY <1>1, <2>7, <2>8 DEF ATypeOK, SaveRelations, walkVars
<1>2. ASSUME NEW t \in Thread, Inserted(t) PROVE ATypeOK'
  <2>1. saving[t] \in Seq(Document) /\ saving[t] # <<>>
    BY <1>2 DEF ATypeOK, Inserted
  <2>2. Head(saving[t]) \in Document /\ Tail(saving[t]) \in Seq(Document)
    BY <2>1
  <2>3. saving' \in [Thread -> Seq(Document)]
    BY <1>2, <2>2 DEF ATypeOK, Inserted
  <2>. QED
    BY <1>2, <2>2, <2>3 DEF ATypeOK, Inserted, walkVars
<1>3. ASSUME NEW t \in Thread, InsertFails(t) PROVE ATypeOK'
  <2>1. saving' \in [Thread -> Seq(Document)]
    <3>1. <<>> \in Seq(Document)
      OBVIOUS
    <3>. QED
      BY <1>3, <3>1 DEF ATypeOK, InsertFails
  <2>. QED
    BY <1>3, <2>1 DEF ATypeOK, InsertFails, walkVars
<1>4. CASE StartWalk
  <2>1. due' \subseteq docs
    BY <1>4 DEF StartWalk
  <2>. QED
    BY <1>4, <2>1 DEF StartWalk, ATypeOK, saveVars
<1>5. CASE Ask
  <2>1. PICK limit \in 0..(MaxLimit + 1), method \in Method :
           LET asked == [Quiet EXCEPT !.limit = limit, !.method = method, !.after = Cursor]
           IN request' \in {asked, [asked EXCEPT !.after = BadCursor],
                            [asked EXCEPT !.body = "garbage"], [asked EXCEPT !.params = "garbage"]}
    BY <1>5 DEF Ask
  <2>2. Cursor \in (0..MaxId) \cup {-1}
    BY CursorType
  <2>3. request' \in Request
    BY <2>1, <2>2 DEF Quiet, Request, BadCursor
  <2>. QED
    BY <1>5, <2>3 DEF Ask, ATypeOK, saveVars
<1>6. CASE Serve
  BY <1>6, QuietType DEF Serve, ATypeOK, saveVars
<1>7. CASE FetchRelations
  <2>1. PICK d \in Ahead : page' = Append(page, d)
    BY <1>7 DEF FetchRelations
  <2>2. d \in Document
    BY <2>1 DEF Ahead, ATypeOK
  <2>3. Limit \in 1..MaxLimit /\ Len(page) < Limit /\ page \in Seq(Document)
    BY <1>7, LimitType DEF FetchRelations, ATypeOK
  <2>4. page' \in Seq(Document) /\ Len(page') <= MaxLimit
    BY <2>1, <2>2, <2>3
  <2>. QED
    BY <1>7, <2>4 DEF FetchRelations, ATypeOK, saveVars
<1>8. CASE Answer
  <2>1. page \in Seq(Document) /\ Len(page) <= MaxLimit /\ shown \in Seq(Document)
    BY DEF ATypeOK
  <2>2. \A k \in DOMAIN page : parseRelation(page[k]) \in Relation
    BY <2>1, DocumentFacts
  <2>. DEFINE found == [k \in DOMAIN page |-> parseRelation(page[k])]
  <2>3. DOMAIN page = 1..Len(page) /\ Len(page) \in Nat
    BY <2>1
  <2>4. found \in [1..Len(page) -> Relation]
    BY <2>2, <2>3
  <2>5. answer' = found
    BY <1>8 DEF Answer
  <2>. HIDE DEF found
  <2>6. found \in Seq(Relation) /\ Len(found) = Len(page)
    BY <2>3, <2>4
  <2>7. shown' \in Seq(Document) /\ page' \in Seq(Document) /\ Len(page') <= MaxLimit
    <3>1. shown' = <<>> \/ shown' = shown \o page
      BY <1>8 DEF Answer
    <3>2. shown \o page \in Seq(Document) /\ <<>> \in Seq(Document) /\ Len(<<>>) <= MaxLimit
      BY <2>1, ConcatFacts
    <3>3. page' = <<>>
      BY <1>8 DEF Answer
    <3>. QED
      BY <3>1, <3>2, <3>3
  <2>8. due' \subseteq Document /\ client' \in {"idle", "walking"} /\ request' \in Request
    BY <1>8, QuietType DEF Answer, ATypeOK
  <2>. QED
    BY <1>8, <2>1, <2>5, <2>6, <2>7, <2>8 DEF Answer, ATypeOK, saveVars
<1>9. CASE FetchFails
  BY <1>9, QuietType DEF FetchFails, ATypeOK, saveVars
<1>. QED
  BY <1>1, <1>2, <1>3, <1>4, <1>5, <1>6, <1>7, <1>8, <1>9 DEF ANext

-----------------------------------------------------------------------------
(* Requests and the walk stay in step.                                      *)

LEMMA InStepNext ==
    ASSUME ATypeOK, InStep, ANext
    PROVE  InStep'
<1>1. ASSUME NEW t \in Thread, SaveRelations(t) \/ Inserted(t) \/ InsertFails(t)
      PROVE  InStep'
  BY <1>1 DEF SaveRelations, Inserted, InsertFails, walkVars, InStep, Cursor
<1>2. CASE StartWalk
  BY <1>2 DEF StartWalk, InStep
<1>3. CASE Ask
  <2>1. PICK limit \in 0..(MaxLimit + 1), method \in Method :
           LET asked == [Quiet EXCEPT !.limit = limit, !.method = method, !.after = Cursor]
           IN request' \in {asked, [asked EXCEPT !.after = BadCursor],
                            [asked EXCEPT !.body = "garbage"], [asked EXCEPT !.params = "garbage"]}
    BY <1>3, Zenon DEF Ask
  <2>2. request'.after \in {Cursor, BadCursor}
    BY <2>1, Zenon DEF Quiet
  <2>3. Cursor' = Cursor
    BY <1>3 DEF Ask, Cursor
  <2>. QED
    BY <1>3, <2>2, <2>3, Zenon DEF Ask, InStep
<1>4. CASE Serve
  BY <1>4 DEF Serve, InStep, Cursor, Refused
<1>5. CASE FetchRelations
  BY <1>5 DEF FetchRelations, InStep, Cursor, Refused
<1>6. CASE Answer
  BY <1>6 DEF Answer, InStep
<1>7. CASE FetchFails
  BY <1>7 DEF FetchFails, InStep
<1>. QED
  BY <1>1, <1>2, <1>3, <1>4, <1>5, <1>6, <1>7 DEF ANext

-----------------------------------------------------------------------------
(* The driver gives every document an id of its own.                        *)

LEMMA SentFacts ==
    ASSUME ATypeOK, NEW t \in Thread, NEW k \in DOMAIN saving[t]
    PROVE  saving[t][k] \in Sent
<1>1. saving[t] \in Seq(Document)
  BY DEF ATypeOK
<1>2. saving[t][k] \in Document
  BY <1>1
<1>. QED
  BY <1>2 DEF Sent

(* What is not sent anew was sent before.                                   *)
LEMMA FewerSent ==
    ASSUME ATypeOK, IdsUnique, docs' \cup Sent' \subseteq docs \cup Sent, lastId' = lastId
    PROVE  IdsUnique'
BY DEF IdsUnique

LEMMA IdsUniqueNext ==
    ASSUME ATypeOK, IdsUnique, ANext
    PROVE  IdsUnique'
<1>1. ASSUME NEW t \in Thread, SaveRelations(t) PROVE IdsUnique'
  <2>0. PICK n \in 1..MaxBatch : \E relations \in [1..n -> Relation] :
           /\ lastId + n <= MaxId /\ lastId' = lastId + n
           /\ saving' = [saving EXCEPT ![t] =
                 [k \in 1..n |-> transformRelation(relations[k], lastId + k)]]
    BY <1>1 DEF SaveRelations
  <2>1. PICK relations \in [1..n -> Relation] :
           /\ lastId + n <= MaxId /\ lastId' = lastId + n
           /\ saving' = [saving EXCEPT ![t] =
                 [k \in 1..n |-> transformRelation(relations[k], lastId + k)]]
    BY <2>0
  <2>2. saving \in [Thread -> Seq(Document)] /\ lastId \in Nat /\ n \in Nat
    BY ApiAssumption DEF ATypeOK
  <2>. DEFINE new == [k \in 1..n |-> transformRelation(relations[k], lastId + k)]
  <2>3. saving'[t] = new /\ \A u \in Thread \ {t} : saving'[u] = saving[u]
    BY <2>1, <2>2
  <2>4. \A d \in docs' \cup Sent' :
           \/ d \in docs \cup Sent
           \/ \E k \in 1..n : d = new[k]
    <3>1. TAKE d \in docs' \cup Sent'
    <3>2. CASE d \in docs'
      BY <1>1, <3>2 DEF SaveRelations
    <3>3. CASE d \in Sent'
      <4>1. PICK u \in Thread : \E k \in DOMAIN saving'[u] : saving'[u][k] = d
        BY <3>3 DEF Sent
      <4>2. CASE u = t
        <5>1. DOMAIN new = 1..n
          OBVIOUS
        <5>. HIDE DEF new
        <5>. QED
          BY <2>3, <4>1, <4>2, <5>1
      <4>3. CASE u # t
        BY <2>3, <4>1, <4>3, SentFacts
      <4>. QED
        BY <4>2, <4>3
    <3>. QED
      BY <3>2, <3>3
  <2>5. \A k \in 1..n : new[k].id = lastId + k
    BY DEF transformRelation
  <2>6. \A d \in docs \cup Sent : d.id <= lastId /\ d.id \in Int
    <3>1. docs \cup Sent \subseteq Document
      BY DEF ATypeOK, Sent
    <3>. QED
      BY <3>1, DocumentFacts DEF IdsUnique
  <2>. HIDE DEF new
  <2>7. ASSUME NEW d \in docs' \cup Sent', NEW e \in docs' \cup Sent', d.id = e.id
        PROVE  d = e
    <3>1. CASE d \in docs \cup Sent /\ e \in docs \cup Sent
      BY <2>7, <3>1 DEF IdsUnique
    <3>2. CASE d \in docs \cup Sent /\ \E k \in 1..n : e = new[k]
      BY <2>2, <2>5, <2>6, <2>7, <3>2
    <3>3. CASE e \in docs \cup Sent /\ \E k \in 1..n : d = new[k]
      BY <2>2, <2>5, <2>6, <2>7, <3>3
    <3>4. CASE (\E k \in 1..n : d = new[k]) /\ (\E k \in 1..n : e = new[k])
      <4>1. PICK j \in 1..n, k \in 1..n : d = new[j] /\ e = new[k]
        BY <3>4
      <4>2. j = k
        BY <2>2, <2>5, <2>7, <4>1
      <4>. QED
        BY <4>1, <4>2
    <3>. QED
      BY <2>4, <3>1, <3>2, <3>3, <3>4
  <2>8. ASSUME NEW d \in docs' \cup Sent' PROVE d.id <= lastId'
    <3>1. CASE d \in docs \cup Sent
      BY <2>1, <2>2, <2>6, <3>1
    <3>2. CASE \E k \in 1..n : d = new[k]
      BY <2>1, <2>2, <2>5, <3>2
    <3>. QED
      BY <2>4, <2>8, <3>1, <3>2
  <2>. QED
    BY <2>7, <2>8 DEF IdsUnique
<1>2. ASSUME NEW t \in Thread, Inserted(t) \/ InsertFails(t) PROVE IdsUnique'
  <2>1. saving \in [Thread -> Seq(Document)] /\ saving[t] \in Seq(Document) /\ saving[t] # <<>>
    BY <1>2 DEF ATypeOK, Inserted, InsertFails
  <2>2. /\ saving'[t] = Tail(saving[t]) \/ saving'[t] = <<>>
        /\ \A u \in Thread \ {t} : saving'[u] = saving[u]
    BY <1>2, <2>1 DEF Inserted, InsertFails
  <2>3. Head(saving[t]) \in Sent
    BY <2>1, SentFacts
  <2>4. ASSUME NEW d \in Sent' PROVE d \in Sent
    <3>1. PICK u \in Thread : \E k \in DOMAIN saving'[u] : saving'[u][k] = d
      BY DEF Sent
    <3>2. CASE u = t
      <4>1. PICK k \in DOMAIN saving'[t] : saving'[t][k] = d
        BY <3>1, <3>2
      <4>2. saving'[t] = Tail(saving[t])
        BY <2>2, <4>1
      <4>3. k + 1 \in DOMAIN saving[t] /\ saving[t][k + 1] = d
        BY <2>1, <4>1, <4>2
      <4>. QED
        BY <4>3, SentFacts
    <3>3. CASE u # t
      BY <2>2, <3>1, <3>3, SentFacts
    <3>. QED
      BY <3>2, <3>3
  <2>5. docs' \subseteq docs \cup Sent /\ lastId' = lastId
    BY <1>2, <2>3 DEF Inserted, InsertFails
  <2>. QED
    BY <2>4, <2>5, FewerSent
<1>3. CASE UNCHANGED saveVars
  BY <1>3 DEF saveVars, IdsUnique, Sent
<1>. QED
  BY <1>1, <1>2, <1>3, Zenon DEF ANext, StartWalk, Ask, Serve, FetchRelations, Answer, FetchFails

-----------------------------------------------------------------------------
(* The walk.                                                                *)

LEMMA PositionIsPlace ==
    ASSUME ATypeOK, InStep, client = "served"
    PROVE  Position = Place
<1>1. page \in Seq(Document) /\ shown \in Seq(Document)
  BY DEF ATypeOK
<1>2. request.after = Cursor
  BY DEF InStep, Refused
<1>3. CASE page # <<>>
  <2>1. Answered # <<>> /\ Answered[Len(Answered)] = page[Len(page)]
    BY <1>1, <1>3, ConcatFacts DEF Answered
  <2>. QED
    BY <1>3, <2>1 DEF Position, Place
<1>4. CASE page = <<>>
  <2>1. Answered = shown
    BY <1>1, <1>4, ConcatFacts DEF Answered
  <2>2. shown = <<>> => Cursor = NoCursor
    BY DEF Cursor
  <2>3. shown # <<>> => Cursor = shown[Len(shown)].id /\ Cursor # NoCursor
    BY CursorType, ApiAssumption DEF Cursor, NoCursor
  <2>. QED
    BY <1>2, <1>4, <2>1, <2>2, <2>3 DEF Position, Place
<1>. QED
  BY <1>3, <1>4

LEMMA PlaceFacts ==
    ASSUME ATypeOK, NewestFirst
    PROVE  /\ Place \in Int /\ Place <= MaxId + 1
           /\ \A i \in DOMAIN Answered : Place <= Answered[i].id
<1>1. CASE Answered = <<>>
  BY <1>1, ApiAssumption DEF Place
<1>2. CASE Answered # <<>>
  <2>1. Len(Answered) \in DOMAIN Answered
    BY <1>2, AnsweredType
  <2>2. Place = Answered[Len(Answered)].id /\ Answered[Len(Answered)] \in Document
    BY <1>2, <2>1, AnsweredType DEF Place
  <2>3. Place \in 1..MaxId
    BY <2>2, DocumentFacts
  <2>4. ASSUME NEW i \in DOMAIN Answered PROVE Place <= Answered[i].id
    <3>1. CASE i = Len(Answered)
      BY <2>2, <2>3, <3>1
    <3>2. CASE i < Len(Answered)
      BY <2>1, <2>2, <2>3, <3>2, AnsweredType DEF NewestFirst, Descending
    <3>. QED
      BY <3>1, <3>2, AnsweredType
  <2>. QED
    BY <2>3, <2>4, ApiAssumption
<1>. QED
  BY <1>1, <1>2

(* Nothing of the walk changes, more documents may be there.                *)
LEMMA WalkStands ==
    ASSUME NewestFirst, DueAhead, docs \subseteq docs',
           UNCHANGED <<filter, due>>, Answered' = Answered
    PROVE  NewestFirst' /\ DueAhead'
BY DEF NewestFirst, Descending, DueAhead, Shown, Place, Matches

(* The scan takes one more document.                                        *)
LEMMA WalkGoesOn ==
    ASSUME ATypeOK, InStep, IdsUnique, NewestFirst, DueAhead, FetchRelations
    PROVE  NewestFirst' /\ DueAhead'
<1>1. PICK d \in Ahead : Fetch(d) /\ page' = Append(page, d)
  BY DEF FetchRelations
<1>2. d \in docs /\ d \in Document /\ Matches(d, filter) /\ d.id < Place /\ d.id \in Int
  BY <1>1, PositionIsPlace, DocumentFacts DEF Ahead, FetchRelations, ATypeOK
<1>3. /\ Answered \in Seq(Document) /\ DOMAIN Answered = 1..Len(Answered)
      /\ Len(Answered) \in Nat /\ \A i \in DOMAIN Answered : Answered[i].id \in Int
  BY AnsweredType
<1>4. Answered' = Append(Answered, d)
  <2>1. shown \in Seq(Document) /\ page \in Seq(Document)
    BY DEF ATypeOK
  <2>2. shown' = shown
    BY DEF FetchRelations
  <2>. QED
    BY <1>1, <1>2, <2>1, <2>2, ConcatAppend DEF Answered
<1>. DEFINE n == Len(Answered)
<1>5. /\ Answered' \in Seq(Document) /\ Answered' # <<>> /\ Len(Answered') = n + 1
      /\ Answered'[n + 1] = d /\ \A i \in 1..n : Answered'[i] = Answered[i]
  BY <1>2, <1>3, <1>4, AppendFacts
<1>6. DOMAIN Answered' = 1..(n + 1)
  BY <1>5
<1>7. \A i \in 1..n : Place <= Answered[i].id /\ Place \in Int
  BY <1>3, PlaceFacts
<1>8. Descending'
  <2>1. ASSUME NEW i \in 1..(n + 1), NEW j \in 1..(n + 1), i < j
        PROVE  Answered'[i].id > Answered'[j].id
    <3>1. i \in 1..n
      BY <1>3, <2>1
    <3>2. CASE j = n + 1
      BY <1>2, <1>3, <1>5, <1>7, <3>1, <3>2
    <3>3. CASE j \in 1..n
      BY <1>3, <1>5, <2>1, <3>1, <3>3 DEF NewestFirst, Descending
    <3>. QED
      BY <1>3, <3>2, <3>3
  <2>. QED
    BY <1>6, <2>1 DEF Descending
<1>9. UNCHANGED <<docs, filter, due>>
  BY DEF FetchRelations, saveVars
<1>10. NewestFirst'
  <2>1. ASSUME NEW i \in 1..(n + 1)
        PROVE  Answered'[i] \in docs /\ Matches(Answered'[i], filter)
    <3>1. CASE i \in 1..n
      BY <1>3, <1>5, <3>1 DEF NewestFirst
    <3>2. CASE i = n + 1
      BY <1>2, <1>5, <3>2
    <3>. QED
      BY <1>3, <3>1, <3>2
  <2>2. ASSUME NEW x PROVE Matches(x, filter)' <=> Matches(x, filter)
    BY <1>9 DEF Matches
  <2>. QED
    BY <1>6, <1>8, <1>9, <2>1, <2>2 DEF NewestFirst, Matches
<1>11. Place' = d.id
  BY <1>5 DEF Place
<1>12. ASSUME NEW e \in due PROVE Shown(e)' \/ e.id < d.id
  <2>1. CASE Shown(e)
    <3>1. PICK i \in 1..n : Answered[i] = e
      BY <1>3, <2>1 DEF Shown
    <3>2. i \in 1..(n + 1) /\ Answered'[i] = e
      BY <1>3, <1>5, <3>1
    <3>. QED
      BY <1>6, <3>2 DEF Shown
  <2>2. CASE ~ Shown(e)
    <3>1. e \in docs /\ e.id < Place /\ Matches(e, filter)
      BY <2>2 DEF DueAhead
    <3>2. e.id < Position
      BY <3>1, PositionIsPlace DEF FetchRelations
    <3>3. e \in Ahead
      BY <3>1, <3>2 DEF Ahead
    <3>4. e.id <= d.id /\ e.id \in Int
      BY <1>1, <3>1, <3>3, DocumentFacts DEF Fetch, ATypeOK
    <3>5. CASE e.id = d.id
      <4>1. e = d
        BY <1>2, <3>1, <3>5 DEF IdsUnique
      <4>2. n + 1 \in DOMAIN Answered'
        BY <1>3, <1>6
      <4>. QED
        BY <1>5, <4>1, <4>2 DEF Shown
    <3>. QED
      BY <1>2, <3>4, <3>5
  <2>. QED
    BY <2>1, <2>2
<1>13. DueAhead'
  BY <1>9, <1>11, <1>12 DEF DueAhead, Matches
<1>. QED
  BY <1>10, <1>13

(* A page is lost, the walk falls back to the end of the last one.          *)
LEMMA WalkFallsBack ==
    ASSUME ATypeOK, NewestFirst, DueAhead, FetchFails
    PROVE  NewestFirst' /\ DueAhead'
<1>1. /\ shown \in Seq(Document) /\ page \in Seq(Document) /\ Len(shown) \in Nat
      /\ page' = <<>> /\ shown' = shown /\ UNCHANGED <<docs, filter, due>>
  BY DEF FetchFails, ATypeOK, saveVars
<1>2. Answered' = shown
  BY <1>1, ConcatFacts DEF Answered
<1>. DEFINE n == Len(shown)
<1>3. /\ DOMAIN Answered = 1..Len(Answered) /\ Len(Answered) \in Nat /\ n <= Len(Answered)
      /\ \A i \in 1..n : Answered[i] = shown[i]
  BY <1>1, AnsweredType DEF Answered
<1>4. DOMAIN shown = 1..n /\ 1..n \subseteq DOMAIN Answered
  BY <1>1, <1>3
<1>5. Descending'
  <2>1. \A i, j \in 1..n : i < j => shown[i].id > shown[j].id
    BY <1>3, <1>4 DEF NewestFirst, Descending
  <2>. QED
    BY <1>2, <1>4, <2>1 DEF Descending
<1>6. NewestFirst'
  <2>1. \A i \in 1..n : shown[i] \in docs /\ Matches(shown[i], filter)
    BY <1>3, <1>4 DEF NewestFirst
  <2>. QED
    BY <1>1, <1>2, <1>4, <1>5, <2>1 DEF NewestFirst, Matches
<1>7. Place <= Place' /\ Place \in Int /\ Place' \in Int
  <2>1. CASE shown = <<>>
    BY <1>2, <2>1, PlaceFacts, ApiAssumption DEF Place
  <2>2. CASE shown # <<>>
    <3>1. n \in 1..n
      BY <1>1, <2>2
    <3>2. Place' = Answered[n].id /\ n \in DOMAIN Answered
      BY <1>2, <1>3, <1>4, <2>2, <3>1 DEF Place
    <3>. QED
      BY <3>2, PlaceFacts, AnsweredType
  <2>. QED
    BY <2>1, <2>2
<1>8. ASSUME NEW e \in due PROVE Shown(e)' \/ e.id < Place'
  <2>1. e \in Document /\ e.id \in Int /\ e.id < MaxId + 1
    BY DocumentFacts DEF ATypeOK
  <2>2. CASE ~ Shown(e)
    BY <1>7, <2>1, <2>2 DEF DueAhead
  <2>3. CASE Shown(e)
    <3>1. PICK i \in DOMAIN Answered : Answered[i] = e
      BY <2>3 DEF Shown
    <3>2. CASE i \in 1..n
      BY <1>2, <1>3, <1>4, <3>1, <3>2 DEF Shown
    <3>3. CASE i \notin 1..n /\ shown = <<>>
      BY <1>2, <2>1, <3>3 DEF Place
    <3>4. CASE i \notin 1..n /\ shown # <<>>
      <4>1. n \in 1..n /\ n < i
        BY <1>1, <1>3, <3>1, <3>4
      <4>2. Place' = Answered[n].id
        BY <1>2, <1>3, <3>4, <4>1 DEF Place
      <4>3. Answered[n].id > Answered[i].id
        BY <1>4, <3>1, <4>1 DEF NewestFirst, Descending
      <4>4. Place' > e.id
        BY <3>1, <4>2, <4>3
      <4>. QED
        BY <1>7, <2>1, <4>4
    <3>. QED
      BY <3>2, <3>3, <3>4
  <2>. QED
    BY <2>2, <2>3
<1>. QED
  BY <1>1, <1>6, <1>8 DEF DueAhead, Matches

(* The end of a walk: nothing is ahead, so everything due has been shown.   *)
LEMMA AllShownAtEnd ==
    ASSUME AInv, Answer, client' = "idle", NEW d \in due
    PROVE  Shown(d)
<1>1. CASE Shown(d)
  BY <1>1
<1>2. CASE ~ Shown(d)
  <2>1. d \in docs /\ Matches(d, filter) /\ d.id < Place
    BY <1>2 DEF AInv, DueAhead
  <2>2. d.id < Position
    BY <2>1, PositionIsPlace DEF AInv, Answer
  <2>3. Ahead = {}
    <3>1. Limit \in 1..MaxLimit /\ Len(page) < Limit /\ Len(page) \in Nat
      BY LimitType DEF AInv, Answer, ATypeOK
    <3>. QED
      BY <3>1, ApiAssumption DEF Answer
  <2>. QED
    BY <2>1, <2>2, <2>3 DEF Ahead
<1>. QED
  BY <1>1, <1>2

LEMMA WalkNext ==
    ASSUME AInv, ANext
    PROVE  NewestFirst' /\ DueAhead'
<1>. USE DEF AInv
<1>1. ASSUME NEW t \in Thread, SaveRelations(t) \/ Inserted(t) \/ InsertFails(t)
      PROVE  NewestFirst' /\ DueAhead'
  <2>1. docs \subseteq docs' /\ UNCHANGED <<filter, due>> /\ Answered' = Answered
    BY <1>1, Zenon DEF SaveRelations, Inserted, InsertFails, walkVars, Answered
  <2>. QED
    BY <2>1, WalkStands
<1>2. CASE StartWalk
  <2>1. /\ Answered = <<>> /\ Answered' = <<>>
    <3>1. shown = <<>> /\ page = <<>>
      BY <1>2 DEF StartWalk, InStep
    <3>. QED
      BY <1>2, <3>1 DEF StartWalk, Answered
  <2>2. NewestFirst'
    BY <2>1 DEF NewestFirst, Descending
  <2>3. \A d \in due' : d \in docs' /\ Matches(d, filter)' /\ d.id < Place'
    <3>1. \A d \in due' : d \in docs /\ Matches(d, filter')
      BY <1>2 DEF StartWalk
    <3>2. docs' = docs /\ Place' = MaxId + 1
      BY <1>2, <2>1 DEF StartWalk, saveVars, Place
    <3>. QED
      BY <3>1, <3>2, DocumentFacts DEF ATypeOK, Matches
  <2>. QED
    BY <2>2, <2>3 DEF DueAhead
<1>3. CASE Ask \/ Serve
  <2>1. docs \subseteq docs' /\ UNCHANGED <<filter, due>> /\ Answered' = Answered
    BY <1>3, Zenon DEF Ask, Serve, saveVars, Answered
  <2>. QED
    BY <2>1, WalkStands
<1>4. CASE FetchRelations
  BY <1>4, WalkGoesOn
<1>5. CASE Answer
  <2>1. CASE Len(page) < Limit
    <3>1. Answered' = <<>> /\ due' = {}
      BY <1>5, <2>1 DEF Answer, Answered
    <3>. QED
      BY <3>1 DEF NewestFirst, Descending, DueAhead
  <2>2. CASE ~ (Len(page) < Limit)
    <3>1. shown \in Seq(Document) /\ page \in Seq(Document)
      BY DEF ATypeOK
    <3>2. shown' = Answered /\ page' = <<>> /\ Answered \in Seq(Document)
      BY <1>5, <2>2, <3>1, AnsweredType DEF Answer, Answered
    <3>3. Answered' = Answered
      BY <3>2, ConcatFacts DEF Answered
    <3>4. docs \subseteq docs' /\ UNCHANGED <<filter, due>>
      BY <1>5, <2>2 DEF Answer, saveVars
    <3>. QED
      BY <3>3, <3>4, WalkStands
  <2>. QED
    BY <2>1, <2>2
<1>6. CASE FetchFails
  BY <1>6, WalkFallsBack
<1>. QED
  BY <1>1, <1>2, <1>3, <1>4, <1>5, <1>6 DEF ANext

-----------------------------------------------------------------------------
LEMMA AInitInv == AInit => AInv
<1>. SUFFICES ASSUME AInit PROVE AInv
  OBVIOUS
<1>1. ATypeOK
  BY ATypeInit
<1>2. Answered = <<>> /\ docs = {} /\ due = {}
  BY DEF AInit, Answered
<1>3. Sent = {}
  BY DEF AInit, Sent
<1>4. IdsUnique
  BY <1>2, <1>3 DEF IdsUnique
<1>5. InStep
  BY DEF AInit, InStep
<1>6. NewestFirst /\ DueAhead
  BY <1>2 DEF NewestFirst, Descending, DueAhead
<1>. QED
  BY <1>1, <1>4, <1>5, <1>6 DEF AInv

LEMMA ANextInv == AInv /\ [ANext]_avars => AInv'
<1>. SUFFICES ASSUME AInv, [ANext]_avars PROVE AInv'
  OBVIOUS
<1>1. CASE ANext
  BY <1>1, ATypeNext, InStepNext, IdsUniqueNext, WalkNext DEF AInv
<1>2. CASE UNCHANGED avars
  <2>1. ATypeOK'
    BY <1>2 DEF avars, AInv, ATypeOK
  <2>2. InStep'
    BY <1>2 DEF avars, AInv, InStep, Cursor
  <2>3. Sent' = Sent
    BY <1>2 DEF avars, Sent
  <2>4. IdsUnique'
    BY <1>2, <2>3 DEF avars, AInv, IdsUnique
  <2>5. Answered' = Answered /\ docs' = docs /\ filter' = filter /\ due' = due
    BY <1>2 DEF avars, Answered
  <2>6. NewestFirst'
    BY <2>5 DEF AInv, NewestFirst, Descending
  <2>7. DueAhead'
    BY <2>5 DEF AInv, DueAhead, Shown, Place
  <2>. QED
    BY <2>1, <2>2, <2>4, <2>6, <2>7 DEF AInv
<1>. QED
  BY <1>1, <1>2

(* The inductive invariant of the walk (api.go:32-57, repo/mongo.go:47-89), *)
(* for any number of processors, any limits and any filters.                *)
THEOREM WalkInvariantHolds == ASpec => []AInv
BY AInitInv, ANextInv, PTL DEF ASpec

(* Types: no page, and no answer, is longer than the largest limit          *)
(* (api.go:28-38).                                                          *)
THEOREM AnswersAreBounded == ASpec => []ATypeOK
<1>1. AInv => ATypeOK
  BY DEF AInv
<1>. QED
  BY <1>1, WalkInvariantHolds, PTL

(* Pages go from newer to older documents and repeat none, however requests *)
(* fail and whatever is inserted (repo/mongo.go:54, 75).                    *)
THEOREM PagesNewestFirst == ASpec => []NewestFirst
<1>1. AInv => NewestFirst
  BY DEF AInv
<1>. QED
  BY <1>1, WalkInvariantHolds, PTL

(* A walk that has come to its end has shown all that was there when it     *)
(* began (api.go:32-57).                                                    *)
THEOREM WalkIsComplete == ASpec => WalkShowsAll
<1>1. AInv /\ [ANext]_avars =>
         [client = "served" /\ client' = "idle" => \A d \in due : Shown(d)]_avars
  <2>. SUFFICES ASSUME AInv, ANext, client = "served", client' = "idle"
                PROVE  \A d \in due : Shown(d)
    OBVIOUS
  <2>1. Answer
    BY DEF ANext, SaveRelations, Inserted, InsertFails, walkVars, StartWalk, Ask, Serve,
       FetchRelations, FetchFails
  <2>. QED
    BY <2>1, AllShownAtEnd
<1>. QED
  BY <1>1, WalkInvariantHolds, PTL DEF ASpec, WalkShowsAll

=============================================================================
