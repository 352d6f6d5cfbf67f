-------------------------- MODULE JsonWriterProofs --------------------------
(***************************************************************************)
(* The writer's tree and its stack of open containers, for every set of    *)
(* names, every depth and every number of nodes, whatever draws are        *)
(* refused; the text laid down from the tree; and that the two make the    *)
(* text of JsonText, counted as they should be, and one JSON value.        *)
(*                                                                         *)
(* A field is hung on the container at the top of the stack.  That this    *)
(* leaves the path below it alone needs more than StackIsPath says: the    *)
(* nodes on the stack must be different ones.  Ascends supplies it: each   *)
(* was taken from the pool after the one below.                            *)
(*                                                                         *)
(* That the text grows at its end needs more: every node has one place in  *)
(* the tree (Unique), or a field would show in two places of the text, and *)
(* members are named as their container asks (Keyed), or what was accepted *)
(* could not be read back.                                                 *)
(***************************************************************************)
EXTENDS JsonWriter, DataLemmas

Types == Containers \cup Scalars

Node == [type : Types, members : Seq([key : AnyKey, node : Nat])]

State == [magic : BOOLEAN, as_null : BOOLEAN, doc : Seq(Node), depth : 0..MAX_DEPTH,
          elements : Nat, status : Statuses, error_field : Fields,
          stack : [1..MAX_DEPTH -> 0..MaxNodes]]

Tree(doc) ==
  /\ Len(doc) <= MaxNodes
  /\ \A n \in 1..Len(doc) : \A i \in 1..Len(doc[n].members) :
       doc[n].members[i].node \in (n + 1)..Len(doc)

Path(doc, stack, depth) ==
  /\ depth = 0 <=> doc = NO_DOC
  /\ depth > 0 => stack[1] = 1
  /\ \A level \in 1..depth :
       stack[level] \in 1..Len(doc) /\ doc[stack[level]].type \in Containers
  /\ \A level \in 2..depth :
       LET below == doc[stack[level - 1]].members
       IN  Len(below) > 0 /\ below[Len(below)].node = stack[level]

Ascends(stack, depth) == \A i, j \in 1..depth : i < j => stack[i] < stack[j]

Sound(s) ==
  /\ s \in State
  /\ Tree(s.doc)
  /\ Path(s.doc, s.stack, s.depth)
  /\ Ascends(s.stack, s.depth)

IInv == Sound(writer)

-----------------------------------------------------------------------------
(* What leaves the tree alone.                                             *)

\* record_error changes no tree, and what it records is of its type.
LEMMA Recorded ==
  ASSUME NEW s, Sound(s), NEW result \in Statuses, NEW f \in Fields
  PROVE  Sound(record_error(s, result, f))
  BY DEF Sound, State, record_error, Tree, Path, Ascends

\* arnm_json_writer_clear_error and the start of a document forget the error.
LEMMA Cleared ==
  ASSUME NEW s, Sound(s)
  PROVE  Sound([s EXCEPT !.status = SUCCESS, !.error_field = NONE])
  BY DEF Sound, State, Tree, Path, Ascends, Statuses, Results, Fields, SUCCESS, NONE

\* dispose_document leaves no tree and an empty stack.
LEMMA Disposed ==
  ASSUME NEW s, Sound(s)
  PROVE  /\ Sound(dispose_document(s))
         /\ dispose_document(s).doc = NO_DOC
  <1>0. NO_DOC \in Seq(Node)
    BY DEF NO_DOC
  <1>1. 0 \in 0..MAX_DEPTH
    BY WriterAssumption
  <1>1a. dispose_document(s) \in State
    BY <1>0, <1>1, Zenon DEF Sound, State, dispose_document
  <1>2. Tree(NO_DOC)
    BY WriterAssumption DEF Tree, NO_DOC
  <1>3. QED BY <1>1a, <1>2 DEF Sound, Path, Ascends, dispose_document, State

-----------------------------------------------------------------------------
(* What makes or grows it.                                                 *)

\* begin_document: a root alone, or nothing.
LEMMA Begun ==
  ASSUME NEW s, Sound(s), NEW type \in Containers, NEW draws \in Nat
  PROVE  /\ Sound(begin_document(s, type, draws))
         /\ begin_document(s, type, draws).depth \in {0, 1}
  <1> DEFINE clean == [dispose_document(s) EXCEPT !.status = SUCCESS, !.error_field = NONE]
  <1> DEFINE began == [clean EXCEPT !.doc = << node(type) >>, !.stack[1] = 1, !.depth = 1,
                                    !.elements = 1]
  <1>1. Sound(clean)
    BY Disposed, Cleared
  <1>2. CASE draws < 2
    <2>1. OUT_OF_MEMORY \in Statuses /\ NONE \in Fields
      BY DEF Statuses, Results, Fields, NONE
    <2>2. clean.depth = 0
      BY Zenon DEF dispose_document, Sound, State
    <2>3. record_error(clean, OUT_OF_MEMORY, NONE).depth = 0
      BY <1>1, <2>2, Zenon DEF record_error, Sound, State
    <2>4. Sound(record_error(clean, OUT_OF_MEMORY, NONE))
      BY <1>1, <2>1, Recorded
    <2>5. begin_document(s, type, draws) = record_error(clean, OUT_OF_MEMORY, NONE)
      BY <1>2 DEF begin_document
    <2>6. QED BY <2>3, <2>4, <2>5
  <1>3. CASE ~(draws < 2)
    <2>1. node(type) \in Node
      BY DEF node, Node, Types
    <2>2. /\ << node(type) >> \in Seq(Node)
          /\ Len(<< node(type) >>) = 1
          /\ << node(type) >>[1] = node(type)
      BY <2>1
    <2>3. began \in State
      <3>1. clean.stack \in [1..MAX_DEPTH -> 0..MaxNodes]
        BY <1>1 DEF Sound, State
      <3>2. [clean.stack EXCEPT ![1] = 1] \in [1..MAX_DEPTH -> 0..MaxNodes]
        BY <3>1, WriterAssumption
      <3>3. 1 \in 0..MAX_DEPTH /\ 1 \in Nat
        BY WriterAssumption
      <3>4. clean \in State /\ << node(type) >> \in Seq(Node)
        BY <1>1, <2>2 DEF Sound
      <3>5. QED BY <3>2, <3>3, <3>4, Zenon DEF State
    <2>4. Tree(<< node(type) >>)
      BY <2>2, WriterAssumption DEF Tree, node
    <2>5. began.doc = << node(type) >> /\ began.depth = 1 /\ began.stack[1] = 1
      <3>1. /\ began.doc = << node(type) >>
            /\ began.depth = 1
            /\ began.stack = [clean.stack EXCEPT ![1] = 1]
        BY <1>1, Zenon DEF Sound, State
      <3>2. 1 \in 1..MAX_DEPTH
        BY WriterAssumption
      <3>3. clean.stack \in [1..MAX_DEPTH -> 0..MaxNodes]
        BY <1>1 DEF Sound, State
      <3>4. QED BY <3>1, <3>2, <3>3
    <2>6. Path(began.doc, began.stack, 1)
      BY <2>2, <2>5 DEF Path, node, NO_DOC
    <2>7. Ascends(began.stack, 1)
      BY DEF Ascends
    <2>8. Sound(began)
      BY <2>3, <2>4, <2>5, <2>6, <2>7 DEF Sound
    <2>9. begin_document(s, type, draws) = began
      BY <1>3 DEF begin_document
    <2>10. QED BY <2>5, <2>8, <2>9
  <1>4. QED BY <1>2, <1>3

\* member_added hangs a new node on the top of the stack; the path stands.
LEMMA Added ==
  ASSUME NEW s, Sound(s), s.depth > 0, Len(s.doc) < MaxNodes,
         NEW key \in AnyKey, NEW type \in Types
  PROVE  LET a == member_added(s, key, type)
             below == a.doc[top(s)].members
         IN  /\ Sound(a)
             /\ a.stack = s.stack /\ a.depth = s.depth /\ a.status = s.status
             /\ Len(a.doc) = Len(s.doc) + 1
             /\ a.doc[Len(a.doc)].type = type
             /\ Len(below) > 0 /\ below[Len(below)].node = Len(a.doc)
  <1> DEFINE L == Len(s.doc)
             n == top(s)
             m == [key |-> key, node |-> L + 1]
             M == Append(s.doc[n].members, m)
             mid == [s.doc EXCEPT ![n].members = M]
             doc == Append(mid, node(type))
             a == member_added(s, key, type)
  <1>1. /\ s \in State /\ s.doc \in Seq(Node) /\ L \in Nat
        /\ s.depth \in 1..MAX_DEPTH /\ s.stack \in [1..MAX_DEPTH -> 0..MaxNodes]
    <2>1. /\ s \in State /\ s.doc \in Seq(Node) /\ s.depth \in 0..MAX_DEPTH
          /\ s.stack \in [1..MAX_DEPTH -> 0..MaxNodes]
      BY DEF Sound, State
    <2>2. QED BY <2>1, WriterAssumption
  <1>2. n \in 1..L /\ s.doc[n] \in Node
    BY <1>1 DEF Sound, Path, top
  <1>3. m \in [key : AnyKey, node : Nat]
    BY <1>1
  <1>4. s.doc[n].members \in Seq([key : AnyKey, node : Nat])
    BY <1>2 DEF Node
  <1>5. /\ M \in Seq([key : AnyKey, node : Nat])
        /\ Len(M) = Len(s.doc[n].members) + 1
        /\ M[Len(M)] = m
        /\ \A i \in 1..Len(s.doc[n].members) : M[i] = s.doc[n].members[i]
    BY <1>3, <1>4
  <1>6. [s.doc[n] EXCEPT !.members = M] \in Node
    BY <1>2, <1>5 DEF Node
  <1>7. mid = [s.doc EXCEPT ![n] = [s.doc[n] EXCEPT !.members = M]]
    BY <1>2
  <1>8. /\ mid \in Seq(Node) /\ Len(mid) = L
        /\ mid[n] = [s.doc[n] EXCEPT !.members = M]
        /\ \A k \in 1..L : k # n => mid[k] = s.doc[k]
    BY <1>1, <1>2, <1>6, <1>7
  <1>9. node(type) \in Node /\ node(type).type = type /\ node(type).members = <<>>
    BY DEF node, Node
  <1>10. /\ doc \in Seq(Node) /\ Len(doc) = L + 1
         /\ doc[L + 1] = node(type)
         /\ \A k \in 1..L : doc[k] = mid[k]
    BY <1>8, <1>9
  <1>11. /\ doc[n].members = M /\ doc[n].type = s.doc[n].type
         /\ \A k \in 1..L : k # n => doc[k] = s.doc[k]
    <2>1. doc[n] = [s.doc[n] EXCEPT !.members = M]
      BY <1>2, <1>8, <1>10
    <2>2. doc[n].members = M /\ doc[n].type = s.doc[n].type
      BY <1>2, <2>1, Zenon DEF Node
    <2>3. QED BY <1>8, <1>10, <2>2
  <1>12. /\ a.doc = doc /\ a.stack = s.stack /\ a.depth = s.depth /\ a.status = s.status
    <2>1. a = [s EXCEPT !.doc = doc, !.elements = @ + (IF key = NO_KEY THEN 1 ELSE 2)]
      BY DEF member_added
    <2>2. QED BY <1>1, <2>1, Zenon DEF State
  <1>13. a \in State
    <2>1. s.elements + (IF key = NO_KEY THEN 1 ELSE 2) \in Nat
      BY <1>1 DEF State
    <2>2. a = [s EXCEPT !.doc = doc, !.elements = @ + (IF key = NO_KEY THEN 1 ELSE 2)]
      BY DEF member_added
    <2>3. doc \in Seq(Node)
      BY <1>10
    <2>4. QED BY <1>1, <2>1, <2>2, <2>3, Zenon DEF State
  <1>14. Tree(doc)
    <2>1. Len(doc) <= MaxNodes
      BY <1>1, <1>10, WriterAssumption
    <2>2. ASSUME NEW k \in 1..(L + 1), NEW i \in 1..Len(doc[k].members)
          PROVE  doc[k].members[i].node \in (k + 1)..(L + 1)
      <3>1. CASE k = L + 1
        BY <1>9, <1>10, <3>1
      <3>2. CASE k = n
        <4>1. i \in 1..(Len(s.doc[n].members) + 1) /\ doc[k].members[i] = M[i]
          BY <1>5, <1>11, <3>2
        <4>2. CASE i = Len(M)
          BY <1>1, <1>2, <1>5, <3>2, <4>1, <4>2
        <4>3. CASE i # Len(M)
          <5>1. i \in 1..Len(s.doc[n].members)
            <6>1. Len(s.doc[n].members) \in Nat
              BY <1>4
            <6>2. Len(M) = Len(s.doc[n].members) + 1
              BY <1>5
            <6>3. i \in 1..(Len(s.doc[n].members) + 1)
              BY <4>1
            <6> HIDE DEF M
            <6>4. QED BY <4>3, <6>1, <6>2, <6>3
          <5>2. s.doc[n].members[i].node \in (n + 1)..L
            BY <1>2, <5>1 DEF Sound, Tree
          <5>3. QED BY <1>1, <1>2, <1>5, <3>2, <4>1, <5>1, <5>2
        <4>4. QED BY <4>2, <4>3
      <3>3. CASE k \in 1..L /\ k # n
        <4>1. s.doc[k].members[i].node \in (k + 1)..L
          BY <1>11, <3>3 DEF Sound, Tree
        <4>2. QED BY <1>1, <1>11, <3>3, <4>1
      <3>4. QED BY <1>1, <3>1, <3>2, <3>3
    <2>3. QED BY <1>10, <2>1, <2>2 DEF Tree
  <1>15. Path(doc, s.stack, s.depth)
    <2>1. s.depth # 0 /\ doc # NO_DOC
      BY <1>1, <1>10 DEF NO_DOC
    <2>2. s.stack[1] = 1
      BY DEF Sound, Path
    <2>3. ASSUME NEW level \in 1..s.depth
          PROVE  s.stack[level] \in 1..(L + 1) /\ doc[s.stack[level]].type \in Containers
      <3>1. s.stack[level] \in 1..L /\ s.doc[s.stack[level]].type \in Containers
        BY DEF Sound, Path
      <3>2. doc[s.stack[level]].type = s.doc[s.stack[level]].type
        BY <1>11, <3>1
      <3>3. QED BY <1>1, <3>1, <3>2
    <2>4. ASSUME NEW level \in 2..s.depth
          PROVE  LET below == doc[s.stack[level - 1]].members
                 IN  Len(below) > 0 /\ below[Len(below)].node = s.stack[level]
      <3>1. level - 1 \in 1..s.depth /\ s.depth \in 1..s.depth /\ level - 1 < s.depth
        BY <1>1
      <3>2. s.stack[level - 1] \in 1..L /\ s.stack[level - 1] # n
        BY <1>1, <3>1 DEF Sound, Path, Ascends, top
      <3>3. doc[s.stack[level - 1]] = s.doc[s.stack[level - 1]]
        BY <1>11, <3>2
      <3>4. QED BY <3>3 DEF Sound, Path
    <2>5. QED BY <1>10, <2>1, <2>2, <2>3, <2>4 DEF Path
  <1>16. Sound(a)
    BY <1>12, <1>13, <1>14, <1>15 DEF Sound
  <1>17. /\ Len(a.doc) = L + 1 /\ a.doc[Len(a.doc)].type = type
         /\ a.doc[n].members = M /\ Len(M) > 0 /\ M[Len(M)].node = L + 1
    <2>1. Len(a.doc) = L + 1 /\ a.doc[Len(a.doc)].type = type
      BY <1>9, <1>10, <1>12
    <2>2. a.doc[n].members = M
      BY <1>11, <1>12
    <2>3. Len(M) > 0
      BY <1>4, <1>5
    <2>4. M[Len(M)].node = L + 1
      <3>1. M[Len(M)] = m
        BY <1>5
      <3>2. QED BY <3>1
    <2>5. QED BY <2>1, <2>2, <2>3, <2>4
  <1>18. QED BY <1>12, <1>16, <1>17

\* The first field opens its object with two draws of its own.
LEMMA Started ==
  ASSUME NEW s, Sound(s), NEW draws \in Nat
  PROVE  /\ Sound(started(s, draws)) /\ left(s, draws) \in Nat
         /\ started(s, draws).doc # NO_DOC => started(s, draws).depth > 0
         /\ s.depth < MAX_DEPTH => started(s, draws).depth < MAX_DEPTH
  <1>1. "object" \in Containers
    BY DEF Containers
  <1>2. /\ Sound(started(s, draws))
        /\ started(s, draws) = s \/ started(s, draws).depth \in {0, 1}
    BY <1>1, Begun DEF started
  <1>3. left(s, draws) \in Nat
    BY DEF left
  <1>4. started(s, draws).doc # NO_DOC => started(s, draws).depth > 0
    <2>1. /\ started(s, draws).depth \in 0..MAX_DEPTH
          /\ started(s, draws).depth = 0 <=> started(s, draws).doc = NO_DOC
      BY <1>2 DEF Sound, State, Path
    <2>2. QED BY <2>1, WriterAssumption
  <1>5. s.depth < MAX_DEPTH => started(s, draws).depth < MAX_DEPTH
    BY <1>2, WriterAssumption
  <1>6. QED BY <1>2, <1>3, <1>4, <1>5

\* What is recorded in place of a field is its name, or the brackets.
LEMMA NamesField ==
  ASSUME NEW key \in AnyKey
  PROVE  field_name(key) \in Fields
  BY DEF field_name, AnyKey, Fields

\* field() turns a call away with an error of its type.  That no container is
\* open is none of them: with a document there is a root.
LEMMA Refused ==
  ASSUME NEW s, s.depth > 0, NEW key \in AnyKey, NEW draws \in Nat
  PROVE  LET no == refusal(s, key, draws)
         IN  /\ no.result \in Statuses /\ no.field \in Fields
             /\ no.result = SUCCESS => Len(s.doc) # MaxNodes
  <1>1. /\ {SUCCESS, INVALID_PARAM, OUT_OF_MEMORY} \subseteq Statuses
        /\ {NONE, MISSING_KEY, KEY_ON_ARRAY} \subseteq Fields
    BY DEF Statuses, Results, Fields
  <1>2. s.depth # 0
    OBVIOUS
  <1>3. SUCCESS # INVALID_PARAM /\ SUCCESS # OUT_OF_MEMORY
    BY DEF SUCCESS, INVALID_PARAM, OUT_OF_MEMORY
  <1>4. QED BY <1>1, <1>2, <1>3, NamesField DEF refusal

\* field() keeps the tree, and where it gives a slot the slot is the last member
\* of the container on top.
LEMMA FieldTaken ==
  ASSUME NEW s, Sound(s), NEW key \in AnyKey, NEW type \in Types, NEW draws \in Nat
  PROVE  LET f == field(s, key, type, draws)
             below == f.doc[top(f)].members
         IN  /\ Sound(f)
             /\ field_given(s, key, draws) =>
                  /\ f.depth > 0
                  /\ s.depth < MAX_DEPTH => f.depth < MAX_DEPTH
                  /\ f.doc[Len(f.doc)].type = type
                  /\ Len(below) > 0 /\ below[Len(below)].node = Len(f.doc)
  <1> DEFINE open == started(s, draws)
             no   == refusal(open, key, left(s, draws))
             f    == field(s, key, type, draws)
  <1>1. /\ Sound(open) /\ left(s, draws) \in Nat
        /\ open.doc # NO_DOC => open.depth > 0
        /\ s.depth < MAX_DEPTH => open.depth < MAX_DEPTH
    BY Started
  <1>2. CASE s.status # SUCCESS
    BY <1>2 DEF field, field_given
  <1>3. CASE s.status = SUCCESS /\ open.doc = NO_DOC
    BY <1>1, <1>3 DEF field, field_given
  <1>4. CASE s.status = SUCCESS /\ open.doc # NO_DOC /\ no.result # SUCCESS
    <2>1. no.result \in Statuses /\ no.field \in Fields
      BY <1>1, <1>4, Refused
    <2>2. f = record_error(open, no.result, no.field) /\ ~field_given(s, key, draws)
      BY <1>4 DEF field, field_given
    <2>3. QED BY <1>1, <2>1, <2>2, Recorded
  <1>5. CASE s.status = SUCCESS /\ open.doc # NO_DOC /\ no.result = SUCCESS
    <2>1. open.depth > 0 /\ Len(open.doc) # MaxNodes
      BY <1>1, <1>5, Refused
    <2>2. Len(open.doc) < MaxNodes
      <3>1. Len(open.doc) \in Nat /\ Len(open.doc) <= MaxNodes
        BY <1>1 DEF Sound, State, Tree
      <3>2. QED BY <2>1, <3>1, WriterAssumption
    <2>3. f = member_added(open, key, type)
      BY <1>5 DEF field
    <2> HIDE DEF open, f
    <2>4. /\ Sound(f)
          /\ f.stack = open.stack /\ f.depth = open.depth
          /\ f.doc[Len(f.doc)].type = type
          /\ Len(f.doc[top(open)].members) > 0
          /\ f.doc[top(open)].members[Len(f.doc[top(open)].members)].node = Len(f.doc)
      BY <1>1, <2>1, <2>2, <2>3, Added
    <2>5. top(f) = top(open)
      BY <2>4 DEF top
    <2>6. QED BY <1>1, <2>1, <2>4, <2>5 DEF f
  <1>6. QED BY <1>2, <1>3, <1>4, <1>5

\* A text is drawn before the field; refused, it leaves the tree as it was.
LEMMA TextTaken ==
  ASSUME NEW s, Sound(s), NEW key \in AnyKey, NEW draws \in Nat
  PROVE  Sound(field_of_text(s, key, draws))
  <1> DEFINE open == started(s, draws)
             rest == left(s, draws)
  <1>1. Sound(open) /\ rest \in Nat
    BY Started
  <1>2. OUT_OF_MEMORY \in Statuses /\ field_name(key) \in Fields /\ "plain" \in Types
    BY NamesField DEF Statuses, Results, Types, Scalars
  <1>3. Sound(record_error(open, OUT_OF_MEMORY, field_name(key)))
    BY <1>1, <1>2, Recorded
  <1>4. rest # 0 => Sound(field(open, key, "plain", rest - 1))
    BY <1>1, <1>2, FieldTaken
  <1>5. QED BY <1>1, <1>3, <1>4 DEF field_of_text

\* The hex and base64 adders, whatever the size of the block.
LEMMA EncodedSound ==
  ASSUME NEW s, Sound(s), NEW key \in AnyKey, NEW size, NEW max, NEW draws \in Nat
  PROVE  Sound(encoded(s, key, size, max, draws))
  <1>1. /\ RESOURCE_SIZE_EXCEED \in Statuses /\ field_name(key) \in Fields
        /\ "plain" \in Types
    BY NamesField DEF Statuses, Types, Scalars
  <1>2. Sound(record_error(s, RESOURCE_SIZE_EXCEED, field_name(key)))
    BY <1>1, Recorded
  <1>3. QED BY <1>1, <1>2, FieldTaken, TextTaken DEF encoded

\* The last member of the container on top may become the top itself.
LEMMA Pushed ==
  ASSUME NEW f, Sound(f), f.depth > 0, f.depth < MAX_DEPTH,
         f.doc[Len(f.doc)].type \in Containers,
         Len(f.doc[top(f)].members) > 0,
         f.doc[top(f)].members[Len(f.doc[top(f)].members)].node = Len(f.doc)
  PROVE  Sound([f EXCEPT !.stack[f.depth + 1] = Len(f.doc),
                         !.depth = @ + 1, !.elements = @ + 1])
  <1> DEFINE d == f.depth
             L == Len(f.doc)
             n == top(f)
             stack == [f.stack EXCEPT ![d + 1] = L]
             p == [f EXCEPT !.stack[f.depth + 1] = Len(f.doc),
                            !.depth = @ + 1, !.elements = @ + 1]
  <1>1. /\ f \in State /\ f.doc \in Seq(Node) /\ f.elements \in Nat
        /\ f.stack \in [1..MAX_DEPTH -> 0..MaxNodes]
    BY DEF Sound, State
  <1>2. d \in 1..MAX_DEPTH /\ d + 1 \in 1..MAX_DEPTH /\ d \in Nat
    <2>1. d \in 0..MAX_DEPTH
      BY DEF Sound, State
    <2>2. QED BY <2>1, WriterAssumption
  <1>3. n \in 1..L /\ n < L /\ L \in 1..MaxNodes
    <2>1. L \in Nat /\ L <= MaxNodes
      BY <1>1 DEF Sound, Tree
    <2>2. n \in 1..L
      BY <1>2 DEF Sound, Path, top
    <2>3. f.doc[n].members \in Seq([key : AnyKey, node : Nat])
      <3>1. f.doc[n] \in Node
        BY <1>1, <2>2
      <3>2. QED BY <3>1 DEF Node
    <2>4. Len(f.doc[n].members) \in 1..Len(f.doc[n].members)
      BY <2>3
    <2>5. L \in (n + 1)..L
      BY <2>2, <2>4 DEF Sound, Tree
    <2>6. QED BY <2>1, <2>2, <2>5, WriterAssumption
  <1>4. /\ stack \in [1..MAX_DEPTH -> 0..MaxNodes]
        /\ stack[d + 1] = L
        /\ \A level \in 1..d : stack[level] = f.stack[level]
    <2>1. L \in 0..MaxNodes
      BY <1>3, WriterAssumption
    <2>2. stack \in [1..MAX_DEPTH -> 0..MaxNodes] /\ stack[d + 1] = L
      BY <1>1, <1>2, <2>1
    <2>3. \A level \in 1..d : level \in 1..MAX_DEPTH /\ level # d + 1
      BY <1>2, WriterAssumption
    <2>4. QED BY <1>1, <2>2, <2>3
  <1>5. p = [f EXCEPT !.stack = stack, !.depth = d + 1, !.elements = f.elements + 1]
    BY <1>1, Zenon DEF State
  <1>6. p.doc = f.doc /\ p.stack = stack /\ p.depth = d + 1
    BY <1>1, <1>5, Zenon DEF State
  <1>7. p \in State
    <2>1. d + 1 \in 0..MAX_DEPTH /\ f.elements + 1 \in Nat
      BY <1>1, <1>2, WriterAssumption
    <2>2. QED BY <1>1, <1>4, <1>5, <2>1, Zenon DEF State
  <1>8. Path(f.doc, stack, d + 1)
    <2>1. d + 1 # 0 /\ f.doc # NO_DOC
      BY <1>2 DEF Sound, Path
    <2>2. stack[1] = 1
      BY <1>2, <1>4 DEF Sound, Path
    <2>3. ASSUME NEW level \in 1..(d + 1)
          PROVE  stack[level] \in 1..L /\ f.doc[stack[level]].type \in Containers
      <3>1. CASE level = d + 1
        <4>1. stack[level] = L /\ L \in 1..L
          BY <1>3, <1>4, <3>1
        <4>2. QED BY <4>1
      <3>2. CASE level # d + 1
        <4>1. level \in 1..d
          BY <1>2, <3>2
        <4>2. QED BY <1>4, <4>1 DEF Sound, Path
      <3>3. QED BY <3>1, <3>2
    <2>4. ASSUME NEW level \in 2..(d + 1)
          PROVE  LET below == f.doc[stack[level - 1]].members
                 IN  Len(below) > 0 /\ below[Len(below)].node = stack[level]
      <3>1. level - 1 \in 1..d
        BY <1>2
      <3>2. stack[level - 1] = f.stack[level - 1]
        BY <1>4, <3>1
      <3>3. CASE level = d + 1
        <4>1. level - 1 = d
          BY <1>2, <3>3
        <4>2. stack[level - 1] = n
          BY <3>2, <4>1 DEF top
        <4>3. QED BY <1>4, <3>3, <4>2
      <3>4. CASE level # d + 1
        <4>1. level \in 2..d /\ level \in 1..d
          BY <1>2, <3>4
        <4>2. QED BY <1>4, <3>2, <4>1 DEF Sound, Path
      <3>5. QED BY <3>3, <3>4
    <2>5. QED BY <2>1, <2>2, <2>3, <2>4 DEF Path
  <1>9. Ascends(stack, d + 1)
    <2>1. ASSUME NEW i \in 1..(d + 1), NEW j \in 1..(d + 1), i < j
          PROVE  stack[i] < stack[j]
      <3>1. i \in 1..d /\ d \in 1..d /\ stack[i] = f.stack[i]
        BY <1>2, <1>4, <2>1
      <3>2. f.stack[i] \in 1..L
        BY <3>1 DEF Sound, Path
      <3>3. f.stack[i] <= n
        BY <1>2, <1>3, <3>1, <3>2 DEF Sound, Ascends, top
      <3>4. CASE j = d + 1
        BY <1>3, <1>4, <3>1, <3>2, <3>3, <3>4
      <3>5. CASE j # d + 1
        <4>1. j \in 1..d
          BY <1>2, <3>5
        <4>2. QED BY <1>4, <2>1, <3>1, <4>1 DEF Sound, Ascends
      <3>6. QED BY <3>4, <3>5
    <2>2. QED BY <2>1 DEF Ascends
  <1>10. QED BY <1>6, <1>7, <1>8, <1>9 DEF Sound

\* open_container enters what it was given, and nothing else.
LEMMA Opened ==
  ASSUME NEW s, Sound(s), NEW key \in AnyKey, NEW type \in Containers, NEW draws \in Nat
  PROVE  Sound(opened(s, key, type, draws))
  <1> DEFINE f == field(s, key, type, draws)
  <1>1. EXHAUSTED \in Statuses /\ field_name(key) \in Fields /\ type \in Types
    BY NamesField DEF Statuses, Results, Types
  <1>2. Sound(record_error(s, EXHAUSTED, field_name(key)))
    BY <1>1, Recorded
  <1>3. /\ Sound(f)
        /\ field_given(s, key, draws) =>
             /\ f.depth > 0
             /\ s.depth < MAX_DEPTH => f.depth < MAX_DEPTH
             /\ f.doc[Len(f.doc)].type \in Containers
             /\ Len(f.doc[top(f)].members) > 0
             /\ f.doc[top(f)].members[Len(f.doc[top(f)].members)].node = Len(f.doc)
    BY <1>1, FieldTaken
  <1>4. ~(s.depth >= MAX_DEPTH) => s.depth < MAX_DEPTH
    <2>1. s.depth \in 0..MAX_DEPTH
      BY DEF Sound, State
    <2>2. QED BY <2>1, WriterAssumption
  <1> HIDE DEF f
  <1>5. ~(s.depth >= MAX_DEPTH) /\ field_given(s, key, draws) =>
          Sound([f EXCEPT !.stack[f.depth + 1] = Len(f.doc),
                          !.depth = @ + 1, !.elements = @ + 1])
    BY <1>3, <1>4, Pushed
  <1>6. QED BY <1>2, <1>3, <1>5 DEF opened, f

\* arnm_json_writer_close steps back one level, the root excepted.
LEMMA Closed ==
  ASSUME NEW s, Sound(s)
  PROVE  Sound(closed(s))
  <1>1. INVALID_STATE \in Statuses /\ CLOSE_TOO_OFTEN \in Fields
    BY DEF Statuses, Results, Fields
  <1>2. Sound(record_error(s, INVALID_STATE, CLOSE_TOO_OFTEN))
    BY <1>1, Recorded
  <1>3. ASSUME ~(s.depth <= 1)
        PROVE  Sound([s EXCEPT !.depth = @ - 1])
    <2> DEFINE c == [s EXCEPT !.depth = @ - 1]
    <2>1. s \in State /\ s.depth \in 0..MAX_DEPTH
      BY DEF Sound, State
    <2>2. /\ s.depth - 1 \in 0..MAX_DEPTH /\ s.depth - 1 > 0
          /\ 1..(s.depth - 1) \subseteq 1..s.depth
          /\ 2..(s.depth - 1) \subseteq 2..s.depth
      BY <1>3, <2>1, WriterAssumption
    <2>3. c.doc = s.doc /\ c.stack = s.stack /\ c.depth = s.depth - 1 /\ c \in State
      BY <2>1, <2>2, Zenon DEF State
    <2>4. Path(s.doc, s.stack, s.depth - 1)
      <3>1. s.doc # NO_DOC /\ s.stack[1] = 1 /\ s.depth - 1 # 0
        BY <2>1, <2>2, <1>3 DEF Sound, Path
      <3>2. QED BY <2>2, <3>1 DEF Sound, Path
    <2>5. Ascends(s.stack, s.depth - 1)
      BY <2>2 DEF Sound, Ascends
    <2>6. QED BY <2>3, <2>4, <2>5 DEF Sound
  <1>4. QED BY <1>2, <1>3 DEF closed

-----------------------------------------------------------------------------
(* The invariant.                                                          *)

\* A writer not in use is sound, whatever its flags.
LEMMA Uninitialized ==
  ASSUME NEW magic \in BOOLEAN, NEW as_null \in BOOLEAN
  PROVE  /\ Sound(uninitialized)
         /\ Sound([uninitialized EXCEPT !.magic = magic, !.as_null = as_null])
  <1>1. 0 \in 0..MAX_DEPTH /\ 0 \in 0..MaxNodes /\ 0 \in Nat
    BY WriterAssumption
  <1>2. NO_DOC \in Seq(Node) /\ SUCCESS \in Statuses /\ NONE \in Fields
    BY DEF NO_DOC, Statuses, Results, Fields
  <1>3. [level \in 1..MAX_DEPTH |-> 0] \in [1..MAX_DEPTH -> 0..MaxNodes]
    BY <1>1, Zenon
  <1>4. uninitialized \in State
    BY <1>1, <1>2, <1>3, Zenon DEF uninitialized, State
  <1>5. [uninitialized EXCEPT !.magic = magic, !.as_null = as_null] \in State
    BY <1>4, Zenon DEF State
  <1>6. Tree(NO_DOC) /\ Path(NO_DOC, uninitialized.stack, 0) /\ Ascends(uninitialized.stack, 0)
    BY WriterAssumption DEF Tree, Path, Ascends, NO_DOC
  <1>7. uninitialized.doc = NO_DOC /\ uninitialized.depth = 0
    BY DEF uninitialized
  <1>8. QED BY <1>4, <1>5, <1>6, <1>7 DEF Sound, uninitialized

\* Every call keeps the tree and its path.
LEMMA NextKeeps ==
  ASSUME IInv, [Next]_vars
  PROVE  IInv'
  <1> USE DEF IInv
  <1>1. Draws \subseteq Nat
    BY DEF Draws
  <1>2. CASE UNCHANGED vars
    BY <1>2 DEF vars
  <1>3. CASE \E as_null \in BOOLEAN : arnm_json_writer_init(as_null)
    BY <1>3, Uninitialized DEF arnm_json_writer_init
  <1>4. CASE arnm_json_writer_release
    BY <1>4, Disposed DEF arnm_json_writer_release
  <1>5. CASE arnm_json_writer_destroy
    BY <1>5, Uninitialized DEF arnm_json_writer_destroy
  <1>6. CASE arnm_json_writer_clear_error
    BY <1>6, Cleared DEF arnm_json_writer_clear_error
  <1>7. CASE \E type \in Containers : arnm_json_writer_begin(type)
    BY <1>1, <1>7, Begun DEF arnm_json_writer_begin
  <1>8. ASSUME NEW key \in AnyKey, NEW type \in Scalars, arnm_json_writer_add(key, type)
        PROVE  IInv'
    <2>1. type \in Types
      BY DEF Types
    <2>2. QED BY <1>1, <1>8, <2>1, FieldTaken DEF arnm_json_writer_add
  <1>9. ASSUME NEW key \in AnyKey, NEW type \in Containers, open_container(key, type)
        PROVE  IInv'
    BY <1>1, <1>9, Opened DEF open_container
  <1>10. ASSUME NEW key \in AnyKey, NEW size \in Sizes, arnm_json_writer_add_hex(key, size)
         PROVE  IInv'
    BY <1>1, <1>10, EncodedSound DEF arnm_json_writer_add_hex
  <1>11. ASSUME NEW key \in AnyKey, NEW size \in Sizes, arnm_json_writer_add_base64(key, size)
         PROVE  IInv'
    BY <1>1, <1>11, EncodedSound DEF arnm_json_writer_add_base64
  <1>12. ASSUME NEW key \in AnyKey, arnm_json_writer_add_string_copy(key)
         PROVE  IInv'
    BY <1>1, <1>12, TextTaken DEF arnm_json_writer_add_string_copy
  <1>13. ASSUME NEW key \in AnyKey, NEW present \in BOOLEAN,
                arnm_json_writer_add_uuid(key, present)
         PROVE  IInv'
    <2>1. "plain" \in Types
      BY DEF Types, Scalars
    <2>2. QED BY <1>1, <1>13, <2>1, TextTaken, FieldTaken DEF arnm_json_writer_add_uuid
  <1>14. CASE arnm_json_writer_close
    BY <1>14, Closed DEF arnm_json_writer_close
  <1>15. CASE arnm_json_writer_write
    BY <1>15 DEF arnm_json_writer_write
  <1>16. QED
    BY <1>2, <1>3, <1>4, <1>5, <1>6, <1>7, <1>8, <1>9, <1>10, <1>11, <1>12, <1>13,
       <1>14, <1>15 DEF Next

\* No call, whichever of its draws is refused, leaves the tree and its stack
\* unsound.
THEOREM Invariance == Spec => []IInv
  <1>1. Init => IInv
    BY Uninitialized DEF Init, IInv
  <1>2. IInv /\ [Next]_vars => IInv'
    BY NextKeeps
  <1>3. QED BY <1>1, <1>2, PTL DEF Spec

\* The writer keeps the shape of json_writer_state: the stack never leaves its
\* array and every member was taken from the pool after its container.
THEOREM TypeCorrect == Spec => []TypeOK
  <1>1. ASSUME IInv PROVE TypeOK
    <2>1. writer \in State /\ Tree(writer.doc)
      BY <1>1 DEF IInv, Sound
    <2>2. \A n \in Nodes : writer.doc[n] \in Node
      BY <2>1 DEF Nodes, State
    <2>3. ASSUME NEW n \in Nodes, NEW i \in DOMAIN writer.doc[n].members
          PROVE  /\ writer.doc[n].members[i].key \in AnyKey
                 /\ writer.doc[n].members[i].node \in (n + 1)..Len(writer.doc)
      <3>1. writer.doc[n].members \in Seq([key : AnyKey, node : Nat])
        BY <2>2 DEF Node
      <3>2. i \in 1..Len(writer.doc[n].members)
        BY <3>1
      <3>3. writer.doc[n].members[i] \in [key : AnyKey, node : Nat]
        <4> DEFINE members == writer.doc[n].members
                   Member  == [key : AnyKey, node : Nat]
        <4>1. members \in Seq(Member) /\ i \in 1..Len(members)
          BY <3>1, <3>2
        <4> HIDE DEF members, Member
        <4>2. members[i] \in Member
          BY <4>1
        <4>3. QED BY <4>2 DEF members, Member
      <3>4. writer.doc[n].members[i].node \in (n + 1)..Len(writer.doc)
        BY <2>1, <3>2 DEF Tree, Nodes
      <3>5. QED BY <3>3, <3>4
    <2>4. /\ writer.magic \in BOOLEAN /\ writer.as_null \in BOOLEAN
          /\ writer.depth \in 0..MAX_DEPTH /\ writer.elements \in Nat
          /\ writer.status \in Statuses /\ writer.error_field \in Fields
          /\ writer.stack \in [1..MAX_DEPTH -> 0..MaxNodes]
      BY <2>1 DEF State
    <2>5. Len(writer.doc) <= MaxNodes /\ \A n \in Nodes : writer.doc[n].type \in Types
      BY <2>1, <2>2 DEF Tree, Node
    <2>6. QED BY <2>3, <2>4, <2>5 DEF TypeOK, Types
  <1>2. QED BY <1>1, Invariance, PTL

\* The containers standing open are one path at the end of the text, for every
\* depth (json_writer_state.stack, open_container, arnm_json_writer_close).
THEOREM PathHolds == Spec => []StackIsPath
  <1>1. ASSUME IInv PROVE StackIsPath
    <2>1. writer \in State /\ Path(writer.doc, writer.stack, writer.depth)
      BY <1>1 DEF IInv, Sound
    <2>2. ASSUME NEW level \in 2..writer.depth
          PROVE  LET below == writer.doc[writer.stack[level - 1]].members
                 IN  below # <<>> /\ Last(below).node = writer.stack[level]
      <3> DEFINE below == writer.doc[writer.stack[level - 1]].members
      <3>1. Len(below) > 0 /\ below[Len(below)].node = writer.stack[level]
        BY <2>1 DEF Path
      <3>2. below # <<>>
        BY <3>1
      <3>3. QED BY <3>1, <3>2 DEF Last
    <2>3. QED BY <2>1, <2>2 DEF StackIsPath, Path, Nodes
  <1>2. QED BY <1>1, Invariance, PTL

-----------------------------------------------------------------------------
(* The text of a tree.  The serializer's text is a recursive function on   *)
(* the nodes; a container's members were taken after it, so it is the only *)
(* function of its kind, and what is shown of one is shown of the other.   *)

Mark == {"value", "open", "close", "key"} \X (Types \cup Keys)

Shown(as_null, type) == <<"value", IF type = "nonfinite" /\ as_null THEN "plain" ELSE type>>

Inner(doc, t, n) ==
  [i \in 1..Len(doc[n].members) |->
     named(doc[n].members[i].key) \o t[doc[n].members[i].node]]

\* The text of node n where t has the texts of its members and the containers
\* in O stand open.
Piece(doc, as_null, O, t, n) ==
  IF doc[n].type \in Scalars THEN << Shown(as_null, doc[n].type) >>
  ELSE << <<"open", doc[n].type>> >> \o FlattenSeq(Inner(doc, t, n)) \o
       (IF n \in O THEN <<>> ELSE << <<"close", doc[n].type>> >>)

Unfolds(t, doc, as_null, O) ==
  \A n \in 1..Len(doc) : t[n] = Piece(doc, as_null, O, t, n)

IsText(t, doc, as_null, O) ==
  t \in [1..Len(doc) -> Seq(Mark)] /\ Unfolds(t, doc, as_null, O)

\* The containers of the stack, as far as it is used.
Standing(stack, depth) == {stack[level] : level \in 1..depth}

\* A member list of the tree, one entry at a time.
LEMMA Members ==
  ASSUME NEW doc \in Seq(Node), Tree(doc), NEW n \in 1..Len(doc)
  PROVE  /\ doc[n].type \in Types
         /\ Len(doc[n].members) \in Nat
         /\ \A i \in 1..Len(doc[n].members) :
              /\ doc[n].members[i].key \in AnyKey
              /\ doc[n].members[i].node \in (n + 1)..Len(doc)
              /\ doc[n].members[i].node \in 1..Len(doc)
  <1>1. doc[n] \in Node /\ Len(doc) \in Nat
    OBVIOUS
  <1>2. doc[n].type \in Types /\ doc[n].members \in Seq([key : AnyKey, node : Nat])
    BY <1>1 DEF Node
  <1>3. ASSUME NEW i \in 1..Len(doc[n].members)
        PROVE  doc[n].members[i].key \in AnyKey
    <2> DEFINE members == doc[n].members
               Member  == [key : AnyKey, node : Nat]
    <2>1. members \in Seq(Member) /\ i \in 1..Len(members)
      BY <1>2
    <2> HIDE DEF members, Member
    <2>2. members[i] \in Member
      BY <2>1
    <2>3. members[i].key \in AnyKey
      BY <2>2 DEF Member
    <2> QED BY <2>3 DEF members
  <1>4. ASSUME NEW i \in 1..Len(doc[n].members)
        PROVE  doc[n].members[i].node \in (n + 1)..Len(doc)
    BY DEF Tree
  <1>5. (n + 1)..Len(doc) \subseteq 1..Len(doc)
    BY <1>1
  <1> HIDE DEF Tree
  <1>6. Len(doc[n].members) \in Nat
    BY <1>2
  <1> QED BY <1>2, <1>3, <1>4, <1>5, <1>6

\* Names and marks are marks.
LEMMA NamedTyped ==
  ASSUME NEW key \in AnyKey
  PROVE  named(key) \in Seq(Mark)
  <1>1. CASE key = NO_KEY
    BY <1>1 DEF named
  <1>2. CASE key # NO_KEY
    <2>1. <<"key", key>> \in Mark
      BY <1>2 DEF Mark, AnyKey
    <2> QED BY <1>2, <2>1 DEF named
  <1> QED BY <1>1, <1>2

\* What a node lays down is a sequence of marks.
LEMMA PieceTyped ==
  ASSUME NEW doc \in Seq(Node), Tree(doc), NEW as_null \in BOOLEAN, NEW O,
         NEW t \in [1..Len(doc) -> Seq(Mark)], NEW n \in 1..Len(doc)
  PROVE  /\ Inner(doc, t, n) \in Seq(Seq(Mark))
         /\ Len(Inner(doc, t, n)) = Len(doc[n].members)
         /\ FlattenSeq(Inner(doc, t, n)) \in Seq(Mark)
         /\ Piece(doc, as_null, O, t, n) \in Seq(Mark)
  <1> DEFINE k == Len(doc[n].members)
             I == Inner(doc, t, n)
             type == doc[n].type
  <1>1. type \in Types /\ k \in Nat
    BY Members
  <1>2. ASSUME NEW i \in 1..k
        PROVE  named(doc[n].members[i].key) \o t[doc[n].members[i].node] \in Seq(Mark)
    <2>1. doc[n].members[i].key \in AnyKey /\ doc[n].members[i].node \in 1..Len(doc)
      BY Members
    <2>2. named(doc[n].members[i].key) \in Seq(Mark)
      BY <2>1, NamedTyped
    <2>3. t[doc[n].members[i].node] \in Seq(Mark)
      BY <2>1
    <2> QED BY <2>2, <2>3
  <1>3. I \in Seq(Seq(Mark)) /\ Len(I) = k
    <2> DEFINE G(i) == named(doc[n].members[i].key) \o t[doc[n].members[i].node]
    <2>1. \A i \in 1..k : G(i) \in Seq(Mark)
      BY <1>2
    <2>2. I = [i \in 1..k |-> G(i)]
      BY DEF Inner
    <2> HIDE DEF G, k, I
    <2> QED BY <1>1, <2>1, <2>2
  <1> HIDE DEF I
  <1>4. FlattenSeq(I) \in Seq(Mark)
    <2>1. <<>> \in Seq(Mark)
      OBVIOUS
    <2> QED BY <1>3, <2>1, FlattenAppend
  <1>5. << Shown(as_null, type) >> \in Seq(Mark)
    <2>1. (IF type = "nonfinite" /\ as_null THEN "plain" ELSE type) \in Types \cup Keys
      BY <1>1 DEF Types, Scalars
    <2>2. Shown(as_null, type) \in Mark
      BY <2>1 DEF Shown, Mark
    <2> QED BY <2>2
  <1>6. /\ << <<"open", type>> >> \in Seq(Mark)
        /\ (IF n \in O THEN <<>> ELSE << <<"close", type>> >>) \in Seq(Mark)
    <2>1. <<"open", type>> \in Mark /\ <<"close", type>> \in Mark
      BY <1>1 DEF Mark
    <2> QED BY <2>1
  <1>7. Piece(doc, as_null, O, t, n) \in Seq(Mark)
    <2> DEFINE a == << <<"open", type>> >>
               b == FlattenSeq(I)
               c == IF n \in O THEN <<>> ELSE << <<"close", type>> >>
    <2>1. Piece(doc, as_null, O, t, n)
            = IF type \in Scalars THEN << Shown(as_null, type) >> ELSE a \o b \o c
      BY Zenon DEF Piece, I
    <2> HIDE DEF a, b, c, type
    <2>2. a \in Seq(Mark) /\ b \in Seq(Mark) /\ c \in Seq(Mark)
      BY <1>4, <1>6 DEF a, b, c, type
    <2>3. a \o b \o c \in Seq(Mark)
      BY <2>2
    <2> QED BY <1>5, <2>1, <2>3
  <1> QED BY <1>3, <1>4, <1>7 DEF I

\* The text of a node is that of the nodes taken after it.
LEMMA PieceAgrees ==
  ASSUME NEW doc \in Seq(Node), Tree(doc), NEW as_null, NEW O, NEW t, NEW u,
         NEW n \in 1..Len(doc), \A m \in (n + 1)..Len(doc) : t[m] = u[m]
  PROVE  Piece(doc, as_null, O, t, n) = Piece(doc, as_null, O, u, n)
  <1>1. ASSUME NEW i \in 1..Len(doc[n].members)
        PROVE  t[doc[n].members[i].node] = u[doc[n].members[i].node]
    <2>1. doc[n].members[i].node \in (n + 1)..Len(doc)
      BY Members
    <2> QED BY <2>1
  <1>2. Inner(doc, t, n) = Inner(doc, u, n)
    BY <1>1 DEF Inner
  <1> QED BY <1>2, Zenon DEF Piece

\* The nodes behind the first L - k have their texts.
TextFrom(t, doc, as_null, O, k) ==
  \A n \in 1..Len(doc) : n > Len(doc) - k => t[n] = Piece(doc, as_null, O, t, n)

\* Every tree has a text: it is built from the last node down.
LEMMA TextExists ==
  ASSUME NEW doc \in Seq(Node), Tree(doc), NEW as_null \in BOOLEAN, NEW O
  PROVE  \E t : IsText(t, doc, as_null, O)
  <1> DEFINE L == Len(doc)
             T == [1..L -> Seq(Mark)]
             P == {k \in Nat : k <= L => \E t \in T : TextFrom(t, doc, as_null, O, k)}
  <1>0. L \in Nat
    OBVIOUS
  <1>1. 0 \in P
    <2>1. [n \in 1..L |-> <<>>] \in T
      OBVIOUS
    <2>2. \A t : TextFrom(t, doc, as_null, O, 0)
      BY <1>0 DEF TextFrom
    <2> QED BY <2>1, <2>2
  <1>2. ASSUME NEW k \in P PROVE k + 1 \in P
    <2>0. k \in Nat /\ k + 1 \in Nat
      BY <1>2
    <2>1. SUFFICES ASSUME k + 1 <= L
                   PROVE  \E t \in T : TextFrom(t, doc, as_null, O, k + 1)
      BY <2>0
    <2>2. PICK t \in T : TextFrom(t, doc, as_null, O, k)
      BY <1>0, <1>2, <2>0, <2>1
    <2> DEFINE x == L - k
               u == [t EXCEPT ![x] = Piece(doc, as_null, O, t, x)]
    <2>3. x \in 1..L
      BY <1>0, <2>0, <2>1
    <2>4. Piece(doc, as_null, O, t, x) \in Seq(Mark)
      <3> HIDE DEF x
      <3> QED BY <2>2, <2>3, PieceTyped
    <2>5. u \in T /\ u[x] = Piece(doc, as_null, O, t, x) /\ \A n \in 1..L : n # x => u[n] = t[n]
      <3> HIDE DEF x
      <3> QED BY <2>2, <2>3, <2>4
    <2>6. ASSUME NEW n \in 1..L, n > L - (k + 1)
          PROVE  u[n] = Piece(doc, as_null, O, u, n)
      <3>1. n >= x
        BY <1>0, <2>0, <2>6
      <3>2. \A m \in (n + 1)..L : m \in 1..L /\ m # x
        BY <1>0, <2>3, <3>1
      <3>3. \A m \in (n + 1)..L : u[m] = t[m]
        BY <2>5, <3>2
      <3> HIDE DEF u
      <3>4. Piece(doc, as_null, O, u, n) = Piece(doc, as_null, O, t, n)
        BY <3>3, PieceAgrees
      <3>5. CASE n = x
        BY <2>5, <3>4, <3>5
      <3>6. CASE n # x
        <4>1. n > L - k
          BY <1>0, <2>0, <3>1, <3>6
        <4>2. t[n] = Piece(doc, as_null, O, t, n)
          BY <2>2, <4>1 DEF TextFrom
        <4> QED BY <2>5, <3>4, <3>6, <4>2
      <3> QED BY <3>5, <3>6
    <2> QED BY <2>5, <2>6 DEF TextFrom
  <1>3. L \in P
    <2>1. P = Nat
      <3> HIDE DEF P
      <3> QED BY <1>1, <1>2, NatSetInduction, P \in SUBSET Nat DEF P
    <2> HIDE DEF P
    <2> QED BY <1>0, <2>1
  <1>4. PICK t \in T : TextFrom(t, doc, as_null, O, L)
    BY <1>0, <1>3
  <1>5. IsText(t, doc, as_null, O)
    BY <1>0, <1>4 DEF IsText, Unfolds, TextFrom
  <1> QED BY <1>5

\* There is no other.
LEMMA TextUnique ==
  ASSUME NEW doc \in Seq(Node), Tree(doc), NEW as_null, NEW O, NEW t, NEW u,
         Unfolds(t, doc, as_null, O), Unfolds(u, doc, as_null, O)
  PROVE  \A n \in 1..Len(doc) : t[n] = u[n]
  <1> DEFINE L == Len(doc)
             P == {k \in Nat : \A n \in 1..L : n > L - k => t[n] = u[n]}
  <1>0. L \in Nat
    OBVIOUS
  <1>1. 0 \in P
    BY <1>0
  <1>2. ASSUME NEW k \in P PROVE k + 1 \in P
    <2>0. k \in Nat /\ k + 1 \in Nat
      BY <1>2
    <2>1. SUFFICES ASSUME NEW n \in 1..L, n > L - (k + 1) PROVE t[n] = u[n]
      BY <2>0
    <2>2. \A m \in (n + 1)..L : m \in 1..L /\ m > L - k
      BY <1>0, <2>0, <2>1
    <2>3. \A m \in (n + 1)..L : t[m] = u[m]
      BY <1>2, <2>2
    <2>4. Piece(doc, as_null, O, t, n) = Piece(doc, as_null, O, u, n)
      BY <2>3, PieceAgrees
    <2> QED BY <2>4 DEF Unfolds
  <1>3. L \in P
    <2>1. P = Nat
      <3> HIDE DEF P
      <3> QED BY <1>1, <1>2, NatSetInduction, P \in SUBSET Nat DEF P
    <2> HIDE DEF P
    <2> QED BY <1>0, <2>1
  <1> QED BY <1>0, <1>3

\* The serializer lays down the root's text; where it closes everything nothing
\* counts as standing open (yyjson_mut_val_write_opts).
LEMMA LaidDown ==
  ASSUME NEW s, Sound(s), s.doc # NO_DOC, NEW close_open \in BOOLEAN, NEW t,
         IsText(t, s.doc, s.as_null,
                IF close_open THEN {} ELSE Standing(s.stack, s.depth))
  PROVE  laid_down(s, close_open) = t[1]
  <1> DEFINE O == IF close_open THEN {} ELSE Standing(s.stack, s.depth)
             L == Len(s.doc)
             Step(q) ==
               [n \in 1..Len(s.doc) |->
                  IF s.doc[n].type \in Scalars THEN << mark(s, s.doc[n].type) >>
                  ELSE << <<"open", s.doc[n].type>> >>
                       \o FlattenSeq([i \in 1..Len(s.doc[n].members) |->
                            named(s.doc[n].members[i].key) \o q[s.doc[n].members[i].node]])
                       \o (IF ~close_open /\ on_stack(s, n) THEN <<>>
                           ELSE << <<"close", s.doc[n].type>> >>)]
             f == CHOOSE q : q = Step(q)
  <1>1. laid_down(s, close_open) = f[1]
    BY Zenon DEF laid_down
  <1>2. s.doc \in Seq(Node) /\ Tree(s.doc) /\ 1 \in 1..L
    <2>1. s.doc \in Seq(Node) /\ Tree(s.doc)
      BY DEF Sound, State
    <2> QED BY <2>1 DEF NO_DOC
  <1>3. ASSUME NEW q, NEW n \in 1..L
        PROVE  Step(q)[n] = Piece(s.doc, s.as_null, O, q, n)
    <2>1. (~close_open /\ on_stack(s, n)) <=> (n \in O)
      BY DEF on_stack, Standing
    <2>2. mark(s, s.doc[n].type) = Shown(s.as_null, s.doc[n].type)
      BY DEF mark, Shown
    <2> HIDE DEF O
    <2>3. Step(q)[n] =
            IF s.doc[n].type \in Scalars THEN << mark(s, s.doc[n].type) >>
            ELSE << <<"open", s.doc[n].type>> >> \o FlattenSeq(Inner(s.doc, q, n))
                 \o (IF ~close_open /\ on_stack(s, n) THEN <<>>
                     ELSE << <<"close", s.doc[n].type>> >>)
      BY Zenon DEF Inner
    <2>4. (IF ~close_open /\ on_stack(s, n) THEN <<>> ELSE << <<"close", s.doc[n].type>> >>)
            = (IF n \in O THEN <<>> ELSE << <<"close", s.doc[n].type>> >>)
      BY <2>1
    <2> HIDE DEF Step
    <2> QED BY <2>2, <2>3, <2>4, Zenon DEF Piece
  <1>4. \A n \in 1..L : t[n] = Piece(s.doc, s.as_null, O, t, n)
    BY DEF IsText, Unfolds
  <1>5. t = Step(t)
    <2>1. t = [n \in 1..L |-> t[n]]
      BY DEF IsText
    <2>2. Step(t) = [n \in 1..L |-> Step(t)[n]]
      OBVIOUS
    <2> HIDE DEF Step, O
    <2>3. \A n \in 1..L : t[n] = Step(t)[n]
      BY <1>3, <1>4
    <2>4. [n \in 1..L |-> t[n]] = [n \in 1..L |-> Step(t)[n]]
      BY <2>3
    <2> QED BY <2>1, <2>2, <2>4
  <1> HIDE DEF Step
  <1>6. f = Step(f)
    BY <1>5
  <1> HIDE DEF f, O
  <1>7. \A n \in 1..L : f[n] = Piece(s.doc, s.as_null, O, f, n)
    <2>1. \A n \in 1..L : f[n] = Step(f)[n]
      BY <1>6, Zenon
    <2> QED BY <1>3, <2>1
  <1>8. f[1] = t[1]
    <2> DEFINE doc == s.doc
               as_null == s.as_null
    <2>1. /\ doc \in Seq(Node) /\ Tree(doc) /\ 1 \in 1..Len(doc)
          /\ Unfolds(t, doc, as_null, O) /\ Unfolds(f, doc, as_null, O)
      BY <1>2, <1>4, <1>7 DEF Unfolds
    <2> HIDE DEF doc, as_null
    <2>2. \A n \in 1..Len(doc) : t[n] = f[n]
      BY <2>1, TextUnique
    <2> QED BY <2>1, <2>2
  <1> QED BY <1>1, <1>8

-----------------------------------------------------------------------------
(* How the text grows.  Every node has one place in the tree, so a call    *)
(* that changes the container on top changes the text of the containers    *)
(* standing open below it at their end, and no other.                      *)

\* A node is a member once.
Unique(doc) ==
  \A m, n \in 1..Len(doc) :
    \A i \in 1..Len(doc[m].members) : \A j \in 1..Len(doc[n].members) :
      doc[m].members[i].node = doc[n].members[j].node => m = n /\ i = j

\* A container on the stack is the last member of the one below it.
LEMMA OnPath ==
  ASSUME NEW doc \in Seq(Node), Tree(doc), Unique(doc), NEW stack, NEW depth \in Nat,
         Path(doc, stack, depth), NEW n \in 1..Len(doc),
         NEW i \in 1..Len(doc[n].members), NEW level \in 1..depth,
         doc[n].members[i].node = stack[level]
  PROVE  /\ level - 1 \in 1..depth /\ n = stack[level - 1]
         /\ i = Len(doc[n].members)
  <1>1. level # 1
    <2>1. doc[n].members[i].node \in (n + 1)..Len(doc)
      BY Members
    <2>2. depth > 0 => stack[1] = 1
      BY DEF Path
    <2> QED BY <2>1, <2>2
  <1> DEFINE m == stack[level - 1]
             j == Len(doc[m].members)
  <1>2. level - 1 \in 1..depth /\ level \in 2..depth
    BY <1>1
  <1>3. m \in 1..Len(doc)
    BY <1>2 DEF Path
  <1>4. j > 0 /\ doc[m].members[j].node = stack[level]
    BY <1>2 DEF Path
  <1>5. j \in 1..Len(doc[m].members)
    <2>1. j \in Nat
      <3> HIDE DEF m
      <3> QED BY <1>3, Members
    <2> HIDE DEF m
    <2> QED BY <1>4, <2>1
  <1> HIDE DEF m
  <1>6. n = m /\ i = j
    <2> HIDE DEF j
    <2> QED BY <1>3, <1>4, <1>5 DEF Unique
  <1> QED BY <1>2, <1>6 DEF m

\* A node that is the same, with the same texts below it, has the same text.
LEMMA PieceMoves ==
  ASSUME NEW doc, NEW doc2, NEW as_null, NEW O, NEW O2, NEW t, NEW u, NEW n,
         doc2[n] = doc[n], n \in O2 <=> n \in O,
         \A i \in 1..Len(doc[n].members) :
           u[doc[n].members[i].node] = t[doc[n].members[i].node]
  PROVE  Piece(doc2, as_null, O2, u, n) = Piece(doc, as_null, O, t, n)
  <1>1. Inner(doc2, u, n) = Inner(doc, t, n)
    BY DEF Inner
  <1>2. (IF n \in O2 THEN <<>> ELSE << <<"close", doc[n].type>> >>)
          = (IF n \in O THEN <<>> ELSE << <<"close", doc[n].type>> >>)
    OBVIOUS
  <1> QED BY <1>1, <1>2, Zenon DEF Piece

\* Two trees, and what stands open in them, differ in this node alone.
OnlyAt(top_node, doc, doc2, O, O2) ==
  \A n \in 1..Len(doc) : n # top_node => doc2[n] = doc[n] /\ (n \in O2 <=> n \in O)

\* A node that is not on the stack has the same text in both.
AsideSame(t, u, doc, stack, depth) ==
  \A n \in 1..Len(doc) : n \notin Standing(stack, depth) => u[n] = t[n]

\* A change of the container on top leaves the text of every node that is not
\* on the stack as it was.
LEMMA AsideKept ==
  ASSUME NEW doc \in Seq(Node), Tree(doc), Unique(doc),
         NEW doc2 \in Seq(Node), Tree(doc2), Len(doc) <= Len(doc2),
         NEW stack, NEW depth \in Nat, depth > 0, Path(doc, stack, depth),
         NEW as_null, NEW O, NEW O2, NEW t, NEW u,
         Unfolds(t, doc, as_null, O), Unfolds(u, doc2, as_null, O2),
         OnlyAt(stack[depth], doc, doc2, O, O2)
  PROVE  AsideSame(t, u, doc, stack, depth)
  <1> DEFINE L == Len(doc)
             Off == (1..L) \ Standing(stack, depth)
             P == {k \in Nat : \A n \in Off : n > L - k => u[n] = t[n]}
  <1>0. L \in Nat /\ 1..L \subseteq 1..Len(doc2)
    OBVIOUS
  <1>1. 0 \in P
    BY <1>0
  <1>2. ASSUME NEW k \in P PROVE k + 1 \in P
    <2>0. k \in Nat /\ k + 1 \in Nat
      BY <1>2
    <2>1. SUFFICES ASSUME NEW n \in Off, n > L - (k + 1) PROVE u[n] = t[n]
      BY <2>0
    <2>2. n \in 1..L /\ n # stack[depth]
      BY DEF Standing
    <2>3. ASSUME NEW i \in 1..Len(doc[n].members)
          PROVE  u[doc[n].members[i].node] = t[doc[n].members[i].node]
      <3> DEFINE m == doc[n].members[i].node
      <3>1. m \in (n + 1)..L /\ m \in 1..L
        BY <2>2, Members
      <3>2. m \notin Standing(stack, depth)
        <4>1. SUFFICES ASSUME NEW level \in 1..depth, m = stack[level] PROVE FALSE
          BY DEF Standing
        <4>2. level - 1 \in 1..depth /\ n = stack[level - 1]
          BY <2>2, <2>3, <4>1, OnPath
        <4> QED BY <2>1, <4>2 DEF Standing
      <3>3. m > L - k
        BY <1>0, <2>0, <2>1, <2>2, <3>1
      <3> HIDE DEF m
      <3>4. u[m] = t[m]
        BY <1>2, <3>1, <3>2, <3>3
      <3> QED BY <3>4 DEF m
    <2>4. doc2[n] = doc[n] /\ (n \in O2 <=> n \in O)
      BY <2>2 DEF OnlyAt
    <2>5. Piece(doc2, as_null, O2, u, n) = Piece(doc, as_null, O, t, n)
      BY <2>3, <2>4, PieceMoves
    <2>6. u[n] = Piece(doc2, as_null, O2, u, n) /\ t[n] = Piece(doc, as_null, O, t, n)
      BY <1>0, <2>2 DEF Unfolds
    <2> QED BY <2>5, <2>6
  <1>3. L \in P
    <2>1. P = Nat
      <3> HIDE DEF P
      <3> QED BY <1>1, <1>2, NatSetInduction, P \in SUBSET Nat DEF P
    <2> HIDE DEF P
    <2> QED BY <1>0, <2>1
  <1> QED BY <1>0, <1>3 DEF AsideSame

\* The containers below the one on top stand open.
BelowOpen(stack, depth, O) == \A level \in 1..(depth - 1) : stack[level] \in O

\* In u the text of node n goes on with x.
GrownBy(x, n, t, u) == u[n] = t[n] \o x

\* What the container on top gains at its end, the whole text gains at its end.
LEMMA Grown ==
  ASSUME NEW doc \in Seq(Node), Tree(doc), Unique(doc),
         NEW doc2 \in Seq(Node), Tree(doc2), Len(doc) <= Len(doc2),
         NEW stack, NEW depth \in Nat, depth > 0, Path(doc, stack, depth), Ascends(stack, depth),
         NEW as_null \in BOOLEAN, NEW O, NEW O2, NEW t, NEW u,
         IsText(t, doc, as_null, O), IsText(u, doc2, as_null, O2),
         OnlyAt(stack[depth], doc, doc2, O, O2),
         BelowOpen(stack, depth, O),
         NEW x \in Seq(Mark), GrownBy(x, stack[depth], t, u)
  PROVE  GrownBy(x, 1, t, u)
  <1> DEFINE L == Len(doc)
             at(k) == stack[depth - k]
             P == {k \in Nat : k < depth => u[at(k)] = t[at(k)] \o x}
  <1>0. /\ L \in Nat /\ 1..L \subseteq 1..Len(doc2) /\ stack[1] = 1
        /\ Unfolds(t, doc, as_null, O) /\ Unfolds(u, doc2, as_null, O2)
        /\ t \in [1..L -> Seq(Mark)] /\ u \in [1..Len(doc2) -> Seq(Mark)]
    BY DEF Path, IsText
  <1>01. \A n \in 1..L : n \notin Standing(stack, depth) => u[n] = t[n]
    <2>1. AsideSame(t, u, doc, stack, depth)
      BY <1>0, AsideKept
    <2> QED BY <2>1 DEF AsideSame
  <1>1. 0 \in P
    <2>1. at(0) = stack[depth]
      OBVIOUS
    <2> QED BY <2>1 DEF GrownBy
  <1>2. ASSUME NEW k \in P PROVE k + 1 \in P
    <2>0. k \in Nat /\ k + 1 \in Nat
      BY <1>2
    <2>1. SUFFICES ASSUME k + 1 < depth PROVE u[at(k + 1)] = t[at(k + 1)] \o x
      BY <2>0
    <2> DEFINE level == depth - k
               n == stack[level - 1]
               m == stack[level]
               K == Len(doc[n].members)
               I == Inner(doc, t, n)
               J == Inner(doc2, u, n)
    <2>2. /\ level \in 2..depth /\ level - 1 \in 1..(depth - 1) /\ level - 1 \in 1..depth
          /\ level \in 1..depth /\ depth \in 1..depth /\ level - 1 < depth
          /\ at(k) = m /\ at(k + 1) = n
      <3>1. depth - (k + 1) = level - 1
        BY <2>0
      <3> QED BY <2>0, <2>1, <3>1
    <2> HIDE DEF level
    <2>3. /\ n \in 1..L /\ doc[n].type \in Containers
          /\ m \in 1..L /\ K > 0 /\ doc[n].members[K].node = m
      BY <2>2 DEF Path
    <2>4. n # stack[depth]
      <3>1. n < stack[depth]
        BY <2>2 DEF Ascends
      <3>2. stack[depth] \in 1..L
        BY <2>2 DEF Path
      <3> QED BY <2>3, <3>1, <3>2
    <2>5. doc2[n] = doc[n] /\ n \in O /\ n \in O2
      BY <2>2, <2>3, <2>4 DEF OnlyAt, BelowOpen
    <2>6. u[m] = t[m] \o x /\ t[m] \in Seq(Mark)
      <3>1. k < depth
        BY <2>0, <2>1
      <3>2. u[at(k)] = t[at(k)] \o x
        BY <1>2, <3>1
      <3> HIDE DEF m, at
      <3> QED BY <1>0, <2>2, <2>3, <3>2
    <2> HIDE DEF n, m, at
    <2>7. /\ I \in Seq(Seq(Mark)) /\ J \in Seq(Seq(Mark)) /\ Len(I) = K /\ Len(J) = K
          /\ FlattenSeq(I) \in Seq(Mark)
      BY <1>0, <2>3, <2>5, PieceTyped
    <2>8. K \in Nat /\ K \in 1..K
      BY <2>3, Members
    <2>9. ASSUME NEW i \in 1..(K - 1) PROVE J[i] = I[i]
      <3> DEFINE p == doc[n].members[i].node
      <3>1. i \in 1..K /\ i # K
        BY <2>8
      <3>2. p \in 1..L
        BY <2>3, <3>1, Members
      <3>3. p \notin Standing(stack, depth)
        <4>1. SUFFICES ASSUME NEW l \in 1..depth, p = stack[l] PROVE FALSE
          BY DEF Standing
        <4>2. i = K
          BY <2>3, <3>1, <4>1, OnPath
        <4> QED BY <3>1, <4>2
      <3>4. u[p] = t[p]
        <4> HIDE DEF p
        <4> QED BY <1>01, <3>2, <3>3
      <3> QED BY <2>5, <3>1, <3>4 DEF Inner
    <2>10. J[K] = I[K] \o x
      <3> DEFINE a == named(doc[n].members[K].key)
      <3>1. I[K] = a \o t[m] /\ J[K] = a \o u[m]
        BY <2>3, <2>5, <2>8 DEF Inner
      <3>2. a \in Seq(Mark)
        BY <2>3, <2>8, Members, NamedTyped
      <3> HIDE DEF a
      <3>3. \A p, q, r \in Seq(Mark) : p \o (q \o r) = (p \o q) \o r
        BY JoinAssociative, Zenon
      <3>4. a \o (t[m] \o x) = (a \o t[m]) \o x
        BY <2>6, <3>2, <3>3, Zenon
      <3> QED BY <2>6, <3>1, <3>4
    <2>11. FlattenSeq(J) = FlattenSeq(I) \o x
      <3> HIDE DEF I, J, K
      <3>1. Len(I) > 0 /\ Len(J) = Len(I) /\ J[Len(I)] = I[Len(I)] \o x
        BY <2>3, <2>7, <2>10
      <3>2. \A i \in 1..(Len(I) - 1) : J[i] = I[i]
        BY <2>7, <2>9
      <3> QED BY <2>7, <3>1, <3>2, FlattenGrows
    <2>12. ~(doc[n].type \in Scalars)
      BY <2>3 DEF Containers, Scalars
    <2> DEFINE o == << <<"open", doc[n].type>> >>
    <2>13. t[n] = o \o FlattenSeq(I) \o <<>> /\ u[n] = o \o FlattenSeq(J) \o <<>>
      <3>1. t[n] = Piece(doc, as_null, O, t, n) /\ u[n] = Piece(doc2, as_null, O2, u, n)
        BY <1>0, <2>3 DEF Unfolds
      <3>2. Piece(doc, as_null, O, t, n) = o \o FlattenSeq(I) \o <<>>
        BY <2>5, <2>12, Zenon DEF Piece
      <3>3. Piece(doc2, as_null, O2, u, n) = o \o FlattenSeq(J) \o <<>>
        BY <2>5, <2>12, Zenon DEF Piece
      <3> QED BY <3>1, <3>2, <3>3
    <2>14. o \in Seq(Mark)
      <3>1. <<"open", doc[n].type>> \in Mark
        BY <2>3 DEF Mark, Types
      <3> QED BY <3>1
    <2>15. u[n] = t[n] \o x
      <3> DEFINE f == FlattenSeq(I)
      <3>1. t[n] = o \o f \o <<>> /\ u[n] = o \o (f \o x) \o <<>> /\ f \in Seq(Mark)
        BY <2>7, <2>11, <2>13
      <3> HIDE DEF f, o
      <3>2. /\ \A p, q, r \in Seq(Mark) : p \o (q \o r) = (p \o q) \o r
            /\ \A p \in Seq(Mark) : p \o <<>> = p
            /\ \A p, q \in Seq(Mark) : p \o q \in Seq(Mark)
        BY JoinAssociative, Zenon
      <3>3. o \o f \in Seq(Mark) /\ f \o x \in Seq(Mark) /\ o \o (f \o x) \in Seq(Mark)
        BY <2>14, <3>1, <3>2, Zenon
      <3>4. t[n] = o \o f /\ u[n] = o \o (f \o x)
        BY <3>1, <3>2, <3>3, Zenon
      <3>5. o \o (f \o x) = (o \o f) \o x
        <4>1. \A p, q, r \in Seq(Mark) : p \o (q \o r) = (p \o q) \o r
          BY <3>2
        <4>2. f \in Seq(Mark)
          BY <3>1
        <4> QED BY <2>14, <4>1, <4>2, Zenon
      <3> QED BY <3>4, <3>5
    <2> QED BY <2>2, <2>15
  <1>3. depth - 1 \in P
    <2>1. P = Nat
      <3> HIDE DEF P
      <3> QED BY <1>1, <1>2, NatSetInduction, P \in SUBSET Nat DEF P
    <2>2. depth - 1 \in Nat
      OBVIOUS
    <2> HIDE DEF P
    <2> QED BY <2>1, <2>2
  <1>4. at(depth - 1) = 1
    <2>1. depth - (depth - 1) = 1
      OBVIOUS
    <2> QED BY <1>0, <2>1
  <1>5. depth - 1 < depth
    OBVIOUS
  <1>6. u[at(depth - 1)] = t[at(depth - 1)] \o x
    <2> HIDE DEF at
    <2> QED BY <1>3, <1>5
  <1> QED BY <1>4, <1>6 DEF GrownBy

\* The members of the container on top are not on the stack.
LEMMA TopMembers ==
  ASSUME NEW doc \in Seq(Node), Tree(doc), Unique(doc), NEW stack, NEW depth \in Nat,
         depth > 0, Path(doc, stack, depth), Ascends(stack, depth),
         NEW t, NEW u, AsideSame(t, u, doc, stack, depth),
         NEW i \in 1..Len(doc[stack[depth]].members)
  PROVE  u[doc[stack[depth]].members[i].node] = t[doc[stack[depth]].members[i].node]
  <1> DEFINE n == stack[depth]
             m == doc[n].members[i].node
  <1>1. n \in 1..Len(doc) /\ depth \in 1..depth
    BY DEF Path
  <1>2. m \in 1..Len(doc)
    <2> HIDE DEF n
    <2> QED BY <1>1, Members DEF n
  <1>3. m \notin Standing(stack, depth)
    <2>1. SUFFICES ASSUME NEW level \in 1..depth, m = stack[level] PROVE FALSE
      BY DEF Standing
    <2>2. level - 1 \in 1..depth /\ n = stack[level - 1]
      BY <1>1, <2>1, OnPath
    <2>3. level - 1 < depth
      OBVIOUS
    <2>4. stack[level - 1] < stack[depth]
      BY <1>1, <2>2, <2>3 DEF Ascends
    <2> QED BY <1>1, <2>2, <2>4
  <1> HIDE DEF m
  <1>4. u[m] = t[m]
    BY <1>2, <1>3 DEF AsideSame
  <1> QED BY <1>4 DEF m

\* Closing the innermost container puts its mark at the end of the text.
LEMMA CloseGrows ==
  ASSUME NEW doc \in Seq(Node), Tree(doc), Unique(doc), NEW stack, NEW depth \in Nat,
         depth > 0, Path(doc, stack, depth), Ascends(stack, depth),
         NEW as_null \in BOOLEAN, NEW t, NEW u,
         IsText(t, doc, as_null, Standing(stack, depth)),
         IsText(u, doc, as_null, Standing(stack, depth - 1))
  PROVE  GrownBy(<< <<"close", doc[stack[depth]].type>> >>, 1, t, u)
  <1> DEFINE O == Standing(stack, depth)
             O2 == Standing(stack, depth - 1)
             n == stack[depth]
             c == << <<"close", doc[n].type>> >>
             o == << <<"open", doc[n].type>> >>
             f == FlattenSeq(Inner(doc, t, n))
  <1>1. n \in 1..Len(doc) /\ doc[n].type \in Containers /\ depth \in 1..depth
    BY DEF Path
  <1>2. c \in Seq(Mark) /\ o \in Seq(Mark)
    <2>1. <<"close", doc[n].type>> \in Mark /\ <<"open", doc[n].type>> \in Mark
      BY <1>1 DEF Mark, Types
    <2> QED BY <2>1
  <1>3. n \in O /\ n \notin O2
    <2>1. n \in O
      BY <1>1 DEF Standing
    <2>2. ASSUME NEW level \in 1..(depth - 1) PROVE stack[level] # n
      <3>1. level \in 1..depth /\ level < depth
        OBVIOUS
      <3>2. stack[level] < n /\ stack[level] \in 1..Len(doc)
        BY <1>1, <3>1 DEF Ascends, Path
      <3> QED BY <1>1, <3>2
    <2> QED BY <2>1, <2>2 DEF Standing
  <1>4. OnlyAt(n, doc, doc, O, O2)
    <2>1. \A k : k # n => (k \in O2 <=> k \in O)
      <3>1. \A level \in 1..depth : level = depth \/ level \in 1..(depth - 1)
        OBVIOUS
      <3>2. 1..(depth - 1) \subseteq 1..depth
        OBVIOUS
      <3> QED BY <3>1, <3>2 DEF Standing
    <2> HIDE DEF O, O2
    <2> QED BY <2>1 DEF OnlyAt
  <1>5. BelowOpen(stack, depth, O)
    <2>1. 1..(depth - 1) \subseteq 1..depth
      OBVIOUS
    <2> QED BY <2>1 DEF BelowOpen, Standing
  <1> HIDE DEF O, O2
  <1>6. /\ Unfolds(t, doc, as_null, O) /\ Unfolds(u, doc, as_null, O2)
        /\ IsText(t, doc, as_null, O) /\ IsText(u, doc, as_null, O2)
        /\ t \in [1..Len(doc) -> Seq(Mark)] /\ Len(doc) <= Len(doc)
    BY DEF IsText, O, O2
  <1>7. AsideSame(t, u, doc, stack, depth)
    BY <1>4, <1>6, AsideKept
  <1>8. Inner(doc, u, n) = Inner(doc, t, n)
    <2>1. \A i \in 1..Len(doc[n].members) :
            u[doc[n].members[i].node] = t[doc[n].members[i].node]
      BY <1>7, TopMembers
    <2> QED BY <2>1 DEF Inner
  <1>9. f \in Seq(Mark)
    <2> HIDE DEF n
    <2> QED BY <1>1, <1>6, PieceTyped
  <1>10. t[n] = o \o f \o <<>> /\ u[n] = o \o f \o c
    <2>1. t[n] = Piece(doc, as_null, O, t, n) /\ u[n] = Piece(doc, as_null, O2, u, n)
      BY <1>1, <1>6 DEF Unfolds
    <2>2. ~(doc[n].type \in Scalars)
      BY <1>1 DEF Containers, Scalars
    <2> HIDE DEF n
    <2>3. Piece(doc, as_null, O, t, n) = o \o f \o <<>>
      BY <1>3, <2>2, Zenon DEF Piece
    <2>4. Piece(doc, as_null, O2, u, n) = o \o f \o c
      BY <1>3, <1>8, <2>2, Zenon DEF Piece
    <2> QED BY <2>1, <2>3, <2>4
  <1>11. u[n] = t[n] \o c
    <2> HIDE DEF n, o, f, c
    <2>1. \A p, q \in Seq(Mark) : p \o q \in Seq(Mark)
      BY JoinAssociative, Zenon
    <2>2. \A p \in Seq(Mark) : p \o <<>> = p
      BY JoinAssociative, Zenon
    <2>3. o \o f \in Seq(Mark)
      BY <1>2, <1>9, <2>1
    <2>4. (o \o f) \o <<>> = o \o f
      BY <2>2, <2>3, Zenon
    <2> QED BY <1>10, <2>4
  <1>12. u[1] = t[1] \o c
    <2> DEFINE doc2 == doc
    <2>1. /\ doc2 \in Seq(Node) /\ Tree(doc2) /\ Len(doc) <= Len(doc2)
          /\ IsText(u, doc2, as_null, O2) /\ OnlyAt(stack[depth], doc, doc2, O, O2)
          /\ GrownBy(c, stack[depth], t, u)
      BY <1>4, <1>6, <1>11 DEF GrownBy
    <2> HIDE DEF doc2, c, n
    <2>2. GrownBy(c, 1, t, u)
      BY <1>2, <1>5, <1>6, <2>1, Grown
    <2> QED BY <2>2 DEF GrownBy
  <1> QED BY <1>12 DEF GrownBy

-----------------------------------------------------------------------------
(* What a call does to the tree.                                           *)

\* Members of an array have no name, members of an object have one.
Keyed(doc) ==
  \A n \in 1..Len(doc) : \A i \in 1..Len(doc[n].members) :
    (doc[n].members[i].key = NO_KEY) <=> (doc[n].type = "array")

Good(s) == Sound(s) /\ Unique(s.doc) /\ Keyed(s.doc)

\* In a the container on top of s has a new last member, and nothing else moved.
AddedTo(s, a, key, type) ==
  LET n == top(s)
      L == Len(s.doc)
  IN  /\ Len(a.doc) = L + 1 /\ a.doc[L + 1] = node(type)
      /\ a.doc[n].members = Append(s.doc[n].members, [key |-> key, node |-> L + 1])
      /\ a.doc[n].type = s.doc[n].type
      /\ \A k \in 1..L : k # n => a.doc[k] = s.doc[k]
      /\ a.stack = s.stack /\ a.depth = s.depth
      /\ a.as_null = s.as_null /\ a.magic = s.magic
      /\ a.status = s.status /\ a.error_field = s.error_field
      /\ a.elements = s.elements + (IF key = NO_KEY THEN 1 ELSE 2)

\* The tree after a member was added, node by node.
LEMMA AddedDoc ==
  ASSUME NEW s, Sound(s), s.depth > 0, NEW key, NEW type
  PROVE  AddedTo(s, member_added(s, key, type), key, type)
  <1> DEFINE L == Len(s.doc)
             n == top(s)
             m == [key |-> key, node |-> L + 1]
             M == Append(s.doc[n].members, m)
             x == [s.doc[n] EXCEPT !.members = M]
             mid == [s.doc EXCEPT ![n] = x]
             doc == Append(mid, node(type))
             a == member_added(s, key, type)
  <1>1. s \in State /\ s.doc \in Seq(Node) /\ L \in Nat /\ s.depth \in 0..MAX_DEPTH
    BY DEF Sound, State
  <1>2. n \in 1..L /\ s.doc[n] \in Node
    BY <1>1, WriterAssumption DEF Sound, Path, top
  <1>3. x.members = M /\ x.type = s.doc[n].type
    BY <1>2, Zenon DEF Node
  <1>4. a = [s EXCEPT !.doc = doc, !.elements = @ + (IF key = NO_KEY THEN 1 ELSE 2)]
    <2>1. mid = [s.doc EXCEPT ![n].members = M]
      BY <1>2
    <2> HIDE DEF mid, M, n
    <2> QED BY <2>1, Zenon DEF member_added, M, n, m, L
  <1>5. /\ a.doc = doc /\ a.stack = s.stack /\ a.depth = s.depth
        /\ a.as_null = s.as_null /\ a.magic = s.magic
        /\ a.status = s.status /\ a.error_field = s.error_field
        /\ a.elements = s.elements + (IF key = NO_KEY THEN 1 ELSE 2)
    BY <1>1, <1>4, Zenon DEF State
  <1>6. /\ Len(doc) = L + 1 /\ doc[L + 1] = node(type) /\ doc[n] = x
        /\ \A k \in 1..L : k # n => doc[k] = s.doc[k]
    <2> DEFINE old == s.doc
    <2>0. old \in Seq(Node) /\ Len(old) = L
      BY <1>1
    <2> HIDE DEF x, n, L, old
    <2>1. mid \in Seq(Node \cup {x})
      BY <1>1, <1>2, <2>0 DEF old
    <2>2. Len(mid) = L /\ mid[n] = x /\ \A k \in 1..L : k # n => mid[k] = s.doc[k]
      BY <1>1, <1>2, <2>0 DEF old
    <2> HIDE DEF mid
    <2> QED BY <1>1, <1>2, <2>1, <2>2
  <1> HIDE DEF a, doc, x
  <1>7. AddedTo(s, a, key, type)
    BY <1>3, <1>5, <1>6 DEF AddedTo
  <1> QED BY <1>7 DEF a

\* A node hung on the container on top is a member there and nowhere else, named
\* as that container asks.
LEMMA AddedGood ==
  ASSUME NEW s, Good(s), s.depth > 0, Len(s.doc) < MaxNodes,
         NEW key \in AnyKey, NEW type \in Types,
         (key = NO_KEY) <=> (s.doc[top(s)].type = "array")
  PROVE  Good(member_added(s, key, type))
  <1> DEFINE a == member_added(s, key, type)
             n == top(s)
             L == Len(s.doc)
             K == Len(s.doc[n].members)
             m == [key |-> key, node |-> L + 1]
  <1>1. Sound(s) /\ Unique(s.doc) /\ Keyed(s.doc)
    BY DEF Good
  <1>2. Sound(a)
    BY <1>1, Added
  <1>3. /\ Len(a.doc) = L + 1 /\ a.doc[L + 1] = node(type)
        /\ a.doc[n].members = Append(s.doc[n].members, m)
        /\ a.doc[n].type = s.doc[n].type
        /\ \A k \in 1..L : k # n => a.doc[k] = s.doc[k]
    <2>1. AddedTo(s, a, key, type)
      BY <1>1, AddedDoc
    <2> HIDE DEF a
    <2> QED BY <2>1 DEF AddedTo
  <1>4. /\ s.doc \in Seq(Node) /\ Tree(s.doc) /\ L \in Nat /\ n \in 1..L
        /\ s.doc[n].members \in Seq([key : AnyKey, node : Nat]) /\ K \in Nat
    <2>1. s.doc \in Seq(Node) /\ Tree(s.doc) /\ s.depth \in 0..MAX_DEPTH
      BY <1>1 DEF Sound, State
    <2>2. n \in 1..L
      BY <1>1, <2>1, WriterAssumption DEF Sound, Path, top
    <2>3. s.doc[n] \in Node
      BY <2>1, <2>2
    <2>4. s.doc[n].members \in Seq([key : AnyKey, node : Nat])
      BY <2>3 DEF Node
    <2> QED BY <2>1, <2>2, <2>4
  <1>5. /\ Len(a.doc[n].members) = K + 1 /\ a.doc[n].members[K + 1] = m
        /\ \A i \in 1..K : a.doc[n].members[i] = s.doc[n].members[i]
    BY <1>3, <1>4
  <1>6. node(type).members = <<>>
    BY DEF node
  <1> DEFINE old(k, i) == k \in 1..L /\ i \in 1..Len(s.doc[k].members)
                          /\ a.doc[k].members[i] = s.doc[k].members[i]
                          /\ a.doc[k].type = s.doc[k].type
             new(k, i) == k = n /\ i = K + 1
  <1>7. ASSUME NEW k \in 1..(L + 1), NEW i \in 1..Len(a.doc[k].members)
        PROVE  old(k, i) \/ new(k, i)
    <2>1. CASE k = L + 1
      BY <1>3, <1>6, <2>1
    <2>2. CASE k = n
      <3>1. i \in 1..(K + 1)
        BY <1>5, <2>2
      <3>2. CASE i = K + 1
        BY <2>2, <3>2
      <3>3. CASE i # K + 1
        <4>1. i \in 1..K
          BY <1>4, <3>1, <3>3
        <4> QED BY <1>3, <1>4, <1>5, <2>2, <4>1
      <3> QED BY <3>2, <3>3
    <2>3. CASE k # n /\ k # L + 1
      <3>1. k \in 1..L
        BY <1>4, <2>3
      <3> QED BY <1>3, <2>3, <3>1
    <2> QED BY <2>1, <2>2, <2>3
  <1>8. ASSUME NEW k \in 1..L, NEW i \in 1..Len(s.doc[k].members)
        PROVE  s.doc[k].members[i].node # L + 1
    <2>1. s.doc[k].members[i].node \in 1..L
      BY <1>4, Members
    <2> QED BY <1>4, <2>1
  <1>9. a.doc[n].members[K + 1].node = L + 1 /\ a.doc[n].members[K + 1].key = key
    BY <1>5
  <1>10. Unique(a.doc)
    <2>1. ASSUME NEW p \in 1..(L + 1), NEW q \in 1..(L + 1),
                 NEW i \in 1..Len(a.doc[p].members), NEW j \in 1..Len(a.doc[q].members),
                 a.doc[p].members[i].node = a.doc[q].members[j].node
          PROVE  p = q /\ i = j
      <3>1. (old(p, i) \/ new(p, i)) /\ (old(q, j) \/ new(q, j))
        BY <1>7
      <3>2. CASE new(p, i) /\ new(q, j)
        BY <3>2
      <3>3. CASE new(p, i) /\ old(q, j)
        BY <1>8, <1>9, <2>1, <3>3
      <3>4. CASE old(p, i) /\ new(q, j)
        BY <1>8, <1>9, <2>1, <3>4
      <3>5. CASE old(p, i) /\ old(q, j)
        <4>1. s.doc[p].members[i].node = s.doc[q].members[j].node
          BY <2>1, <3>5
        <4> QED BY <1>1, <3>5, <4>1 DEF Unique
      <3> QED BY <3>1, <3>2, <3>3, <3>4, <3>5
    <2> HIDE DEF a
    <2> QED BY <1>3, <2>1 DEF Unique
  <1>11. Keyed(a.doc)
    <2>1. ASSUME NEW p \in 1..(L + 1), NEW i \in 1..Len(a.doc[p].members)
          PROVE  (a.doc[p].members[i].key = NO_KEY) <=> (a.doc[p].type = "array")
      <3>1. CASE old(p, i)
        BY <1>1, <3>1 DEF Keyed
      <3>2. CASE new(p, i)
        BY <1>3, <1>9, <3>2
      <3> QED BY <1>7, <3>1, <3>2
    <2> HIDE DEF a
    <2> QED BY <1>3, <2>1 DEF Keyed
  <1> QED BY <1>2, <1>10, <1>11 DEF Good

\* The same of the first L nodes stand open.
SameOpen(O, O2, L) == \A n \in 1..L : (n \in O2) <=> (n \in O)

\* A member added goes to the end of the text, behind its name.
LEMMA AddGrows ==
  ASSUME NEW s, Good(s), s.depth > 0, Len(s.doc) < MaxNodes,
         NEW key \in AnyKey, NEW type \in Types, NEW O2, NEW t, NEW u,
         IsText(t, s.doc, s.as_null, Standing(s.stack, s.depth)),
         IsText(u, member_added(s, key, type).doc, s.as_null, O2),
         SameOpen(Standing(s.stack, s.depth), O2, Len(s.doc))
  PROVE  GrownBy(named(key) \o u[Len(s.doc) + 1], 1, t, u)
  <1> DEFINE a == member_added(s, key, type)
             doc == s.doc
             doc2 == a.doc
             stack == s.stack
             depth == s.depth
             as_null == s.as_null
             O == Standing(stack, depth)
             n == stack[depth]
             L == Len(doc)
             K == Len(doc[n].members)
             m == [key |-> key, node |-> L + 1]
             x == named(key) \o u[L + 1]
             o == << <<"open", doc[n].type>> >>
             I == Inner(doc, t, n)
             J == Inner(doc2, u, n)
  <1>1. Sound(s) /\ Unique(doc) /\ Sound(a)
    BY Added DEF Good
  <1>2. /\ doc \in Seq(Node) /\ Tree(doc) /\ doc2 \in Seq(Node) /\ Tree(doc2)
        /\ Path(doc, stack, depth) /\ Ascends(stack, depth) /\ as_null \in BOOLEAN
        /\ depth \in Nat /\ depth \in 1..depth /\ L \in Nat
    <2>1. depth \in 0..MAX_DEPTH
      BY <1>1 DEF Sound, State
    <2>2. depth \in Nat /\ depth \in 1..depth
      BY <2>1, WriterAssumption
    <2> HIDE DEF a
    <2> QED BY <1>1, <2>2 DEF Sound, State
  <1>3. /\ Len(doc2) = L + 1 /\ doc2[L + 1] = node(type)
        /\ doc2[n].members = Append(doc[n].members, m) /\ doc2[n].type = doc[n].type
        /\ \A k \in 1..L : k # n => doc2[k] = doc[k]
    <2>1. top(s) = n
      BY DEF top
    <2> DEFINE h == top(s)
    <2>2. s.depth > 0
      OBVIOUS
    <2>3. /\ Len(a.doc) = L + 1 /\ a.doc[L + 1] = node(type)
          /\ a.doc[h].members = Append(s.doc[h].members, m) /\ a.doc[h].type = s.doc[h].type
          /\ \A k \in 1..L : k # h => a.doc[k] = s.doc[k]
      <3>1. AddedTo(s, a, key, type)
        BY <1>1, <2>2, AddedDoc
      <3> HIDE DEF a
      <3> QED BY <3>1 DEF AddedTo
    <2> HIDE DEF n, m, h, a
    <2>4. h = n
      BY <2>1 DEF h
    <2> QED BY <2>3, <2>4
  <1>4. IsText(t, doc, as_null, O) /\ IsText(u, doc2, as_null, O2)
    OBVIOUS
  <1>5. \A k \in 1..L : (k \in O2) <=> (k \in O)
    BY DEF SameOpen
  <1> HIDE DEF doc, doc2, stack, depth, as_null, O, a
  <1>6. /\ n \in 1..L /\ doc[n].type \in Containers /\ K \in Nat /\ n \in O
        /\ doc[n].members \in Seq([key : AnyKey, node : Nat])
    <2>1. n \in 1..L /\ doc[n].type \in Containers
      BY <1>2 DEF Path
    <2>2. doc[n].members \in Seq([key : AnyKey, node : Nat])
      <3>1. doc[n] \in Node
        BY <1>2, <2>1
      <3> QED BY <3>1 DEF Node
    <2>3. n \in O
      BY <1>2 DEF O, Standing
    <2> QED BY <2>1, <2>2, <2>3
  <1>7. OnlyAt(n, doc, doc2, O, O2) /\ Len(doc) <= Len(doc2)
    BY <1>2, <1>3, <1>5 DEF OnlyAt
  <1>8. BelowOpen(stack, depth, O)
    <2>1. 1..(depth - 1) \subseteq 1..depth
      BY <1>2
    <2> QED BY <2>1 DEF BelowOpen, O, Standing
  <1>9. AsideSame(t, u, doc, stack, depth)
    <2>1. Unfolds(t, doc, as_null, O) /\ Unfolds(u, doc2, as_null, O2)
      BY <1>4 DEF IsText
    <2>2. OnlyAt(stack[depth], doc, doc2, O, O2) /\ depth > 0 /\ Unique(doc)
      BY <1>1, <1>2, <1>7 DEF depth
    <2> HIDE DEF n
    <2> QED BY <1>2, <1>7, <2>1, <2>2, AsideKept
  <1>10. \A i \in 1..K : u[doc[n].members[i].node] = t[doc[n].members[i].node]
    <2>1. depth > 0 /\ Unique(doc)
      BY <1>1, <1>2
    <2>2. ASSUME NEW i \in 1..Len(doc[stack[depth]].members)
          PROVE  u[doc[stack[depth]].members[i].node] = t[doc[stack[depth]].members[i].node]
      BY <1>2, <1>9, <2>1, TopMembers
    <2> QED BY <2>2
  <1> HIDE DEF n
  <1>11. /\ t \in [1..L -> Seq(Mark)] /\ u \in [1..(L + 1) -> Seq(Mark)]
         /\ L + 1 \in 1..(L + 1) /\ n \in 1..(L + 1)
    <2>1. t \in [1..L -> Seq(Mark)] /\ u \in [1..Len(doc2) -> Seq(Mark)]
      BY <1>4 DEF IsText
    <2>2. Len(doc2) = L + 1
      BY <1>3
    <2>3. L + 1 \in 1..(L + 1) /\ n \in 1..(L + 1)
      BY <1>2, <1>6
    <2> HIDE DEF L
    <2> QED BY <2>1, <2>2, <2>3
  <1>12. x \in Seq(Mark)
    <2>1. named(key) \in Seq(Mark) /\ u[L + 1] \in Seq(Mark)
      BY <1>11, NamedTyped
    <2> QED BY <2>1
  <1>13. /\ I \in Seq(Seq(Mark)) /\ Len(I) = K /\ FlattenSeq(I) \in Seq(Mark)
         /\ J \in Seq(Seq(Mark)) /\ Len(J) = K + 1
    <2>1. I \in Seq(Seq(Mark)) /\ Len(I) = K /\ FlattenSeq(I) \in Seq(Mark)
      BY <1>2, <1>6, <1>11, PieceTyped
    <2>2. n \in 1..Len(doc2) /\ u \in [1..Len(doc2) -> Seq(Mark)]
      BY <1>3, <1>11
    <2>3. J \in Seq(Seq(Mark)) /\ Len(J) = Len(doc2[n].members)
      BY <1>2, <2>2, PieceTyped
    <2>4. Len(doc2[n].members) = K + 1
      BY <1>3, <1>6
    <2> QED BY <2>1, <2>3, <2>4
  <1>14. J = Append(I, x)
    <2>1. /\ doc2[n].members[K + 1] = m
          /\ \A i \in 1..K : doc2[n].members[i] = doc[n].members[i]
          /\ Len(doc2[n].members) = K + 1
      BY <1>3, <1>6
    <2> DEFINE A == Append(I, x)
    <2>2. A \in Seq(Seq(Mark)) /\ Len(A) = K + 1 /\ A[K + 1] = x
          /\ \A i \in 1..K : A[i] = I[i]
      <3> HIDE DEF I, x, K
      <3> QED BY <1>6, <1>12, <1>13
    <2>3. J[K + 1] = x
      <3>1. K + 1 \in 1..Len(doc2[n].members) /\ m.key = key /\ m.node = L + 1
        BY <1>6, <2>1
      <3>2. J[K + 1] = named(m.key) \o u[m.node]
        <4> HIDE DEF m, K
        <4> QED BY <2>1, <3>1 DEF Inner
      <3> QED BY <3>1, <3>2
    <2>4. ASSUME NEW i \in 1..K PROVE J[i] = I[i]
      <3>1. i \in 1..Len(doc2[n].members) /\ doc2[n].members[i] = doc[n].members[i]
        BY <1>6, <2>1
      <3>2. u[doc[n].members[i].node] = t[doc[n].members[i].node]
        BY <1>10
      <3> QED BY <3>1, <3>2 DEF Inner
    <2> HIDE DEF A, I, J, x, K
    <2>5. \A i \in 1..(K + 1) : i = K + 1 \/ i \in 1..K
      BY <1>6
    <2>6. Len(J) = Len(A) /\ \A i \in 1..Len(J) : J[i] = A[i]
      BY <1>13, <2>2, <2>3, <2>4, <2>5
    <2>7. J = A
      BY <1>13, <2>2, <2>6, SameSequence
    <2> QED BY <2>7 DEF A
  <1>15. FlattenSeq(J) = FlattenSeq(I) \o x
    <2> HIDE DEF I, J, x
    <2> QED BY <1>12, <1>13, <1>14, FlattenAppend
  <1>16. t[n] = o \o FlattenSeq(I) \o <<>> /\ u[n] = o \o FlattenSeq(J) \o <<>>
    <2>1. t[n] = Piece(doc, as_null, O, t, n) /\ u[n] = Piece(doc2, as_null, O2, u, n)
      BY <1>3, <1>4, <1>6, <1>11 DEF IsText, Unfolds
    <2>2. ~(doc[n].type \in Scalars) /\ n \in O2
      BY <1>5, <1>6 DEF Containers, Scalars
    <2>3. Piece(doc, as_null, O, t, n) = o \o FlattenSeq(I) \o <<>>
      BY <1>6, <2>2, Zenon DEF Piece
    <2>4. Piece(doc2, as_null, O2, u, n) = o \o FlattenSeq(J) \o <<>>
      BY <1>3, <2>2, Zenon DEF Piece
    <2> QED BY <2>1, <2>3, <2>4
  <1>17. o \in Seq(Mark)
    <2>1. <<"open", doc[n].type>> \in Mark
      BY <1>6 DEF Mark, Types
    <2> QED BY <2>1
  <1>18. GrownBy(x, n, t, u)
    <2> DEFINE f == FlattenSeq(I)
    <2>1. t[n] = o \o f \o <<>> /\ u[n] = o \o (f \o x) \o <<>> /\ f \in Seq(Mark)
      BY <1>13, <1>15, <1>16
    <2> HIDE DEF f, o, x
    <2>2. \A p, q, r \in Seq(Mark) : p \o (q \o r) = (p \o q) \o r
      BY JoinAssociative, Zenon
    <2>3. \A p \in Seq(Mark) : p \o <<>> = p
      BY JoinAssociative, Zenon
    <2>4. \A p, q \in Seq(Mark) : p \o q \in Seq(Mark)
      BY JoinAssociative, Zenon
    <2>5. f \in Seq(Mark)
      BY <2>1
    <2>6. o \o f \in Seq(Mark) /\ f \o x \in Seq(Mark) /\ o \o (f \o x) \in Seq(Mark)
      BY <1>12, <1>17, <2>4, <2>5
    <2>7. (o \o f) \o <<>> = o \o f /\ (o \o (f \o x)) \o <<>> = o \o (f \o x)
      BY <2>3, <2>6, Zenon
    <2>8. o \o (f \o x) = (o \o f) \o x
      BY <1>12, <1>17, <2>2, <2>5, Zenon
    <2> QED BY <2>1, <2>7, <2>8 DEF GrownBy
  <1>19. GrownBy(x, 1, t, u)
    <2>1. OnlyAt(stack[depth], doc, doc2, O, O2) /\ depth > 0 /\ Unique(doc)
          /\ GrownBy(x, stack[depth], t, u)
      BY <1>1, <1>2, <1>7, <1>18 DEF n
    <2> HIDE DEF x
    <2> QED BY <1>2, <1>4, <1>7, <1>8, <1>12, <2>1, Grown
  <1> QED BY <1>19 DEF doc

-----------------------------------------------------------------------------
(* What a state says: the text so far, the kinds of the containers standing *)
(* open, and the error kept.                                               *)

Said(s) == laid_down(s, FALSE)

Kinds(s) == [level \in 1..s.depth |-> s.doc[s.stack[level]].type]

Fault(s) == [status |-> s.status, field |-> s.error_field]

\* What is known of the parts of a sound state.
LEMMA Parts ==
  ASSUME NEW s, Sound(s)
  PROVE  /\ s.doc \in Seq(Node) /\ Tree(s.doc) /\ Len(s.doc) \in Nat
         /\ s.as_null \in BOOLEAN /\ s.depth \in Nat /\ s.depth <= MAX_DEPTH
         /\ Path(s.doc, s.stack, s.depth) /\ Ascends(s.stack, s.depth)
         /\ (s.doc = NO_DOC) <=> (s.depth = 0)
         /\ s.elements \in Nat /\ s.status \in Statuses /\ s.error_field \in Fields
         /\ \A level \in 1..s.depth : /\ s.stack[level] \in 1..Len(s.doc)
                                      /\ s.doc[s.stack[level]].type \in Containers
  <1>1. s \in State /\ s.depth \in 0..MAX_DEPTH
    BY DEF Sound, State
  <1>2. s.depth \in Nat /\ s.depth <= MAX_DEPTH
    BY <1>1, WriterAssumption
  <1>3. /\ s.doc \in Seq(Node) /\ s.as_null \in BOOLEAN
        /\ s.elements \in Nat /\ s.status \in Statuses /\ s.error_field \in Fields
    BY <1>1 DEF State
  <1>4. Len(s.doc) \in Nat
    BY <1>3
  <1>5. /\ Tree(s.doc) /\ Path(s.doc, s.stack, s.depth) /\ Ascends(s.stack, s.depth)
    BY DEF Sound
  <1> QED BY <1>2, <1>3, <1>4, <1>5 DEF Path

\* A document has a text, and both ways of laying it down are known by it.
LEMMA Speaks ==
  ASSUME NEW s, Sound(s), s.doc # NO_DOC
  PROVE  /\ \E t : IsText(t, s.doc, s.as_null, Standing(s.stack, s.depth))
         /\ \A t : IsText(t, s.doc, s.as_null, Standing(s.stack, s.depth)) => Said(s) = t[1]
         /\ Said(s) \in Seq(Mark)
  <1> DEFINE O == Standing(s.stack, s.depth)
  <1>1. PICK t : IsText(t, s.doc, s.as_null, O)
    <2> HIDE DEF O
    <2> QED BY Parts, TextExists
  <1>2. ASSUME NEW u, IsText(u, s.doc, s.as_null, O)
        PROVE  Said(s) = u[1]
    <2>1. (IF FALSE THEN {} ELSE O) = O /\ FALSE \in BOOLEAN
      OBVIOUS
    <2>2. IsText(u, s.doc, s.as_null, IF FALSE THEN {} ELSE O)
      BY <1>2, <2>1, Zenon
    <2> QED BY <2>1, <2>2, LaidDown DEF Said
  <1>3. t[1] \in Seq(Mark)
    <2>1. 1 \in 1..Len(s.doc)
      BY Parts DEF NO_DOC
    <2> QED BY <1>1, <2>1 DEF IsText
  <1> QED BY <1>1, <1>2, <1>3

\* Without a document nothing is said and nothing stands open.
LEMMA Silent ==
  ASSUME NEW s, s.doc = NO_DOC, s.depth = 0
  PROVE  Said(s) = <<>> /\ Kinds(s) = <<>>
  <1>1. Said(s) = <<>>
    BY DEF Said, laid_down
  <1>2. Kinds(s) = <<>>
    BY DEF Kinds
  <1> QED BY <1>1, <1>2

\* The text is the tree's and the stack's, whatever the other fields are.
LEMMA SaysTheSame ==
  ASSUME NEW s, Sound(s), NEW r, Sound(r),
         r.doc = s.doc, r.stack = s.stack, r.depth = s.depth, r.as_null = s.as_null
  PROVE  Said(r) = Said(s) /\ Kinds(r) = Kinds(s)
  <1>1. Kinds(r) = Kinds(s)
    BY DEF Kinds
  <1>2. CASE s.doc = NO_DOC
    BY <1>2, Silent, Parts
  <1>3. CASE s.doc # NO_DOC
    <2>1. PICK t : IsText(t, s.doc, s.as_null, Standing(s.stack, s.depth))
      BY <1>3, Speaks
    <2>2. Said(s) = t[1]
      BY <1>3, <2>1, Speaks
    <2>3. IsText(t, r.doc, r.as_null, Standing(r.stack, r.depth)) /\ r.doc # NO_DOC
      BY <1>3, <2>1
    <2>4. Said(r) = t[1]
      BY <2>3, Speaks
    <2> QED BY <1>1, <2>2, <2>4
  <1> QED BY <1>2, <1>3

\* A root alone has said that it is open.
LEMMA RootSays ==
  ASSUME NEW r, Sound(r), NEW type \in Containers, r.doc = << node(type) >>,
         r.depth = 1
  PROVE  Said(r) = << <<"open", type>> >> /\ Kinds(r) = << type >>
  <1>1. r.stack[1] = 1 /\ r.doc # NO_DOC
    BY DEF Sound, Path, NO_DOC
  <1>2. Len(r.doc) = 1 /\ r.doc[1].type = type /\ r.doc[1].members = <<>>
    BY DEF node
  <1>3. Kinds(r) = << type >>
    BY <1>1, <1>2 DEF Kinds
  <1> DEFINE O == Standing(r.stack, r.depth)
  <1>4. PICK t : IsText(t, r.doc, r.as_null, O)
    BY <1>1, Speaks
  <1>5. Said(r) = t[1]
    BY <1>1, <1>4, Speaks
  <1>6. 1 \in O
    BY <1>1 DEF Standing
  <1>7. t[1] = Piece(r.doc, r.as_null, O, t, 1)
    BY <1>2, <1>4 DEF IsText, Unfolds
  <1>8. Inner(r.doc, t, 1) = <<>>
    <2> DEFINE G(i) == named(r.doc[1].members[i].key) \o t[r.doc[1].members[i].node]
    <2>1. Inner(r.doc, t, 1) = [i \in 1..0 |-> G(i)]
      BY <1>2 DEF Inner
    <2> HIDE DEF G
    <2> QED BY <2>1
  <1>9. FlattenSeq(<<>>) = <<>>
    BY DEF FlattenSeq
  <1>10. ~(type \in Scalars)
    BY DEF Containers, Scalars
  <1> HIDE DEF O
  <1>11. Piece(r.doc, r.as_null, O, t, 1) = << <<"open", type>> >> \o <<>> \o <<>>
    BY <1>2, <1>6, <1>8, <1>9, <1>10, Zenon DEF Piece
  <1>12. << <<"open", type>> >> \o <<>> \o <<>> = << <<"open", type>> >>
    OBVIOUS
  <1> QED BY <1>3, <1>5, <1>7, <1>11, <1>12

\* A value goes to the end of the text, behind its name.
LEMMA ValueSaid ==
  ASSUME NEW s, Good(s), s.depth > 0, Len(s.doc) < MaxNodes,
         NEW key \in AnyKey, NEW type \in Scalars
  PROVE  LET a == member_added(s, key, type)
         IN  /\ Said(a) = Said(s) \o named(key) \o << mark(s, type) >>
             /\ Kinds(a) = Kinds(s)
  <1> DEFINE a == member_added(s, key, type)
             O == Standing(s.stack, s.depth)
             L == Len(s.doc)
  <1>1. Sound(s) /\ Sound(a) /\ type \in Types
    BY Added DEF Good, Types
  <1>2. /\ Len(a.doc) = L + 1 /\ a.doc[L + 1] = node(type)
        /\ a.doc[top(s)].type = s.doc[top(s)].type
        /\ \A k \in 1..L : k # top(s) => a.doc[k] = s.doc[k]
        /\ a.stack = s.stack /\ a.depth = s.depth /\ a.as_null = s.as_null
    <2>1. AddedTo(s, a, key, type)
      BY <1>1, AddedDoc
    <2> HIDE DEF a
    <2> QED BY <2>1 DEF AddedTo
  <1>3. s.doc # NO_DOC /\ a.doc # NO_DOC /\ L \in Nat /\ L + 1 \in 1..(L + 1)
    BY <1>1, <1>2, Parts
  <1>4. PICK t : IsText(t, s.doc, s.as_null, O)
    BY <1>1, <1>3, Speaks
  <1>5. PICK u : IsText(u, a.doc, s.as_null, O)
    BY <1>1, <1>2, <1>3, Speaks
  <1>6. Said(s) = t[1] /\ Said(a) = u[1] /\ Said(s) \in Seq(Mark)
    <2>1. Said(s) = t[1] /\ Said(s) \in Seq(Mark)
      BY <1>1, <1>3, <1>4, Speaks
    <2>2. IsText(u, a.doc, a.as_null, Standing(a.stack, a.depth))
      BY <1>2, <1>5
    <2>3. Said(a) = u[1]
      BY <1>1, <1>3, <2>2, Speaks
    <2> QED BY <2>1, <2>3
  <1>7. u[1] = t[1] \o (named(key) \o u[L + 1])
    <2>1. SameOpen(O, O, L)
      BY DEF SameOpen
    <2>2. GrownBy(named(key) \o u[L + 1], 1, t, u)
      BY <1>1, <1>4, <1>5, <2>1, AddGrows
    <2> HIDE DEF a, L
    <2> QED BY <2>2 DEF GrownBy
  <1>8. u[L + 1] = << mark(s, type) >>
    <2>1. u[L + 1] = Piece(a.doc, s.as_null, O, u, L + 1)
      BY <1>2, <1>3, <1>5 DEF IsText, Unfolds
    <2>2. a.doc[L + 1].type = type
      BY <1>2 DEF node
    <2>3. mark(s, type) = Shown(s.as_null, type)
      BY DEF mark, Shown
    <2> HIDE DEF a, L, O
    <2>4. Piece(a.doc, s.as_null, O, u, L + 1) = << Shown(s.as_null, type) >>
      BY <2>2, Zenon DEF Piece
    <2> QED BY <2>1, <2>3, <2>4
  <1>9. Said(a) = Said(s) \o named(key) \o << mark(s, type) >>
    <2> DEFINE p == named(key)
               q == << mark(s, type) >>
    <2>1. p \in Seq(Mark)
      BY NamedTyped
    <2>2. q \in Seq(Mark)
      <3>1. 1..Len(a.doc) = 1..(L + 1) /\ u[L + 1] \in Seq(Mark)
        BY <1>2, <1>3, <1>5 DEF IsText
      <3> QED BY <1>8, <3>1
    <2>3. \A x, y, z \in Seq(Mark) : x \o (y \o z) = (x \o y) \o z
      BY JoinAssociative, Zenon
    <2> HIDE DEF p, q, a
    <2>4. Said(s) \o (p \o q) = (Said(s) \o p) \o q
      BY <1>6, <2>1, <2>2, <2>3, Zenon
    <2> QED BY <1>6, <1>7, <1>8, <2>4 DEF p, q
  <1>10. Kinds(a) = Kinds(s)
    <2>1. ASSUME NEW level \in 1..s.depth
          PROVE  a.doc[s.stack[level]].type = s.doc[s.stack[level]].type
      <3>1. s.stack[level] \in 1..L
        BY <1>1, Parts
      <3> QED BY <1>2, <3>1
    <2> HIDE DEF a
    <2> QED BY <1>2, <2>1 DEF Kinds
  <1> QED BY <1>9, <1>10

\* open_container enters the last node taken.
Entered(a) ==
  [a EXCEPT !.stack[a.depth + 1] = Len(a.doc), !.depth = @ + 1, !.elements = @ + 1]

\* The stack is one level higher, and no level below moved.
LEMMA EnteredParts ==
  ASSUME NEW a, Sound(a), a.depth < MAX_DEPTH
  PROVE  LET p == Entered(a)
         IN  /\ p.doc = a.doc /\ p.depth = a.depth + 1 /\ p.elements = a.elements + 1
             /\ p.as_null = a.as_null /\ p.magic = a.magic
             /\ p.status = a.status /\ p.error_field = a.error_field
             /\ p.stack[a.depth + 1] = Len(a.doc)
             /\ \A level \in 1..a.depth : p.stack[level] = a.stack[level]
  <1> DEFINE p == Entered(a)
             d == a.depth
             stack == [a.stack EXCEPT ![d + 1] = Len(a.doc)]
  <1>1. a \in State /\ a.stack \in [1..MAX_DEPTH -> 0..MaxNodes] /\ d \in Nat
    <2>1. a \in State /\ d \in Nat
      BY Parts DEF Sound
    <2> QED BY <2>1 DEF State
  <1>2. p = [a EXCEPT !.stack = stack, !.depth = d + 1, !.elements = a.elements + 1]
    BY <1>1, Zenon DEF State, Entered
  <1>3. /\ p.doc = a.doc /\ p.depth = d + 1 /\ p.elements = a.elements + 1
        /\ p.as_null = a.as_null /\ p.magic = a.magic
        /\ p.status = a.status /\ p.error_field = a.error_field /\ p.stack = stack
    BY <1>1, <1>2, Zenon DEF State
  <1>4. d + 1 \in 1..MAX_DEPTH /\ \A level \in 1..d : level \in 1..MAX_DEPTH /\ level # d + 1
    BY <1>1, WriterAssumption
  <1>5. stack[d + 1] = Len(a.doc) /\ \A level \in 1..d : stack[level] = a.stack[level]
    BY <1>1, <1>4
  <1> HIDE DEF p
  <1> QED BY <1>3, <1>5 DEF p

\* A container entered behind its name: its opening mark ends the text.
LEMMA ContainerSaid ==
  ASSUME NEW s, Good(s), s.depth > 0, s.depth < MAX_DEPTH, Len(s.doc) < MaxNodes,
         NEW key \in AnyKey, NEW type \in Containers
  PROVE  LET p == Entered(member_added(s, key, type))
         IN  /\ Sound(p)
             /\ Said(p) = Said(s) \o named(key) \o << <<"open", type>> >>
             /\ Kinds(p) = Append(Kinds(s), type)
  <1> DEFINE a == member_added(s, key, type)
             p == Entered(a)
             O == Standing(s.stack, s.depth)
             O2 == Standing(p.stack, p.depth)
             L == Len(s.doc)
             d == s.depth
  <1>1. /\ Sound(s) /\ Sound(a) /\ type \in Types
        /\ a.stack = s.stack /\ a.depth = d
    BY Added DEF Good, Types
  <1>2. AddedTo(s, a, key, type)
    BY <1>1, AddedDoc
  <1>3. Sound(p)
    <2>1. /\ a.depth > 0 /\ a.depth < MAX_DEPTH
          /\ a.doc[Len(a.doc)].type \in Containers
          /\ Len(a.doc[top(a)].members) > 0
          /\ a.doc[top(a)].members[Len(a.doc[top(a)].members)].node = Len(a.doc)
      <3>1. top(a) = top(s)
        BY <1>1 DEF top
      <3>2. /\ a.doc[Len(a.doc)].type = type
            /\ Len(a.doc[top(s)].members) > 0
            /\ a.doc[top(s)].members[Len(a.doc[top(s)].members)].node = Len(a.doc)
        BY <1>1, Added
      <3> QED BY <1>1, <3>1, <3>2
    <2> HIDE DEF a
    <2> QED BY <1>1, <2>1, Pushed DEF Entered
  <1> HIDE DEF a
  <1>4. /\ p.doc = a.doc /\ p.depth = d + 1 /\ p.as_null = a.as_null
        /\ p.stack[d + 1] = Len(a.doc)
        /\ \A level \in 1..d : p.stack[level] = s.stack[level]
    BY <1>1, EnteredParts
  <1> HIDE DEF p
  <1>5. /\ Len(a.doc) = L + 1 /\ a.doc[L + 1] = node(type)
        /\ a.doc[top(s)].type = s.doc[top(s)].type
        /\ \A k \in 1..L : k # top(s) => a.doc[k] = s.doc[k]
        /\ a.as_null = s.as_null
    BY <1>2 DEF AddedTo
  <1>6. /\ s.doc # NO_DOC /\ p.doc # NO_DOC /\ L \in Nat /\ L + 1 \in 1..(L + 1)
        /\ d \in Nat /\ d + 1 \in 1..(d + 1)
    <2>1. s.doc # NO_DOC /\ L \in Nat /\ d \in Nat
      BY <1>1, Parts
    <2>2. p.doc # NO_DOC
      BY <1>4, <1>5, <2>1 DEF NO_DOC
    <2> QED BY <2>1, <2>2
  <1>7. PICK t : IsText(t, s.doc, s.as_null, O)
    BY <1>1, <1>6, Speaks
  <1>8. PICK u : IsText(u, p.doc, p.as_null, O2)
    BY <1>3, <1>6, Speaks
  <1>9. Said(s) = t[1] /\ Said(p) = u[1] /\ Said(s) \in Seq(Mark)
    <2>1. Said(s) = t[1] /\ Said(s) \in Seq(Mark)
      BY <1>1, <1>6, <1>7, Speaks
    <2>2. Said(p) = u[1]
      BY <1>3, <1>6, <1>8, Speaks
    <2> QED BY <2>1, <2>2
  <1>10. IsText(u, a.doc, s.as_null, O2)
    BY <1>4, <1>5, <1>8
  <1>11. L + 1 \in O2 /\ SameOpen(O, O2, L)
    <2>1. L + 1 \in O2
      BY <1>4, <1>5, <1>6 DEF Standing
    <2>2. ASSUME NEW n \in 1..L PROVE (n \in O2) <=> (n \in O)
      <3>1. n # L + 1
        BY <1>6
      <3>2. \A level \in 1..(d + 1) : level = d + 1 \/ level \in 1..d
        BY <1>6
      <3>3. 1..d \subseteq 1..(d + 1)
        BY <1>6
      <3>4. ASSUME n \in O2 PROVE n \in O
        <4>1. PICK level \in 1..(d + 1) : p.stack[level] = n
          BY <1>4, <3>4 DEF Standing
        <4>2. level \in 1..d
          BY <1>4, <1>5, <3>1, <3>2, <4>1
        <4> QED BY <1>4, <4>1, <4>2 DEF Standing
      <3>5. ASSUME n \in O PROVE n \in O2
        <4>1. PICK level \in 1..d : s.stack[level] = n
          BY <3>5 DEF Standing
        <4> QED BY <1>4, <3>3, <4>1 DEF Standing
      <3> QED BY <3>4, <3>5
    <2> HIDE DEF O, O2, L
    <2> QED BY <2>1, <2>2 DEF SameOpen
  <1> HIDE DEF O2
  <1>12. u[1] = t[1] \o (named(key) \o u[L + 1])
    <2>1. IsText(u, member_added(s, key, type).doc, s.as_null, O2)
      BY <1>10 DEF a
    <2>2. GrownBy(named(key) \o u[L + 1], 1, t, u)
      BY <1>1, <1>7, <1>11, <2>1, AddGrows
    <2> QED BY <2>2 DEF GrownBy
  <1>13. u[L + 1] = << <<"open", type>> >>
    <2>1. u[L + 1] = Piece(a.doc, s.as_null, O2, u, L + 1)
      BY <1>5, <1>6, <1>10 DEF IsText, Unfolds
    <2>2. a.doc[L + 1].type = type /\ a.doc[L + 1].members = <<>>
      BY <1>5 DEF node
    <2>3. ~(type \in Scalars)
      BY DEF Containers, Scalars
    <2>4. Inner(a.doc, u, L + 1) = <<>>
      <3> DEFINE G(i) == named(a.doc[L + 1].members[i].key) \o u[a.doc[L + 1].members[i].node]
      <3>1. Inner(a.doc, u, L + 1) = [i \in 1..0 |-> G(i)]
        BY <2>2 DEF Inner
      <3> HIDE DEF G
      <3> QED BY <3>1
    <2>5. FlattenSeq(<<>>) = <<>>
      BY DEF FlattenSeq
    <2> HIDE DEF L
    <2>6. Piece(a.doc, s.as_null, O2, u, L + 1) = << <<"open", type>> >> \o <<>> \o <<>>
      BY <1>11, <2>2, <2>3, <2>4, <2>5, Zenon DEF Piece
    <2>7. << <<"open", type>> >> \o <<>> \o <<>> = << <<"open", type>> >>
      OBVIOUS
    <2> QED BY <2>1, <2>6, <2>7
  <1>14. Said(p) = Said(s) \o named(key) \o << <<"open", type>> >>
    <2> DEFINE v == named(key)
               q == << <<"open", type>> >>
    <2>1. v \in Seq(Mark)
      BY NamedTyped
    <2>2. q \in Seq(Mark)
      <3>1. <<"open", type>> \in Mark
        BY <1>1 DEF Mark
      <3> QED BY <3>1
    <2>3. \A x, y, z \in Seq(Mark) : x \o (y \o z) = (x \o y) \o z
      BY JoinAssociative, Zenon
    <2> HIDE DEF v, q
    <2>4. Said(s) \o (v \o q) = (Said(s) \o v) \o q
      BY <1>9, <2>1, <2>2, <2>3, Zenon
    <2> QED BY <1>9, <1>12, <1>13, <2>4 DEF v, q
  <1>15. Kinds(p) = Append(Kinds(s), type)
    <2> DEFINE S == Kinds(s)
               R == Kinds(p)
               A == Append(S, type)
    <2>1. /\ S \in Seq(Containers) /\ Len(S) = d
          /\ \A level \in 1..d : S[level] = s.doc[s.stack[level]].type
      <3>1. \A level \in 1..d : s.doc[s.stack[level]].type \in Containers
        BY <1>1, Parts
      <3> QED BY <1>6, <3>1 DEF Kinds
    <2>2. /\ R \in Seq(Containers) /\ Len(R) = d + 1
          /\ \A level \in 1..(d + 1) : R[level] = p.doc[p.stack[level]].type
      <3>1. \A level \in 1..(d + 1) : p.doc[p.stack[level]].type \in Containers
        BY <1>3, <1>4, Parts
      <3> QED BY <1>4, <1>6, <3>1 DEF Kinds
    <2> HIDE DEF S, R
    <2>3. /\ A \in Seq(Containers) /\ Len(A) = d + 1 /\ A[d + 1] = type
          /\ \A level \in 1..d : A[level] = S[level]
      BY <1>6, <2>1
    <2>4. R[d + 1] = type
      <3>1. R[d + 1] = a.doc[L + 1].type
        BY <1>4, <1>5, <1>6, <2>2
      <3> QED BY <1>5, <3>1 DEF node
    <2>5. ASSUME NEW level \in 1..d PROVE R[level] = S[level]
      <3>1. level \in 1..(d + 1) /\ s.stack[level] \in 1..L
        BY <1>1, <1>6, Parts
      <3>2. R[level] = a.doc[s.stack[level]].type
        BY <1>4, <2>2, <3>1
      <3>3. a.doc[s.stack[level]].type = s.doc[s.stack[level]].type
        BY <1>5, <3>1
      <3> QED BY <2>1, <3>2, <3>3
    <2>6. \A level \in 1..(d + 1) : level = d + 1 \/ level \in 1..d
      BY <1>6
    <2> HIDE DEF A, d
    <2>7. Len(R) = Len(A) /\ \A level \in 1..Len(R) : R[level] = A[level]
      BY <2>2, <2>3, <2>4, <2>5, <2>6
    <2>8. R = A
      BY <2>2, <2>3, <2>7, SameSequence
    <2> QED BY <2>8 DEF R, A, S
  <1> QED BY <1>3, <1>14, <1>15 DEF p, a

\* The levels of a path: so far up, a path itself.
LEMMA PathPrefix ==
  ASSUME NEW doc, NEW stack, NEW depth \in Nat, Path(doc, stack, depth),
         Ascends(stack, depth), NEW k \in 1..depth
  PROVE  Path(doc, stack, k) /\ Ascends(stack, k)
  <1>1. 1..k \subseteq 1..depth /\ 2..k \subseteq 2..depth /\ k # 0 /\ depth # 0 /\ k > 0
        /\ depth > 0
    OBVIOUS
  <1>2. doc # NO_DOC /\ stack[1] = 1
    BY <1>1 DEF Path
  <1> QED BY <1>1, <1>2 DEF Path, Ascends

\* The closing marks of the k innermost containers, innermost first.
Closes(kinds, k) == [i \in 1..k |-> <<"close", kinds[Len(kinds) + 1 - i]>>]

\* Each level given up puts the mark of its container at the end of the text.
LEMMA ClosesGrow ==
  ASSUME NEW s, Good(s), s.depth > 0, NEW k \in 0..s.depth,
         NEW t, NEW u,
         IsText(t, s.doc, s.as_null, Standing(s.stack, s.depth)),
         IsText(u, s.doc, s.as_null, Standing(s.stack, s.depth - k))
  PROVE  u[1] = t[1] \o Closes(Kinds(s), k)
  <1> DEFINE d == s.depth
             doc == s.doc
             stack == s.stack
             as_null == s.as_null
             Q(u_, j) == IsText(u_, doc, as_null, Standing(stack, d - j))
             P == {j \in Nat : j <= d => \A v : Q(v, j) => v[1] = t[1] \o Closes(Kinds(s), j)}
  <1>1. /\ doc \in Seq(Node) /\ Tree(doc) /\ Unique(doc) /\ as_null \in BOOLEAN
        /\ d \in Nat /\ Path(doc, stack, d) /\ Ascends(stack, d) /\ 1 \in 1..Len(doc)
    <2>1. Sound(s) /\ Unique(doc)
      BY DEF Good
    <2>2. doc # NO_DOC
      BY <2>1, Parts
    <2>3. doc \in Seq(Node)
      BY <2>1, Parts
    <2>4. 1 \in 1..Len(doc)
      BY <2>2, <2>3 DEF NO_DOC
    <2> QED BY <2>1, <2>4, Parts
  <1>2. /\ Len(Kinds(s)) = d /\ \A level \in 1..d : Kinds(s)[level] = doc[stack[level]].type
        /\ \A level \in 1..d : doc[stack[level]].type \in Containers
    <2>1. Sound(s)
      BY DEF Good
    <2>2. \A level \in 1..d : doc[stack[level]].type \in Containers
      BY <2>1, Parts
    <2> QED BY <1>1, <2>2 DEF Kinds
  <1>3. ASSUME NEW j, NEW v, Q(v, j) PROVE v[1] \in Seq(Mark)
    BY <1>1, <1>3 DEF IsText
  <1>4. Q(t, 0)
    <2>1. d - 0 = d
      BY <1>1
    <2> QED BY <2>1
  <1> DEFINE kinds == Kinds(s)
  <1>5. \A j \in 0..d : Closes(kinds, j) \in Seq(Mark) /\ Len(Closes(kinds, j)) = j
    <2> SUFFICES ASSUME NEW j \in 0..d
                 PROVE  Closes(kinds, j) \in Seq(Mark) /\ Len(Closes(kinds, j)) = j
      OBVIOUS
    <2>1. ASSUME NEW i \in 1..j PROVE <<"close", kinds[Len(kinds) + 1 - i]>> \in Mark
      <3>1. d + 1 - i \in 1..d
        BY <1>1
      <3>2. kinds[d + 1 - i] \in Types
        <4> HIDE DEF kinds
        <4> QED BY <1>2, <3>1 DEF Types, kinds
      <3> HIDE DEF kinds
      <3> QED BY <1>2, <3>2 DEF Mark, kinds
    <2> HIDE DEF kinds
    <2> DEFINE G(i) == <<"close", kinds[Len(kinds) + 1 - i]>>
    <2>2. j \in Nat /\ Closes(kinds, j) = [i \in 1..j |-> G(i)]
      BY <1>1 DEF Closes
    <2>3. \A i \in 1..j : G(i) \in Mark
      BY <2>1
    <2> HIDE DEF G
    <2> QED BY <2>2, <2>3
  <1> HIDE DEF Q, d, doc, stack, as_null, kinds
  <1>6. 0 \in P
    <2>1. ASSUME NEW v, Q(v, 0) PROVE v[1] = t[1] \o Closes(kinds, 0)
      <3>1. /\ v \in [1..Len(doc) -> Seq(Mark)] /\ Unfolds(v, doc, as_null, Standing(stack, d - 0))
            /\ t \in [1..Len(doc) -> Seq(Mark)] /\ Unfolds(t, doc, as_null, Standing(stack, d - 0))
        BY <1>4, <2>1 DEF Q, IsText
      <3>2. v[1] = t[1]
        BY <1>1, <3>1, TextUnique
      <3>3. Closes(kinds, 0) = <<>>
        BY <1>1, <1>5
      <3>4. t[1] \in Seq(Mark)
        BY <1>3, <1>4
      <3> QED BY <3>2, <3>3, <3>4
    <2> QED BY <2>1 DEF kinds
  <1>7. ASSUME NEW j \in P PROVE j + 1 \in P
    <2>0. j \in Nat /\ j + 1 \in Nat
      BY <1>7
    <2>1. SUFFICES ASSUME j + 1 <= d, NEW v, Q(v, j + 1)
                   PROVE  v[1] = t[1] \o Closes(kinds, j + 1)
      BY <2>0 DEF kinds
    <2> DEFINE e == d - j
               O == Standing(stack, e)
               c == <<"close", doc[stack[e]].type>>
    <2>2. /\ e \in 1..d /\ e \in Nat /\ e > 0 /\ d - (j + 1) = e - 1 /\ j <= d
          /\ j \in 0..d /\ j + 1 \in 0..d /\ (d + 1 - (j + 1) = e)
      BY <1>1, <2>0, <2>1
    <2>3. Path(doc, stack, e) /\ Ascends(stack, e)
      BY <1>1, <2>2, PathPrefix
    <2>4. PICK w : Q(w, j)
      <3>1. \E w : IsText(w, doc, as_null, O)
        <4> HIDE DEF O
        <4> QED BY <1>1, TextExists
      <3> QED BY <3>1 DEF Q
    <2>5. w[1] = t[1] \o Closes(kinds, j)
      BY <1>7, <2>0, <2>2, <2>4 DEF kinds
    <2>6. IsText(w, doc, as_null, Standing(stack, e)) /\ IsText(v, doc, as_null, Standing(stack, e - 1))
      BY <2>1, <2>2, <2>4 DEF Q
    <2> HIDE DEF e
    <2>7. v[1] = w[1] \o << c >>
      <3>1. GrownBy(<< <<"close", doc[stack[e]].type>> >>, 1, w, v)
        BY <1>1, <2>2, <2>3, <2>6, CloseGrows
      <3> QED BY <3>1 DEF GrownBy
    <2>8. Closes(kinds, j + 1) = Closes(kinds, j) \o << c >>
      <3> DEFINE A == Closes(kinds, j)
                 B == Closes(kinds, j + 1)
                 D == A \o << c >>
      <3>1. A \in Seq(Mark) /\ Len(A) = j /\ B \in Seq(Mark) /\ Len(B) = j + 1
        BY <1>5, <2>2
      <3>2. B[j + 1] = c
        <4>1. j + 1 \in 1..(j + 1)
          BY <2>0
        <4>2. B[j + 1] = <<"close", kinds[Len(kinds) + 1 - (j + 1)]>>
          BY <4>1 DEF Closes
        <4>3. Len(kinds) + 1 - (j + 1) = e
          BY <1>2, <2>2 DEF kinds
        <4>4. kinds[e] = doc[stack[e]].type
          BY <1>2, <2>2 DEF kinds
        <4> QED BY <4>2, <4>3, <4>4
      <3>3. \A i \in 1..j : B[i] = A[i]
        <4>1. 1..j \subseteq 1..(j + 1)
          BY <2>0
        <4> QED BY <4>1 DEF Closes
      <3>4. c \in Mark
        <4>1. j + 1 \in 1..(j + 1)
          BY <2>0
        <4> HIDE DEF B, c
        <4> QED BY <3>1, <3>2, <4>1
      <3> HIDE DEF A, B, c
      <3>5. /\ D \in Seq(Mark) /\ Len(D) = j + 1 /\ D[j + 1] = c
            /\ \A i \in 1..j : D[i] = A[i]
        BY <2>0, <3>1, <3>4
      <3>6. \A i \in 1..(j + 1) : i = j + 1 \/ i \in 1..j
        BY <2>0
      <3> HIDE DEF D
      <3>7. Len(B) = Len(D) /\ \A i \in 1..Len(B) : B[i] = D[i]
        BY <3>1, <3>2, <3>3, <3>5, <3>6
      <3>8. B = D
        BY <3>1, <3>5, <3>7, SameSequence
      <3> QED BY <3>8 DEF B, D, A
    <2>9. << c >> \in Seq(Mark)
      <3>1. c \in Mark
        BY <1>2, <2>2 DEF Mark, Types
      <3> HIDE DEF c
      <3> QED BY <3>1
    <2> DEFINE A == Closes(kinds, j)
               q == << c >>
    <2>10. /\ t[1] \in Seq(Mark) /\ A \in Seq(Mark) /\ q \in Seq(Mark)
           /\ v[1] = (t[1] \o A) \o q /\ Closes(kinds, j + 1) = A \o q
      BY <1>3, <1>4, <1>5, <2>2, <2>5, <2>7, <2>8, <2>9
    <2> HIDE DEF A, q
    <2>11. \A x, y, z \in Seq(Mark) : x \o (y \o z) = (x \o y) \o z
      BY JoinAssociative, Zenon
    <2>12. t[1] \o (A \o q) = (t[1] \o A) \o q
      BY <2>10, <2>11
    <2> QED BY <2>10, <2>12
  <1>8. P = Nat
    <2> HIDE DEF P
    <2> QED BY <1>6, <1>7, NatSetInduction, P \in SUBSET Nat DEF P
  <1>9. k \in P
    <2>1. k \in Nat
      BY <1>1 DEF d
    <2> HIDE DEF P
    <2> QED BY <1>8, <2>1
  <1> QED BY <1>1, <1>9 DEF Q, d, doc, stack, as_null

\* Closing steps one level back: the kind on top is given up, and its mark ends
\* the text.
LEMMA ClosedSaid ==
  ASSUME NEW s, Good(s), NEW c, Sound(c), s.depth > 1,
         c.doc = s.doc, c.stack = s.stack, c.as_null = s.as_null, c.depth = s.depth - 1
  PROVE  /\ Said(c) = Append(Said(s), <<"close", Last(Kinds(s))>>)
         /\ Kinds(c) = Front(Kinds(s)) /\ Len(Kinds(s)) > 1
  <1> DEFINE d == s.depth
             K == Kinds(s)
             R == Kinds(c)
  <1>1. Sound(s) /\ d \in Nat /\ s.doc # NO_DOC /\ c.doc # NO_DOC
    BY Parts DEF Good
  <1>2. /\ K \in Seq(Containers) /\ Len(K) = d /\ R \in Seq(Containers) /\ Len(R) = d - 1
        /\ \A level \in 1..(d - 1) : R[level] = K[level]
    <2>1. \A level \in 1..d : s.doc[s.stack[level]].type \in Containers
      BY <1>1, Parts
    <2>2. d - 1 \in Nat /\ 1..(d - 1) \subseteq 1..d
      BY <1>1
    <2> DEFINE G(level) == s.doc[s.stack[level]].type
    <2>3. K = [level \in 1..d |-> G(level)] /\ R = [level \in 1..(d - 1) |-> G(level)]
      BY <2>2 DEF Kinds
    <2>4. \A level \in 1..d : G(level) \in Containers
      BY <2>1
    <2> HIDE DEF G, K, R, d
    <2> QED BY <1>1, <2>2, <2>3, <2>4
  <1> HIDE DEF K, R
  <1>3. R = Front(K)
    <2> DEFINE F == Front(K)
    <2>1. F \in Seq(Containers) /\ Len(F) = d - 1 /\ \A level \in 1..(d - 1) : F[level] = K[level]
      BY <1>1, <1>2 DEF Front
    <2> HIDE DEF F, d
    <2>2. Len(R) = Len(F) /\ \A level \in 1..Len(R) : R[level] = F[level]
      BY <1>2, <2>1
    <2>3. R = F
      BY <1>2, <2>1, <2>2, SameSequence
    <2> QED BY <2>3 DEF F
  <1>4. PICK t : IsText(t, s.doc, s.as_null, Standing(s.stack, d))
    BY <1>1, Speaks
  <1>5. PICK u : IsText(u, s.doc, s.as_null, Standing(s.stack, d - 1))
    BY <1>1, Speaks
  <1>6. Said(s) = t[1] /\ Said(s) \in Seq(Mark)
    BY <1>1, <1>4, Speaks
  <1>7. Said(c) = u[1]
    <2>1. IsText(u, c.doc, c.as_null, Standing(c.stack, c.depth))
      BY <1>5
    <2> QED BY <1>1, <2>1, Speaks
  <1>8. u[1] = t[1] \o Closes(K, 1)
    <2>1. 1 \in 0..s.depth /\ s.depth > 0
      BY <1>1
    <2> QED BY <1>4, <1>5, <2>1, ClosesGrow DEF K
  <1>9. Closes(K, 1) = << <<"close", K[Len(K)]>> >>
    <2>1. Len(K) + 1 - 1 = Len(K)
      BY <1>1, <1>2
    <2> DEFINE m == <<"close", K[Len(K)]>>
    <2>2. Closes(K, 1) = [i \in 1..1 |-> m]
      BY <1>1, <1>2, <2>1 DEF Closes
    <2> HIDE DEF m
    <2>3. Closes(K, 1) = << m >>
      BY <2>2
    <2> QED BY <2>3 DEF m
  <1>10. Said(c) = Append(Said(s), <<"close", K[Len(K)]>>)
    <2> DEFINE m == <<"close", K[Len(K)]>>
    <2> HIDE DEF m
    <2>1. Said(c) = Said(s) \o << m >>
      BY <1>6, <1>7, <1>8, <1>9 DEF m
    <2>2. Said(s) \o << m >> = Append(Said(s), m)
      BY <1>6
    <2> QED BY <2>1, <2>2 DEF m
  <1> QED BY <1>1, <1>2, <1>3, <1>10 DEF Last, K, R

\* A write says what was said, and closes what stands open behind it.
LEMMA AllClosed ==
  ASSUME NEW s, Good(s), s.doc # NO_DOC
  PROVE  laid_down(s, TRUE) = Said(s) \o Closes(Kinds(s), s.depth)
  <1>1. Sound(s) /\ s.depth \in Nat /\ s.depth > 0
    <2>1. Sound(s)
      BY DEF Good
    <2> QED BY <2>1, Parts
  <1> DEFINE O == Standing(s.stack, s.depth)
  <1>2. PICK t : IsText(t, s.doc, s.as_null, O)
    BY <1>1, Speaks
  <1>3. Said(s) = t[1]
    BY <1>1, <1>2, Speaks
  <1>4. Standing(s.stack, s.depth - s.depth) = {}
    BY <1>1 DEF Standing
  <1>5. PICK u : IsText(u, s.doc, s.as_null, {})
    BY <1>1, TextExists, Parts
  <1>6. laid_down(s, TRUE) = u[1]
    <2>1. (IF TRUE THEN {} ELSE O) = {} /\ TRUE \in BOOLEAN
      OBVIOUS
    <2> HIDE DEF O
    <2>2. IsText(u, s.doc, s.as_null, IF TRUE THEN {} ELSE O)
      BY <1>5, <2>1, Zenon
    <2> QED BY <1>1, <2>1, <2>2, LaidDown DEF O
  <1>7. u[1] = t[1] \o Closes(Kinds(s), s.depth)
    <2>1. s.depth \in 0..s.depth /\ IsText(u, s.doc, s.as_null, Standing(s.stack, s.depth - s.depth))
      BY <1>1, <1>4, <1>5
    <2> HIDE DEF O
    <2> QED BY <1>1, <1>2, <2>1, ClosesGrow DEF O
  <1> QED BY <1>3, <1>6, <1>7

-----------------------------------------------------------------------------
(* The count of the elements.                                              *)

NamedNodes(doc) ==
  {n \in 1..Len(doc) : \E m \in 1..Len(doc) : \E i \in 1..Len(doc[m].members) :
     doc[m].members[i].node = n /\ doc[m].members[i].key # NO_KEY}

OpenedNodes(doc) == {n \in (1..Len(doc)) \ {1} : doc[n].type \in Containers}

Weight(doc) == Len(doc) + Cardinality(NamedNodes(doc)) + Cardinality(OpenedNodes(doc))

\* A set with or without one new element.
LEMMA CountOneMore ==
  ASSUME NEW S, IsFiniteSet(S), NEW x, x \notin S, NEW p \in BOOLEAN
  PROVE  /\ Cardinality(S) \in Nat
         /\ Cardinality(IF p THEN S \cup {x} ELSE S) = Cardinality(S) + (IF p THEN 1 ELSE 0)
  <1>1. Cardinality(S) \in Nat
    BY FS_CardinalityType
  <1>2. Cardinality(S \cup {x}) = Cardinality(S) + 1
    BY FS_AddElement
  <1> QED BY <1>1, <1>2

\* Both sets are finite: their members are nodes of the tree.
LEMMA Countable ==
  ASSUME NEW doc, Len(doc) \in Nat
  PROVE  /\ IsFiniteSet(NamedNodes(doc)) /\ IsFiniteSet(OpenedNodes(doc))
         /\ Weight(doc) \in Nat
  <1>1. IsFiniteSet(1..Len(doc))
    BY FS_Interval
  <1>2. NamedNodes(doc) \subseteq 1..Len(doc) /\ OpenedNodes(doc) \subseteq 1..Len(doc)
    BY DEF NamedNodes, OpenedNodes
  <1>3. IsFiniteSet(NamedNodes(doc)) /\ IsFiniteSet(OpenedNodes(doc))
    BY <1>1, <1>2, FS_Subset
  <1>4. Cardinality(NamedNodes(doc)) \in Nat /\ Cardinality(OpenedNodes(doc)) \in Nat
    BY <1>3, FS_CardinalityType
  <1> QED BY <1>3, <1>4 DEF Weight

\* A root alone counts for itself.
LEMMA RootWeighs ==
  ASSUME NEW type
  PROVE  Weight(<< node(type) >>) = 1
  <1> DEFINE doc == << node(type) >>
  <1>1. Len(doc) = 1 /\ doc[1].members = <<>>
    BY DEF node
  <1>2. NamedNodes(doc) = {} /\ OpenedNodes(doc) = {}
    <2> HIDE DEF doc
    <2> QED BY <1>1 DEF NamedNodes, OpenedNodes
  <1> HIDE DEF doc
  <1>3. Weight(doc) = 1
    BY <1>1, <1>2, FS_EmptySet DEF Weight
  <1> QED BY <1>3 DEF doc

\* A member added counts for its value, for its name, and for being entered.
LEMMA AddedWeighs ==
  ASSUME NEW s, Sound(s), s.depth > 0, Len(s.doc) < MaxNodes,
         NEW key \in AnyKey, NEW type \in Types
  PROVE  Weight(member_added(s, key, type).doc)
           = Weight(s.doc) + (IF key = NO_KEY THEN 1 ELSE 2)
               + (IF type \in Containers THEN 1 ELSE 0)
  <1> DEFINE a == member_added(s, key, type)
             n == top(s)
             L == Len(s.doc)
             K == Len(s.doc[n].members)
             doc == s.doc
             doc2 == a.doc
             N == NamedNodes(doc)
             C == OpenedNodes(doc)
             m == [key |-> key, node |-> L + 1]
  <1>1. /\ Len(doc2) = L + 1 /\ doc2[L + 1] = node(type)
        /\ doc2[n].members = Append(doc[n].members, m)
        /\ doc2[n].type = doc[n].type
        /\ \A k \in 1..L : k # n => doc2[k] = doc[k]
    <2>1. AddedTo(s, a, key, type)
      BY AddedDoc
    <2> HIDE DEF a
    <2> QED BY <2>1 DEF AddedTo
  <1>2. /\ doc \in Seq(Node) /\ Tree(doc) /\ L \in Nat
        /\ n \in 1..L
    BY Parts DEF top
  <1>3. K \in Nat /\ \A k \in 1..L : Len(doc[k].members) \in Nat
    BY <1>2, Members
  <1>4. /\ Len(doc2[n].members) = K + 1 /\ doc2[n].members[K + 1] = m
        /\ \A i \in 1..K : doc2[n].members[i] = doc[n].members[i]
    <2> DEFINE ms == doc[n].members
               Member == [key : AnyKey, node : Nat]
    <2>1. ms \in Seq(Member) /\ m \in Member
      <3>1. doc[n] \in Node
        BY <1>2
      <3> QED BY <1>2, <3>1 DEF Node
    <2> HIDE DEF ms, m, Member
    <2>2. Len(Append(ms, m)) = Len(ms) + 1 /\ Append(ms, m)[Len(ms) + 1] = m
          /\ \A i \in 1..Len(ms) : Append(ms, m)[i] = ms[i]
      BY <2>1
    <2> QED BY <1>1, <2>2 DEF ms
  <1>5. doc2[L + 1].type = type /\ Len(doc2[L + 1].members) = 0
    BY <1>1 DEF node
  <1> HIDE DEF a, n, K, doc, doc2
  <1>6. \A k \in 1..(L + 1) : k = L + 1 \/ (k \in 1..L /\ k # L + 1)
    BY <1>2
  <1>7. ASSUME NEW k \in 1..L, NEW i \in 1..Len(doc[k].members)
        PROVE  /\ i \in 1..Len(doc2[k].members)
               /\ doc2[k].members[i] = doc[k].members[i]
    <2>1. CASE k = n
      <3>1. i \in 1..K
        BY <1>7, <2>1 DEF K, doc
      <3> QED BY <1>3, <1>4, <2>1, <3>1
    <2>2. CASE k # n
      BY <1>1, <1>7, <2>2
    <2> QED BY <2>1, <2>2
  <1>8. NamedNodes(doc2) = IF key # NO_KEY THEN N \cup {L + 1} ELSE N
    <2> DEFINE M == NamedNodes(doc2)
    <2>1. ASSUME NEW x \in N PROVE x \in M
      <3>1. PICK k \in 1..L : \E i \in 1..Len(doc[k].members) :
              doc[k].members[i].node = x /\ doc[k].members[i].key # NO_KEY
        BY <2>1 DEF NamedNodes, doc, L
      <3>2. PICK i \in 1..Len(doc[k].members) :
              doc[k].members[i].node = x /\ doc[k].members[i].key # NO_KEY
        BY <3>1
      <3>3. i \in 1..Len(doc2[k].members) /\ doc2[k].members[i] = doc[k].members[i]
        BY <1>7
      <3>4. x \in 1..(L + 1) /\ k \in 1..(L + 1)
        BY <1>2, <2>1 DEF NamedNodes, doc
      <3>5. doc2[k].members[i].node = x /\ doc2[k].members[i].key # NO_KEY
        BY <3>2, <3>3
      <3>6. Len(doc2) = L + 1
        BY <1>1
      <3> QED BY <3>3, <3>4, <3>5, <3>6, Zenon DEF NamedNodes
    <2>2. ASSUME key # NO_KEY PROVE L + 1 \in M
      <3>1. n \in 1..(L + 1) /\ L + 1 \in 1..(L + 1) /\ K + 1 \in 1..Len(doc2[n].members)
        BY <1>2, <1>3, <1>4
      <3>2. doc2[n].members[K + 1].node = L + 1 /\ doc2[n].members[K + 1].key # NO_KEY
        BY <1>4, <2>2
      <3> QED BY <1>1, <3>1, <3>2 DEF NamedNodes
    <2>3. ASSUME NEW x \in M PROVE x \in N \/ (x = L + 1 /\ key # NO_KEY)
      <3>1. PICK k \in 1..(L + 1) : \E i \in 1..Len(doc2[k].members) :
              doc2[k].members[i].node = x /\ doc2[k].members[i].key # NO_KEY
        BY <1>1, <2>3 DEF NamedNodes
      <3>2. PICK i \in 1..Len(doc2[k].members) :
              doc2[k].members[i].node = x /\ doc2[k].members[i].key # NO_KEY
        BY <3>1
      <3>3. k \in 1..L
        BY <1>5, <1>6, <3>2
      <3>4. CASE k = n /\ i = K + 1
        <4>1. doc2[k].members[i] = m
          BY <1>4, <3>4
        <4> QED BY <3>2, <4>1
      <3>5. CASE ~(k = n /\ i = K + 1)
        <4>1. i \in 1..Len(doc[k].members)
          <5>1. CASE k = n
            <6>1. i \in 1..(K + 1) /\ i # K + 1 /\ Len(doc[k].members) = K
              BY <1>4, <3>2, <3>5, <5>1 DEF K, doc
            <6> QED BY <1>3, <6>1
          <5>2. CASE k # n
            BY <1>1, <3>2, <3>3, <5>2
          <5> QED BY <5>1, <5>2
        <4>2. doc[k].members[i].node = x /\ doc[k].members[i].key # NO_KEY
          <5>1. doc2[k].members[i] = doc[k].members[i]
            BY <1>7, <3>3, <4>1
          <5> QED BY <3>2, <5>1
        <4>3. x \in 1..L
          <5>1. doc[k].members[i].node \in 1..Len(doc)
            BY <1>2, <3>3, <4>1, Members DEF doc
          <5> QED BY <4>2, <5>1 DEF doc
        <4> QED BY <3>3, <4>1, <4>2, <4>3 DEF NamedNodes, doc, L
      <3> QED BY <3>4, <3>5
    <2> HIDE DEF M, N
    <2> QED BY <2>1, <2>2, <2>3 DEF M
  <1>9. OpenedNodes(doc2) = IF type \in Containers THEN C \cup {L + 1} ELSE C
    <2>1. L + 1 # 1 /\ \A k \in 1..L : doc2[k].type = doc[k].type
      BY <1>1, <1>2
    <2>2. \A k : k \in 1..(L + 1) <=> (k \in 1..L \/ k = L + 1)
      BY <1>2
    <2>3. Len(doc2) = L + 1 /\ Len(doc) = L
      BY <1>1 DEF doc
    <2> HIDE DEF L
    <2> QED BY <1>5, <2>1, <2>2, <2>3 DEF OpenedNodes
  <1>10. /\ IsFiniteSet(N) /\ IsFiniteSet(C) /\ L + 1 \notin N /\ L + 1 \notin C
    <2>1. Len(doc) \in Nat /\ Len(doc) = L
      BY <1>2 DEF doc
    <2>2. N \subseteq 1..L /\ C \subseteq 1..L
      BY <2>1 DEF NamedNodes, OpenedNodes
    <2>3. L + 1 \notin 1..L
      BY <1>2
    <2> QED BY <2>1, <2>2, <2>3, Countable
  <1> HIDE DEF N, C
  <1>11. /\ Cardinality(N) \in Nat
         /\ Cardinality(NamedNodes(doc2)) = Cardinality(N) + (IF key # NO_KEY THEN 1 ELSE 0)
    <2>1. (key # NO_KEY) \in BOOLEAN
      OBVIOUS
    <2> QED BY <1>8, <1>10, <2>1, CountOneMore
  <1>12. /\ Cardinality(C) \in Nat
         /\ Cardinality(OpenedNodes(doc2))
              = Cardinality(C) + (IF type \in Containers THEN 1 ELSE 0)
    <2>1. (type \in Containers) \in BOOLEAN
      OBVIOUS
    <2> QED BY <1>9, <1>10, <2>1, CountOneMore
  <1>13. Weight(doc) = L + Cardinality(N) + Cardinality(C)
    BY DEF Weight, N, C, L, doc
  <1>14. Weight(doc2) = Weight(doc) + (IF key = NO_KEY THEN 1 ELSE 2)
                          + (IF type \in Containers THEN 1 ELSE 0)
    <2> HIDE DEF L
    <2> DEFINE x == Cardinality(N)
               y == Cardinality(C)
               x2 == Cardinality(NamedNodes(doc2))
               y2 == Cardinality(OpenedNodes(doc2))
    <2>1. Weight(doc2) = L + 1 + x2 + y2
      BY <1>1 DEF Weight
    <2> HIDE DEF x, y, x2, y2
    <2> QED BY <1>2, <1>11, <1>12, <1>13, <2>1 DEF x, y, x2, y2
  <1> QED BY <1>14 DEF a, doc, doc2

-----------------------------------------------------------------------------
(* What a call may do, seen from the text.                                 *)

\* The count is that of the tree, and no error has a field.
Counted(s) == s.doc # NO_DOC => s.elements = Weight(s.doc)

Clean(s) == s.status = SUCCESS => s.error_field = NONE

Fine(s) == Good(s) /\ Counted(s) /\ Clean(s)

Faulty  == [status : Statuses \ {SUCCESS}, field : Fields]
NoFault == [status |-> SUCCESS, field |-> NONE]

StartedKinds(s) == IF Kinds(s) = <<>> THEN <<"object">> ELSE Kinds(s)
StartedSaid(s)  == IF Kinds(s) = <<>> THEN << <<"open", "object">> >> ELSE Said(s)

Same(s, r) == Kinds(r) = Kinds(s) /\ Said(r) = Said(s)

FitsIn(s, key) == (Last(StartedKinds(s)) = "object") <=> (key # NO_KEY)

AsIgnored(s, r) == Fault(r) = Fault(s) /\ Same(s, r)

AsRefused(s, r) ==
  /\ Fault(s) = NoFault /\ Fault(r) \in Faulty
  /\ \/ Same(s, r)
     \/ Kinds(r) = StartedKinds(s) /\ Said(r) = StartedSaid(s)

AsPut(s, r, key, value) ==
  /\ Fault(s) = NoFault /\ Fault(r) = Fault(s) /\ FitsIn(s, key)
  /\ Kinds(r) = StartedKinds(s)
  /\ Said(r) = StartedSaid(s) \o named(key) \o << <<"value", value>> >>

AsOpened(s, r, key, type) ==
  /\ Fault(s) = NoFault /\ Fault(r) = Fault(s) /\ FitsIn(s, key)
  /\ Kinds(r) = Append(StartedKinds(s), type)
  /\ Said(r) = StartedSaid(s) \o named(key) \o << <<"open", type>> >>

\* a value put, or refused
Accepts(s, r, key) == AsRefused(s, r) \/ \E value \in Scalars : AsPut(s, r, key, value)

\* A writer with a document has something open.
LEMMA SomethingOpen ==
  ASSUME NEW s, Sound(s), s.doc # NO_DOC
  PROVE  /\ s.depth > 0 /\ Len(Kinds(s)) = s.depth /\ Kinds(s) # <<>>
         /\ Last(Kinds(s)) = s.doc[top(s)].type
         /\ StartedKinds(s) = Kinds(s) /\ StartedSaid(s) = Said(s)
  <1>1. s.depth \in Nat /\ s.depth > 0
    BY Parts
  <1> DEFINE G(level) == s.doc[s.stack[level]].type
  <1>2. Kinds(s) = [level \in 1..s.depth |-> G(level)] /\ G(s.depth) = s.doc[top(s)].type
    BY DEF Kinds, top
  <1> HIDE DEF G
  <1>3. Len(Kinds(s)) = s.depth /\ Kinds(s) # <<>> /\ Kinds(s)[s.depth] = G(s.depth)
    BY <1>1, <1>2
  <1> QED BY <1>1, <1>2, <1>3 DEF Last, StartedKinds, StartedSaid

\* A writer without a document has said nothing, and a field starts an object.
LEMMA NothingOpen ==
  ASSUME NEW s, Sound(s), s.doc = NO_DOC
  PROVE  /\ Kinds(s) = <<>> /\ Said(s) = <<>> /\ StartedKinds(s) = <<"object">>
         /\ StartedSaid(s) = << <<"open", "object">> >>
  BY Silent, Parts DEF StartedKinds, StartedSaid

\* record_error on a writer without an error.
LEMMA RecordedParts ==
  ASSUME NEW s, s \in State, s.status = SUCCESS, NEW result, NEW f
  PROVE  LET r == record_error(s, result, f)
         IN  /\ r.doc = s.doc /\ r.stack = s.stack /\ r.depth = s.depth
             /\ r.as_null = s.as_null /\ r.elements = s.elements
             /\ r.status = result /\ r.error_field = f
  <1> DEFINE r == [s EXCEPT !.status = result, !.error_field = f]
  <1>1. record_error(s, result, f) = r
    BY DEF record_error
  <1>2. /\ r.doc = s.doc /\ r.stack = s.stack /\ r.depth = s.depth
        /\ r.as_null = s.as_null /\ r.elements = s.elements
        /\ r.status = result /\ r.error_field = f
    BY Zenon DEF State
  <1> HIDE DEF r
  <1> QED BY <1>1, <1>2

\* A refusal recorded leaves the text as it is.
LEMMA RecordedFine ==
  ASSUME NEW s, Fine(s), s.status = SUCCESS,
         NEW result \in Statuses \ {SUCCESS}, NEW f \in Fields
  PROVE  Fine(record_error(s, result, f)) /\ AsRefused(s, record_error(s, result, f))
  <1> DEFINE r == record_error(s, result, f)
  <1>1. Sound(s) /\ s \in State /\ Unique(s.doc) /\ Keyed(s.doc) /\ Counted(s) /\ Clean(s)
    BY DEF Fine, Good, Sound
  <1>2. /\ r.doc = s.doc /\ r.stack = s.stack /\ r.depth = s.depth
        /\ r.as_null = s.as_null /\ r.elements = s.elements
        /\ r.status = result /\ r.error_field = f
    BY <1>1, RecordedParts
  <1>3. Sound(r)
    BY <1>1, Recorded
  <1> HIDE DEF r
  <1>4. Fine(r)
    BY <1>1, <1>2, <1>3 DEF Fine, Good, Counted, Clean
  <1>5. Same(s, r)
    BY <1>1, <1>2, <1>3, SaysTheSame DEF Same
  <1>6. Fault(s) = NoFault
    BY <1>1 DEF Fault, NoFault, Clean
  <1>7. Fault(r) \in Faulty
    BY <1>2 DEF Fault, Faulty
  <1>8. AsRefused(s, r)
    BY <1>5, <1>6, <1>7 DEF AsRefused
  <1> QED BY <1>4, <1>8 DEF r

\* A root begun: nothing but itself, and no error.
Rooted(s, r, type) ==
  /\ Fine(r) /\ r.status = SUCCESS /\ r.doc # NO_DOC /\ r.depth = 1
  /\ Kinds(r) = << type >> /\ Said(r) = << <<"open", type>> >>

\* Nothing begun: no document, and the error that the memory gave out.
Unrooted(r) ==
  Fine(r) /\ r.doc = NO_DOC /\ Fault(r) \in Faulty /\ Kinds(r) = <<>> /\ Said(r) = <<>>

\* begin_document in both its outcomes.
LEMMA BegunFine ==
  ASSUME NEW s, Sound(s), NEW type \in Containers, NEW draws \in Nat
  PROVE  LET r == begin_document(s, type, draws)
         IN  IF draws < 2 THEN Unrooted(r) ELSE Rooted(s, r, type)
  <1> DEFINE r == begin_document(s, type, draws)
             clean == [dispose_document(s) EXCEPT !.status = SUCCESS, !.error_field = NONE]
             began == [clean EXCEPT !.doc = << node(type) >>, !.stack[1] = 1, !.depth = 1,
                                    !.elements = 1]
  <1>1. Sound(clean) /\ clean \in State /\ Sound(r)
    BY Disposed, Cleared, Begun DEF Sound
  <1>2. /\ clean.doc = NO_DOC /\ clean.depth = 0 /\ clean.status = SUCCESS
        /\ clean.error_field = NONE
    <2>1. s \in State
      BY DEF Sound
    <2> QED BY <2>1, Zenon DEF dispose_document, State
  <1> HIDE DEF clean
  <1>3. ASSUME draws < 2 PROVE Unrooted(r)
    <2>1. r = record_error(clean, OUT_OF_MEMORY, NONE)
      BY <1>3 DEF begin_document, clean
    <2>2. r.doc = NO_DOC /\ r.depth = 0 /\ r.status = OUT_OF_MEMORY /\ r.error_field = NONE
      BY <1>1, <1>2, <2>1, RecordedParts
    <2> HIDE DEF r
    <2>3. OUT_OF_MEMORY \in Statuses \ {SUCCESS} /\ NONE \in Fields
      BY DEF Statuses, Results, Fields, OUT_OF_MEMORY, SUCCESS
    <2>4. Unique(r.doc) /\ Keyed(r.doc)
      BY <2>2 DEF Unique, Keyed, NO_DOC
    <2>5. Fine(r)
      BY <1>1, <2>2, <2>3, <2>4 DEF Fine, Good, Counted, Clean
    <2>6. Fault(r) \in Faulty
      BY <2>2, <2>3 DEF Fault, Faulty
    <2> QED BY <2>2, <2>5, <2>6, Silent DEF Unrooted
  <1>4. ASSUME ~(draws < 2) PROVE Rooted(s, r, type)
    <2>1. r = began
      BY <1>4 DEF begin_document, clean
    <2>2. /\ r.doc = << node(type) >> /\ r.depth = 1 /\ r.status = SUCCESS
          /\ r.error_field = NONE /\ r.elements = 1
      BY <1>1, <1>2, <2>1, Zenon DEF State
    <2> HIDE DEF r, began
    <2>3. Len(r.doc) = 1 /\ r.doc[1].members = <<>> /\ r.doc # NO_DOC
      BY <2>2 DEF node, NO_DOC
    <2>4. Unique(r.doc) /\ Keyed(r.doc)
      BY <2>3 DEF Unique, Keyed
    <2>5. Counted(r)
      BY <2>2, RootWeighs DEF Counted
    <2>6. Fine(r)
      BY <1>1, <2>2, <2>4, <2>5 DEF Fine, Good, Clean
    <2>7. Said(r) = << <<"open", type>> >> /\ Kinds(r) = << type >>
      BY <1>1, <2>2, RootSays
    <2> QED BY <2>2, <2>3, <2>6, <2>7 DEF Rooted
  <1> QED BY <1>3, <1>4

\* o is s with the document a field needs: its own, or an object begun for it.
Ready(s, o) ==
  /\ Fine(o) /\ o.status = SUCCESS /\ o.doc # NO_DOC
  /\ Fault(s) = NoFault
  /\ Kinds(o) = StartedKinds(s) /\ Said(o) = StartedSaid(s)
  /\ s.depth < MAX_DEPTH => o.depth < MAX_DEPTH

\* The first field opens its object, or is refused with it.
LEMMA StartedFine ==
  ASSUME NEW s, Fine(s), s.status = SUCCESS, NEW draws \in Nat
  PROVE  LET o == started(s, draws)
         IN  /\ left(s, draws) \in Nat
             /\ o.doc # NO_DOC => Ready(s, o)
             /\ o.doc = NO_DOC => Fine(o) /\ AsRefused(s, o)
  <1> DEFINE o == started(s, draws)
  <1>1. Sound(s) /\ Fault(s) = NoFault
    BY DEF Fine, Good, Clean, Fault, NoFault
  <1>2. left(s, draws) \in Nat
    BY <1>1, Started
  <1>3. CASE s.doc # NO_DOC
    <2>1. o = s
      BY <1>3 DEF started
    <2>2. Kinds(s) = StartedKinds(s) /\ Said(s) = StartedSaid(s)
      BY <1>1, <1>3, SomethingOpen
    <2> HIDE DEF o
    <2>3. o.doc # NO_DOC /\ Ready(s, o)
      BY <1>1, <1>3, <2>1, <2>2 DEF Ready
    <2> QED BY <1>2, <2>3 DEF o
  <1>4. CASE s.doc = NO_DOC
    <2>1. o = begin_document(s, "object", draws) /\ "object" \in Containers
      BY <1>4 DEF started, Containers
    <2>2. /\ Kinds(s) = <<>> /\ Said(s) = <<>> /\ StartedKinds(s) = <<"object">>
          /\ StartedSaid(s) = << <<"open", "object">> >>
      BY <1>1, <1>4, NothingOpen
    <2>3. CASE draws < 2
      <3>1. Unrooted(o)
        BY <1>1, <2>1, <2>3, BegunFine
      <3> HIDE DEF o
      <3>2. Fine(o) /\ o.doc = NO_DOC /\ AsRefused(s, o)
        BY <1>1, <2>2, <3>1 DEF Unrooted, AsRefused, Same
      <3> QED BY <1>2, <3>2 DEF o
    <2>4. CASE ~(draws < 2)
      <3>1. Rooted(s, o, "object")
        BY <1>1, <2>1, <2>4, BegunFine
      <3>2. 1 < MAX_DEPTH
        BY WriterAssumption
      <3> HIDE DEF o
      <3>3. o.doc # NO_DOC /\ Ready(s, o)
        BY <1>1, <2>2, <3>1, <3>2 DEF Rooted, Ready
      <3> QED BY <1>2, <3>3 DEF o
    <2> QED BY <2>3, <2>4
  <1> QED BY <1>3, <1>4

\* What the text accepts once the object is begun, it accepts without one.
LEMMA AcceptsOf ==
  ASSUME NEW s, NEW o, NEW r, NEW key, Ready(s, o), Accepts(o, r, key)
  PROVE  Accepts(s, r, key)
  <1>1. /\ Kinds(o) = StartedKinds(s) /\ Said(o) = StartedSaid(s)
        /\ StartedKinds(o) = Kinds(o) /\ StartedSaid(o) = Said(o)
        /\ Fault(o) = NoFault /\ Fault(s) = NoFault
    <2>1. Sound(o) /\ o.doc # NO_DOC
      BY DEF Ready, Fine, Good
    <2> QED BY <2>1, SomethingOpen DEF Ready, Fine, Clean, Fault, NoFault
  <1>2. CASE AsRefused(o, r)
    BY <1>1, <1>2 DEF AsRefused, Same, Accepts
  <1>3. ASSUME NEW value \in Scalars, AsPut(o, r, key, value)
        PROVE  AsPut(s, r, key, value)
    BY <1>1, <1>3 DEF AsPut, FitsIn
  <1> QED BY <1>2, <1>3 DEF Accepts

\* A member hung on the container on top: what is left to say of the state.
LEMMA MemberFine ==
  ASSUME NEW o, Fine(o), o.status = SUCCESS, o.depth > 0, Len(o.doc) < MaxNodes,
         NEW key \in AnyKey, NEW type \in Types,
         (key = NO_KEY) <=> (o.doc[top(o)].type = "array")
  PROVE  LET a == member_added(o, key, type)
         IN  /\ Good(a) /\ a.status = SUCCESS /\ Clean(a) /\ Fault(a) = Fault(o)
             /\ a.depth = o.depth /\ a.doc # NO_DOC
             /\ a.elements + (IF type \in Containers THEN 1 ELSE 0) = Weight(a.doc)
  <1> DEFINE a == member_added(o, key, type)
  <1>1. Good(o) /\ Sound(o) /\ Counted(o) /\ Clean(o) /\ o.doc # NO_DOC /\ o.elements \in Nat
    <2>1. Sound(o) /\ Good(o) /\ Counted(o) /\ Clean(o)
      BY DEF Fine, Good
    <2>2. o.depth \in Nat /\ o.elements \in Nat /\ ((o.doc = NO_DOC) <=> (o.depth = 0))
      BY <2>1, Parts
    <2> QED BY <2>1, <2>2
  <1>2. Good(a)
    BY <1>1, AddedGood
  <1>3. /\ a.depth = o.depth /\ a.status = o.status /\ a.error_field = o.error_field
        /\ a.elements = o.elements + (IF key = NO_KEY THEN 1 ELSE 2)
        /\ Len(a.doc) = Len(o.doc) + 1
    <2>1. AddedTo(o, a, key, type)
      BY <1>1, AddedDoc
    <2> HIDE DEF a
    <2> QED BY <2>1 DEF AddedTo
  <1>4. Weight(a.doc) = Weight(o.doc) + (IF key = NO_KEY THEN 1 ELSE 2)
                          + (IF type \in Containers THEN 1 ELSE 0)
    BY <1>1, AddedWeighs
  <1> HIDE DEF a
  <1>5. a.doc # NO_DOC
    <2>1. Len(o.doc) \in Nat
      BY <1>1, Parts
    <2> QED BY <1>3, <2>1 DEF NO_DOC
  <1>6. Weight(o.doc) = o.elements
    BY <1>1 DEF Counted
  <1>7. a.elements + (IF type \in Containers THEN 1 ELSE 0) = Weight(a.doc)
    BY <1>1, <1>3, <1>4, <1>6
  <1>8. Clean(a) /\ Fault(a) = Fault(o)
    BY <1>1, <1>3 DEF Clean, Fault
  <1> QED BY <1>2, <1>3, <1>5, <1>7, <1>8 DEF a

\* refusal() lets through what fits the container on top while the pool has a
\* node; what it turns away has an error and a name.
LEMMA RefusalMeans ==
  ASSUME NEW o, Fine(o), o.depth > 0, NEW key \in AnyKey, NEW draws \in Nat
  PROVE  LET no == refusal(o, key, draws)
         IN  /\ no.field \in Fields
             /\ no.result # SUCCESS => no.result \in Statuses \ {SUCCESS}
             /\ no.result = SUCCESS =>
                  /\ Len(o.doc) < MaxNodes
                  /\ (key = NO_KEY) <=> (o.doc[top(o)].type = "array")
  <1> DEFINE no == refusal(o, key, draws)
  <1>1. no.result \in Statuses /\ no.field \in Fields /\ (no.result = SUCCESS => Len(o.doc) # MaxNodes)
    BY Refused
  <1>2. /\ Len(o.doc) \in Nat /\ Len(o.doc) <= MaxNodes
        /\ o.doc[top(o)].type \in {"object", "array"}
    <2>1. Sound(o)
      BY DEF Fine, Good
    <2>2. o.depth \in 1..o.depth
      BY <2>1, Parts
    <2>3. o.doc[o.stack[o.depth]].type \in Containers
      BY <2>1, <2>2, Parts
    <2>4. Len(o.doc) \in Nat /\ Tree(o.doc)
      BY <2>1, Parts
    <2> QED BY <2>3, <2>4 DEF top, Containers, Tree
  <1>3. no.result = SUCCESS => ((key = NO_KEY) <=> (o.doc[top(o)].type = "array"))
    <2>1. INVALID_PARAM # SUCCESS
      BY DEF INVALID_PARAM, SUCCESS
    <2>2. o.depth # 0
      BY DEF Fine
    <2> QED BY <1>2, <2>1, <2>2 DEF refusal
  <1>4. Len(o.doc) # MaxNodes => Len(o.doc) < MaxNodes
    BY <1>2, WriterAssumption
  <1> HIDE DEF no
  <1> QED BY <1>1, <1>3, <1>4 DEF no

\* field() on an open document, for a value.
LEMMA OnOpen ==
  ASSUME NEW o, Fine(o), o.status = SUCCESS, o.doc # NO_DOC, NEW key \in AnyKey,
         NEW type \in Scalars, NEW draws \in Nat
  PROVE  LET no == refusal(o, key, draws)
             r  == IF no.result # SUCCESS THEN record_error(o, no.result, no.field)
                   ELSE member_added(o, key, type)
         IN  Fine(r) /\ Accepts(o, r, key)
  <1> DEFINE no == refusal(o, key, draws)
             a == member_added(o, key, type)
             v == IF type = "nonfinite" /\ o.as_null THEN "plain" ELSE type
  <1>1. Good(o) /\ Sound(o) /\ o.depth > 0 /\ type \in Types /\ type \notin Containers
    BY SomethingOpen DEF Fine, Good, Types, Containers, Scalars
  <1>2. CASE no.result # SUCCESS
    <2>1. no.result \in Statuses \ {SUCCESS} /\ no.field \in Fields
      BY <1>1, <1>2, RefusalMeans
    <2> HIDE DEF no
    <2>2. /\ Fine(record_error(o, no.result, no.field))
          /\ AsRefused(o, record_error(o, no.result, no.field))
      BY <2>1, RecordedFine
    <2> QED BY <1>2, <2>2 DEF Accepts, no
  <1>3. CASE no.result = SUCCESS
    <2>1. Len(o.doc) < MaxNodes /\ ((key = NO_KEY) <=> (o.doc[top(o)].type = "array"))
      BY <1>1, <1>3, RefusalMeans
    <2>2. /\ Good(a) /\ Clean(a) /\ Fault(a) = Fault(o) /\ a.doc # NO_DOC
          /\ a.elements + 0 = Weight(a.doc)
      BY <1>1, <2>1, MemberFine
    <2>3. Said(a) = Said(o) \o named(key) \o << mark(o, type) >> /\ Kinds(a) = Kinds(o)
      BY <1>1, <2>1, ValueSaid
    <2>4. a.elements \in Nat
      BY <2>2, Parts DEF Good
    <2>5. Last(Kinds(o)) = o.doc[top(o)].type /\ Kinds(o) = StartedKinds(o) /\ Said(o) = StartedSaid(o)
      BY <1>1, SomethingOpen
    <2>6. o.doc[top(o)].type \in {"object", "array"}
      <3>1. o.depth \in 1..o.depth
        BY <1>1, Parts
      <3> QED BY <1>1, <3>1, Parts DEF top, Containers
    <2> HIDE DEF a, no
    <2>7. Fine(a)
      BY <2>2, <2>4 DEF Fine, Counted
    <2>8. mark(o, type) = <<"value", v>> /\ v \in Scalars
      BY DEF mark, Scalars
    <2>9. FitsIn(o, key) /\ Fault(o) = NoFault
      BY <2>1, <2>5, <2>6 DEF FitsIn, Fine, Clean, Fault, NoFault
    <2> HIDE DEF v
    <2>10. AsPut(o, a, key, v)
      BY <2>2, <2>3, <2>5, <2>8, <2>9 DEF AsPut
    <2> QED BY <1>3, <2>7, <2>8, <2>10 DEF Accepts, a, no
  <1> QED BY <1>2, <1>3

\* field() without an error: a value at the end, or a refusal.
LEMMA FieldFine ==
  ASSUME NEW s, Fine(s), s.status = SUCCESS, NEW key \in AnyKey, NEW type \in Scalars,
         NEW draws \in Nat
  PROVE  Fine(field(s, key, type, draws)) /\ Accepts(s, field(s, key, type, draws), key)
  <1> DEFINE o == started(s, draws)
             d == left(s, draws)
             no == refusal(o, key, d)
             r == IF no.result # SUCCESS THEN record_error(o, no.result, no.field)
                  ELSE member_added(o, key, type)
             f == field(s, key, type, draws)
  <1>1. /\ d \in Nat /\ (o.doc # NO_DOC => Ready(s, o))
        /\ (o.doc = NO_DOC => Fine(o) /\ AsRefused(s, o))
    BY StartedFine
  <1>2. f = IF o.doc = NO_DOC THEN o ELSE r
    BY Zenon DEF field
  <1> HIDE DEF f, o, d
  <1>3. CASE o.doc = NO_DOC
    BY <1>1, <1>2, <1>3 DEF Accepts, f
  <1>4. CASE o.doc # NO_DOC
    <2>1. Ready(s, o) /\ Fine(o) /\ o.status = SUCCESS
      BY <1>1, <1>4 DEF Ready
    <2>2. Fine(r) /\ Accepts(o, r, key)
      BY <1>1, <1>4, <2>1, OnOpen
    <2> HIDE DEF r
    <2>3. Accepts(s, r, key)
      BY <2>1, <2>2, AcceptsOf
    <2> QED BY <1>2, <1>4, <2>2, <2>3 DEF f
  <1> QED BY <1>3, <1>4 DEF f

\* The text drawn first, the field behind it.
LEMMA TextFine ==
  ASSUME NEW s, Fine(s), s.status = SUCCESS, NEW key \in AnyKey, NEW draws \in Nat
  PROVE  Fine(field_of_text(s, key, draws)) /\ Accepts(s, field_of_text(s, key, draws), key)
  <1> DEFINE o == started(s, draws)
             d == left(s, draws)
             x == record_error(o, OUT_OF_MEMORY, field_name(key))
             y == field(o, key, "plain", d - 1)
             f == field_of_text(s, key, draws)
  <1>1. /\ d \in Nat /\ (o.doc # NO_DOC => Ready(s, o))
        /\ (o.doc = NO_DOC => Fine(o) /\ AsRefused(s, o))
    BY StartedFine
  <1>2. f = IF o.doc = NO_DOC THEN o ELSE IF d = 0 THEN x ELSE y
    BY Zenon DEF field_of_text
  <1> HIDE DEF f, o, d
  <1>3. CASE o.doc = NO_DOC
    BY <1>1, <1>2, <1>3 DEF Accepts, f
  <1>4. CASE o.doc # NO_DOC /\ d = 0
    <2>1. Ready(s, o) /\ Fine(o) /\ o.status = SUCCESS
      BY <1>1, <1>4 DEF Ready
    <2>2. OUT_OF_MEMORY \in Statuses \ {SUCCESS} /\ field_name(key) \in Fields
      BY NamesField DEF Statuses, Results, OUT_OF_MEMORY, SUCCESS
    <2>3. Fine(x) /\ AsRefused(o, x)
      BY <2>1, <2>2, RecordedFine
    <2> HIDE DEF x
    <2>4. Accepts(s, x, key)
      BY <2>1, <2>3, AcceptsOf DEF Accepts
    <2> QED BY <1>2, <1>4, <2>3, <2>4 DEF f
  <1>5. CASE o.doc # NO_DOC /\ d # 0
    <2>1. Ready(s, o) /\ Fine(o) /\ o.status = SUCCESS
      BY <1>1, <1>5 DEF Ready
    <2>2. d - 1 \in Nat /\ "plain" \in Scalars
      BY <1>1, <1>5 DEF Scalars
    <2>3. Fine(y) /\ Accepts(o, y, key)
      BY <2>1, <2>2, FieldFine
    <2> HIDE DEF y
    <2>4. Accepts(s, y, key)
      BY <2>1, <2>3, AcceptsOf
    <2> QED BY <1>2, <1>5, <2>3, <2>4 DEF f
  <1> QED BY <1>3, <1>4, <1>5 DEF f

\* The hex and base64 adders.
LEMMA EncodedFine ==
  ASSUME NEW s, Fine(s), s.status = SUCCESS, NEW key \in AnyKey, NEW size, NEW max,
         NEW draws \in Nat
  PROVE  /\ Fine(encoded(s, key, size, max, draws))
         /\ Accepts(s, encoded(s, key, size, max, draws), key)
  <1> DEFINE x == record_error(s, RESOURCE_SIZE_EXCEED, field_name(key))
  <1>1. /\ RESOURCE_SIZE_EXCEED \in Statuses \ {SUCCESS} /\ field_name(key) \in Fields
        /\ "plain" \in Scalars
    BY NamesField DEF Statuses, RESOURCE_SIZE_EXCEED, SUCCESS, Scalars
  <1>2. Fine(x) /\ Accepts(s, x, key)
    BY <1>1, RecordedFine DEF Accepts
  <1> HIDE DEF x
  <1>3. CASE size = 0
    BY <1>1, <1>3, FieldFine DEF encoded
  <1>4. CASE size # 0 /\ size > max
    BY <1>2, <1>4 DEF encoded, x
  <1>5. CASE size # 0 /\ ~(size > max)
    BY <1>5, TextFine DEF encoded
  <1> QED BY <1>3, <1>4, <1>5

\* open_container on an open document.
LEMMA Entering ==
  ASSUME NEW o, Fine(o), o.status = SUCCESS, o.doc # NO_DOC, o.depth < MAX_DEPTH,
         Len(o.doc) < MaxNodes, NEW key \in AnyKey, NEW type \in Containers,
         (key = NO_KEY) <=> (o.doc[top(o)].type = "array")
  PROVE  LET p == Entered(member_added(o, key, type))
         IN  Fine(p) /\ AsOpened(o, p, key, type)
  <1> DEFINE a == member_added(o, key, type)
             p == Entered(a)
  <1>1. /\ Good(o) /\ Sound(o) /\ o.depth > 0 /\ type \in Types
        /\ Last(Kinds(o)) = o.doc[top(o)].type
        /\ Kinds(o) = StartedKinds(o) /\ Said(o) = StartedSaid(o)
    BY SomethingOpen DEF Fine, Good, Types
  <1>2. /\ Good(a) /\ a.status = SUCCESS /\ Clean(a) /\ Fault(a) = Fault(o)
        /\ a.depth = o.depth /\ a.doc # NO_DOC /\ a.elements + 1 = Weight(a.doc)
    BY <1>1, MemberFine
  <1>3. Sound(p) /\ Said(p) = Said(o) \o named(key) \o << <<"open", type>> >>
        /\ Kinds(p) = Append(Kinds(o), type)
    BY <1>1, ContainerSaid
  <1>4. /\ p.doc = a.doc /\ p.elements = a.elements + 1
        /\ p.status = a.status /\ p.error_field = a.error_field
    BY <1>2, EnteredParts DEF Good
  <1>5. o.doc[top(o)].type \in {"object", "array"}
    <2>1. o.depth \in 1..o.depth
      BY <1>1, Parts
    <2> QED BY <1>1, <2>1, Parts DEF top, Containers
  <1> HIDE DEF a, p
  <1>6. Fine(p)
    BY <1>2, <1>3, <1>4 DEF Fine, Good, Counted, Clean
  <1>7. Fault(p) = Fault(o) /\ Fault(o) = NoFault
    BY <1>2, <1>4 DEF Fault, NoFault, Fine, Clean
  <1>8. FitsIn(o, key)
    BY <1>1, <1>5 DEF FitsIn
  <1>9. AsOpened(o, p, key, type)
    BY <1>1, <1>3, <1>7, <1>8 DEF AsOpened
  <1> QED BY <1>6, <1>9 DEF a, p

\* open_container: entered, or refused before or by the field.
LEMMA OpenedFine ==
  ASSUME NEW s, Fine(s), s.status = SUCCESS, NEW key \in AnyKey, NEW type \in Containers,
         NEW draws \in Nat
  PROVE  LET r == opened(s, key, type, draws)
         IN  Fine(r) /\ (AsRefused(s, r) \/ AsOpened(s, r, key, type))
  <1> DEFINE o == started(s, draws)
             d == left(s, draws)
             no == refusal(o, key, d)
             x == record_error(s, EXHAUSTED, field_name(key))
             y == record_error(o, no.result, no.field)
             a == member_added(o, key, type)
             r == opened(s, key, type, draws)
             taken == field(s, key, type, draws)
  <1>1. /\ d \in Nat /\ (o.doc # NO_DOC => Ready(s, o))
        /\ (o.doc = NO_DOC => Fine(o) /\ AsRefused(s, o))
    BY StartedFine
  <1>2. taken = IF o.doc = NO_DOC THEN o ELSE IF no.result # SUCCESS THEN y ELSE a
    BY Zenon DEF field
  <1>3. field_given(s, key, draws) <=> (o.doc # NO_DOC /\ no.result = SUCCESS)
    BY DEF field_given
  <1>4. r = IF s.depth >= MAX_DEPTH THEN x
            ELSE IF ~field_given(s, key, draws) THEN taken
            ELSE Entered(taken)
    BY Zenon DEF opened, Entered
  <1>5. EXHAUSTED \in Statuses \ {SUCCESS} /\ field_name(key) \in Fields
    BY NamesField DEF Statuses, Results, EXHAUSTED, SUCCESS
  <1>6. Fine(x) /\ AsRefused(s, x)
    BY <1>5, RecordedFine
  <1>7. s.depth >= MAX_DEPTH \/ s.depth < MAX_DEPTH
    <2>1. s.depth \in Nat
      BY Parts DEF Fine, Good
    <2> QED BY <2>1, WriterAssumption
  <1> HIDE DEF o, d, no, x, y, a, r, taken
  <1>8. CASE s.depth >= MAX_DEPTH
    BY <1>4, <1>6, <1>8 DEF r
  <1>9. CASE ~(s.depth >= MAX_DEPTH) /\ o.doc = NO_DOC
    BY <1>1, <1>2, <1>3, <1>4, <1>9 DEF r
  <1>10. CASE ~(s.depth >= MAX_DEPTH) /\ o.doc # NO_DOC /\ no.result # SUCCESS
    <2>1. Ready(s, o) /\ Fine(o) /\ o.status = SUCCESS /\ o.depth > 0
      <3>1. Ready(s, o) /\ Fine(o) /\ o.status = SUCCESS
        BY <1>1, <1>10 DEF Ready
      <3> QED BY <1>10, <3>1, SomethingOpen DEF Fine, Good
    <2>2. no.result \in Statuses \ {SUCCESS} /\ no.field \in Fields
      BY <1>1, <1>10, <2>1, RefusalMeans DEF no
    <2>3. Fine(y) /\ AsRefused(o, y)
      BY <2>1, <2>2, RecordedFine DEF y
    <2>4. AsRefused(s, y)
      <3>1. /\ StartedKinds(o) = Kinds(o) /\ StartedSaid(o) = Said(o)
        BY <1>10, <2>1, SomethingOpen DEF Fine, Good
      <3> QED BY <2>1, <2>3, <3>1 DEF AsRefused, Same, Ready
    <2>5. r = y
      BY <1>2, <1>3, <1>4, <1>10
    <2> QED BY <2>3, <2>4, <2>5 DEF r
  <1>11. CASE ~(s.depth >= MAX_DEPTH) /\ o.doc # NO_DOC /\ no.result = SUCCESS
    <2>1. Ready(s, o) /\ Fine(o) /\ o.status = SUCCESS /\ o.depth > 0 /\ o.depth < MAX_DEPTH
      <3>1. Ready(s, o) /\ Fine(o) /\ o.status = SUCCESS
        BY <1>1, <1>11 DEF Ready
      <3>2. o.depth < MAX_DEPTH
        BY <1>7, <1>11, <3>1 DEF Ready
      <3> QED BY <1>11, <3>1, <3>2, SomethingOpen DEF Fine, Good
    <2>2. Len(o.doc) < MaxNodes /\ ((key = NO_KEY) <=> (o.doc[top(o)].type = "array"))
      BY <1>1, <1>11, <2>1, RefusalMeans DEF no
    <2>3. Fine(Entered(a)) /\ AsOpened(o, Entered(a), key, type)
      BY <1>11, <2>1, <2>2, Entering DEF a
    <2>4. r = Entered(a)
      BY <1>2, <1>3, <1>4, <1>11
    <2>5. AsOpened(s, Entered(a), key, type)
      <3>1. StartedKinds(o) = Kinds(o) /\ StartedSaid(o) = Said(o)
        BY <1>11, <2>1, SomethingOpen DEF Fine, Good
      <3> QED BY <2>1, <2>3, <3>1 DEF AsOpened, FitsIn, Ready
    <2> QED BY <2>3, <2>4, <2>5 DEF r
  <1> QED BY <1>8, <1>9, <1>10, <1>11

AsClosed(s, r) ==
  /\ Fault(s) = NoFault /\ Fault(r) = Fault(s)
  /\ Len(Kinds(s)) > 1
  /\ Kinds(r) = Front(Kinds(s))
  /\ Said(r) = Append(Said(s), <<"close", Last(Kinds(s))>>)

\* arnm_json_writer_close without an error.
LEMMA ClosedFine ==
  ASSUME NEW s, Fine(s), s.status = SUCCESS
  PROVE  Fine(closed(s)) /\ (AsRefused(s, closed(s)) \/ AsClosed(s, closed(s)))
  <1> DEFINE x == record_error(s, INVALID_STATE, CLOSE_TOO_OFTEN)
             c == [s EXCEPT !.depth = @ - 1]
  <1>1. Good(s) /\ Sound(s) /\ s \in State /\ s.depth \in Nat /\ Fault(s) = NoFault
    <2>1. Good(s) /\ Sound(s) /\ s \in State
      BY DEF Fine, Good, Sound
    <2> QED BY <2>1, Parts DEF Fine, Clean, Fault, NoFault
  <1>2. Sound(closed(s))
    BY <1>1, Closed
  <1>3. CASE s.depth <= 1
    <2>1. INVALID_STATE \in Statuses \ {SUCCESS} /\ CLOSE_TOO_OFTEN \in Fields
      BY DEF Statuses, Results, INVALID_STATE, SUCCESS, Fields
    <2>2. Fine(x) /\ AsRefused(s, x)
      BY <2>1, RecordedFine
    <2> QED BY <1>3, <2>2 DEF closed
  <1>4. CASE ~(s.depth <= 1)
    <2>1. closed(s) = c /\ s.depth > 1
      BY <1>1, <1>4 DEF closed
    <2>2. /\ c.doc = s.doc /\ c.stack = s.stack /\ c.as_null = s.as_null /\ c.depth = s.depth - 1
          /\ c.elements = s.elements /\ c.status = s.status /\ c.error_field = s.error_field
      BY <1>1, Zenon DEF State
    <2> HIDE DEF c
    <2>3. Fine(c)
      BY <1>2, <2>1, <2>2 DEF Fine, Good, Counted, Clean
    <2>4. /\ Said(c) = Append(Said(s), <<"close", Last(Kinds(s))>>)
          /\ Kinds(c) = Front(Kinds(s)) /\ Len(Kinds(s)) > 1
      BY <1>1, <1>2, <2>1, <2>2, ClosedSaid
    <2>5. Fault(c) = Fault(s)
      BY <2>2 DEF Fault
    <2> QED BY <1>1, <2>1, <2>3, <2>4, <2>5 DEF AsClosed
  <1> QED BY <1>3, <1>4

\* arnm_json_writer_clear_error.
LEMMA ClearedFine ==
  ASSUME NEW s, Fine(s)
  PROVE  LET r == [s EXCEPT !.status = SUCCESS, !.error_field = NONE]
         IN  Fine(r) /\ Same(s, r) /\ Fault(r) = NoFault
  <1> DEFINE r == [s EXCEPT !.status = SUCCESS, !.error_field = NONE]
  <1>1. Sound(s) /\ s \in State /\ Unique(s.doc) /\ Keyed(s.doc) /\ Counted(s)
    BY DEF Fine, Good, Sound
  <1>2. Sound(r)
    BY <1>1, Cleared
  <1>3. /\ r.doc = s.doc /\ r.stack = s.stack /\ r.depth = s.depth
        /\ r.as_null = s.as_null /\ r.elements = s.elements
        /\ r.status = SUCCESS /\ r.error_field = NONE
    BY <1>1, Zenon DEF State
  <1> HIDE DEF r
  <1>4. Fine(r)
    BY <1>1, <1>2, <1>3 DEF Fine, Good, Counted, Clean
  <1>5. Same(s, r)
    BY <1>1, <1>2, <1>3, SaysTheSame DEF Same
  <1> QED BY <1>3, <1>4, <1>5 DEF Fault, NoFault, r

\* arnm_json_writer_release: the error stays.
LEMMA DisposedFine ==
  ASSUME NEW s, Fine(s)
  PROVE  LET r == dispose_document(s)
         IN  Fine(r) /\ Fault(r) = Fault(s) /\ Kinds(r) = <<>> /\ Said(r) = <<>>
  <1> DEFINE r == dispose_document(s)
  <1>1. Sound(s) /\ s \in State /\ Clean(s)
    BY DEF Fine, Good, Sound
  <1>2. Sound(r)
    BY <1>1, Disposed
  <1>3. /\ r.doc = NO_DOC /\ r.depth = 0
        /\ r.status = s.status /\ r.error_field = s.error_field
    BY <1>1, Zenon DEF State, dispose_document
  <1> HIDE DEF r
  <1>4. Unique(r.doc) /\ Keyed(r.doc)
    BY <1>3 DEF Unique, Keyed, NO_DOC
  <1>5. Fine(r)
    BY <1>1, <1>2, <1>3, <1>4 DEF Fine, Good, Counted, Clean
  <1> QED BY <1>3, <1>5, Silent DEF Fault, r

\* A writer initialized, or given back.
LEMMA EmptyFine ==
  ASSUME NEW s, Sound(s), s.doc = NO_DOC, s.status = SUCCESS, s.error_field = NONE
  PROVE  Fine(s) /\ Fault(s) = NoFault /\ Kinds(s) = <<>> /\ Said(s) = <<>>
  <1>1. s.depth = 0
    BY Parts
  <1>2. Unique(s.doc) /\ Keyed(s.doc)
    BY DEF Unique, Keyed, NO_DOC
  <1>3. Fine(s)
    BY <1>2 DEF Fine, Good, Counted, Clean
  <1> QED BY <1>1, <1>3, Silent DEF Fault, NoFault

\* What is not in use is empty, whatever its flags.
LEMMA UninitializedFine ==
  ASSUME NEW magic \in BOOLEAN, NEW as_null \in BOOLEAN
  PROVE  LET r == [uninitialized EXCEPT !.magic = magic, !.as_null = as_null]
         IN  /\ Fine(uninitialized) /\ Fault(uninitialized) = NoFault
             /\ Kinds(uninitialized) = <<>> /\ Said(uninitialized) = <<>>
             /\ Fine(r) /\ Fault(r) = NoFault /\ Kinds(r) = <<>> /\ Said(r) = <<>>
  <1> DEFINE r == [uninitialized EXCEPT !.magic = magic, !.as_null = as_null]
  <1>1. Sound(uninitialized) /\ Sound(r) /\ uninitialized \in State
    BY Uninitialized DEF Sound
  <1>2. /\ uninitialized.doc = NO_DOC /\ uninitialized.status = SUCCESS
        /\ uninitialized.error_field = NONE
    BY DEF uninitialized
  <1>3. r.doc = NO_DOC /\ r.status = SUCCESS /\ r.error_field = NONE
    BY <1>1, <1>2, Zenon DEF State
  <1> HIDE DEF r
  <1>4. Fine(uninitialized) /\ Fault(uninitialized) = NoFault
        /\ Kinds(uninitialized) = <<>> /\ Said(uninitialized) = <<>>
    BY <1>1, <1>2, EmptyFine
  <1>5. Fine(r) /\ Fault(r) = NoFault /\ Kinds(r) = <<>> /\ Said(r) = <<>>
    BY <1>1, <1>3, EmptyFine
  <1> QED BY <1>4, <1>5 DEF r

\* Nothing moves while an error is kept.
LEMMA KeptOut ==
  ASSUME NEW s, s.status # SUCCESS, NEW key, NEW type, NEW size, NEW max, NEW draws
  PROVE  /\ field(s, key, type, draws) = s /\ field_of_text(s, key, draws) = s
         /\ encoded(s, key, size, max, draws) = s
         /\ opened(s, key, type, draws) = s /\ closed(s) = s
  <1>1. field(s, key, type, draws) = s /\ field_of_text(s, key, draws) = s
        /\ opened(s, key, type, draws) = s /\ closed(s) = s
    BY DEF field, field_of_text, opened, closed
  <1>2. field(s, key, "plain", draws) = s /\ record_error(s, RESOURCE_SIZE_EXCEED, field_name(key)) = s
    BY DEF field, record_error
  <1> QED BY <1>1, <1>2 DEF encoded

-----------------------------------------------------------------------------
(* The refinement.                                                         *)

\* What was handed over is the whole document as it stands, and could be
\* written.
Handed ==
  out # <<>> => /\ writer.doc # NO_DOC /\ encodable(writer)
                /\ out = laid_down(writer, TRUE)

TInv == Fine(writer) /\ Handed

\* One step of the writer, as the text sees it.
Step(s, r) ==
  \/ AsIgnored(s, r)
  \/ AsRefused(s, r)
  \/ Fault(r) \in Faulty /\ Kinds(r) = <<>> /\ Said(r) = <<>>
  \/ Fault(r) = Fault(s) /\ Kinds(r) = <<>> /\ Said(r) = <<>>
  \/ Fault(r) = NoFault /\ Kinds(r) = <<>> /\ Said(r) = <<>>
  \/ Fault(r) = NoFault /\ Same(s, r)
  \/ AsClosed(s, r)
  \/ \E type \in Containers :
       Fault(r) = NoFault /\ Kinds(r) = << type >> /\ Said(r) = << <<"open", type>> >>
  \/ \E key \in AnyKey :
       \/ \E value \in Scalars : AsPut(s, r, key, value)
       \/ \E type \in Containers : AsOpened(s, r, key, type)

\* A call that hands nothing over and steps as the text does.
Moves == out' = <<>> /\ Fine(writer') /\ Step(writer, writer')

\* The adders, in an error and without one.
LEMMA AdderMoves ==
  ASSUME NEW s, Fine(s), NEW key \in AnyKey, NEW draws \in Nat
  PROVE  /\ \A type \in Scalars :
              LET r == field(s, key, type, draws) IN Fine(r) /\ Step(s, r)
         /\ LET r == field_of_text(s, key, draws) IN Fine(r) /\ Step(s, r)
         /\ \A size, max :
              LET r == encoded(s, key, size, max, draws) IN Fine(r) /\ Step(s, r)
         /\ \A type \in Containers :
              LET r == opened(s, key, type, draws) IN Fine(r) /\ Step(s, r)
  <1>1. ASSUME NEW r, Accepts(s, r, key) PROVE Step(s, r)
    BY <1>1 DEF Accepts, Step
  <1>2. Step(s, s)
    BY DEF Step, AsIgnored, Same
  <1>3. ASSUME NEW type \in Scalars
        PROVE  Fine(field(s, key, type, draws)) /\ Step(s, field(s, key, type, draws))
    <2>1. CASE s.status = SUCCESS
      BY <1>1, <2>1, FieldFine
    <2>2. CASE s.status # SUCCESS
      BY <1>2, <2>2, KeptOut
    <2> QED BY <2>1, <2>2
  <1>4. Fine(field_of_text(s, key, draws)) /\ Step(s, field_of_text(s, key, draws))
    <2>1. CASE s.status = SUCCESS
      BY <1>1, <2>1, TextFine
    <2>2. CASE s.status # SUCCESS
      BY <1>2, <2>2, KeptOut
    <2> QED BY <2>1, <2>2
  <1>5. ASSUME NEW size, NEW max
        PROVE  /\ Fine(encoded(s, key, size, max, draws))
               /\ Step(s, encoded(s, key, size, max, draws))
    <2>1. CASE s.status = SUCCESS
      BY <1>1, <2>1, EncodedFine
    <2>2. CASE s.status # SUCCESS
      BY <1>2, <2>2, KeptOut
    <2> QED BY <2>1, <2>2
  <1>6. ASSUME NEW type \in Containers
        PROVE  /\ Fine(opened(s, key, type, draws))
               /\ Step(s, opened(s, key, type, draws))
    <2>1. CASE s.status = SUCCESS
      <3>1. Fine(opened(s, key, type, draws))
            /\ (\/ AsRefused(s, opened(s, key, type, draws))
                \/ AsOpened(s, opened(s, key, type, draws), key, type))
        BY <2>1, OpenedFine
      <3> QED BY <3>1 DEF Step
    <2>2. CASE s.status # SUCCESS
      BY <1>2, <2>2, KeptOut
    <2> QED BY <2>1, <2>2
  <1> QED BY <1>3, <1>4, <1>5, <1>6

\* Every call but the write hands nothing over and steps as the text does.
LEMMA CallMoves ==
  ASSUME Fine(writer), Next, ~arnm_json_writer_write
  PROVE  Moves
  <1>1. Draws \subseteq Nat
    BY DEF Draws
  <1>2. ASSUME NEW as_null \in BOOLEAN, arnm_json_writer_init(as_null) PROVE Moves
    <2>1. writer' = [uninitialized EXCEPT !.magic = TRUE, !.as_null = as_null] /\ out' = <<>>
      BY <1>2 DEF arnm_json_writer_init
    <2>2. Fine(writer') /\ Fault(writer') = NoFault /\ Kinds(writer') = <<>> /\ Said(writer') = <<>>
      BY <2>1, UninitializedFine
    <2> QED BY <2>1, <2>2 DEF Moves, Step
  <1>3. CASE arnm_json_writer_release
    <2>1. writer' = dispose_document(writer) /\ out' = <<>>
      BY <1>3 DEF arnm_json_writer_release
    <2>2. /\ Fine(writer') /\ Fault(writer') = Fault(writer)
          /\ Kinds(writer') = <<>> /\ Said(writer') = <<>>
      BY <2>1, DisposedFine
    <2> QED BY <2>1, <2>2 DEF Moves, Step
  <1>4. CASE arnm_json_writer_destroy
    <2>1. writer' = uninitialized /\ out' = <<>>
      BY <1>4 DEF arnm_json_writer_destroy
    <2>2. Fine(writer') /\ Fault(writer') = NoFault /\ Kinds(writer') = <<>> /\ Said(writer') = <<>>
      BY <2>1, UninitializedFine
    <2> QED BY <2>1, <2>2 DEF Moves, Step
  <1>5. CASE arnm_json_writer_clear_error
    <2>1. writer' = [writer EXCEPT !.status = SUCCESS, !.error_field = NONE] /\ out' = <<>>
      BY <1>5 DEF arnm_json_writer_clear_error
    <2>2. Fine(writer') /\ Fault(writer') = NoFault /\ Same(writer, writer')
      BY <2>1, ClearedFine
    <2> QED BY <2>1, <2>2 DEF Moves, Step
  <1>6. ASSUME NEW type \in Containers, arnm_json_writer_begin(type) PROVE Moves
    <2>1. PICK draws \in Nat : writer' = begin_document(writer, type, draws)
      BY <1>1, <1>6 DEF arnm_json_writer_begin
    <2>2. out' = <<>> /\ Sound(writer)
      BY <1>6 DEF arnm_json_writer_begin, Fine, Good
    <2>3. IF draws < 2 THEN Unrooted(writer') ELSE Rooted(writer, writer', type)
      BY <2>1, <2>2, BegunFine
    <2>4. CASE draws < 2
      BY <2>2, <2>3, <2>4 DEF Unrooted, Moves, Step
    <2>5. CASE ~(draws < 2)
      <3>1. Fine(writer') /\ Fault(writer') = NoFault /\ Kinds(writer') = << type >>
            /\ Said(writer') = << <<"open", type>> >>
        BY <2>3, <2>5 DEF Rooted, Fine, Clean, Fault, NoFault
      <3> QED BY <2>2, <3>1 DEF Moves, Step
    <2> QED BY <2>4, <2>5
  <1>7. ASSUME NEW key \in AnyKey, NEW type \in Scalars, arnm_json_writer_add(key, type)
        PROVE  Moves
    BY <1>1, <1>7, AdderMoves DEF arnm_json_writer_add, Moves
  <1>8. ASSUME NEW key \in AnyKey, NEW type \in Containers, open_container(key, type)
        PROVE  Moves
    BY <1>1, <1>8, AdderMoves DEF open_container, Moves
  <1>9. ASSUME NEW key \in AnyKey, NEW size \in Sizes, arnm_json_writer_add_hex(key, size)
        PROVE  Moves
    BY <1>1, <1>9, AdderMoves DEF arnm_json_writer_add_hex, Moves
  <1>10. ASSUME NEW key \in AnyKey, NEW size \in Sizes, arnm_json_writer_add_base64(key, size)
         PROVE  Moves
    BY <1>1, <1>10, AdderMoves DEF arnm_json_writer_add_base64, Moves
  <1>11. ASSUME NEW key \in AnyKey, arnm_json_writer_add_string_copy(key)
         PROVE  Moves
    BY <1>1, <1>11, AdderMoves DEF arnm_json_writer_add_string_copy, Moves
  <1>12. ASSUME NEW key \in AnyKey, NEW present \in BOOLEAN,
                arnm_json_writer_add_uuid(key, present)
         PROVE  Moves
    <2>1. "plain" \in Scalars
      BY DEF Scalars
    <2> QED BY <1>1, <1>12, <2>1, AdderMoves DEF arnm_json_writer_add_uuid, Moves
  <1>13. CASE arnm_json_writer_close
    <2>1. writer' = closed(writer) /\ out' = <<>>
      BY <1>13 DEF arnm_json_writer_close
    <2>2. CASE writer.status = SUCCESS
      BY <2>1, <2>2, ClosedFine DEF Moves, Step
    <2>3. CASE writer.status # SUCCESS
      <3>1. writer' = writer
        BY <2>1, <2>3, KeptOut
      <3>2. AsIgnored(writer, writer')
        BY <3>1 DEF AsIgnored, Same
      <3> QED BY <2>1, <3>1, <3>2 DEF Moves, Step
    <2> QED BY <2>2, <2>3
  <1> QED
    BY <1>2, <1>3, <1>4, <1>5, <1>6, <1>7, <1>8, <1>9, <1>10, <1>11, <1>12, <1>13 DEF Next

\* The invariant, on every step.
LEMMA TextKept ==
  ASSUME TInv, [Next]_vars
  PROVE  TInv'
  <1>1. CASE UNCHANGED vars
    BY <1>1 DEF vars, TInv, Handed
  <1>2. CASE arnm_json_writer_write
    <2>1. PICK granted \in BOOLEAN : out' = written(writer, granted)
      BY <1>2 DEF arnm_json_writer_write
    <2>2. writer' = writer
      BY <1>2 DEF arnm_json_writer_write
    <2>3. out' # <<>> => /\ writer.doc # NO_DOC /\ encodable(writer)
                         /\ out' = laid_down(writer, TRUE)
      BY <2>1 DEF written
    <2> QED BY <2>2, <2>3 DEF TInv, Handed
  <1>3. CASE Next /\ ~arnm_json_writer_write
    <2>1. out' = <<>> /\ Fine(writer')
      BY <1>3, CallMoves DEF TInv, Moves
    <2> QED BY <2>1 DEF TInv, Handed
  <1> QED BY <1>1, <1>2, <1>3

\* The text's invariant holds of every behaviour.
LEMMA TextInvariance == Spec => []TInv
  <1>1. Init => TInv
    BY UninitializedFine DEF Init, TInv, Handed
  <1>2. TInv /\ [Next]_vars => TInv'
    BY TextKept
  <1> QED BY <1>1, <1>2, PTL DEF Spec

\* A step of the text, under the names of the abstract writer.
LEMMA StepIsNext ==
  ASSUME out' = <<>>, Step(writer, writer')
  PROVE  Text!Next
  <1>1. CASE AsIgnored(writer, writer')
    <2>1. Text!Ignored
      BY <1>1 DEF AsIgnored, Same, Fault, Kinds, Said, Text!Ignored, Text!Unwritten
    <2> QED BY <2>1 DEF Text!Next
  <1>2. CASE AsRefused(writer, writer')
    <2>1. Text!Refuse
      BY <1>2 DEF AsRefused, Same, Fault, Kinds, Said, Faulty, NoFault, StartedKinds, StartedSaid,
                  Text!Refuse, Text!Unwritten, Text!StartedOpen, Text!StartedText, Text!OpenMark
    <2> QED BY <2>1 DEF Text!Next
  <1>3. CASE Fault(writer') \in Faulty /\ Kinds(writer') = <<>> /\ Said(writer') = <<>>
    <2>1. Text!BeginRefused
      BY <1>3 DEF Fault, Kinds, Said, Faulty, Text!BeginRefused, Text!Unwritten
    <2> QED BY <2>1 DEF Text!Next
  <1>4. CASE Fault(writer') = Fault(writer) /\ Kinds(writer') = <<>> /\ Said(writer') = <<>>
    <2>1. Text!Release
      BY <1>4 DEF Fault, Kinds, Said, Text!Release, Text!Unwritten
    <2> QED BY <2>1 DEF Text!Next
  <1>5. CASE Fault(writer') = NoFault /\ Kinds(writer') = <<>> /\ Said(writer') = <<>>
    <2>1. Text!Restart
      BY <1>5 DEF Fault, NoFault, Kinds, Said, Text!Restart, Text!Unwritten
    <2> QED BY <2>1 DEF Text!Next
  <1>6. CASE Fault(writer') = NoFault /\ Same(writer, writer')
    <2>1. Text!ClearError
      BY <1>6 DEF Fault, NoFault, Same, Kinds, Said, Text!ClearError, Text!Unwritten
    <2> QED BY <2>1 DEF Text!Next
  <1>7. CASE AsClosed(writer, writer')
    <2>1. Text!Close
      BY <1>7 DEF AsClosed, Fault, NoFault, Kinds, Said, Text!Close, Text!Unwritten,
                  Text!CloseMark, Front, Last, Text!Front, Text!Last
    <2> QED BY <2>1 DEF Text!Next
  <1>8. ASSUME NEW type \in Containers, Fault(writer') = NoFault,
               Kinds(writer') = << type >>, Said(writer') = << <<"open", type>> >>
        PROVE  Text!Next
    <2>1. Text!Begin(type)
      BY <1>8 DEF Fault, NoFault, Kinds, Said, Text!Begin, Text!Unwritten, Text!OpenMark
    <2>2. type \in Text!Containers
      BY DEF Containers, Text!Containers
    <2> QED BY <2>1, <2>2 DEF Text!Next
  <1>9. ASSUME NEW key \in AnyKey, NEW value \in Scalars, AsPut(writer, writer', key, value)
        PROVE  Text!Next
    <2>1. Text!Put(key, value)
      BY <1>9 DEF AsPut, Fault, NoFault, Kinds, Said, FitsIn, StartedKinds, StartedSaid, named,
                  Text!Put, Text!Unwritten, Text!Fits, Text!StartedOpen, Text!StartedText,
                  Text!OpenMark, Text!Named, Last, Text!Last
    <2> QED BY <2>1 DEF Text!Next, AnyKey
  <1>10. ASSUME NEW key \in AnyKey, NEW type \in Containers, AsOpened(writer, writer', key, type)
         PROVE  Text!Next
    <2>1. Text!Open(key, type)
      BY <1>10 DEF AsOpened, Fault, NoFault, Kinds, Said, FitsIn, StartedKinds, StartedSaid, named,
                   Text!Open, Text!Unwritten, Text!Fits, Text!StartedOpen, Text!StartedText,
                   Text!OpenMark, Text!Named, Last, Text!Last
    <2>2. type \in Text!Containers
      BY DEF Containers, Text!Containers
    <2> QED BY <2>1, <2>2 DEF Text!Next, AnyKey
  <1> QED BY <1>1, <1>2, <1>3, <1>4, <1>5, <1>6, <1>7, <1>8, <1>9, <1>10 DEF Step

\* What a write hands over is the text with its containers closed behind it.
LEMMA WriteIsNext ==
  ASSUME TInv, arnm_json_writer_write
  PROVE  Text!Next
  <1>1. PICK granted \in BOOLEAN : out' = written(writer, granted)
    BY DEF arnm_json_writer_write
  <1>2. writer' = writer
    BY DEF arnm_json_writer_write
  <1>3. CASE writer.status = SUCCESS /\ writer.doc # NO_DOC /\ encodable(writer) /\ granted
    <2>1. out' = laid_down(writer, TRUE)
      BY <1>1, <1>3 DEF written
    <2>2. Good(writer) /\ Sound(writer) /\ Fault(writer) = NoFault
      BY <1>3 DEF TInv, Fine, Good, Clean, Fault, NoFault
    <2>3. out' = Said(writer) \o Closes(Kinds(writer), writer.depth)
      BY <1>3, <2>1, <2>2, AllClosed
    <2>4. Kinds(writer) # <<>> /\ Len(Kinds(writer)) = writer.depth
      BY <1>3, <2>2, SomethingOpen
    <2>5. out' = Said(writer) \o Closes(Kinds(writer), Len(Kinds(writer)))
      BY <2>3, <2>4
    <2>6. Text!Write
      BY <1>2, <2>2, <2>4, <2>5 DEF Closes, Fault, NoFault, Kinds, Said,
         Text!Write, Text!Closed, Text!CloseMark
    <2> QED BY <2>6 DEF Text!Next
  <1>4. CASE ~(writer.status = SUCCESS /\ writer.doc # NO_DOC /\ encodable(writer) /\ granted)
    <2>1. out' = <<>>
      BY <1>1, <1>4 DEF written
    <2>2. Step(writer, writer')
      BY <1>2 DEF Step, AsIgnored, Same
    <2> QED BY <2>1, <2>2, StepIsNext
  <1> QED BY <1>3, <1>4

\* The tree under its stack of open containers is the text of the abstract
\* writer, for every depth, every set of names and every order of calls: it grows
\* at its end only, by accepted calls only, containers are closed innermost
\* first, and the first refusal is kept (json_writer.h: "Once anything is
\* recorded the writer stops building").
THEOREM IsJsonTextHolds == Spec => IsJsonText
  <1>1. Init => Text!Init
    <2>1. ASSUME Init PROVE Text!Init
      <3>1. /\ Fault(writer) = NoFault /\ Kinds(writer) = <<>> /\ Said(writer) = <<>>
            /\ out = <<>>
        BY <2>1, UninitializedFine DEF Init
      <3> QED BY <3>1 DEF Text!Init, Fault, NoFault, Kinds, Said
    <2> QED BY <2>1
  <1>2. TInv /\ [Next]_vars => [Text!Next]_Text!vars
    <2>1. SUFFICES ASSUME TInv, [Next]_vars PROVE [Text!Next]_Text!vars
      OBVIOUS
    <2>2. CASE UNCHANGED vars
      BY <2>2 DEF vars, Text!vars
    <2>3. CASE arnm_json_writer_write
      BY <2>1, <2>3, WriteIsNext
    <2>4. CASE Next /\ ~arnm_json_writer_write
      BY <2>1, <2>4, CallMoves, StepIsNext DEF TInv, Moves
    <2> QED BY <2>1, <2>2, <2>3, <2>4
  <1> QED BY <1>1, <1>2, TextInvariance, PTL DEF Spec, Text!Spec, IsJsonText

\* The count of the elements names what is in the tree, refused calls leaving no
\* trace in it (json_writer_state.elements).
THEOREM CountHolds == Spec => []ElementsMatchDocument
  <1>1. ASSUME TInv PROVE ElementsMatchDocument
    <2>1. Sound(writer) /\ Counted(writer)
      BY <1>1 DEF TInv, Fine, Good
    <2> DEFINE named_nodes ==
                 {n \in Nodes : \E m \in Nodes : \E i \in DOMAIN writer.doc[m].members :
                    /\ writer.doc[m].members[i].node = n
                    /\ writer.doc[m].members[i].key # NO_KEY}
               opened_nodes == {n \in Nodes \ {1} : writer.doc[n].type \in Containers}
    <2>2. opened_nodes = OpenedNodes(writer.doc)
      BY DEF OpenedNodes, Nodes
    <2>3. \A m \in Nodes : DOMAIN writer.doc[m].members = 1..Len(writer.doc[m].members)
      <3>1. SUFFICES ASSUME NEW m \in Nodes
                     PROVE  DOMAIN writer.doc[m].members = 1..Len(writer.doc[m].members)
        OBVIOUS
      <3>2. writer.doc[m] \in Node
        BY <2>1, Parts DEF Nodes
      <3>3. writer.doc[m].members \in Seq([key : AnyKey, node : Nat])
        BY <3>2 DEF Node
      <3> QED BY <3>3
    <2>4. named_nodes = NamedNodes(writer.doc)
      BY <2>3, Zenon DEF NamedNodes, Nodes
    <2> HIDE DEF named_nodes, opened_nodes
    <2>5. writer.doc # NO_DOC =>
            writer.elements = Len(writer.doc) + Cardinality(named_nodes) + Cardinality(opened_nodes)
      BY <2>1, <2>2, <2>4 DEF Counted, Weight
    <2> QED BY <2>5 DEF ElementsMatchDocument, named_nodes, opened_nodes
  <1> QED BY <1>1, TextInvariance, PTL

-----------------------------------------------------------------------------
(* Reading the text back: a reader that knows its own stack and nothing of *)
(* the tree.                                                               *)

Reader == [ok : BOOLEAN, open : Seq(Types \cup Keys), named : BOOLEAN]

ReaderStart == [ok |-> TRUE, open |-> <<>>, named |-> FALSE]

Inside(st) == IF st.open = <<>> THEN "none" ELSE Last(st.open)

Place(st, i) ==
  \/ Inside(st) = "none" /\ i = 1
  \/ Inside(st) = "object" /\ st.named
  \/ Inside(st) = "array"

Reads(st, m, i) ==
  CASE m[1] = "key" ->
         [st EXCEPT !.ok = @ /\ Inside(st) = "object" /\ ~st.named, !.named = TRUE]
    [] m[1] = "value" ->
         [st EXCEPT !.ok = @ /\ Place(st, i) /\ m[2] # "nonfinite", !.named = FALSE]
    [] m[1] = "open" ->
         [ok |-> st.ok /\ Place(st, i), open |-> Append(st.open, m[2]), named |-> FALSE]
    [] m[1] = "close" ->
         [st EXCEPT !.ok = @ /\ Inside(st) = m[2] /\ ~st.named,
                    !.open = IF @ = <<>> THEN @ ELSE Front(@)]

\* A reader that has found nothing wrong.
At(st, open, named_) == st.ok /\ st.open = open /\ st.named = named_

\* f reads w mark by mark.
Reading(f, w) ==
  /\ f \in [0..Len(w) -> Reader]
  /\ f[0] = ReaderStart
  /\ \A i \in 1..Len(w) : f[i] = Reads(f[i - 1], w[i], i)

\* A mark read gives a reader again.
LEMMA ReadsTyped ==
  ASSUME NEW st \in Reader, NEW m \in Mark, NEW i
  PROVE  Reads(st, m, i) \in Reader
  <1>1. st.ok \in BOOLEAN /\ st.open \in Seq(Types \cup Keys) /\ st.named \in BOOLEAN
    BY DEF Reader
  <1>2. m[1] \in {"value", "open", "close", "key"} /\ m[2] \in Types \cup Keys
    BY DEF Mark
  <1>3. (st.ok /\ Inside(st) = "object" /\ ~st.named) \in BOOLEAN
        /\ (st.ok /\ Place(st, i) /\ m[2] # "nonfinite") \in BOOLEAN
        /\ (st.ok /\ Place(st, i)) \in BOOLEAN
        /\ (st.ok /\ Inside(st) = m[2] /\ ~st.named) \in BOOLEAN
    OBVIOUS
  <1>4. CASE m[1] = "key"
    <2>1. Reads(st, m, i)
            = [st EXCEPT !.ok = @ /\ Inside(st) = "object" /\ ~st.named, !.named = TRUE]
      BY <1>4 DEF Reads
    <2> QED BY <1>1, <1>3, <2>1, Zenon DEF Reader
  <1>5. CASE m[1] = "value"
    <2>1. Reads(st, m, i)
            = [st EXCEPT !.ok = @ /\ Place(st, i) /\ m[2] # "nonfinite", !.named = FALSE]
      BY <1>5 DEF Reads
    <2> QED BY <1>1, <1>3, <2>1, Zenon DEF Reader
  <1>6. CASE m[1] = "open"
    <2>1. Reads(st, m, i)
            = [ok |-> st.ok /\ Place(st, i), open |-> Append(st.open, m[2]), named |-> FALSE]
      BY <1>6 DEF Reads
    <2>2. Append(st.open, m[2]) \in Seq(Types \cup Keys)
      <3> DEFINE o == st.open
                 T == Types \cup Keys
                 x == m[2]
      <3>1. o \in Seq(T) /\ x \in T
        BY <1>1, <1>2
      <3> HIDE DEF o, T, x
      <3>2. Append(o, x) \in Seq(T)
        BY <3>1
      <3> QED BY <3>2 DEF o, T, x
    <2> DEFINE b == st.ok /\ Place(st, i)
               q == Append(st.open, m[2])
               T == Types \cup Keys
    <2>3. Reads(st, m, i) = [ok |-> b, open |-> q, named |-> FALSE] /\ b \in BOOLEAN
          /\ q \in Seq(T)
      BY <1>3, <2>1, <2>2
    <2> HIDE DEF b, q, T
    <2>4. Reads(st, m, i) \in [ok : BOOLEAN, open : Seq(T), named : BOOLEAN]
      BY <2>3
    <2> QED BY <2>4 DEF Reader, T
  <1>7. CASE m[1] = "close"
    <2> DEFINE o == st.open
               p == IF o = <<>> THEN o ELSE Front(o)
    <2>1. Reads(st, m, i)
            = [st EXCEPT !.ok = @ /\ Inside(st) = m[2] /\ ~st.named, !.open = p]
      BY <1>7 DEF Reads
    <2>2. p \in Seq(Types \cup Keys)
      <3> DEFINE T == Types \cup Keys
      <3>1. o \in Seq(T)
        BY <1>1
      <3> HIDE DEF o, T
      <3>2. p \in Seq(T)
        BY <3>1 DEF Front
      <3> QED BY <3>2 DEF T
    <2> HIDE DEF p
    <2> QED BY <1>1, <1>3, <2>1, <2>2, Zenon DEF Reader
  <1> QED BY <1>2, <1>4, <1>5, <1>6, <1>7

\* A name inside an object that waits for one.
LEMMA KeyRead ==
  ASSUME NEW st \in Reader, st.ok, Inside(st) = "object", ~st.named,
         NEW m, m[1] = "key", NEW i
  PROVE  At(Reads(st, m, i), st.open, TRUE)
  <1>1. Reads(st, m, i)
          = [st EXCEPT !.ok = @ /\ Inside(st) = "object" /\ ~st.named, !.named = TRUE]
    BY DEF Reads
  <1>2. /\ Reads(st, m, i).ok = (st.ok /\ Inside(st) = "object" /\ ~st.named)
        /\ Reads(st, m, i).open = st.open /\ Reads(st, m, i).named = TRUE
    BY <1>1, Zenon DEF Reader
  <1> QED BY <1>2, Zenon DEF At

\* A value with a text where one may stand.
LEMMA ValueRead ==
  ASSUME NEW st \in Reader, st.ok, NEW i, Place(st, i),
         NEW m, m[1] = "value", m[2] # "nonfinite"
  PROVE  At(Reads(st, m, i), st.open, FALSE)
  <1>1. Reads(st, m, i)
          = [st EXCEPT !.ok = @ /\ Place(st, i) /\ m[2] # "nonfinite", !.named = FALSE]
    BY DEF Reads
  <1>2. /\ Reads(st, m, i).ok = (st.ok /\ Place(st, i) /\ m[2] # "nonfinite")
        /\ Reads(st, m, i).open = st.open /\ Reads(st, m, i).named = FALSE
    BY <1>1, Zenon DEF Reader
  <1> QED BY <1>2, Zenon DEF At

\* A container opened where a value may stand.
LEMMA OpenRead ==
  ASSUME NEW st \in Reader, st.ok, NEW i, Place(st, i), NEW m, m[1] = "open"
  PROVE  At(Reads(st, m, i), Append(st.open, m[2]), FALSE)
  <1>1. Reads(st, m, i)
          = [ok |-> st.ok /\ Place(st, i), open |-> Append(st.open, m[2]), named |-> FALSE]
    BY DEF Reads
  <1>2. /\ Reads(st, m, i).ok = (st.ok /\ Place(st, i))
        /\ Reads(st, m, i).open = Append(st.open, m[2]) /\ Reads(st, m, i).named = FALSE
    BY <1>1
  <1> QED BY <1>2, Zenon DEF At

\* A container closed by its own kind.
LEMMA CloseRead ==
  ASSUME NEW o \in Seq(Types \cup Keys), NEW type \in Types,
         NEW st \in Reader, At(st, Append(o, type), FALSE),
         NEW m, m[1] = "close", m[2] = type, NEW i
  PROVE  At(Reads(st, m, i), o, FALSE)
  <1> DEFINE p == Append(o, type)
             T == Types \cup Keys
  <1>1. /\ st.open = p /\ st.ok /\ ~st.named
        /\ p \in Seq(T) /\ p # <<>> /\ Len(p) = Len(o) + 1 /\ p[Len(p)] = type
        /\ \A j \in 1..Len(o) : p[j] = o[j]
    BY DEF At
  <1>2. Inside(st) = type
    <2> HIDE DEF p
    <2> QED BY <1>1 DEF Inside, Last
  <1>3. Front(p) = o
    <2> DEFINE q == Front(p)
    <2> HIDE DEF p, T
    <2>0. o \in Seq(T)
      BY DEF T
    <2>1. q \in Seq(T) /\ Len(q) = Len(o) /\ \A j \in 1..Len(q) : q[j] = o[j]
      BY <1>1, <2>0 DEF Front
    <2> HIDE DEF q
    <2>2. q = o
      BY <2>0, <2>1, SameSequence
    <2> QED BY <2>2 DEF q
  <1>4. Reads(st, m, i)
          = [st EXCEPT !.ok = @ /\ Inside(st) = m[2] /\ ~st.named,
                       !.open = IF @ = <<>> THEN @ ELSE Front(@)]
    BY DEF Reads
  <1>5. /\ Reads(st, m, i).ok = (st.ok /\ Inside(st) = m[2] /\ ~st.named)
        /\ Reads(st, m, i).open = (IF st.open = <<>> THEN st.open ELSE Front(st.open))
        /\ Reads(st, m, i).named = st.named
    BY <1>4, Zenon DEF Reader
  <1>6. st.named = FALSE
    BY DEF At
  <1> HIDE DEF p
  <1>7. Reads(st, m, i).open = o
    BY <1>1, <1>3, <1>5, Zenon
  <1>8. Reads(st, m, i).ok
    BY <1>1, <1>2, <1>5, Zenon
  <1> QED BY <1>5, <1>6, <1>7, <1>8, Zenon DEF At

-----------------------------------------------------------------------------
(* A node's text, read where a value may stand.                            *)

\* x stands in w behind the first p marks.
Sits(x, w, p) ==
  p \in Nat /\ p + Len(x) <= Len(w) /\ \A i \in 1..Len(x) : w[p + i] = x[i]

\* What stands there stands there piece by piece.
LEMMA SitsApart ==
  ASSUME NEW x \in Seq(Mark), NEW y \in Seq(Mark), NEW w \in Seq(Mark), NEW p,
         Sits(x \o y, w, p)
  PROVE  Sits(x, w, p) /\ Sits(y, w, p + Len(x)) /\ Len(x \o y) = Len(x) + Len(y)
  <1> DEFINE z == x \o y
  <1>1. /\ Len(x) \in Nat /\ Len(y) \in Nat /\ Len(w) \in Nat /\ Len(z) = Len(x) + Len(y)
        /\ \A i \in 1..Len(x) : z[i] = x[i]
        /\ \A i \in 1..Len(y) : z[Len(x) + i] = y[i]
    OBVIOUS
  <1> HIDE DEF z
  <1>2. p \in Nat /\ p + Len(z) <= Len(w) /\ \A i \in 1..Len(z) : w[p + i] = z[i]
    BY DEF Sits, z
  <1>3. Sits(x, w, p)
    <2>1. 1..Len(x) \subseteq 1..Len(z) /\ p + Len(x) <= Len(w)
      BY <1>1, <1>2
    <2> QED BY <1>1, <1>2, <2>1 DEF Sits
  <1>4. Sits(y, w, p + Len(x))
    <2>1. p + Len(x) \in Nat /\ p + Len(x) + Len(y) <= Len(w)
      BY <1>1, <1>2
    <2>2. ASSUME NEW i \in 1..Len(y) PROVE w[p + Len(x) + i] = y[i]
      <3>1. Len(x) + i \in 1..Len(z) /\ p + (Len(x) + i) = p + Len(x) + i
        BY <1>1, <1>2
      <3>2. w[p + (Len(x) + i)] = z[Len(x) + i]
        BY <1>2, <3>1
      <3> QED BY <1>1, <3>1, <3>2
    <2> QED BY <2>1, <2>2 DEF Sits
  <1> QED BY <1>1, <1>3, <1>4 DEF z

\* One mark that stands there is the next one read.
LEMMA SitsOne ==
  ASSUME NEW m \in Mark, NEW w \in Seq(Mark), NEW p, Sits(<< m >>, w, p),
         NEW f, Reading(f, w)
  PROVE  /\ p \in Nat /\ f[p] \in Reader /\ Len(<< m >>) = 1
         /\ f[p + 1] = Reads(f[p], m, p + 1) /\ f[p + 1] \in Reader
  <1> DEFINE x == << m >>
  <1>1. Len(x) = 1 /\ x[1] = m /\ Len(w) \in Nat /\ 1 \in 1..1
    OBVIOUS
  <1> HIDE DEF x
  <1>2. p \in Nat /\ p + 1 <= Len(w) /\ w[p + 1] = m
    BY <1>1 DEF Sits, x
  <1>3. p \in 0..Len(w) /\ p + 1 \in 0..Len(w) /\ p + 1 \in 1..Len(w) /\ p + 1 - 1 = p
    BY <1>1, <1>2
  <1>4. f[p + 1] = Reads(f[p + 1 - 1], w[p + 1], p + 1)
    BY <1>3 DEF Reading
  <1>5. f[p] \in Reader /\ f[p + 1] \in Reader
    BY <1>3 DEF Reading
  <1> QED BY <1>1, <1>2, <1>3, <1>4, <1>5 DEF x

\* Wherever a value may stand x is read as one.
ReadsWell(f, w, x) ==
  \A p : Sits(x, w, p) /\ f[p].ok /\ Place(f[p], p + 1)
           => At(f[p + Len(x)], f[p].open, FALSE)

\* A member: its name where there is one, and its value.
LEMMA MemberRead ==
  ASSUME NEW w \in Seq(Mark), NEW f, Reading(f, w), NEW x \in Seq(Mark), ReadsWell(f, w, x),
         NEW key \in AnyKey, NEW o, o # <<>>, Last(o) \in Containers,
         (key = NO_KEY) <=> (Last(o) = "array"),
         NEW p, At(f[p], o, FALSE), Sits(named(key) \o x, w, p)
  PROVE  At(f[p + Len(named(key) \o x)], o, FALSE)
  <1> DEFINE k == named(key)
  <1>1. k \in Seq(Mark)
    BY NamedTyped
  <1>2. Sits(k, w, p) /\ Sits(x, w, p + Len(k)) /\ Len(k \o x) = Len(k) + Len(x)
    <2> HIDE DEF k
    <2>1. Sits(k \o x, w, p)
      BY DEF k
    <2> QED BY <1>1, <2>1, SitsApart
  <1>3. p \in Nat /\ Len(x) \in Nat /\ Len(k) \in Nat
    <2> HIDE DEF k
    <2> QED BY <1>1, <1>2 DEF Sits
  <1>4. Inside(f[p]) = Last(o) /\ f[p].ok /\ f[p].open = o /\ f[p].named = FALSE
    BY DEF At, Inside
  <1>5. f[p + Len(k)].ok /\ f[p + Len(k)].open = o /\ Place(f[p + Len(k)], p + Len(k) + 1)
    <2>1. CASE key = NO_KEY
      <3>1. Len(k) = 0 /\ p + Len(k) = p
        BY <1>3, <2>1 DEF named
      <3>2. Place(f[p], p + Len(k) + 1)
        BY <1>4, <2>1 DEF Place
      <3> QED BY <1>4, <3>1, <3>2
    <2>2. CASE key # NO_KEY
      <3> DEFINE m == <<"key", key>>
      <3>1. k = << m >> /\ m \in Mark /\ m[1] = "key"
        BY <2>2 DEF named, Mark, AnyKey
      <3> HIDE DEF m, k
      <3>2. /\ f[p] \in Reader /\ Len(k) = 1 /\ f[p + 1] = Reads(f[p], m, p + 1)
        BY <1>2, <3>1, SitsOne
      <3>3. Last(o) = "object"
        BY <2>2 DEF Containers
      <3>4. At(Reads(f[p], m, p + 1), f[p].open, TRUE)
        BY <1>4, <3>1, <3>2, <3>3, KeyRead
      <3>5. At(f[p + 1], o, TRUE)
        BY <1>4, <3>2, <3>4
      <3>6. Inside(f[p + 1]) = "object" /\ f[p + 1].ok /\ f[p + 1].open = o /\ f[p + 1].named
        BY <3>3, <3>5 DEF At, Inside
      <3>7. Place(f[p + 1], p + Len(k) + 1)
        BY <3>6 DEF Place
      <3> QED BY <3>2, <3>6, <3>7
    <2> QED BY <2>1, <2>2
  <1> HIDE DEF k
  <1>6. At(f[p + Len(k) + Len(x)], o, FALSE)
    <2> DEFINE q == p + Len(k)
    <2>1. Sits(x, w, q) /\ f[q].ok /\ Place(f[q], q + 1) /\ f[q].open = o
      BY <1>2, <1>5
    <2> HIDE DEF q
    <2>2. At(f[q + Len(x)], f[q].open, FALSE)
      BY <2>1 DEF ReadsWell
    <2> QED BY <2>1, <2>2 DEF q
  <1>7. p + Len(k \o x) = p + Len(k) + Len(x)
    BY <1>2, <1>3
  <1> QED BY <1>6, <1>7 DEF k

\* The members one after the other.
LEMMA AllMembersRead ==
  ASSUME NEW doc \in Seq(Node), Tree(doc), Keyed(doc), NEW t \in [1..Len(doc) -> Seq(Mark)],
         NEW n \in 1..Len(doc), NEW w \in Seq(Mark), NEW f, Reading(f, w),
         \A i \in 1..Len(doc[n].members) : ReadsWell(f, w, t[doc[n].members[i].node]),
         NEW o, o # <<>>, Last(o) = doc[n].type, doc[n].type \in Containers,
         NEW p \in Nat, At(f[p], o, FALSE), Sits(FlattenSeq(Inner(doc, t, n)), w, p)
  PROVE  At(f[p + Len(FlattenSeq(Inner(doc, t, n)))], o, FALSE)
  <1> DEFINE K == Len(doc[n].members)
             I == Inner(doc, t, n)
             F(k) == FlattenSeq(SubSeq(I, 1, k))
             Done(k) == Sits(F(k), w, p) => At(f[p + Len(F(k))], o, FALSE)
             P == {k \in Nat : k <= K => Done(k)}
  <1>1. I \in Seq(Seq(Mark)) /\ Len(I) = K /\ K \in Nat
    <2>1. TRUE \in BOOLEAN
      OBVIOUS
    <2> QED BY <2>1, PieceTyped, Members
  <1>2. ASSUME NEW i \in 1..K
        PROVE  I[i] = named(doc[n].members[i].key) \o t[doc[n].members[i].node]
    BY DEF Inner
  <1> HIDE DEF I, K
  <1>3. F(0) = <<>>
    <2>1. SubSeq(I, 1, 0) = <<>>
      BY <1>1
    <2>2. FlattenSeq(<<>>) = <<>>
      BY <1>1, <<>> \in Seq(Mark), FlattenAppend
    <2> QED BY <2>1, <2>2
  <1>4. ASSUME NEW k \in Nat, k + 1 <= K
        PROVE  F(k) \in Seq(Mark) /\ F(k + 1) = F(k) \o I[k + 1] /\ I[k + 1] \in Seq(Mark)
    <2> DEFINE A == SubSeq(I, 1, k)
               V == Seq(Mark)
    <2>1. A \in Seq(V) /\ I[k + 1] \in V /\ SubSeq(I, 1, k + 1) = Append(A, I[k + 1])
      <3>0. I \in Seq(V) /\ k + 1 \in 1..Len(I)
        BY <1>1, <1>4
      <3> HIDE DEF V
      <3>1. I[k + 1] \in V /\ A \in Seq(V) /\ Len(A) = k /\ \A i \in 1..k : A[i] = I[i]
        BY <1>4, <3>0
      <3> DEFINE B == Append(A, I[k + 1])
                 C == SubSeq(I, 1, k + 1)
      <3>2. C \in Seq(V) /\ Len(C) = k + 1 /\ \A i \in 1..(k + 1) : C[i] = I[i]
        BY <1>4, <3>0
      <3> HIDE DEF A
      <3>3. B \in Seq(V) /\ Len(B) = k + 1 /\ B[k + 1] = I[k + 1] /\ \A i \in 1..k : B[i] = A[i]
        BY <1>4, <3>1
      <3> HIDE DEF B, C
      <3>4. \A i \in 1..(k + 1) : i = k + 1 \/ i \in 1..k
        BY <1>4
      <3>5. \A i \in 1..Len(C) : C[i] = B[i]
        BY <3>1, <3>2, <3>3, <3>4
      <3>6. C = B
        BY <3>2, <3>3, <3>5, SameSequence
      <3> QED BY <3>1, <3>6 DEF A, B, C
    <2> HIDE DEF A
    <2>2. FlattenSeq(A) \in Seq(Mark) /\ FlattenSeq(Append(A, I[k + 1])) = FlattenSeq(A) \o I[k + 1]
      BY <2>1, FlattenAppend
    <2> QED BY <2>1, <2>2 DEF A
  <1> HIDE DEF F
  <1>5. 0 \in P
    <2>1. Len(F(0)) = 0 /\ p + 0 = p
      BY <1>3
    <2>2. Done(0)
      BY <2>1
    <2> QED BY <2>2
  <1>6. ASSUME NEW k \in P PROVE k + 1 \in P
    <2>0. k \in Nat /\ k + 1 \in Nat
      BY <1>6
    <2>1. SUFFICES ASSUME k + 1 <= K, Sits(F(k + 1), w, p)
                   PROVE  At(f[p + Len(F(k + 1))], o, FALSE)
      BY <2>0
    <2> DEFINE x == F(k)
               y == I[k + 1]
               key == doc[n].members[k + 1].key
               v == t[doc[n].members[k + 1].node]
    <2>2. x \in Seq(Mark) /\ y \in Seq(Mark) /\ F(k + 1) = x \o y
      BY <1>4, <2>0, <2>1
    <2>3. k + 1 \in 1..K /\ k <= K
      BY <1>1, <2>0, <2>1
    <2>4. y = named(key) \o v
      BY <1>2, <2>3
    <2>5. /\ key \in AnyKey /\ v \in Seq(Mark) /\ ReadsWell(f, w, v)
          /\ (key = NO_KEY) <=> (doc[n].type = "array")
      <3>1. k + 1 \in 1..Len(doc[n].members)
        BY <2>3 DEF K
      <3>2. key \in AnyKey /\ doc[n].members[k + 1].node \in 1..Len(doc)
        BY <3>1, Members
      <3>3. (key = NO_KEY) <=> (doc[n].type = "array")
        BY <3>1 DEF Keyed
      <3> QED BY <3>1, <3>2, <3>3
    <2> HIDE DEF x, y, key, v
    <2>6. Sits(x, w, p) /\ Sits(y, w, p + Len(x)) /\ Len(x \o y) = Len(x) + Len(y)
      <3>1. Sits(x \o y, w, p)
        BY <2>1, <2>2
      <3> QED BY <2>2, <3>1, SitsApart
    <2>7. At(f[p + Len(x)], o, FALSE)
      BY <1>6, <2>0, <2>3, <2>6 DEF x
    <2>8. At(f[p + Len(x) + Len(y)], o, FALSE)
      <3> DEFINE q == p + Len(x)
      <3>1. Sits(named(key) \o v, w, q) /\ At(f[q], o, FALSE)
        BY <2>4, <2>6, <2>7
      <3> HIDE DEF q
      <3>2. At(f[q + Len(named(key) \o v)], o, FALSE)
        BY <2>5, <3>1, MemberRead
      <3> QED BY <2>4, <3>2 DEF q
    <2>9. p + Len(F(k + 1)) = p + Len(x) + Len(y)
      <3>1. Len(x) \in Nat /\ Len(y) \in Nat
        BY <2>2
      <3> QED BY <2>2, <2>6, <3>1
    <2> QED BY <2>8, <2>9
  <1>7. K \in P
    <2>1. P = Nat
      <3> HIDE DEF P
      <3> QED BY <1>5, <1>6, NatSetInduction, P \in SUBSET Nat DEF P
    <2> HIDE DEF P
    <2> QED BY <1>1, <2>1
  <1>8. F(K) = FlattenSeq(I)
    <2>1. SubSeq(I, 1, K) = I
      BY <1>1
    <2> QED BY <2>1 DEF F
  <1>9. Sits(F(K), w, p)
    BY <1>8 DEF I
  <1>10. At(f[p + Len(F(K))], o, FALSE)
    <2>1. K <= K
      BY <1>1
    <2>2. K \in {k \in Nat : k <= K => Done(k)}
      BY <1>7
    <2> HIDE DEF Done
    <2>3. Done(K)
      BY <2>1, <2>2
    <2> QED BY <1>9, <2>3 DEF Done
  <1> QED BY <1>8, <1>10 DEF I

\* No number without a text is laid down.
Encodable(doc, as_null) == as_null \/ \A n \in 1..Len(doc) : doc[n].type # "nonfinite"

\* A node, its members read.
LEMMA NodeRead ==
  ASSUME NEW doc \in Seq(Node), Tree(doc), Keyed(doc), NEW as_null \in BOOLEAN,
         Encodable(doc, as_null), NEW t, IsText(t, doc, as_null, {}),
         NEW n \in 1..Len(doc), NEW w \in Seq(Mark), NEW f, Reading(f, w),
         \A i \in 1..Len(doc[n].members) : ReadsWell(f, w, t[doc[n].members[i].node])
  PROVE  ReadsWell(f, w, t[n])
  <1> DEFINE type == doc[n].type
             a == << <<"open", type>> >>
             b == FlattenSeq(Inner(doc, t, n))
             c == << <<"close", type>> >>
  <1>1. type \in Types /\ t \in [1..Len(doc) -> Seq(Mark)]
    BY Members DEF IsText
  <1>2. t[n] = Piece(doc, as_null, {}, t, n)
    BY DEF IsText, Unfolds
  <1>3. SUFFICES ASSUME NEW p, Sits(t[n], w, p), f[p].ok, Place(f[p], p + 1)
                 PROVE  At(f[p + Len(t[n])], f[p].open, FALSE)
    BY DEF ReadsWell
  <1>4. CASE type \in Scalars
    <2> DEFINE m == Shown(as_null, type)
    <2>1. t[n] = << m >>
      <3> HIDE DEF m, type
      <3> QED BY <1>2, <1>4, Zenon DEF Piece, m, type
    <2>2. m \in Mark /\ m[1] = "value" /\ m[2] # "nonfinite"
      <3>1. m = <<"value", IF type = "nonfinite" /\ as_null THEN "plain" ELSE type>>
        BY DEF Shown
      <3>2. (IF type = "nonfinite" /\ as_null THEN "plain" ELSE type) \in Types
        BY <1>1 DEF Types, Scalars
      <3>3. type = "nonfinite" => as_null
        BY DEF Encodable
      <3> HIDE DEF m
      <3> QED BY <3>1, <3>2, <3>3 DEF Mark
    <2> HIDE DEF m
    <2>3. /\ f[p] \in Reader /\ Len(<< m >>) = 1 /\ f[p + 1] = Reads(f[p], m, p + 1)
      BY <1>3, <2>1, <2>2, SitsOne
    <2>4. At(Reads(f[p], m, p + 1), f[p].open, FALSE)
      BY <1>3, <2>2, <2>3, ValueRead
    <2> QED BY <2>1, <2>3, <2>4
  <1>5. CASE type \notin Scalars
    <2>1. type \in Containers
      BY <1>1, <1>5 DEF Types
    <2>2. a \in Seq(Mark) /\ b \in Seq(Mark) /\ c \in Seq(Mark)
          /\ <<"open", type>> \in Mark /\ <<"close", type>> \in Mark
      <3>1. <<"open", type>> \in Mark /\ <<"close", type>> \in Mark
        BY <1>1 DEF Mark
      <3>2. b \in Seq(Mark)
        <4>1. TRUE \in BOOLEAN
          OBVIOUS
        <4> QED BY <1>1, <4>1, PieceTyped
      <3> HIDE DEF b
      <3> QED BY <3>1, <3>2
    <2>3. t[n] = (a \o b) \o c
      <3>1. n \notin {}
        OBVIOUS
      <3> HIDE DEF type
      <3> QED BY <1>2, <1>5, <3>1, Zenon DEF Piece, type
    <2> DEFINE o == f[p].open
               q == Append(o, type)
    <2> HIDE DEF a, b, c
    <2>4. /\ a \o b \in Seq(Mark)
          /\ Sits(a \o b, w, p) /\ Sits(c, w, p + Len(a \o b))
          /\ Len(t[n]) = Len(a \o b) + Len(c)
      <3>1. a \o b \in Seq(Mark)
        BY <2>2
      <3>2. Sits((a \o b) \o c, w, p)
        BY <1>3, <2>3
      <3> QED BY <2>2, <2>3, <3>1, <3>2, SitsApart
    <2>5. Sits(a, w, p) /\ Sits(b, w, p + Len(a)) /\ Len(a \o b) = Len(a) + Len(b)
      BY <2>2, <2>4, SitsApart
    <2>6. /\ p \in Nat /\ f[p] \in Reader /\ Len(a) = 1
          /\ f[p + 1] = Reads(f[p], <<"open", type>>, p + 1)
      <3> DEFINE m == <<"open", type>>
      <3>1. Sits(<< m >>, w, p) /\ m \in Mark /\ a = << m >>
        BY <2>2, <2>5 DEF a
      <3> HIDE DEF m
      <3>2. /\ p \in Nat /\ f[p] \in Reader /\ Len(<< m >>) = 1
            /\ f[p + 1] = Reads(f[p], m, p + 1)
        BY <3>1, SitsOne
      <3> QED BY <3>1, <3>2 DEF m
    <2>7. At(f[p + 1], q, FALSE)
      <3> DEFINE m == <<"open", type>>
      <3>1. m[1] = "open" /\ m[2] = type
        OBVIOUS
      <3> HIDE DEF m
      <3>2. At(Reads(f[p], m, p + 1), Append(f[p].open, m[2]), FALSE)
        BY <1>3, <2>6, <3>1, OpenRead
      <3> QED BY <2>6, <3>1, <3>2 DEF m
    <2>8. o \in Seq(Types \cup Keys) /\ q # <<>> /\ Last(q) = type
      <3> DEFINE T == Types \cup Keys
      <3>1. o \in Seq(T)
        BY <2>6 DEF Reader
      <3> HIDE DEF o, T, type
      <3>2. Len(q) = Len(o) + 1 /\ q[Len(o) + 1] = type /\ Len(o) \in Nat
        BY <3>1
      <3> HIDE DEF q
      <3>3. q # <<>> /\ Last(q) = type
        BY <3>2 DEF Last
      <3> QED BY <3>1, <3>3 DEF T
    <2> HIDE DEF q
    <2>9. At(f[p + 1 + Len(b)], q, FALSE)
      <3> DEFINE r == p + 1
      <3>0. r \in Nat /\ p + Len(a) = r
        BY <2>6
      <3>1. r \in Nat /\ At(f[r], q, FALSE) /\ Sits(b, w, r)
        BY <2>5, <2>7, <3>0
      <3> HIDE DEF r
      <3>2. At(f[r + Len(FlattenSeq(Inner(doc, t, n)))], q, FALSE)
        BY <1>1, <2>1, <2>8, <3>1, AllMembersRead DEF b
      <3> QED BY <3>2 DEF r, b
    <2> DEFINE e == p + Len(a \o b)
    <2>10. e = p + 1 + Len(b) /\ e \in Nat /\ p + Len(t[n]) = e + Len(c)
      <3>1. Len(b) \in Nat /\ Len(c) \in Nat
        BY <2>2
      <3> QED BY <2>4, <2>5, <2>6, <3>1
    <2>11. At(f[e], q, FALSE) /\ Sits(c, w, e)
      BY <2>4, <2>9, <2>10
    <2> HIDE DEF e
    <2>12. f[e] \in Reader /\ Len(c) = 1 /\ f[e + 1] = Reads(f[e], <<"close", type>>, e + 1)
      <3> DEFINE m == <<"close", type>>
      <3>1. Sits(<< m >>, w, e) /\ m \in Mark /\ c = << m >>
        BY <2>2, <2>11 DEF c
      <3> HIDE DEF m
      <3>2. /\ f[e] \in Reader /\ Len(<< m >>) = 1
            /\ f[e + 1] = Reads(f[e], m, e + 1)
        BY <3>1, SitsOne
      <3> QED BY <3>1, <3>2 DEF m
    <2>13. At(f[e + 1], o, FALSE)
      <3> DEFINE m == <<"close", type>>
      <3>1. m[1] = "close" /\ m[2] = type
        OBVIOUS
      <3>2. At(f[e], Append(o, type), FALSE)
        BY <2>11 DEF q
      <3> HIDE DEF m, o
      <3>3. At(Reads(f[e], m, e + 1), o, FALSE)
        BY <1>1, <2>8, <2>12, <3>1, <3>2, CloseRead
      <3> QED BY <2>12, <3>3 DEF m
    <2> QED BY <2>10, <2>12, <2>13
  <1> QED BY <1>4, <1>5

\* Every node, the last one taken first.
LEMMA NodesRead ==
  ASSUME NEW doc \in Seq(Node), Tree(doc), Keyed(doc), NEW as_null \in BOOLEAN,
         Encodable(doc, as_null), NEW t, IsText(t, doc, as_null, {}),
         NEW w \in Seq(Mark), NEW f, Reading(f, w), NEW n \in 1..Len(doc)
  PROVE  ReadsWell(f, w, t[n])
  <1> DEFINE L == Len(doc)
             P == {k \in Nat : \A m \in 1..L : m > L - k => ReadsWell(f, w, t[m])}
  <1>0. L \in Nat
    OBVIOUS
  <1>1. 0 \in P
    BY <1>0
  <1>2. ASSUME NEW k \in P PROVE k + 1 \in P
    <2>0. k \in Nat /\ k + 1 \in Nat
      BY <1>2
    <2>1. SUFFICES ASSUME NEW m \in 1..L, m > L - (k + 1) PROVE ReadsWell(f, w, t[m])
      BY <2>0
    <2>2. ASSUME NEW i \in 1..Len(doc[m].members)
          PROVE  ReadsWell(f, w, t[doc[m].members[i].node])
      <3> DEFINE c == doc[m].members[i].node
      <3>1. c \in (m + 1)..L /\ c \in 1..L
        BY <2>2, Members
      <3> HIDE DEF c
      <3>2. c > L - k
        BY <1>0, <2>0, <2>1, <3>1
      <3>3. ReadsWell(f, w, t[c])
        BY <1>2, <3>1, <3>2
      <3> QED BY <3>3 DEF c
    <2> QED BY <2>2, NodeRead
  <1>3. P = Nat
    <2> HIDE DEF P
    <2> QED BY <1>1, <1>2, NatSetInduction, P \in SUBSET Nat DEF P
  <1>4. L \in P /\ n > L - L
    <2> HIDE DEF P
    <2> QED BY <1>0, <1>3
  <1> QED BY <1>4

\* Every text has its reading.
LEMMA ReadingExists ==
  ASSUME NEW w \in Seq(Mark)
  PROVE  \E f : Reading(f, w)
  <1> DEFINE N == Len(w)
             G(i) == [st \in Reader |-> Reads(st, w[i], i)]
             S == [i \in 1..N |-> G(i)]
  <1>1. ReaderStart \in Reader
    <2>1. <<>> \in Seq(Types \cup Keys)
      OBVIOUS
    <2> QED BY <2>1 DEF ReaderStart, Reader
  <1>2. ASSUME NEW i \in 1..N
        PROVE  G(i) \in [Reader -> Reader] /\ \A st \in Reader : G(i)[st] = Reads(st, w[i], i)
    <2>1. \A st \in Reader : Reads(st, w[i], i) \in Reader
      BY ReadsTyped
    <2> QED BY <2>1
  <1>3. N \in Nat
    OBVIOUS
  <1> HIDE DEF G
  <1>4. S \in [1..N -> [Reader -> Reader]] /\ \A i \in 1..N : S[i] = G(i)
    BY <1>2
  <1> HIDE DEF S, N
  <1>5. PICK f \in [0..N -> Reader] : IsStepwise(f, N, ReaderStart, S)
    BY <1>1, <1>3, <1>4, StepwiseExists
  <1>6. f[0] = ReaderStart
    BY <1>5 DEF IsStepwise
  <1>7. ASSUME NEW i \in 1..N PROVE f[i] = Reads(f[i - 1], w[i], i)
    <2>1. i - 1 \in 0..N
      BY <1>3
    <2>2. f[i - 1] \in Reader /\ f[i] = S[i][f[i - 1]]
      BY <1>5, <2>1 DEF IsStepwise
    <2> QED BY <1>2, <1>4, <2>2
  <1> QED BY <1>5, <1>6, <1>7 DEF Reading, N

\* A recursive function that is a start and a step is the one reading there is.
LEMMA ReadingIsRecursive ==
  ASSUME NEW w \in Seq(Mark), NEW f, Reading(f, w)
  PROVE  LET after[i \in 0..Len(w)] ==
               IF i = 0 THEN ReaderStart ELSE Reads(after[i - 1], w[i], i)
         IN  after[Len(w)] = f[Len(w)]
  <1> DEFINE N == Len(w)
             Turn(q) == [i \in 0..N |->
                           IF i = 0 THEN ReaderStart ELSE Reads(q[i - 1], w[i], i)]
             g == CHOOSE q : q = Turn(q)
  <1>0. N \in Nat
    OBVIOUS
  <1>1. f = Turn(f)
    <2>1. ASSUME NEW i \in 0..N PROVE f[i] = Turn(f)[i]
      <3>1. CASE i = 0
        BY <3>1 DEF Reading
      <3>2. CASE i # 0
        <4>1. i \in 1..N
          BY <3>2
        <4> QED BY <3>2, <4>1 DEF Reading
      <3> QED BY <3>1, <3>2
    <2>2. f = [i \in 0..N |-> f[i]]
      BY DEF Reading
    <2>3. Turn(f) = [i \in 0..N |-> Turn(f)[i]]
      OBVIOUS
    <2> HIDE DEF Turn, N
    <2>4. [i \in 0..N |-> f[i]] = [i \in 0..N |-> Turn(f)[i]]
      BY <2>1
    <2> QED BY <2>2, <2>3, <2>4
  <1>2. ASSUME NEW q, NEW i \in 0..N
        PROVE  Turn(q)[i] = IF i = 0 THEN ReaderStart ELSE Reads(q[i - 1], w[i], i)
    OBVIOUS
  <1> HIDE DEF Turn
  <1>3. g = Turn(g)
    BY <1>1
  <1> HIDE DEF g
  <1> DEFINE P == {k \in Nat : k <= N => g[k] = f[k]}
  <1>4. 0 \in P
    <2>1. 0 \in 0..N
      BY <1>0
    <2>2. g[0] = ReaderStart /\ f[0] = ReaderStart
      BY <1>1, <1>2, <1>3, <2>1, Zenon
    <2> QED BY <2>2
  <1>5. ASSUME NEW k \in P PROVE k + 1 \in P
    <2>1. k \in Nat /\ k + 1 \in Nat
      BY <1>5
    <2>2. SUFFICES ASSUME k + 1 <= N PROVE g[k + 1] = f[k + 1]
      BY <2>1
    <2>3. k + 1 \in 0..N /\ k + 1 # 0 /\ k + 1 - 1 = k /\ k <= N
      BY <1>0, <2>1, <2>2
    <2>4. g[k + 1] = Reads(g[k + 1 - 1], w[k + 1], k + 1)
          /\ f[k + 1] = Reads(f[k + 1 - 1], w[k + 1], k + 1)
      <3>1. ASSUME NEW q, q = Turn(q) PROVE q[k + 1] = Reads(q[k + 1 - 1], w[k + 1], k + 1)
        <4>1. Turn(q)[k + 1] = Reads(q[k + 1 - 1], w[k + 1], k + 1)
          BY <1>2, <2>3
        <4> QED BY <3>1, <4>1
      <3> QED BY <1>1, <1>3, <3>1
    <2>5. g[k] = f[k]
      BY <1>5, <2>3
    <2> QED BY <2>3, <2>4, <2>5
  <1>6. P = Nat
    <2> HIDE DEF P
    <2> QED BY <1>4, <1>5, NatSetInduction, P \in SUBSET Nat DEF P
  <1>7. g[N] = f[N]
    <2>1. N \in P
      <3> HIDE DEF P
      <3> QED BY <1>0, <1>6
    <2> HIDE DEF N
    <2> QED BY <1>0, <2>1
  <1> QED BY <1>7, Zenon DEF g, Turn, N

\* What a write hands over is one JSON value, whatever was said and wherever it
\* stopped: containers closed by their own kind, names in objects and only there,
\* no number that has no text (arnm_json_writer_write).
THEOREM WrittenHolds == Spec => []WrittenIsJson
  <1>1. ASSUME TInv PROVE WrittenIsJson
    <2>1. SUFFICES ASSUME out # <<>>
                   PROVE  LET after[i \in 0..Len(out)] ==
                                IF i = 0 THEN ReaderStart ELSE Reads(after[i - 1], out[i], i)
                          IN  after[Len(out)].ok /\ after[Len(out)].open = <<>>
      BY Zenon DEF WrittenIsJson, ReaderStart, Reads, Place, Inside
    <2> DEFINE doc == writer.doc
               as_null == writer.as_null
    <2>2. /\ Sound(writer) /\ Keyed(doc) /\ doc # NO_DOC /\ encodable(writer)
          /\ out = laid_down(writer, TRUE)
      BY <1>1, <2>1 DEF TInv, Fine, Good, Handed
    <2>3. /\ doc \in Seq(Node) /\ Tree(doc) /\ as_null \in BOOLEAN /\ 1 \in 1..Len(doc)
      <3>1. doc \in Seq(Node) /\ Tree(doc) /\ as_null \in BOOLEAN
        BY <2>2, Parts
      <3> QED BY <2>2, <3>1 DEF NO_DOC
    <2>4. Encodable(doc, as_null)
      BY <2>2 DEF encodable, Encodable
    <2>5. PICK t : IsText(t, doc, as_null, {})
      <3> HIDE DEF doc, as_null
      <3> QED BY <2>3, TextExists
    <2>6. out = t[1]
      <3> DEFINE O == Standing(writer.stack, writer.depth)
      <3>1. (IF TRUE THEN {} ELSE O) = {} /\ TRUE \in BOOLEAN
        OBVIOUS
      <3> HIDE DEF O
      <3>2. IsText(t, writer.doc, writer.as_null, IF TRUE THEN {} ELSE O)
        BY <2>5, <3>1, Zenon
      <3> QED BY <2>2, <3>1, <3>2, LaidDown DEF O
    <2>7. out \in Seq(Mark)
      BY <2>3, <2>5, <2>6 DEF IsText
    <2>8. PICK f : Reading(f, out)
      BY <2>7, ReadingExists
    <2> HIDE DEF doc, as_null
    <2>9. ReadsWell(f, out, out)
      <3>1. ReadsWell(f, out, t[1])
        BY <2>2, <2>3, <2>4, <2>5, <2>7, <2>8, NodesRead
      <3> QED BY <2>6, <3>1
    <2>10. At(f[Len(out)], <<>>, FALSE)
      <3>1. Len(out) \in Nat /\ 0 + Len(out) = Len(out)
        BY <2>7
      <3>2. Sits(out, out, 0)
        BY <3>1 DEF Sits
      <3>3. f[0] = ReaderStart
        BY <2>8 DEF Reading
      <3>4. f[0].ok /\ f[0].open = <<>> /\ Place(f[0], 0 + 1)
        BY <3>3 DEF ReaderStart, Place, Inside
      <3>5. At(f[0 + Len(out)], f[0].open, FALSE)
        BY <2>9, <3>2, <3>4 DEF ReadsWell
      <3> QED BY <3>1, <3>4, <3>5
    <2>11. f[Len(out)].ok /\ f[Len(out)].open = <<>>
      BY <2>10 DEF At
    <2> QED BY <2>7, <2>8, <2>11, ReadingIsRecursive
  <1> QED BY <1>1, TextInvariance, PTL
=============================================================================
